---------------------------- MODULE MCAlertEngine ----------------------------
(***************************************************************************)
(* Instances of the alert engine for TLC: loads that assert an imbalance,  *)
(* lie between the two thresholds, or are clear, and policies that differ  *)
(* in their times.                                                         *)
(***************************************************************************)
EXTENDS AlertEngine

MCPolicy(enabled, trigger, recovery) ==
    [enabled |-> enabled, minimum |-> 6, deviation |-> 40, clear |-> 20,
     spread |-> 1, trigger |-> trigger, recovery |-> recovery]

\* Two policies that differ in their times, and the rule switched off.
ThreePolicies ==
    {MCPolicy(TRUE, 1, 2), MCPolicy(TRUE, 2, 1), MCPolicy(FALSE, 1, 1)}
OnePolicy == {MCPolicy(TRUE, 1, 1)}

MCLoad(load, deviation) == [load |-> load, spread |-> 3, deviation |-> deviation]
ThreeLoads == {MCLoad(15, 100), MCLoad(15, 30), MCLoad(0, 0)}
TwoLoads == {MCLoad(15, 100), MCLoad(15, 20)}

\* A cycle of one second, and one that a suspended machine stretched.
SlowSteps == {1, 3}
=============================================================================
