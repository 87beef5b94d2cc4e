----------------------------- MODULE MCSettings -----------------------------
(***************************************************************************)
(* Instances of the settings for TLC: three minutes in two periods, of one *)
(* of which the input is not known throughout, and a unit so small that    *)
(* costs have to be rounded.                                               *)
(***************************************************************************)
EXTENDS Settings

TwoPeriods == [m \in Minutes |-> m \div 2]
MCEnergy(observed, inputObserved) ==
    [output |-> observed, input |-> inputObserved, observed |-> observed,
     inputObserved |-> inputObserved]
SomePartial == [m \in Minutes |-> IF m = 1 THEN MCEnergy(2, 1) ELSE MCEnergy(1, 1)]
=============================================================================
