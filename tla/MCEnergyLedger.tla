--------------------------- MODULE MCEnergyLedger ---------------------------
(***************************************************************************)
(* Instances of the energy ledger for TLC.                                 *)
(***************************************************************************)
EXTENDS EnergyLedger

TwoReadings == {[power |-> 0, input |-> None], [power |-> 3, input |-> 4]}
Steps == {-2, -1, 2}
=============================================================================
