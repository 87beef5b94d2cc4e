----------------------------- MODULE MCEvidence -----------------------------
(***************************************************************************)
(* Instances of the runtime with evidence for TLC.                         *)
(***************************************************************************)
EXTENDS Evidence
=============================================================================
