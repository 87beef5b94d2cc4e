------------------------------ MODULE MCRuntime ------------------------------
(***************************************************************************)
(* Instances of the runtime for TLC.                                       *)
(***************************************************************************)
EXTENDS Runtime
=============================================================================
