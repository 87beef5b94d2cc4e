----------------------------- MODULE MCNotifier -----------------------------
(***************************************************************************)
(* Instances of the notifier for TLC.                                      *)
(***************************************************************************)
EXTENDS Notifier
=============================================================================
