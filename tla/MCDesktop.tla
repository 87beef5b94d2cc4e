----------------------------- MODULE MCDesktop -----------------------------
(***************************************************************************)
(* Instances of the window and the service for TLC.                        *)
(***************************************************************************)
EXTENDS Desktop

OneExtra == <<"energy">>
=============================================================================
