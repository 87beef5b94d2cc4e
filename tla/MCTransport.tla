----------------------------- MODULE MCTransport -----------------------------
(***************************************************************************)
(* Instances of the transport for TLC: two commands of the handshake, two  *)
(* optional groups of telemetry and two reports of the diagnostics, which  *)
(* have one command in common.                                             *)
(***************************************************************************)
EXTENDS Transport

MCHandshake == <<"fa", "13">>
MCOptional == <<"e1", "42">>
MCReports == <<"42", "c0">>
=============================================================================
