--------------------------- MODULE PolicyRegister ---------------------------
(***************************************************************************)
(* What the daemon promises of its alert policy (README.md:76, "The        *)
(* revision prevents lost updates"): it is a register with a revision that *)
(* is set only by a request that names the current revision, and each      *)
(* version is in force before the next one can be set.                     *)
(***************************************************************************)
EXTENDS Naturals, Sequences

CONSTANTS Valid, Default

VARIABLES
    stored,     \* the current version
    inForce,    \* the version the monitor observes with
    accepted    \* the policies set so far

vars == <<stored, inForce, accepted>>

Version(revision, policy) == [revision |-> revision, policy |-> policy]

Init ==
    /\ stored = Version(0, Default)
    /\ inForce = stored
    /\ accepted = <<>>

Set(expected, policy) ==
    /\ stored.revision = expected
    /\ inForce = stored
    /\ stored' = Version(expected + 1, policy)
    /\ accepted' = Append(accepted, policy)
    /\ UNCHANGED inForce

Enforce ==
    /\ inForce' = stored
    /\ UNCHANGED <<stored, accepted>>

Next == (\E policy \in Valid : Set(Len(accepted), policy)) \/ Enforce

Spec == Init /\ [][Next]_vars
=============================================================================
