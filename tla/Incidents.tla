------------------------------ MODULE Incidents ------------------------------
(***************************************************************************)
(* The vocabulary of incidents, shared by the alert engine and the runtime *)
(* (src/alerts.rs): the record of an incident, the engine's map of open    *)
(* incidents, and what one call of the engine does to that map and hands   *)
(* to its caller.                                                          *)
(*                                                                         *)
(* The id (a UUID) and the start time of an incident are one number, `at'. *)
(* A call of the engine raises a kind at most once and every call has a    *)
(* later time than the one before it, so kind and `at' together identify   *)
(* an incident, as the UUID does.                                          *)
(***************************************************************************)
EXTENDS Integers

CONSTANTS
    Devices,        \* identities a power supply can report
    Kinds,          \* incident kinds: hardware.*, safeguard.*, software.*, ...
    Monitoring,     \* the kind "monitoring.unavailable"
    None            \* Option::None

ASSUME IncidentsAssumption ==
    /\ Monitoring \in Kinds
    /\ None \notin Int
    /\ None \notin [device : Devices, kind : Kinds, at : Nat,
                    until : Nat \cup {None}, acked : BOOLEAN]

Incident == [device : Devices, kind : Kinds, at : Nat,
             until : Nat \cup {None}, acked : BOOLEAN]

NoneActive == [k \in Kinds |-> None]

Open(act) == {k \in Kinds : act[k] # None}

\* AlertEngine::active: a map from kind to incident, each under its own kind and
\* not recovered. An absent key is None.
ActiveMaps ==
    {act \in [Kinds -> Incident \cup {None}] :
        \A k \in Open(act) : act[k].kind = k /\ act[k].until = None}

\* A new incident of kind k: neither recovered nor acknowledged.
Raise(dev, k, at) ==
    [device |-> dev, kind |-> k, at |-> at, until |-> None, acked |-> FALSE]

Recover(i, at) == [i EXCEPT !.until = at]

\* The map after a call that recovers and raises those kinds at that time.
ActiveAfter(act, recovered, raised, dev, at) ==
    [k \in Kinds |-> IF k \in raised THEN Raise(dev, k, at)
                     ELSE IF k \in recovered THEN None ELSE act[k]]

\* The incident updates that call returns, to be stored by the caller.
Updates(act, recovered, raised, dev, at) ==
    {Recover(act[k], at) : k \in recovered} \cup {Raise(dev, k, at) : k \in raised}

\* What observe may do, whatever the readings: only an open incident recovers,
\* only a kind that is not open is raised, and any sample at all ends the
\* incident that says monitoring is unavailable.
ObserveMay(act, recovered, raised) ==
    /\ recovered \subseteq Open(act)
    /\ raised \subseteq Kinds \ (Open(act) \cup {Monitoring})
    /\ Monitoring \in Open(act) => Monitoring \in recovered

\* monitoring_lost raises its kind unless it is open already.
LostRaises(act) == {Monitoring} \ Open(act)

=============================================================================
