-------------------------- MODULE IncidentLifecycle --------------------------
(***************************************************************************)
(* What the alert engine promises its callers, without the readings, the   *)
(* timers and the policy that decide when: the updates it returns tell the *)
(* whole story of the incidents it holds open.                             *)
(***************************************************************************)
EXTENDS Incidents

VARIABLES
    active,     \* the open incidents, by kind
    emitted,    \* every update returned so far
    now         \* the time of the last call

vars == <<active, emitted, now>>

TypeOK ==
    /\ active \in ActiveMaps
    /\ emitted \subseteq Incident
    /\ now \in Nat

Init ==
    /\ active = NoneActive
    /\ emitted = {}
    /\ now = 0

Call(recovered, raised, dev) ==
    /\ now' \in Nat
    /\ now' > now
    /\ active' = ActiveAfter(active, recovered, raised, dev, now')
    /\ emitted' = emitted \cup Updates(active, recovered, raised, dev, now')

Observe(dev) ==
    \E recovered, raised \in SUBSET Kinds :
        ObserveMay(active, recovered, raised) /\ Call(recovered, raised, dev)

MonitoringLost(dev) == Call({}, LostRaises(active), dev)

Next == \E dev \in Devices : Observe(dev) \/ MonitoringLost(dev)

Spec == Init /\ [][Next]_vars

\* An incident was raised and no update has recovered it.
Outstanding(i) ==
    /\ i \in emitted
    /\ i.until = None
    /\ \A j \in emitted : j.kind = i.kind /\ j.at = i.at => j.until = None

\* The updates the engine returned, replayed, give exactly the incidents it
\* holds open: an update that is forgotten, or one for an incident that is not
\* held, would leave the history and the live list apart for ever
\* (AlertEngine::observe and monitoring_lost, the events they return).
UpdatesTellActive ==
    \A i \in emitted : Outstanding(i) <=> active[i.kind] = i

\* Every open incident was announced by an update.
ActiveWasAnnounced == \A k \in Open(active) : active[k] \in emitted

=============================================================================
