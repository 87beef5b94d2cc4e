----------------------------- MODULE AlertEngine -----------------------------
(***************************************************************************)
(* The alert engine (src/alerts.rs): it turns the samples of one power     *)
(* supply into incidents. A hardware kind opens and closes at once, on the *)
(* reading that says so. A software kind, the imbalance of a connector's   *)
(* currents, has to be asserted for trigger_ms before it opens and clear   *)
(* for recovery_ms before it closes, with no interruption of the samples   *)
(* in between; thresholds for opening and closing differ, and a reading    *)
(* between the two is neither.                                             *)
(*                                                                         *)
(* The monitor thread (src/runtime.rs) is the caller. It calls observe     *)
(* for a sample, monitoring_lost when a sample cannot be taken, after      *)
(* which it opens the device again under a new session, and builds a new   *)
(* engine from the open incidents of the database when the daemon starts.  *)
(***************************************************************************)
EXTENDS Incidents, Sequences

CONSTANTS
    AlertKinds,       \* hardware.*, the 18 alert registers
    SafeguardKinds,   \* safeguard.connector*
    SoftwareKinds,    \* software.connector*.imbalance
    Policies,         \* the policies a user may set
    Loads,            \* the readings of a connector
    MaxGap,           \* runtime::MAX_GAP_MS
    Steps,            \* bound: time from one call to the next
    MaxTime,          \* bound: last time of a call
    MaxSession        \* bound: sessions

Policy == [enabled : BOOLEAN, minimum : Nat, deviation : Nat, clear : Nat,
           spread : Nat, trigger : Nat \ {0}, recovery : Nat \ {0}]
\* The sum, the spread and the deviation of a connector's six currents.
Load == [load : Nat, spread : Nat, deviation : Nat]

ASSUME EngineAssumption ==
    /\ Kinds = AlertKinds \cup SafeguardKinds \cup SoftwareKinds \cup {Monitoring}
    /\ AlertKinds \cap SafeguardKinds = {}
    /\ SoftwareKinds \cap (AlertKinds \cup SafeguardKinds) = {}
    /\ Monitoring \notin AlertKinds \cup SafeguardKinds \cup SoftwareKinds
    /\ Policies \subseteq Policy
    /\ Loads \subseteq Load
    /\ None \notin [session : Nat, time : Nat]
    /\ MaxGap \in Nat
    /\ Steps \subseteq Nat \ {0}
    /\ MaxTime \in Nat
    /\ MaxSession \in Nat

VARIABLES
    active,       \* AlertEngine::active
    pending,      \* AlertEngine::pending: since when a kind is asserted
    recovering,   \* AlertEngine::recovering: since when a kind is clear
    last,         \* AlertEngine::last: session and time of the last sample
    session,      \* the caller's session
    now,          \* the time of the last call
    emitted,      \* history: every update returned
    trace         \* history: every sample observed, with the policy applied

vars == <<active, pending, recovering, last, session, now, emitted, trace>>

Timers == [Kinds -> Nat \cup {None}]
NoTimers == [k \in Kinds |-> None]

\* What a sample says: which of the two register groups could be read
\* (group_errors), which of their kinds are set, and the connectors' loads,
\* which are part of every sample.
Sample == [device : Devices, session : Nat, time : Nat,
           read : SUBSET (AlertKinds \cup SafeguardKinds),
           faults : SUBSET (AlertKinds \cup SafeguardKinds),
           load : [SoftwareKinds -> Load]]
Observation == [sample : Sample, policy : Policy]

TypeOK ==
    /\ active \in ActiveMaps
    /\ pending \in Timers
    /\ recovering \in Timers
    /\ last \in [session : Nat, time : Nat] \cup {None}
    /\ session \in Nat
    /\ now \in Nat
    /\ emitted \subseteq Incident
    /\ trace \in Seq(Observation)

Init ==
    /\ active = NoneActive
    /\ pending = NoTimers
    /\ recovering = NoTimers
    /\ last = None
    /\ session = 0
    /\ now = 0
    /\ emitted = {}
    /\ trace = <<>>

-----------------------------------------------------------------------------
\* The conditions of a sample.

Software(k) == k \in SoftwareKinds

\* A condition exists for every kind whose group the sample carries.
Carried(t, k) == Software(k) \/ k \in t.read

Imbalanced(l, p) ==
    /\ p.enabled
    /\ l.load >= p.minimum
    /\ l.spread >= p.spread
    /\ l.deviation >= p.deviation

Balanced(l, p) ==
    \/ ~p.enabled
    \/ l.load < p.minimum
    \/ l.deviation <= p.clear
    \/ l.spread < p.spread

Asserted(t, p, k) ==
    Carried(t, k) /\ IF Software(k) THEN Imbalanced(t.load[k], p) ELSE k \in t.faults

Clear(t, p, k) ==
    /\ Carried(t, k)
    /\ ~Asserted(t, p, k)
    /\ Software(k) => Balanced(t.load[k], p)

-----------------------------------------------------------------------------
\* observe.

\* last is from another session, or too long ago for the timers to go on.
InterruptedOnlyAtFirst(t) == last = None
Interrupted(t) ==
    \/ last = None
    \/ last.session # t.session
    \/ t.time - last.time > MaxGap

\* The value of a timer that runs on at this sample, or starts with it.
Since(timer, t, k) ==
    IF Interrupted(t) \/ timer[k] = None THEN t.time ELSE timer[k]

RaisedLate(t, p) ==
    {k \in Kinds \ Open(active) :
        Asserted(t, p, k) /\ t.time - Since(pending, t, k) > p.trigger}
RaisedThoughOpen(t, p) ==
    {k \in Kinds :
        /\ Asserted(t, p, k)
        /\ Software(k) => t.time - Since(pending, t, k) >= p.trigger}
Raised(t, p) ==
    {k \in Kinds \ Open(active) :
        /\ Asserted(t, p, k)
        /\ Software(k) => t.time - Since(pending, t, k) >= p.trigger}

\* A clear hardware kind recovers at once, a clear software kind in time.
Expired(t, p, k) ==
    Software(k) => t.time - Since(recovering, t, k) >= p.recovery

RecoveredIfUnread(t, p) ==
    {k \in Open(active) :
        \/ k = Monitoring
        \/ ~Asserted(t, p, k) /\ Expired(t, p, k)}
Recovered(t, p) ==
    {k \in Open(active) :
        \/ k = Monitoring
        \/ Clear(t, p, k) /\ Expired(t, p, k)}

\* The timers after the sample; a kind it does not carry keeps its own.
Uncarried(timer, t, k) == IF Interrupted(t) THEN None ELSE timer[k]

PendingAfter(t, p, k) ==
    IF ~Carried(t, k) THEN Uncarried(pending, t, k)
    ELSE IF Asserted(t, p, k) THEN Since(pending, t, k) ELSE None

RecoveringKeptWhenAsserted(t, p, k) ==
    IF ~Carried(t, k) THEN Uncarried(recovering, t, k)
    ELSE IF Clear(t, p, k) /\ Expired(t, p, k) THEN None
    ELSE IF Clear(t, p, k) THEN Since(recovering, t, k)
    ELSE Uncarried(recovering, t, k)
RecoveringAfter(t, p, k) ==
    IF ~Carried(t, k) THEN Uncarried(recovering, t, k)
    ELSE IF Clear(t, p, k) /\ ~Expired(t, p, k) THEN Since(recovering, t, k) ELSE None

ReturnedRaises(t, p) == Updates(active, {}, Raised(t, p), t.device, t.time)
Returned(t, p) == Updates(active, Recovered(t, p), Raised(t, p), t.device, t.time)

Observe(t, p) ==
    /\ active' = ActiveAfter(active, Recovered(t, p), Raised(t, p), t.device, t.time)
    /\ emitted' = emitted \cup Returned(t, p)
    /\ pending' = [k \in Kinds |-> PendingAfter(t, p, k)]
    /\ recovering' = [k \in Kinds |-> RecoveringAfter(t, p, k)]
    /\ last' = [session |-> t.session, time |-> t.time]
    /\ now' = t.time
    /\ trace' = Append(trace, [sample |-> t, policy |-> p])
    /\ UNCHANGED session

-----------------------------------------------------------------------------
\* The calls of the monitor thread.

\* Inputs: a register that cannot be read shows no fault.
Samples(dev, at) ==
    {t \in [device : {dev}, session : {session}, time : {at},
            read : {{}, AlertKinds, SafeguardKinds, AlertKinds \cup SafeguardKinds},
            faults : SUBSET (AlertKinds \cup SafeguardKinds),
            load : [SoftwareKinds -> Loads]] : t.faults \subseteq t.read}

Monitor ==
    \E d \in Steps, dev \in Devices, p \in Policies :
        /\ now + d <= MaxTime
        /\ \E t \in Samples(dev, now + d) : Observe(t, p)

\* monitoring_lost, after which the device is opened again under a new session.
\* There is no call before the first sample.
MonitoringLost ==
    \E d \in Steps, dev \in Devices :
        /\ last # None
        /\ now + d <= MaxTime
        /\ session < MaxSession
        /\ active' = ActiveAfter(active, {}, LostRaises(active), dev, now + d)
        /\ emitted' = emitted \cup Updates(active, {}, LostRaises(active), dev, now + d)
        /\ pending' = NoTimers
        /\ recovering' = NoTimers
        /\ now' = now + d
        /\ session' = session + 1
        /\ UNCHANGED <<last, trace>>

\* A new engine takes over the open incidents that the old one stored. All of its
\* updates are taken to be stored here: Runtime has the crash that loses some.
Restart ==
    /\ session < MaxSession
    /\ session' = session + 1
    /\ pending' = NoTimers
    /\ recovering' = NoTimers
    /\ last' = None
    /\ UNCHANGED <<active, now, emitted, trace>>

Next == Monitor \/ MonitoringLost \/ Restart

Spec == Init /\ [][Next]_vars

-----------------------------------------------------------------------------
\* Properties. They speak of the samples taken, not of the engine's timers.

\* The samples i..j were taken in one session with no gap between them.
Unbroken(i, j) ==
    \A m \in i .. (j - 1) :
        /\ trace[m + 1].sample.session = trace[m].sample.session
        /\ trace[m + 1].sample.time - trace[m].sample.time <= MaxGap

AssertedAt(k, m) == Asserted(trace[m].sample, trace[m].policy, k)
AssertedRun(k, i, j) == Unbroken(i, j) /\ \A m \in i .. j : AssertedAt(k, m)

ClearAt(k, m) == Clear(trace[m].sample, trace[m].policy, k)
ClearRun(k, i, j) == Unbroken(i, j) /\ \A m \in i .. j : ClearAt(k, m)

Elapsed(i, j) == trace[j].sample.time - trace[i].sample.time

\* A software incident starts only with a sample that ends an unbroken run of
\* samples that all assert it and that lasts the trigger time of the policy in
\* force: neither a gap, a new session, a restart nor one sample below the
\* threshold is bridged (observe, the pending map; PLAN.md:200).
SoftwareRaiseIsSustained ==
    \A i \in emitted : i.kind \in SoftwareKinds =>
        \E b, e \in DOMAIN trace :
            /\ b <= e
            /\ trace[e].sample.time = i.at
            /\ AssertedRun(i.kind, b, e)
            /\ Elapsed(b, e) >= trace[e].policy.trigger

\* It ends only with a sample that ends an unbroken run of samples that are all
\* clear and that lasts the recovery time: samples between the two thresholds
\* do not count towards recovery (observe, the recovering map).
SoftwareRecoveryIsSustained ==
    \A i \in emitted : i.kind \in SoftwareKinds /\ i.until # None =>
        \E b, e \in DOMAIN trace :
            /\ b <= e
            /\ trace[e].sample.time = i.until
            /\ ClearRun(i.kind, b, e)
            /\ Elapsed(b, e) >= trace[e].policy.recovery

\* No imbalance is missed: after an unbroken run of asserting samples that
\* lasts the trigger time the incident is open (observe, the raise condition).
SustainedImbalanceIsOpen ==
    \A k \in SoftwareKinds, b \in DOMAIN trace :
        LET e == Len(trace) IN
        /\ AssertedRun(k, b, e)
        /\ Elapsed(b, e) >= trace[e].policy.trigger
        => active[k] # None

\* A hardware incident is open exactly when the latest sample that could read
\* its register found it set: no failed read, gap, lost device or restart opens
\* or closes one (observe, the conditions that exist only for groups read). A
\* restart is one after which all updates were stored.
HardwareFollowsLatestReading ==
    \A k \in AlertKinds \cup SafeguardKinds :
        LET readings == {m \in DOMAIN trace : k \in trace[m].sample.read} IN
        active[k] # None <=>
            \E m \in readings :
                /\ \A n \in readings : n <= m
                /\ k \in trace[m].sample.faults

Lifecycle == INSTANCE IncidentLifecycle

\* The updates returned replay to exactly the open incidents, as in
\* IncidentLifecycle (observe and monitoring_lost, the incidents returned).
UpdatesTellActive == Lifecycle!UpdatesTellActive /\ Lifecycle!ActiveWasAnnounced

\* Every call does what IncidentLifecycle allows one call to do: nothing but an
\* open incident recovers, nothing open is raised again, and the first sample
\* after a loss ends the incident that reports it.
ImplementsLifecycle == Lifecycle!Spec

=============================================================================
