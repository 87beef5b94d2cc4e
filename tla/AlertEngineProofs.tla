-------------------------- MODULE AlertEngineProofs --------------------------
(***************************************************************************)
(* Proofs about AlertEngine, for every set of kinds, every policy and      *)
(* every sequence of samples, and about the contract it keeps,             *)
(* IncidentLifecycle, whoever keeps it.                                    *)
(***************************************************************************)
EXTENDS AlertEngine, TLAPS

-----------------------------------------------------------------------------
\* The operators of Incidents.

\* A call keeps the map of open incidents well formed: each incident is under
\* its own kind and not recovered.
LEMMA ActiveAfterType ==
    ASSUME NEW act \in ActiveMaps, NEW recovered, NEW raised,
           NEW dev \in Devices, NEW at \in Nat
    PROVE  ActiveAfter(act, recovered, raised, dev, at) \in ActiveMaps
  BY IncidentsAssumption DEF ActiveMaps, ActiveAfter, Raise, Incident, Open

\* Recovering an incident, and raising one, gives an incident.
LEMMA RecoverType ==
    ASSUME NEW i \in Incident, NEW at \in Nat
    PROVE  /\ Recover(i, at) \in Incident
           /\ Recover(i, at).kind = i.kind
           /\ Recover(i, at).at = i.at
           /\ Recover(i, at).until = at
  BY DEF Recover, Incident

LEMMA RaiseType ==
    ASSUME NEW dev \in Devices, NEW k \in Kinds, NEW at \in Nat
    PROVE  /\ Raise(dev, k, at) \in Incident
           /\ Raise(dev, k, at).kind = k
           /\ Raise(dev, k, at).at = at
           /\ Raise(dev, k, at).until = None
  BY DEF Raise, Incident

\* What is open under a kind is an incident of that kind, not recovered.
LEMMA OpenType ==
    ASSUME NEW act \in ActiveMaps, NEW k \in Open(act)
    PROVE  k \in Kinds /\ act[k] \in Incident /\ act[k].kind = k /\ act[k].until = None
  BY DEF ActiveMaps, Open

\* The updates of a call are incidents.
LEMMA UpdatesType ==
    ASSUME NEW act \in ActiveMaps, NEW recovered \in SUBSET Open(act),
           NEW raised \in SUBSET Kinds, NEW dev \in Devices, NEW at \in Nat
    PROVE  Updates(act, recovered, raised, dev, at) \subseteq Incident
<1>1. \A k \in recovered : Recover(act[k], at) \in Incident
  BY OpenType, RecoverType
<1>2. \A k \in raised : Raise(dev, k, at) \in Incident
  BY RaiseType
<1> QED BY <1>1, <1>2 DEF Updates

-----------------------------------------------------------------------------
\* Typing.

\* What observe recovers is open, what it raises is not.
LEMMA RecoveredAndRaised ==
    ASSUME NEW t, NEW p
    PROVE  /\ Recovered(t, p) \subseteq Open(active)
           /\ Raised(t, p) \subseteq Kinds \ Open(active)
  BY DEF Recovered, Raised

\* A timer that runs at a sample started at a time before or at it.
LEMMA SinceType ==
    ASSUME NEW timer \in Timers, NEW t \in Sample, NEW k \in Kinds
    PROVE  Since(timer, t, k) \in Nat
  BY DEF Since, Timers, Sample

\* The timers after a sample are times or absent.
LEMMA TimersAfterType ==
    ASSUME TypeOK, NEW t \in Sample, NEW p \in Policies, NEW k \in Kinds
    PROVE  /\ PendingAfter(t, p, k) \in Nat \cup {None}
           /\ RecoveringAfter(t, p, k) \in Nat \cup {None}
<1>1. pending \in Timers /\ recovering \in Timers
  BY DEF TypeOK
<1>2. Since(pending, t, k) \in Nat /\ Since(recovering, t, k) \in Nat
  BY <1>1, SinceType
<1>3. pending[k] \in Nat \cup {None} /\ recovering[k] \in Nat \cup {None}
  BY <1>1 DEF Timers
<1> QED BY <1>2, <1>3 DEF PendingAfter, RecoveringAfter, Uncarried

\* The samples the monitor takes are samples.
LEMMA SamplesType ==
    ASSUME session \in Nat, NEW dev \in Devices, NEW at \in Nat, NEW t \in Samples(dev, at)
    PROVE  /\ t \in Sample
           /\ t.device = dev /\ t.time = at /\ t.session = session
           /\ t.faults \subseteq t.read
  BY EngineAssumption DEF Samples, Sample

\* The type invariant of the engine: every map of AlertEngine stays well formed.
THEOREM TypeCorrect == Spec => []TypeOK
<1>1. Init => TypeOK
  BY IncidentsAssumption
  DEF Init, TypeOK, ActiveMaps, NoneActive, Open, NoTimers, Timers
<1>2. TypeOK /\ [Next]_vars => TypeOK'
  <2> SUFFICES ASSUME TypeOK, [Next]_vars PROVE TypeOK'
    OBVIOUS
  <2>1. CASE Monitor
    <3>1. PICK d \in Steps, dev \in Devices, p \in Policies :
             \E t \in Samples(dev, now + d) : Observe(t, p)
      BY <2>1 DEF Monitor
    <3>2. PICK t \in Samples(dev, now + d) : Observe(t, p)
      BY <3>1
    <3>3. now + d \in Nat
      BY EngineAssumption DEF TypeOK
    <3>4. t \in Sample /\ t.device \in Devices /\ t.time \in Nat /\ t.session \in Nat
      BY <3>3, SamplesType DEF TypeOK
    <3>5. active' \in ActiveMaps
      BY <3>2, <3>4, ActiveAfterType DEF Observe, TypeOK
    <3>6. emitted' \subseteq Incident
      <4>1. Raised(t, p) \in SUBSET Kinds /\ Recovered(t, p) \in SUBSET Open(active)
        BY RecoveredAndRaised
      <4>2. Returned(t, p) \subseteq Incident
        BY <3>4, <4>1, UpdatesType DEF Returned, TypeOK
      <4> QED BY <3>2, <4>2 DEF Observe, TypeOK
    <3>7. pending' \in Timers /\ recovering' \in Timers
      BY <3>2, <3>4, TimersAfterType DEF Observe, Timers
    <3>8. trace' \in Seq(Observation)
      BY <3>2, <3>4, EngineAssumption DEF Observe, TypeOK, Observation
    <3>9. last' \in [session : Nat, time : Nat] /\ session' \in Nat /\ now' \in Nat
      BY <3>2, <3>4 DEF Observe, TypeOK
    <3> QED BY <3>5, <3>6, <3>7, <3>8, <3>9 DEF TypeOK
  <2>2. CASE MonitoringLost
    <3>1. PICK d \in Steps, dev \in Devices :
             /\ active' = ActiveAfter(active, {}, LostRaises(active), dev, now + d)
             /\ emitted' = emitted \cup Updates(active, {}, LostRaises(active), dev, now + d)
             /\ now' = now + d
             /\ session' = session + 1
             /\ UNCHANGED <<last, trace>>
             /\ pending' = NoTimers
             /\ recovering' = NoTimers
      BY <2>2 DEF MonitoringLost
    <3>2. now + d \in Nat
      BY EngineAssumption DEF TypeOK
    <3>3. LostRaises(active) \in SUBSET Kinds
      BY IncidentsAssumption DEF LostRaises
    <3>4. active' \in ActiveMaps
      BY <3>1, <3>2, ActiveAfterType DEF TypeOK
    <3>5. emitted' \subseteq Incident
      <4>1. {} \in SUBSET Open(active)
        OBVIOUS
      <4>2. Updates(active, {}, LostRaises(active), dev, now + d) \subseteq Incident
        BY <3>2, <3>3, <4>1, UpdatesType DEF TypeOK
      <4> QED BY <3>1, <4>2 DEF TypeOK
    <3> QED BY <3>1, <3>2, <3>4, <3>5 DEF TypeOK, NoTimers, Timers
  <2>3. CASE Restart
    BY <2>3 DEF Restart, TypeOK, NoTimers, Timers
  <2>4. CASE UNCHANGED vars
    BY <2>4 DEF vars, TypeOK
  <2> QED BY <2>1, <2>2, <2>3, <2>4 DEF Next
<1> QED BY <1>1, <1>2, PTL DEF Spec

-----------------------------------------------------------------------------
\* Refinement.

\* observe obeys the contract of IncidentLifecycle, whatever the sample.
LEMMA ObserveObeysContract ==
    ASSUME NEW t \in Sample, NEW p
    PROVE  ObserveMay(active, Recovered(t, p), Raised(t, p))
<1>1. Monitoring \notin Raised(t, p)
  BY EngineAssumption DEF Raised, Asserted, Carried, Software, Sample
<1> QED BY <1>1, RecoveredAndRaised DEF ObserveMay, Recovered

\* The steps of the engine are calls of IncidentLifecycle: observe any sample,
\* or report the loss of monitoring, later than the call before it; building a
\* new engine from the stored incidents changes nothing there
\* (AlertEngine::observe and monitoring_lost).
THEOREM RefinesLifecycle == Spec => ImplementsLifecycle
<1> USE DEF Lifecycle!Open, Lifecycle!NoneActive, Lifecycle!ActiveAfter, Lifecycle!Updates,
            Lifecycle!Raise, Lifecycle!Recover, Lifecycle!LostRaises
<1>1. Init => Lifecycle!Init
  BY DEF Init, Lifecycle!Init, NoneActive
<1>2. TypeOK /\ [Next]_vars => [Lifecycle!Next]_(Lifecycle!vars)
  <2> SUFFICES ASSUME TypeOK, [Next]_vars PROVE [Lifecycle!Next]_(Lifecycle!vars)
    OBVIOUS
  <2>1. CASE Monitor
    <3>1. PICK d \in Steps, dev \in Devices, p \in Policies :
             \E t \in Samples(dev, now + d) : Observe(t, p)
      BY <2>1 DEF Monitor
    <3>2. PICK t \in Samples(dev, now + d) : Observe(t, p)
      BY <3>1
    <3>3. now + d \in Nat /\ now + d > now
      BY EngineAssumption DEF TypeOK
    <3>4. t \in Sample /\ t.device = dev /\ t.time = now + d
      BY <3>3, SamplesType DEF TypeOK
    <3>5. Lifecycle!ObserveMay(active, Recovered(t, p), Raised(t, p))
      BY <3>4, ObserveObeysContract DEF ObserveMay, Open, Lifecycle!ObserveMay
    <3>6. Lifecycle!Call(Recovered(t, p), Raised(t, p), dev)
      BY <3>2, <3>3, <3>4
      DEF Observe, Returned, Lifecycle!Call, ActiveAfter, Updates, Raise, Recover
    <3>7. Recovered(t, p) \in SUBSET Kinds /\ Raised(t, p) \in SUBSET Kinds
      BY RecoveredAndRaised DEF Open
    <3> QED BY <3>5, <3>6, <3>7 DEF Lifecycle!Next, Lifecycle!Observe
  <2>2. CASE MonitoringLost
    <3>1. PICK d \in Steps, dev \in Devices :
             /\ active' = ActiveAfter(active, {}, LostRaises(active), dev, now + d)
             /\ emitted' = emitted \cup Updates(active, {}, LostRaises(active), dev, now + d)
             /\ now' = now + d
      BY <2>2 DEF MonitoringLost
    <3>2. now' \in Nat /\ now' > now
      BY <3>1, EngineAssumption DEF TypeOK
    <3>3. Lifecycle!MonitoringLost(dev)
      BY <3>1, <3>2
      DEF Lifecycle!MonitoringLost, Lifecycle!Call, ActiveAfter, Updates, Raise, Recover,
          LostRaises, Open
    <3> QED BY <3>3 DEF Lifecycle!Next
  <2>3. CASE Restart
    BY <2>3 DEF Restart, Lifecycle!vars
  <2>4. CASE UNCHANGED vars
    BY <2>4 DEF vars, Lifecycle!vars
  <2> QED BY <2>1, <2>2, <2>3, <2>4 DEF Next
<1> QED BY <1>1, <1>2, TypeCorrect, PTL DEF Spec, ImplementsLifecycle, Lifecycle!Spec

-----------------------------------------------------------------------------
\* The contract of the engine, IncidentLifecycle, whoever keeps it.

LifecycleTypes ==
    /\ active \in ActiveMaps
    /\ emitted \subseteq Incident
    /\ now \in Nat

\* A call of the contract, in the words of Incidents.
LEMMA CallIs ==
    ASSUME NEW recovered, NEW raised, NEW dev, Lifecycle!Call(recovered, raised, dev)
    PROVE  /\ now' \in Nat /\ now' > now
           /\ active' = ActiveAfter(active, recovered, raised, dev, now')
           /\ emitted' = emitted \cup Updates(active, recovered, raised, dev, now')
  BY DEF Lifecycle!Call, Lifecycle!ActiveAfter, ActiveAfter, Lifecycle!Updates, Updates,
         Lifecycle!Raise, Raise, Lifecycle!Recover, Recover

\* Every step of it is a call that recovers what is open and raises what is not.
LEMMA StepIsCall ==
    ASSUME Lifecycle!Next
    PROVE  \E dev \in Devices, recovered \in SUBSET Open(active),
              raised \in SUBSET (Kinds \ Open(active)) :
                Lifecycle!Call(recovered, raised, dev)
<1>1. PICK dev \in Devices : Lifecycle!Observe(dev) \/ Lifecycle!MonitoringLost(dev)
  BY DEF Lifecycle!Next
<1>2. CASE Lifecycle!Observe(dev)
  BY <1>2 DEF Lifecycle!Observe, Lifecycle!ObserveMay, Lifecycle!Open, Open
<1>3. CASE Lifecycle!MonitoringLost(dev)
  <2>1. Lifecycle!Call({}, {Monitoring} \ Open(active), dev)
    BY <1>3 DEF Lifecycle!MonitoringLost, Lifecycle!LostRaises, Lifecycle!Open, Open
  <2>2. {} \in SUBSET Open(active) /\ {Monitoring} \ Open(active) \in SUBSET (Kinds \ Open(active))
    BY IncidentsAssumption
  <2> QED BY <2>1, <2>2
<1> QED BY <1>1, <1>2, <1>3

\* A call leaves the map and the updates well formed.
LEMMA LifecycleIsTyped == Lifecycle!Spec => []LifecycleTypes
<1>1. Lifecycle!Init => LifecycleTypes
  BY IncidentsAssumption
  DEF Lifecycle!Init, LifecycleTypes, ActiveMaps, Lifecycle!NoneActive, Open
<1>2. LifecycleTypes /\ [Lifecycle!Next]_(Lifecycle!vars) => LifecycleTypes'
  <2> SUFFICES ASSUME LifecycleTypes, [Lifecycle!Next]_(Lifecycle!vars) PROVE LifecycleTypes'
    OBVIOUS
  <2>1. CASE Lifecycle!Next
    <3>1. PICK dev \in Devices, recovered \in SUBSET Open(active),
               raised \in SUBSET (Kinds \ Open(active)) : Lifecycle!Call(recovered, raised, dev)
      BY <2>1, StepIsCall
    <3>2. raised \in SUBSET Kinds
      OBVIOUS
    <3> QED BY <3>1, <3>2, CallIs, ActiveAfterType, UpdatesType DEF LifecycleTypes
  <2>2. CASE UNCHANGED Lifecycle!vars
    BY <2>2 DEF Lifecycle!vars, LifecycleTypes
  <2> QED BY <2>1, <2>2
<1> QED BY <1>1, <1>2, PTL DEF Lifecycle!Spec

\* The type invariant of the contract (AlertEngine::active and the incidents
\* observe and monitoring_lost return).
THEOREM LifecycleTypeCorrect == Lifecycle!Spec => []Lifecycle!TypeOK
<1>1. LifecycleTypes => Lifecycle!TypeOK
  BY DEF LifecycleTypes, Lifecycle!TypeOK, ActiveMaps, Lifecycle!ActiveMaps,
         Incident, Lifecycle!Incident, Open, Lifecycle!Open
<1> QED BY <1>1, LifecycleIsTyped, PTL

\* The inductive invariant behind the replay: what is open was announced, an
\* announced incident is open unless an update recovered it, and no update is
\* about an incident of the future, so that a new incident is a new one.
ReplayInv ==
    /\ Lifecycle!ActiveWasAnnounced
    /\ Lifecycle!UpdatesTellActive
    /\ \A i \in emitted : i.at <= now

\* One call that recovers open kinds and raises kinds that are not open.
LEMMA CallKeepsReplay ==
    ASSUME LifecycleTypes, ReplayInv, NEW recovered \in SUBSET Open(active),
           NEW raised \in SUBSET (Kinds \ Open(active)), NEW dev \in Devices,
           Lifecycle!Call(recovered, raised, dev)
    PROVE  ReplayInv'
<1> USE DEF Lifecycle!Open
<1> DEFINE at == now'
<1>1. at \in Nat /\ now \in Nat /\ at > now
  BY CallIs DEF LifecycleTypes
<1>2. \A k \in Kinds : active'[k] = IF k \in raised THEN Raise(dev, k, at)
                                   ELSE IF k \in recovered THEN None ELSE active[k]
  BY CallIs DEF ActiveAfter
<1>3. emitted' = emitted \cup {Recover(active[k], at) : k \in recovered}
                         \cup {Raise(dev, k, at) : k \in raised}
  BY CallIs DEF Updates
<1>4. \A k \in Open(active) : /\ k \in Kinds /\ active[k] \in emitted
                              /\ active[k] \in Incident /\ active[k].kind = k
                              /\ active[k].until = None /\ active[k].at <= now
  <2>1. \A k \in Open(active) : active[k] \in emitted
    BY DEF ReplayInv, Lifecycle!ActiveWasAnnounced, Open
  <2>2. \A k \in Open(active) : /\ k \in Kinds /\ active[k] \in Incident
                                /\ active[k].kind = k /\ active[k].until = None
    BY OpenType DEF LifecycleTypes
  <2> QED BY <2>1, <2>2 DEF ReplayInv
<1>5. \A k \in recovered : /\ Recover(active[k], at).kind = k
                           /\ Recover(active[k], at).at = active[k].at
                           /\ Recover(active[k], at).until = at
  BY <1>1, <1>4, RecoverType
<1>6. \A k \in raised : /\ Raise(dev, k, at).kind = k
                        /\ Raise(dev, k, at).at = at
                        /\ Raise(dev, k, at).until = None
                        /\ Raise(dev, k, at) \in Incident
  BY <1>1, RaiseType
<1>7. None \notin Nat /\ None \notin Incident
  BY IncidentsAssumption DEF Incident
<1>8. emitted \subseteq Incident
  BY DEF LifecycleTypes
<1>9. Lifecycle!ActiveWasAnnounced'
  BY <1>2, <1>3, <1>4 DEF Lifecycle!ActiveWasAnnounced, Open
<1>10. \A i \in emitted' : i.at <= now'
  BY <1>1, <1>3, <1>4, <1>5, <1>6, <1>8 DEF ReplayInv, Incident
<1>11. ASSUME NEW i \in emitted
       PROVE  Lifecycle!Outstanding(i)' <=> active'[i.kind] = i
  <2> DEFINE k == i.kind
  <2>1. k \in Kinds /\ i \in Incident /\ i.at <= now
    BY <1>8 DEF Incident, ReplayInv
  <2>2. Lifecycle!Outstanding(i) <=> active[k] = i
    BY DEF ReplayInv, Lifecycle!UpdatesTellActive
  <2>3. ~Lifecycle!Outstanding(i) => ~Lifecycle!Outstanding(i)'
    BY <1>3 DEF Lifecycle!Outstanding
  <2>4. CASE k \in recovered
    <3>1. active'[k] = None /\ i # None
      BY <2>1, <2>4, <1>2, <1>7
    <3>2. ASSUME Lifecycle!Outstanding(i) PROVE ~Lifecycle!Outstanding(i)'
      <4>1. Recover(i, at) \in emitted' /\ Recover(i, at).kind = k
            /\ Recover(i, at).at = i.at /\ Recover(i, at).until # None
        BY <2>2, <2>4, <3>2, <1>1, <1>3, <1>5, <1>7
      <4> QED BY <4>1 DEF Lifecycle!Outstanding
    <3> QED BY <2>3, <3>1, <3>2
  <2>5. CASE k \in raised
    <3>1. active[k] = None /\ i # None
      BY <2>1, <2>5, <1>7 DEF Open
    <3>2. active'[k] = Raise(dev, k, at)
      BY <2>1, <2>5, <1>2
    <3>3. active'[k] # i
      BY <2>1, <2>5, <3>2, <1>1, <1>6 DEF Incident
    <3> QED BY <2>2, <2>3, <3>1, <3>3
  <2>6. CASE k \notin recovered /\ k \notin raised
    <3>1. active'[k] = active[k]
      BY <2>1, <2>6, <1>2
    <3>2. \A j \in emitted' : j.kind = k => j \in emitted
      BY <2>6, <1>3, <1>5, <1>6
    <3>3. Lifecycle!Outstanding(i) => Lifecycle!Outstanding(i)'
      BY <3>2, <1>3 DEF Lifecycle!Outstanding
    <3> QED BY <2>2, <2>3, <3>1, <3>3
  <2> QED BY <2>4, <2>5, <2>6
<1>12. ASSUME NEW k \in recovered, NEW i, i = Recover(active[k], at)
       PROVE  Lifecycle!Outstanding(i)' <=> active'[i.kind] = i
  <2>1. active'[i.kind] = None
    BY <1>2, <1>4, <1>5, <1>12
  <2>2. i \in Incident /\ i.until # None
    BY <1>1, <1>4, <1>5, <1>7, <1>12, RecoverType
  <2>3. ~Lifecycle!Outstanding(i)'
    BY <2>2 DEF Lifecycle!Outstanding
  <2> QED BY <2>1, <2>2, <2>3, <1>7
<1>13. ASSUME NEW k \in raised, NEW i, i = Raise(dev, k, at)
       PROVE  Lifecycle!Outstanding(i)' <=> active'[i.kind] = i
  <2>1. i.kind = k /\ i.at = at /\ i.until = None /\ i \in emitted'
    BY <1>3, <1>6, <1>13
  <2>2. active'[i.kind] = i
    BY <2>1, <1>2, <1>13
  <2>3. ASSUME NEW j \in emitted', j.kind = k, j.at = at PROVE j.until = None
    <3>1. CASE j \in emitted
      BY <2>3, <3>1, <1>1, <1>8 DEF ReplayInv, Incident
    <3>2. CASE j \in {Recover(active[l], at) : l \in recovered}
      BY <2>3, <3>2, <1>5
    <3>3. CASE j \in {Raise(dev, l, at) : l \in raised}
      BY <3>3, <1>6
    <3> QED BY <1>3, <3>1, <3>2, <3>3
  <2>4. Lifecycle!Outstanding(i)'
    BY <2>1, <2>3 DEF Lifecycle!Outstanding
  <2> QED BY <2>2, <2>4
<1>14. Lifecycle!UpdatesTellActive'
  <2>1. ASSUME NEW i \in emitted' PROVE Lifecycle!Outstanding(i)' <=> active'[i.kind] = i
    <3>1. CASE i \in emitted
      BY <3>1, <1>11
    <3>2. CASE i \in {Recover(active[k], at) : k \in recovered}
      BY <3>2, <1>12
    <3>3. CASE i \in {Raise(dev, k, at) : k \in raised}
      BY <3>3, <1>13
    <3> QED BY <1>3, <3>1, <3>2, <3>3
  <2> QED BY <2>1 DEF Lifecycle!UpdatesTellActive, Lifecycle!Outstanding
<1> QED BY <1>9, <1>10, <1>14 DEF ReplayInv

\* Replaying the updates gives exactly the incidents that are open, in every
\* implementation of the contract (AlertEngine::observe and monitoring_lost).
THEOREM UpdatesReplay ==
    Lifecycle!Spec => [](Lifecycle!UpdatesTellActive /\ Lifecycle!ActiveWasAnnounced)
<1>1. Lifecycle!Init => ReplayInv
  BY DEF Lifecycle!Init, ReplayInv, Lifecycle!ActiveWasAnnounced, Lifecycle!UpdatesTellActive,
         Lifecycle!NoneActive, Lifecycle!Open
<1>2. LifecycleTypes /\ ReplayInv /\ [Lifecycle!Next]_(Lifecycle!vars) => ReplayInv'
  <2>1. LifecycleTypes /\ ReplayInv /\ Lifecycle!Next => ReplayInv'
    BY StepIsCall, CallKeepsReplay
  <2>2. ReplayInv /\ UNCHANGED Lifecycle!vars => ReplayInv'
    BY DEF Lifecycle!vars, ReplayInv, Lifecycle!ActiveWasAnnounced, Lifecycle!UpdatesTellActive,
           Lifecycle!Outstanding, Lifecycle!Open
  <2> QED BY <2>1, <2>2
<1>3. ReplayInv => Lifecycle!UpdatesTellActive /\ Lifecycle!ActiveWasAnnounced
  BY DEF ReplayInv
<1> QED BY <1>1, <1>2, <1>3, LifecycleIsTyped, PTL DEF Lifecycle!Spec

\* The updates the engine returns replay to exactly the incidents it holds open
\* (AlertEngine::observe and monitoring_lost, the incidents returned).
THEOREM UpdatesReplayInEngine == Spec => []UpdatesTellActive
<1>1. Lifecycle!UpdatesTellActive /\ Lifecycle!ActiveWasAnnounced => UpdatesTellActive
  BY DEF UpdatesTellActive
<1> QED BY <1>1, RefinesLifecycle, UpdatesReplay, PTL DEF ImplementsLifecycle

-----------------------------------------------------------------------------
\* The timers of the software kinds.

\* last is the last sample taken, and a timer that runs is the time of a sample
\* from which every later one asserts the kind, or is clear, without a break.
TimersAreRuns ==
    /\ last # None =>
        /\ trace # <<>>
        /\ last.session = trace[Len(trace)].sample.session
        /\ last.time = trace[Len(trace)].sample.time
    /\ \A k \in SoftwareKinds : pending[k] # None =>
        /\ last # None
        /\ \E b \in DOMAIN trace : /\ trace[b].sample.time = pending[k]
                                   /\ AssertedRun(k, b, Len(trace))
    /\ \A k \in SoftwareKinds : recovering[k] # None =>
        /\ last # None
        /\ \E b \in DOMAIN trace : /\ trace[b].sample.time = recovering[k]
                                   /\ ClearRun(k, b, Len(trace))

\* Taking a sample leaves the earlier part of the trace, and its runs, alone.
LEMMA TraceGrows ==
    ASSUME TypeOK, NEW o \in Observation, trace' = Append(trace, o)
    PROVE  /\ DOMAIN trace' = 1 .. Len(trace) + 1
           /\ Len(trace') = Len(trace) + 1
           /\ DOMAIN trace = 1 .. Len(trace)
           /\ Len(trace) \in Nat
           /\ trace'[Len(trace) + 1] = o
           /\ \A m \in 1 .. Len(trace) : trace'[m] = trace[m]
           /\ \A m \in 1 .. Len(trace) : trace[m] \in Observation
  BY DEF TypeOK

\* A run of the trace is a run of the longer trace.
LEMMA RunsStay ==
    ASSUME TypeOK, NEW o \in Observation, trace' = Append(trace, o),
           NEW k, NEW b \in DOMAIN trace, NEW e \in DOMAIN trace
    PROVE  /\ AssertedRun(k, b, e) => AssertedRun(k, b, e)'
           /\ ClearRun(k, b, e) => ClearRun(k, b, e)'
           /\ Elapsed(b, e)' = Elapsed(b, e)
<1> \A m \in b .. e : m \in 1 .. Len(trace) /\ trace'[m] = trace[m]
  BY TraceGrows
<1>1. Unbroken(b, e) => Unbroken(b, e)'
  BY TraceGrows DEF Unbroken
<1>2. \A m \in b .. e : AssertedAt(k, m)' <=> AssertedAt(k, m)
  BY DEF AssertedAt, Asserted, Carried
<1>3. \A m \in b .. e : ClearAt(k, m)' <=> ClearAt(k, m)
  BY DEF ClearAt, Clear, Asserted, Carried
<1>4. Elapsed(b, e)' = Elapsed(b, e)
  BY TraceGrows DEF Elapsed
<1> QED BY <1>1, <1>2, <1>3, <1>4 DEF AssertedRun, ClearRun

\* A sample that continues the trace without an interruption extends a run to
\* itself; an interrupted one, or the first of its kind, is a run of its own.
LEMMA AssertedRunGrows ==
    ASSUME TypeOK, TimersAreRuns, NEW t \in Sample, NEW p \in Policies,
           Observe(t, p), NEW k \in SoftwareKinds, Asserted(t, p, k),
           NEW n, n = Len(trace)
    PROVE  \E b \in 1 .. n + 1 : /\ trace'[b].sample.time = Since(pending, t, k)
                                 /\ AssertedRun(k, b, n + 1)'
<1> DEFINE o == [sample |-> t, policy |-> p]
<1>1. o \in Observation /\ trace' = Append(trace, o)
  BY EngineAssumption DEF Observation, Observe
<1>2. /\ DOMAIN trace' = 1 .. n + 1 /\ Len(trace') = n + 1 /\ DOMAIN trace = 1 .. n
      /\ n \in Nat /\ trace'[n + 1] = o
      /\ \A m \in 1 .. n : trace'[m] = trace[m]
  BY <1>1, TraceGrows
<1>3. AssertedAt(k, n + 1)'
  BY <1>2 DEF AssertedAt, Asserted, Carried
<1>4. CASE Interrupted(t) \/ pending[k] = None
  <2>1. AssertedRun(k, n + 1, n + 1)'
    BY <1>2, <1>3 DEF AssertedRun, Unbroken
  <2> QED BY <1>2, <1>4, <2>1 DEF Since
<1>5. CASE ~Interrupted(t) /\ pending[k] # None
  <2>1. PICK b \in DOMAIN trace : /\ trace[b].sample.time = pending[k]
                                  /\ AssertedRun(k, b, n)
    BY <1>5 DEF TimersAreRuns
  <2>2. n \in DOMAIN trace /\ b \in 1 .. n
    BY <1>2, <2>1
  <2>3. AssertedRun(k, b, n)'
    BY <1>1, <2>1, <2>2, RunsStay
  <2>4. /\ trace'[n + 1].sample.session = trace'[n].sample.session
        /\ trace'[n + 1].sample.time - trace'[n].sample.time <= MaxGap
    <3>1. /\ last.session = trace[n].sample.session
          /\ last.time = trace[n].sample.time
      BY <1>5 DEF TimersAreRuns, Interrupted
    <3>2. t.session = last.session /\ ~(t.time - last.time > MaxGap)
      BY <1>5 DEF Interrupted
    <3>3. t.time \in Nat /\ last.time \in Nat
      BY <1>5 DEF Interrupted, TypeOK, Sample
    <3> QED BY <1>2, <2>2, <3>1, <3>2, <3>3, EngineAssumption
  <2>5. Unbroken(b, n + 1)'
    BY <2>2, <2>3, <2>4, <1>2 DEF AssertedRun, Unbroken
  <2>6. \A m \in b .. n + 1 : AssertedAt(k, m)'
    BY <2>2, <2>3, <1>2, <1>3 DEF AssertedRun
  <2>7. AssertedRun(k, b, n + 1)'
    BY <2>5, <2>6 DEF AssertedRun
  <2> QED BY <1>2, <1>5, <2>1, <2>2, <2>7 DEF Since
<1> QED BY <1>4, <1>5

\* The same of the runs of samples that are clear.
LEMMA ClearRunGrows ==
    ASSUME TypeOK, TimersAreRuns, NEW t \in Sample, NEW p \in Policies,
           Observe(t, p), NEW k \in SoftwareKinds, Clear(t, p, k),
           NEW n, n = Len(trace)
    PROVE  \E b \in 1 .. n + 1 : /\ trace'[b].sample.time = Since(recovering, t, k)
                                 /\ ClearRun(k, b, n + 1)'
<1> DEFINE o == [sample |-> t, policy |-> p]
<1>1. o \in Observation /\ trace' = Append(trace, o)
  BY EngineAssumption DEF Observation, Observe
<1>2. /\ DOMAIN trace' = 1 .. n + 1 /\ Len(trace') = n + 1 /\ DOMAIN trace = 1 .. n
      /\ n \in Nat /\ trace'[n + 1] = o
      /\ \A m \in 1 .. n : trace'[m] = trace[m]
  BY <1>1, TraceGrows
<1>3. ClearAt(k, n + 1)'
  BY <1>2 DEF ClearAt, Clear, Asserted, Carried
<1>4. CASE Interrupted(t) \/ recovering[k] = None
  <2>1. ClearRun(k, n + 1, n + 1)'
    BY <1>2, <1>3 DEF ClearRun, Unbroken
  <2> QED BY <1>2, <1>4, <2>1 DEF Since
<1>5. CASE ~Interrupted(t) /\ recovering[k] # None
  <2>1. PICK b \in DOMAIN trace : /\ trace[b].sample.time = recovering[k]
                                  /\ ClearRun(k, b, n)
    BY <1>5 DEF TimersAreRuns
  <2>2. n \in DOMAIN trace /\ b \in 1 .. n
    BY <1>2, <2>1
  <2>3. ClearRun(k, b, n)'
    BY <1>1, <2>1, <2>2, RunsStay
  <2>4. /\ trace'[n + 1].sample.session = trace'[n].sample.session
        /\ trace'[n + 1].sample.time - trace'[n].sample.time <= MaxGap
    <3>1. /\ last.session = trace[n].sample.session
          /\ last.time = trace[n].sample.time
      BY <1>5 DEF TimersAreRuns, Interrupted
    <3>2. t.session = last.session /\ ~(t.time - last.time > MaxGap)
      BY <1>5 DEF Interrupted
    <3>3. t.time \in Nat /\ last.time \in Nat
      BY <1>5 DEF Interrupted, TypeOK, Sample
    <3> QED BY <1>2, <2>2, <3>1, <3>2, <3>3, EngineAssumption
  <2>5. Unbroken(b, n + 1)'
    BY <2>2, <2>3, <2>4, <1>2 DEF ClearRun, Unbroken
  <2>6. \A m \in b .. n + 1 : ClearAt(k, m)'
    BY <2>2, <2>3, <1>2, <1>3 DEF ClearRun
  <2>7. ClearRun(k, b, n + 1)'
    BY <2>5, <2>6 DEF ClearRun
  <2> QED BY <1>2, <1>5, <2>1, <2>2, <2>7 DEF Since
<1> QED BY <1>4, <1>5

\* The timers are runs again after a sample.
LEMMA ObserveKeepsTimers ==
    ASSUME TypeOK, TimersAreRuns, NEW t \in Sample, NEW p \in Policies, Observe(t, p)
    PROVE  TimersAreRuns'
<1> SUFFICES ASSUME NEW n, n = Len(trace) PROVE TimersAreRuns'
  OBVIOUS
<1>1. /\ DOMAIN trace' = 1 .. n + 1 /\ Len(trace') = n + 1 /\ n \in Nat
      /\ trace'[n + 1] = [sample |-> t, policy |-> p]
  <2>1. [sample |-> t, policy |-> p] \in Observation
    BY EngineAssumption DEF Observation
  <2> QED BY <2>1, TraceGrows DEF Observe
<1>2. last' = [session |-> t.session, time |-> t.time] /\ last' # None
  <2>1. last' \in [session : Nat, time : Nat]
    BY DEF Observe, Sample
  <2> QED BY <2>1, EngineAssumption DEF Observe
<1>3. trace' # <<>>
  BY <1>1
<1>4. ASSUME NEW k \in SoftwareKinds, pending'[k] # None
      PROVE  \E b \in 1 .. n + 1 : /\ trace'[b].sample.time = pending'[k]
                                   /\ AssertedRun(k, b, n + 1)'
  <2>1. k \in Kinds /\ Carried(t, k)
    BY EngineAssumption DEF Carried, Software
  <2>2. Asserted(t, p, k) /\ pending'[k] = Since(pending, t, k)
    BY <1>4, <2>1 DEF Observe, PendingAfter
  <2> QED BY <2>2, AssertedRunGrows
<1>5. ASSUME NEW k \in SoftwareKinds, recovering'[k] # None
      PROVE  \E b \in 1 .. n + 1 : /\ trace'[b].sample.time = recovering'[k]
                                   /\ ClearRun(k, b, n + 1)'
  <2>1. k \in Kinds /\ Carried(t, k)
    BY EngineAssumption DEF Carried, Software
  <2>2. Clear(t, p, k) /\ recovering'[k] = Since(recovering, t, k)
    BY <1>5, <2>1 DEF Observe, RecoveringAfter
  <2> QED BY <2>2, ClearRunGrows
<1> QED BY <1>1, <1>2, <1>3, <1>4, <1>5 DEF TimersAreRuns

\* A raise or a recovery that a sample returns ends a run of its own kind.
LEMMA ObserveKeepsSustained ==
    ASSUME TypeOK, TimersAreRuns, Lifecycle!ActiveWasAnnounced,
           SoftwareRaiseIsSustained, SoftwareRecoveryIsSustained,
           NEW t \in Sample, NEW p \in Policies, Observe(t, p)
    PROVE  SoftwareRaiseIsSustained' /\ SoftwareRecoveryIsSustained'
<1> SUFFICES ASSUME NEW n, n = Len(trace)
             PROVE  SoftwareRaiseIsSustained' /\ SoftwareRecoveryIsSustained'
  OBVIOUS
<1> DEFINE o == [sample |-> t, policy |-> p]
<1>1. o \in Observation /\ trace' = Append(trace, o)
  BY EngineAssumption DEF Observation, Observe
<1>2. /\ DOMAIN trace' = 1 .. n + 1 /\ DOMAIN trace = 1 .. n /\ n \in Nat
      /\ trace'[n + 1] = o
      /\ \A m \in 1 .. n : trace'[m] = trace[m]
  BY <1>1, TraceGrows
<1>3. emitted' = emitted \cup {Recover(active[k], t.time) : k \in Recovered(t, p)}
                         \cup {Raise(t.device, k, t.time) : k \in Raised(t, p)}
  BY DEF Observe, Returned, Updates
<1>4. t.time \in Nat /\ t.device \in Devices
  BY DEF Sample
<1>5. \A k \in Recovered(t, p) :
         /\ active[k] \in emitted /\ active[k].kind = k /\ k \in Kinds
         /\ Recover(active[k], t.time).kind = k
         /\ Recover(active[k], t.time).at = active[k].at
         /\ Recover(active[k], t.time).until = t.time
  BY <1>4, RecoveredAndRaised, OpenType, RecoverType
  DEF TypeOK, Lifecycle!ActiveWasAnnounced, Lifecycle!Open, Open
<1>6. \A k \in Raised(t, p) : /\ k \in Kinds
                              /\ Raise(t.device, k, t.time).kind = k
                              /\ Raise(t.device, k, t.time).at = t.time
                              /\ Raise(t.device, k, t.time).until = None
  BY <1>4, RecoveredAndRaised, RaiseType
<1>7. ASSUME NEW k \in SoftwareKinds, k \in Raised(t, p)
      PROVE  \E b, e \in DOMAIN trace' :
                /\ b <= e
                /\ trace'[e].sample.time = t.time
                /\ AssertedRun(k, b, e)'
                /\ Elapsed(b, e)' >= trace'[e].policy.trigger
  <2>1. Asserted(t, p, k) /\ t.time - Since(pending, t, k) >= p.trigger
    BY <1>7 DEF Raised, Software
  <2>2. PICK b \in 1 .. n + 1 : /\ trace'[b].sample.time = Since(pending, t, k)
                                /\ AssertedRun(k, b, n + 1)'
    BY <2>1, AssertedRunGrows
  <2>3. Elapsed(b, n + 1)' >= p.trigger
    BY <2>1, <2>2, <1>2 DEF Elapsed
  <2> QED BY <2>2, <2>3, <1>2
<1>8. ASSUME NEW k \in SoftwareKinds, k \in Recovered(t, p)
      PROVE  \E b, e \in DOMAIN trace' :
                /\ b <= e
                /\ trace'[e].sample.time = t.time
                /\ ClearRun(k, b, e)'
                /\ Elapsed(b, e)' >= trace'[e].policy.recovery
  <2>1. Clear(t, p, k) /\ t.time - Since(recovering, t, k) >= p.recovery
    BY <1>8, EngineAssumption DEF Recovered, Software, Expired
  <2>2. PICK b \in 1 .. n + 1 : /\ trace'[b].sample.time = Since(recovering, t, k)
                                /\ ClearRun(k, b, n + 1)'
    BY <2>1, ClearRunGrows
  <2>3. Elapsed(b, n + 1)' >= p.recovery
    BY <2>1, <2>2, <1>2 DEF Elapsed
  <2> QED BY <2>2, <2>3, <1>2
<1>9. ASSUME NEW i \in emitted, i.kind \in SoftwareKinds
      PROVE  \E b, e \in DOMAIN trace' :
                /\ b <= e
                /\ trace'[e].sample.time = i.at
                /\ AssertedRun(i.kind, b, e)'
                /\ Elapsed(b, e)' >= trace'[e].policy.trigger
  <2>1. PICK b, e \in DOMAIN trace :
           /\ b <= e
           /\ trace[e].sample.time = i.at
           /\ AssertedRun(i.kind, b, e)
           /\ Elapsed(b, e) >= trace[e].policy.trigger
    BY <1>9 DEF SoftwareRaiseIsSustained
  <2>2. AssertedRun(i.kind, b, e)' /\ Elapsed(b, e)' = Elapsed(b, e)
    BY <1>1, <2>1, RunsStay
  <2> QED BY <1>2, <2>1, <2>2
<1>10. ASSUME NEW i \in emitted, i.kind \in SoftwareKinds, i.until # None
      PROVE  \E b, e \in DOMAIN trace' :
                /\ b <= e
                /\ trace'[e].sample.time = i.until
                /\ ClearRun(i.kind, b, e)'
                /\ Elapsed(b, e)' >= trace'[e].policy.recovery
  <2>1. PICK b, e \in DOMAIN trace :
           /\ b <= e
           /\ trace[e].sample.time = i.until
           /\ ClearRun(i.kind, b, e)
           /\ Elapsed(b, e) >= trace[e].policy.recovery
    BY <1>10 DEF SoftwareRecoveryIsSustained
  <2>2. ClearRun(i.kind, b, e)' /\ Elapsed(b, e)' = Elapsed(b, e)
    BY <1>1, <2>1, RunsStay
  <2> QED BY <1>2, <2>1, <2>2
<1>11. SoftwareRaiseIsSustained'
  BY <1>3, <1>5, <1>6, <1>7, <1>9 DEF SoftwareRaiseIsSustained
<1>12. SoftwareRecoveryIsSustained'
  BY <1>3, <1>5, <1>6, <1>8, <1>10 DEF SoftwareRecoveryIsSustained
<1> QED BY <1>11, <1>12

\* A software incident opens only after an unbroken run of asserting samples as
\* long as the trigger time, and closes only after an unbroken run of clear
\* samples as long as the recovery time (AlertEngine::observe).
THEOREM SoftwareIncidentsAreSustained ==
    Spec => [](SoftwareRaiseIsSustained /\ SoftwareRecoveryIsSustained)
<1> DEFINE Sustained == SoftwareRaiseIsSustained /\ SoftwareRecoveryIsSustained
           IInv == TimersAreRuns /\ Sustained
<1>1. Init => IInv
  BY EngineAssumption
  DEF Init, TimersAreRuns, NoTimers, SoftwareRaiseIsSustained, SoftwareRecoveryIsSustained
<1>2. TypeOK /\ UpdatesTellActive /\ IInv /\ [Next]_vars => IInv'
  <2> SUFFICES ASSUME TypeOK, UpdatesTellActive, IInv, [Next]_vars PROVE IInv'
    OBVIOUS
  <2>1. CASE Monitor
    <3>1. PICK d \in Steps, dev \in Devices, p \in Policies :
             \E t \in Samples(dev, now + d) : Observe(t, p)
      BY <2>1 DEF Monitor
    <3>2. PICK t \in Samples(dev, now + d) : Observe(t, p)
      BY <3>1
    <3>3. t \in Sample
      BY EngineAssumption, SamplesType DEF TypeOK
    <3> QED BY <3>2, <3>3, ObserveKeepsTimers, ObserveKeepsSustained DEF UpdatesTellActive
  <2>2. CASE MonitoringLost
    <3>1. PICK d \in Steps, dev \in Devices :
             /\ emitted' = emitted \cup Updates(active, {}, LostRaises(active), dev, now + d)
             /\ pending' = NoTimers
             /\ recovering' = NoTimers
             /\ UNCHANGED <<last, trace>>
      BY <2>2 DEF MonitoringLost
    <3>2. now + d \in Nat
      BY EngineAssumption DEF TypeOK
    <3>3. \A i \in emitted' : i \in emitted \/ i.kind = Monitoring
      BY <3>1, <3>2, RaiseType, IncidentsAssumption DEF Updates, LostRaises
    <3>4. TimersAreRuns'
      BY <3>1, EngineAssumption
      DEF TimersAreRuns, NoTimers, AssertedRun, ClearRun, Unbroken, AssertedAt, ClearAt
    <3>5. Sustained'
      BY <3>1, <3>3, EngineAssumption
      DEF SoftwareRaiseIsSustained, SoftwareRecoveryIsSustained, Elapsed,
          AssertedRun, ClearRun, Unbroken, AssertedAt, ClearAt
    <3> QED BY <3>4, <3>5
  <2>3. CASE Restart
    <3>1. TimersAreRuns'
      BY <2>3, EngineAssumption DEF Restart, TimersAreRuns, NoTimers
    <3>2. Sustained'
      BY <2>3
      DEF Restart, SoftwareRaiseIsSustained, SoftwareRecoveryIsSustained, Elapsed,
          AssertedRun, ClearRun, Unbroken, AssertedAt, ClearAt
    <3> QED BY <3>1, <3>2
  <2>4. CASE UNCHANGED vars
    BY <2>4
    DEF vars, TimersAreRuns, SoftwareRaiseIsSustained, SoftwareRecoveryIsSustained,
        Elapsed, AssertedRun, ClearRun, Unbroken, AssertedAt, ClearAt
  <2> QED BY <2>1, <2>2, <2>3, <2>4 DEF Next
<1>3. IInv => Sustained
  OBVIOUS
<1> QED BY <1>1, <1>2, <1>3, TypeCorrect, UpdatesReplayInEngine, PTL DEF Spec

\* An ended software incident was ended by an unbroken run of clear samples as
\* long as the recovery time (AlertEngine::observe, the recovering map).
THEOREM SoftwareRecoveries == Spec => []SoftwareRecoveryIsSustained
  BY SoftwareIncidentsAreSustained, PTL

-----------------------------------------------------------------------------
\* The hardware kinds.

\* A raised incident is not the absence of one.
LEMMA RaiseIsNotNone ==
    ASSUME NEW dev \in Devices, NEW k \in Kinds, NEW at \in Nat
    PROVE  Raise(dev, k, at) # None
  BY RaiseType, IncidentsAssumption DEF Incident

\* A sample settles the hardware kinds it could read and leaves the others alone.
LEMMA ObserveSettlesHardware ==
    ASSUME TypeOK, NEW t \in Sample, NEW p \in Policies, t.faults \subseteq t.read, Observe(t, p),
           NEW k \in AlertKinds \cup SafeguardKinds
    PROVE  IF k \in t.read THEN active'[k] # None <=> k \in t.faults
                           ELSE active'[k] = active[k]
<1>1. /\ k \in Kinds /\ k # Monitoring /\ ~Software(k)
  BY EngineAssumption DEF Software
<1>2. Raise(t.device, k, t.time) # None
  BY <1>1, RaiseIsNotNone DEF Sample
<1>3. active'[k] = IF k \in Raised(t, p) THEN Raise(t.device, k, t.time)
                   ELSE IF k \in Recovered(t, p) THEN None ELSE active[k]
  BY <1>1 DEF Observe, ActiveAfter
<1>4. k \in Raised(t, p) <=> active[k] = None /\ k \in t.faults
  BY <1>1 DEF Raised, Asserted, Carried, Open
<1>5. k \in Recovered(t, p) <=> active[k] # None /\ k \in t.read /\ k \notin t.faults
  BY <1>1 DEF Recovered, Clear, Asserted, Carried, Open, Expired
<1> QED BY <1>2, <1>3, <1>4, <1>5

\* A hardware incident is open exactly when the latest sample that could read
\* its register found it set (AlertEngine::observe, the hardware conditions).
THEOREM HardwareIsFollowed == Spec => []HardwareFollowsLatestReading
<1>1. Init => HardwareFollowsLatestReading
  BY EngineAssumption DEF Init, HardwareFollowsLatestReading, NoneActive
<1>2. TypeOK /\ HardwareFollowsLatestReading /\ [Next]_vars => HardwareFollowsLatestReading'
  <2> SUFFICES ASSUME TypeOK, HardwareFollowsLatestReading, [Next]_vars,
                      NEW k \in AlertKinds \cup SafeguardKinds
               PROVE  LET readings == {m \in DOMAIN trace' : k \in trace'[m].sample.read} IN
                      active'[k] # None <=>
                          \E m \in readings : /\ \A n \in readings : n <= m
                                              /\ k \in trace'[m].sample.faults
    BY DEF HardwareFollowsLatestReading
  <2> DEFINE readings == {m \in DOMAIN trace : k \in trace[m].sample.read}
  <2>1. active[k] # None <=> \E m \in readings : /\ \A n \in readings : n <= m
                                                 /\ k \in trace[m].sample.faults
    BY DEF HardwareFollowsLatestReading
  <2>2. k \in Kinds /\ k # Monitoring
    BY EngineAssumption
  <2>3. CASE Monitor
    <3>1. PICK d \in Steps, dev \in Devices, p \in Policies :
             \E t \in Samples(dev, now + d) : Observe(t, p)
      BY <2>3 DEF Monitor
    <3>2. PICK t \in Samples(dev, now + d) : Observe(t, p)
      BY <3>1
    <3>3. t \in Sample /\ t.faults \subseteq t.read
      BY EngineAssumption, SamplesType DEF TypeOK
    <3>4. IF k \in t.read THEN active'[k] # None <=> k \in t.faults ELSE active'[k] = active[k]
      BY <3>2, <3>3, ObserveSettlesHardware
    <3> DEFINE o == [sample |-> t, policy |-> p]
               Readings == {m \in DOMAIN trace' : k \in trace'[m].sample.read}
    <3>5. o \in Observation /\ trace' = Append(trace, o)
      BY <3>2, <3>3, EngineAssumption DEF Observe, Observation
    <3>6. /\ DOMAIN trace' = 1 .. Len(trace) + 1
          /\ DOMAIN trace = 1 .. Len(trace)
          /\ Len(trace) \in Nat
          /\ trace'[Len(trace) + 1] = o
          /\ \A m \in 1 .. Len(trace) : trace'[m] = trace[m]
      BY <3>5, TraceGrows
    <3>7. CASE k \in t.read
      <4>1. Len(trace) + 1 \in Readings /\ \A n \in Readings : n <= Len(trace) + 1
        BY <3>6, <3>7
      <4>2. \A m \in Readings : (\A n \in Readings : n <= m) => m = Len(trace) + 1
        BY <3>6, <4>1
      <4> QED BY <3>4, <3>6, <3>7, <4>1, <4>2
    <3>8. CASE k \notin t.read
      <4>1. Readings = readings
        BY <3>6, <3>8
      <4>2. \A m \in readings : trace'[m] = trace[m]
        BY <3>6
      <4> QED BY <2>1, <3>4, <3>8, <4>1, <4>2
    <3> QED BY <3>7, <3>8
  <2>4. CASE MonitoringLost
    <3>1. /\ trace' = trace
          /\ active'[k] = active[k]
      BY <2>2, <2>4 DEF MonitoringLost, ActiveAfter, LostRaises
    <3> QED BY <2>1, <3>1
  <2>5. CASE Restart
    BY <2>1, <2>5 DEF Restart
  <2>6. CASE UNCHANGED vars
    BY <2>1, <2>6 DEF vars
  <2> QED BY <2>3, <2>4, <2>5, <2>6 DEF Next
<1> QED BY <1>1, <1>2, TypeCorrect, PTL DEF Spec

-----------------------------------------------------------------------------
\* No imbalance is missed.

\* While the session of the last sample goes on, last is that sample, and the
\* timer of a kind is at least as old as every run that asserts the kind up to
\* it. No sample is of a later session, and no timer of a later time.
TimersCoverRuns ==
    /\ \A m \in DOMAIN trace : trace[m].sample.session <= session
    /\ trace # <<>> /\ trace[Len(trace)].sample.session = session =>
        /\ last = [session |-> session, time |-> trace[Len(trace)].sample.time]
        /\ \A k \in SoftwareKinds, b \in DOMAIN trace : AssertedRun(k, b, Len(trace)) =>
            pending[k] # None /\ pending[k] <= trace[b].sample.time
    /\ \A k \in SoftwareKinds : pending[k] # None => pending[k] <= now

\* The timer of a kind that this sample asserts is at least as old as the run.
LEMMA SinceCoversRun ==
    ASSUME TypeOK, TimersCoverRuns, NEW t \in Sample, NEW p \in Policies, Observe(t, p),
           t.session = session, t.time > now, NEW n, n = Len(trace),
           NEW k \in SoftwareKinds, NEW b \in 1 .. n + 1, AssertedRun(k, b, n + 1)'
    PROVE  /\ Asserted(t, p, k)
           /\ Since(pending, t, k) \in Nat
           /\ Since(pending, t, k) <= trace'[b].sample.time
<1> DEFINE o == [sample |-> t, policy |-> p]
<1>1. o \in Observation /\ trace' = Append(trace, o)
  BY EngineAssumption DEF Observation, Observe
<1>2. /\ n \in Nat /\ DOMAIN trace = 1 .. n /\ trace'[n + 1] = o
      /\ \A m \in 1 .. n : trace'[m] = trace[m] /\ trace[m] \in Observation
  BY <1>1, TraceGrows
<1>3. k \in Kinds
  BY EngineAssumption
<1>4. AssertedAt(k, n + 1)'
  BY <1>2 DEF AssertedRun
<1>5. Asserted(t, p, k)
  BY <1>2, <1>4 DEF AssertedAt, Asserted, Carried
<1>6. Since(pending, t, k) \in Nat
  BY <1>3, SinceType DEF TypeOK
<1>7. pending[k] \in Nat \cup {None} /\ now \in Nat /\ t.time \in Nat
  BY <1>3 DEF TypeOK, Timers, Sample
<1>8. CASE b = n + 1
  <2>1. trace'[b].sample.time = t.time
    BY <1>2, <1>8
  <2>2. Since(pending, t, k) <= t.time
    BY <1>7 DEF Since, TimersCoverRuns
  <2> QED BY <1>5, <1>6, <2>1, <2>2
<1>9. CASE b \in 1 .. n
  <2>1. n \in b .. (n + 1) - 1 /\ n \in 1 .. n /\ trace # <<>>
    BY <1>2, <1>9
  <2>2. /\ trace'[n + 1].sample.session = trace'[n].sample.session
        /\ trace'[n + 1].sample.time - trace'[n].sample.time <= MaxGap
    BY <2>1 DEF AssertedRun, Unbroken
  <2>3. trace[n].sample.session = session /\ t.time - trace[n].sample.time <= MaxGap
    BY <1>2, <2>1, <2>2
  <2>4. Unbroken(b, n)
    <3>1. \A m \in b .. n - 1 : m \in b .. (n + 1) - 1 /\ m \in 1 .. n /\ m + 1 \in 1 .. n
      BY <1>2, <1>9
    <3> QED BY <1>2, <3>1 DEF AssertedRun, Unbroken
  <2>5. \A m \in b .. n : AssertedAt(k, m)
    <3>1. \A m \in b .. n : m \in b .. n + 1 /\ m \in 1 .. n
      BY <1>2, <1>9
    <3> QED BY <1>2, <3>1 DEF AssertedRun, AssertedAt, Asserted, Carried
  <2>6. AssertedRun(k, b, n)
    BY <2>4, <2>5 DEF AssertedRun
  <2>7. /\ last = [session |-> session, time |-> trace[n].sample.time]
        /\ pending[k] # None /\ pending[k] <= trace[b].sample.time
    BY <1>2, <1>9, <2>1, <2>3, <2>6 DEF TimersCoverRuns
  <2>8. ~Interrupted(t)
    <3>1. last \in [session : Nat, time : Nat] /\ last # None
      BY <1>2, <2>1, <2>7, EngineAssumption DEF TypeOK, Observation, Sample
    <3> QED BY <1>7, <2>3, <2>7, <3>1, EngineAssumption DEF Interrupted
  <2> QED BY <1>2, <1>5, <1>6, <1>9, <2>7, <2>8 DEF Since
<1> QED BY <1>5, <1>6, <1>8, <1>9

\* After a sample the timers cover the runs again, and what they let expire is open.
LEMMA ObserveMissesNothing ==
    ASSUME TypeOK, TimersCoverRuns, NEW t \in Sample, NEW p \in Policies, Observe(t, p),
           t.session = session, t.time > now
    PROVE  TimersCoverRuns' /\ SustainedImbalanceIsOpen'
<1> SUFFICES ASSUME NEW n, n = Len(trace)
             PROVE  TimersCoverRuns' /\ SustainedImbalanceIsOpen'
  OBVIOUS
<1> DEFINE o == [sample |-> t, policy |-> p]
<1>1. o \in Observation /\ trace' = Append(trace, o) /\ session' = session /\ now' = t.time
      /\ last' = [session |-> t.session, time |-> t.time]
  BY EngineAssumption DEF Observation, Observe
<1>2. /\ n \in Nat /\ DOMAIN trace = 1 .. n /\ DOMAIN trace' = 1 .. n + 1
      /\ trace'[n + 1] = o /\ Len(trace') = n + 1
      /\ \A m \in 1 .. n : trace'[m] = trace[m]
  BY <1>1, TraceGrows
<1>3. \A k \in SoftwareKinds : k \in Kinds /\ Carried(t, k) /\ Software(k) /\ k # Monitoring
  BY EngineAssumption DEF Carried, Software
<1>4. ASSUME NEW k \in SoftwareKinds, NEW b \in 1 .. n + 1, AssertedRun(k, b, n + 1)'
      PROVE  /\ Asserted(t, p, k)
             /\ Since(pending, t, k) \in Nat
             /\ Since(pending, t, k) <= trace'[b].sample.time
             /\ pending'[k] = Since(pending, t, k)
             /\ pending'[k] # None
  <2>1. /\ Asserted(t, p, k)
        /\ Since(pending, t, k) \in Nat
        /\ Since(pending, t, k) <= trace'[b].sample.time
    BY <1>4, SinceCoversRun
  <2>2. pending'[k] = Since(pending, t, k)
    BY <1>3, <2>1 DEF Observe, PendingAfter
  <2> QED BY <2>1, <2>2, IncidentsAssumption
<1>5. ASSUME NEW k \in SoftwareKinds, pending'[k] # None
      PROVE  pending'[k] <= now'
  <2>1. pending'[k] = Since(pending, t, k)
    BY <1>3, <1>5 DEF Observe, PendingAfter
  <2>2. pending[k] \in Nat \cup {None} /\ now \in Nat /\ t.time \in Nat
    BY <1>3 DEF TypeOK, Timers, Sample
  <2> QED BY <1>1, <2>1, <2>2 DEF Since, TimersCoverRuns
<1>6. \A m \in DOMAIN trace' : trace'[m].sample.session <= session'
  <2>1. t.session <= session /\ session \in Nat
    BY DEF TypeOK
  <2> QED BY <1>1, <1>2, <2>1 DEF TimersCoverRuns
<1>7. TimersCoverRuns'
  BY <1>1, <1>2, <1>4, <1>5, <1>6 DEF TimersCoverRuns
<1>8. ASSUME NEW k \in SoftwareKinds, NEW b \in 1 .. n + 1, AssertedRun(k, b, n + 1)',
             Elapsed(b, n + 1)' >= trace'[n + 1].policy.trigger
      PROVE  active'[k] # None
  <2>1. t.time - trace'[b].sample.time >= p.trigger
    BY <1>2, <1>8 DEF Elapsed
  <2>2. /\ t.time \in Nat /\ trace'[b].sample.time \in Nat /\ p.trigger \in Nat
    <3>1. trace' \in Seq(Observation)
      BY <1>1 DEF TypeOK
    <3>2. trace'[b] \in Observation
      BY <1>2, <3>1
    <3> QED BY <3>2, EngineAssumption DEF Observation, Sample, Policy
  <2>3. t.time - Since(pending, t, k) >= p.trigger
    BY <1>4, <1>8, <2>1, <2>2
  <2>4. Asserted(t, p, k)
    BY <1>4, <1>8
  <2>5. k \in Open(active) \/ k \in Raised(t, p)
    BY <1>3, <2>3, <2>4 DEF Raised
  <2>6. k \notin Recovered(t, p)
    BY <1>3, <2>4 DEF Recovered, Clear
  <2>7. Raise(t.device, k, t.time) # None
    BY <1>3, RaiseIsNotNone DEF Sample
  <2> QED BY <1>3, <2>5, <2>6, <2>7 DEF Observe, ActiveAfter, Open
<1>9. SustainedImbalanceIsOpen'
  BY <1>2, <1>8 DEF SustainedImbalanceIsOpen
<1> QED BY <1>7, <1>9

\* After an unbroken run of asserting samples that lasts the trigger time the
\* incident is open, whatever was lost, restarted or reopened before it
\* (AlertEngine::observe, the pending map and the raise condition).
THEOREM NoImbalanceIsMissed == Spec => []SustainedImbalanceIsOpen
<1> DEFINE IInv == TimersCoverRuns /\ SustainedImbalanceIsOpen
<1>1. Init => IInv
  BY EngineAssumption DEF Init, TimersCoverRuns, NoTimers, SustainedImbalanceIsOpen
<1>2. TypeOK /\ IInv /\ [Next]_vars => IInv'
  <2> SUFFICES ASSUME TypeOK, IInv, [Next]_vars PROVE IInv'
    OBVIOUS
  <2>1. CASE Monitor
    <3>1. PICK d \in Steps, dev \in Devices, p \in Policies :
             \E t \in Samples(dev, now + d) : Observe(t, p)
      BY <2>1 DEF Monitor
    <3>2. PICK t \in Samples(dev, now + d) : Observe(t, p)
      BY <3>1
    <3>3. now + d \in Nat /\ now + d > now
      BY EngineAssumption DEF TypeOK
    <3>4. t \in Sample /\ t.session = session /\ t.time > now
      BY <3>3, SamplesType DEF TypeOK
    <3> QED BY <3>2, <3>4, ObserveMissesNothing
  <2> DEFINE Quiet == /\ trace' = trace
                      /\ session' = session + 1
                      /\ pending' = NoTimers
                      /\ \A k \in SoftwareKinds : active'[k] = active[k]
  <2>2. ASSUME Quiet PROVE IInv'
    <3>1. \A m \in DOMAIN trace : trace[m].sample.session \in Nat /\ trace[m].sample.session <= session
      <4>1. \A m \in DOMAIN trace : trace[m] \in Observation
        BY DEF TypeOK
      <4> QED BY <4>1 DEF TimersCoverRuns, Observation, Sample
    <3>2. trace # <<>> => Len(trace) \in DOMAIN trace
      BY DEF TypeOK
    <3>3. \A m \in DOMAIN trace' : trace'[m].sample.session < session'
      BY <2>2, <3>1 DEF TypeOK
    <3>4. \A k \in SoftwareKinds : pending'[k] = None
      BY <2>2, EngineAssumption DEF NoTimers
    <3>5. TimersCoverRuns'
      BY <2>2, <3>1, <3>2, <3>3, <3>4 DEF TimersCoverRuns, TypeOK
    <3>6. SustainedImbalanceIsOpen'
      BY <2>2 DEF SustainedImbalanceIsOpen, Elapsed, AssertedRun, Unbroken, AssertedAt
    <3> QED BY <3>5, <3>6
  <2>3. CASE MonitoringLost
    <3>1. Quiet
      BY <2>3, EngineAssumption DEF MonitoringLost, ActiveAfter, LostRaises
    <3> QED BY <2>2, <3>1
  <2>4. CASE Restart
    BY <2>2, <2>4 DEF Restart
  <2>5. CASE UNCHANGED vars
    BY <2>5 DEF vars, TimersCoverRuns, SustainedImbalanceIsOpen, Elapsed, AssertedRun, Unbroken,
                AssertedAt
  <2> QED BY <2>1, <2>3, <2>4, <2>5 DEF Next
<1> QED BY <1>1, <1>2, TypeCorrect, PTL DEF Spec

=============================================================================
