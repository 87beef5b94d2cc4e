---------------------------- MODULE RuntimeProofs ----------------------------
(***************************************************************************)
(* The runtime's variables keep their types; an answered acknowledgement   *)
(* stays in the database; every sample and every incident update is        *)
(* stored, on its way or counted as dropped; the engine holds the          *)
(* conditions of the device it reads. All of it for any number of kinds,   *)
(* devices and clients, any sizes of the queue and of the pending list,    *)
(* whatever fails, crashes or is repeated, and with or without evidence.   *)
(* Evidence belongs to an incident of the database, and no reading of the  *)
(* window of an incident is missing but those that are counted. And with   *)
(* one power supply, while nothing is dropped, the table says what the     *)
(* engine does: what a restart restores is what was open.                  *)
(***************************************************************************)
EXTENDS Evidence, FiniteLemmas, SequenceTheorems

-----------------------------------------------------------------------------
\* The operators of Incidents.

\* A call keeps the map of open incidents well formed: each incident is under
\* its own kind and not recovered.
LEMMA ActiveAfterType ==
    ASSUME NEW act \in ActiveMaps, NEW recovered, NEW raised,
           NEW dev \in Devices, NEW at \in Nat
    PROVE  ActiveAfter(act, recovered, raised, dev, at) \in ActiveMaps
  BY IncidentsAssumption DEF ActiveMaps, ActiveAfter, Raise, Incident, Open

\* Recovering an incident, and raising one, gives an incident.
LEMMA RecoverType ==
    ASSUME NEW i \in Incident, NEW at \in Nat
    PROVE  /\ Recover(i, at) \in Incident
           /\ Recover(i, at).kind = i.kind
           /\ Recover(i, at).at = i.at
           /\ Recover(i, at).until = at
  BY DEF Recover, Incident

LEMMA RaiseType ==
    ASSUME NEW dev \in Devices, NEW k \in Kinds, NEW at \in Nat
    PROVE  /\ Raise(dev, k, at) \in Incident
           /\ Raise(dev, k, at).kind = k
           /\ Raise(dev, k, at).at = at
           /\ Raise(dev, k, at).until = None
  BY DEF Raise, Incident

\* What is open under a kind is an incident of that kind, not recovered.
LEMMA OpenType ==
    ASSUME NEW act \in ActiveMaps, NEW k \in Open(act)
    PROVE  k \in Kinds /\ act[k] \in Incident /\ act[k].kind = k /\ act[k].until = None
  BY DEF ActiveMaps, Open

\* The updates of a call are incidents.
LEMMA UpdatesType ==
    ASSUME NEW act \in ActiveMaps, NEW recovered \in SUBSET Open(act),
           NEW raised \in SUBSET Kinds, NEW dev \in Devices, NEW at \in Nat
    PROVE  Updates(act, recovered, raised, dev, at) \subseteq Incident
<1>1. \A k \in recovered : Recover(act[k], at) \in Incident
  BY OpenType, RecoverType
<1>2. \A k \in raised : Raise(dev, k, at) \in Incident
  BY RaiseType
<1> QED BY <1>1, <1>2 DEF Updates

-----------------------------------------------------------------------------
\* Sequences.

\* A finite set has an order to put its members in.
LEMMA SetToSeqType ==
    ASSUME NEW T, NEW S \in SUBSET T, IsFiniteSet(S)
    PROVE  SetToSeq(S) \in Seq(T)
<1> DEFINE n == Cardinality(S)
<1>1. n \in Nat /\ ExistsBijection(1 .. n, S)
  BY FS_CardinalityType
<1>2. PICK f : f \in [1 .. n -> S] /\ IsInjective(f)
  BY <1>1 DEF ExistsBijection, Bijection, Injection
<1>3. SetToSeq(S) \in [1 .. n -> S]
  BY <1>2 DEF SetToSeq
<1>4. SetToSeq(S) \in Seq(S)
  BY <1>1, <1>3
<1> QED BY <1>4, SeqMonotonic

\* The order leaves none of them out.
LEMMA SetToSeqCovers ==
    ASSUME NEW S, IsFiniteSet(S)
    PROVE  ToSet(SetToSeq(S)) = S
<1> DEFINE n == Cardinality(S)
<1>1. n \in Nat /\ ExistsBijection(1 .. n, S)
  BY FS_CardinalityType
<1>2. PICK f : f \in [1 .. n -> S] /\ IsInjective(f)
  BY <1>1 DEF ExistsBijection, Bijection, Injection
<1>3. SetToSeq(S) \in [1 .. n -> S] /\ IsInjective(SetToSeq(S))
  BY <1>2 DEF SetToSeq
<1> DEFINE g == SetToSeq(S)
<1>4. g \in Injection(1 .. n, S)
  BY <1>3 DEF Injection
<1> HIDE DEF g
<1>5. IsFiniteSet(1 .. n) /\ Cardinality(1 .. n) = n
  BY <1>1, FS_Interval
<1>6. g \in Surjection(1 .. n, S)
  BY <1>4, <1>5, FS_Injection
<1>7. ToSet(g) = S
  BY <1>6 DEF Surjection, ToSet
<1> QED BY <1>7 DEF g

\* What bound_pending keeps is a list of the same elements.
LEMMA BoundedType ==
    ASSUME NEW events \in Seq(Incident)
    PROVE  Bounded(events) \in Seq(Incident) /\ Overflow(events) \in Nat
<1>1. Overflow(events) \in Nat
  BY LenProperties, RuntimeAssumption DEF Overflow
<1>2. \A i \in Overflow(events) + 1 .. Len(events) : events[i] \in Incident
  BY <1>1, ElementOfSeq, LenProperties
<1>3. Bounded(events) \in Seq(Incident)
  BY <1>1, <1>2, SubSeqProperties, LenProperties DEF Bounded
<1> QED BY <1>1, <1>3

\* The updates of one call, in an order.
LEMMA NewEventsType ==
    ASSUME NEW act \in ActiveMaps, NEW recovered \in SUBSET Open(act),
           NEW raised \in SUBSET Kinds, NEW dev \in Devices, NEW at \in Nat
    PROVE  /\ Updates(act, recovered, raised, dev, at) \subseteq Incident
           /\ IsFiniteSet(Updates(act, recovered, raised, dev, at))
           /\ SetToSeq(Updates(act, recovered, raised, dev, at)) \in Seq(Incident)
<1>1. Updates(act, recovered, raised, dev, at) \subseteq Incident
  BY UpdatesType
<1>2. IsFiniteSet(recovered) /\ IsFiniteSet(raised)
  BY RuntimeAssumption, FS_Subset DEF Open
<1>3. IsFiniteSet({Recover(act[k], at) : k \in recovered})
  <2> DEFINE image == {Recover(act[k], at) : k \in recovered}
             f == [k \in recovered |-> Recover(act[k], at)]
  <2>1. f \in Surjection(recovered, image)
    BY DEF Surjection
  <2> QED BY <1>2, <2>1, FS_Surjection
<1>4. IsFiniteSet({Raise(dev, k, at) : k \in raised})
  <2> DEFINE image == {Raise(dev, k, at) : k \in raised}
             f == [k \in raised |-> Raise(dev, k, at)]
  <2>1. f \in Surjection(raised, image)
    BY DEF Surjection
  <2> QED BY <1>2, <2>1, FS_Surjection
<1>5. IsFiniteSet(Updates(act, recovered, raised, dev, at))
  BY <1>3, <1>4, FS_Union DEF Updates
<1> QED BY <1>1, <1>5, SetToSeqType

-----------------------------------------------------------------------------
\* Types.

\* The rows after an update is stored.
LEMMA UpsertType ==
    ASSUME NEW i \in Incident, rows \subseteq Incident
    PROVE  Upsert(i) \subseteq Incident
  BY DEF Upsert, Incident

\* What a new engine is given.
LEMMA RestoredType ==
    ASSUME NEW open \in SUBSET Incident, \A i \in open : i.until = None, NEW d
    PROVE  Restored(open, d) \in ActiveMaps
<1> DEFINE of(k) == {i \in open : i.device = d /\ i.kind = k}
<1>1. ASSUME NEW k \in Kinds
      PROVE  Oldest(of(k)) = None \/ Oldest(of(k)) \in of(k)
  BY DEF Oldest
<1>2. Restored(open, d) = [k \in Kinds |-> Oldest(of(k))]
  BY DEF Restored
<1>3. \A k \in Kinds : Restored(open, d)[k] = None
                        \/ Restored(open, d)[k] \in of(k)
  BY <1>1, <1>2
<1> QED BY <1>2, <1>3 DEF ActiveMaps, Open

\* Taking over acknowledgements leaves the map well formed and the kinds open.
LEMMA MergedType ==
    ASSUME engine \in ActiveMaps, shared.active \subseteq Incident
    PROVE  Merged \in ActiveMaps /\ Open(Merged) = Open(engine)
<1>1. ASSUME NEW k \in Kinds, engine[k] # None
      PROVE  /\ Merged[k] \in Incident
             /\ Merged[k].kind = k
             /\ Merged[k].until = None
  BY <1>1 DEF Merged, ActiveMaps, Open, Incident, Same
<1>2. \A k \in Kinds : engine[k] = None => Merged[k] = None
  BY DEF Merged
<1>3. \A i \in Incident : i # None
  BY IncidentsAssumption DEF Incident
<1>4. Merged = [k \in Kinds |-> Merged[k]]
  BY DEF Merged
<1>5. Merged \in [Kinds -> Incident \cup {None}]
  BY <1>1, <1>2, <1>4
<1> QED BY <1>1, <1>2, <1>3, <1>5 DEF ActiveMaps, Open

\* A list of live incidents.
LEMMA LiveType ==
    ASSUME NEW act \in ActiveMaps
    PROVE  Live(act) \subseteq Incident
  BY DEF Live, ActiveMaps, Open

\* try_send keeps the queue a list of items within its size.
LEMMA SentType ==
    ASSUME TypeOK, NEW item \in Item, Sent(item)
    PROVE  queue' \in Seq(Item) /\ Len(queue') <= QueueSize
  BY RuntimeAssumption DEF TypeOK, Sent

LEMMA InitType == Init => TypeOK
<1> SUFFICES ASSUME Init
             PROVE  TypeOK
  OBVIOUS
<1>1. engine \in ActiveMaps
  BY DEF Init, NoneActive, ActiveMaps, Open
<1>2. shared \in Snapshot
  BY DEF Init, FirstSnapshot, Snapshot
<1>3. store \in StoreState /\ store.pc # "busy"
  BY DEF Init, IdleStore, StoreState
<1>4. produced \in Produced
  BY DEF Init, NothingProduced, Produced
<1>5. /\ pending \in Seq(Incident)
      /\ queue \in Seq(Item) /\ Len(queue) <= QueueSize
  BY RuntimeAssumption, EmptySeq DEF Init
<1>6. client \in [Clients -> Incident \cup {None}]
  BY DEF Init
<1> QED BY <1>1, <1>2, <1>3, <1>4, <1>5, <1>6 DEF Init, TypeOK

-----------------------------------------------------------------------------
\* The monitor thread keeps the types.

LEMMA OpenDeviceType ==
    ASSUME TypeOK, NEW d \in Devices, OpenDevice(d)
    PROVE  TypeOK'
<1>1. engine' \in ActiveMaps
  <2>1. ASSUME NEW open \in {OpenRows, startup}
        PROVE  Restored(open, d) \in ActiveMaps
    <3>1. open \in SUBSET Incident /\ \A i \in open : i.until = None
      BY DEF TypeOK, OpenRows
    <3> QED BY <3>1, RestoredType
  <2> QED BY <2>1 DEF TypeOK, OpenDevice
<1> QED BY <1>1 DEF TypeOK, OpenDevice, storageVars, historyVars

LEMMA OpenFailsType ==
    ASSUME TypeOK, OpenFails
    PROVE  TypeOK'
  BY DEF TypeOK, OpenFails, Snapshot, monitorVars, storageVars, historyVars

\* A device is being read.
LEMMA PollingHasDevice ==
    ASSUME TypeOK, Polling
    PROVE  current \in Devices
  BY DEF TypeOK, Polling

\* The sample that is taken, and what taking it leaves alone.
LEMMA SampleIsNew ==
    ASSUME TypeOK, TakeSample
    PROVE  /\ taken' = [device |-> current, at |-> cycle]
           /\ taken' \in Sample /\ taken'.at = cycle
           /\ produced'.samples = produced.samples \cup {taken'}
           /\ shared'.droppedSamples = shared.droppedSamples
           /\ mon \in {"opened", "top"} /\ mon' = "observed"
           /\ UNCHANGED <<device, cycle, queue, storageVars>>
<1>1. /\ Polling
      /\ \E updates : produced' = [updates |-> updates, samples |->
                                     produced.samples \cup {[device |-> current, at |-> cycle]}]
      /\ \E n : shared' = [shared EXCEPT !.droppedUpdates = n]
      /\ taken' = [device |-> current, at |-> cycle] /\ mon' = "observed"
      /\ UNCHANGED <<device, cycle, queue, storageVars>>
  BY DEF TakeSample
<1>2. current \in Devices /\ cycle \in Nat
  BY <1>1, PollingHasDevice DEF TypeOK
<1>3. taken' \in Sample /\ taken'.at = cycle
  BY <1>1, <1>2 DEF Sample
<1>4. produced'.samples = produced.samples \cup {taken'}
  BY <1>1
<1>5. shared'.droppedSamples = shared.droppedSamples
  BY <1>1 DEF TypeOK, Snapshot
<1>6. mon \in {"opened", "top"}
  BY <1>1 DEF Polling
<1> QED BY <1>1, <1>3, <1>4, <1>5, <1>6

LEMMA TakeSampleType ==
    ASSUME TypeOK, TakeSample
    PROVE  TypeOK'
<1>1. current \in Devices /\ cycle \in Nat
  BY PollingHasDevice DEF TypeOK, TakeSample
<1>2. Merged \in ActiveMaps
  BY MergedType DEF TypeOK, Snapshot
<1>3. PICK recovered \in SUBSET Kinds, raised \in SUBSET Kinds :
        /\ ObserveMay(Merged, recovered, raised)
        /\ engine' = ActiveAfter(Merged, recovered, raised, current, cycle)
        /\ LET new == Updates(Merged, recovered, raised, current, cycle)
               events == pending \o SetToSeq(new)
           IN  /\ pending' = Bounded(events)
               /\ shared' = [shared EXCEPT !.droppedUpdates = @ + Overflow(events)]
               /\ produced' = [updates |-> produced.updates \cup new,
                               samples |-> produced.samples \cup
                                           {[device |-> current, at |-> cycle]}]
  BY DEF TakeSample
<1> DEFINE new == Updates(Merged, recovered, raised, current, cycle)
           events == pending \o SetToSeq(new)
<1>4. recovered \in SUBSET Open(Merged)
  BY <1>3 DEF ObserveMay
<1>5. new \subseteq Incident /\ SetToSeq(new) \in Seq(Incident)
  BY <1>1, <1>2, <1>4, NewEventsType
<1>6. events \in Seq(Incident)
  BY <1>5, ConcatProperties DEF TypeOK
<1>7. engine' \in ActiveMaps
  BY <1>1, <1>2, <1>3, ActiveAfterType
<1>8. Bounded(events) \in Seq(Incident) /\ Overflow(events) \in Nat
  BY <1>6, BoundedType
<1>9. pending' \in Seq(Incident)
  BY <1>3, <1>8
<1>10. shared' \in Snapshot
  <2>1. PICK n \in Nat : shared' = [shared EXCEPT !.droppedUpdates = @ + n]
    BY <1>3, <1>8
  <2>2. shared \in Snapshot
    BY DEF TypeOK
  <2> QED BY <2>1, <2>2 DEF Snapshot
<1>11. produced' \in Produced
  <2>1. produced' = [updates |-> produced.updates \cup new,
                     samples |-> produced.samples \cup
                                 {[device |-> current, at |-> cycle]}]
    BY <1>3
  <2> HIDE DEF new
  <2> QED BY <2>1, <1>1, <1>5 DEF TypeOK, Sample, Produced
<1>12. taken' \in Sample /\ mon' = "observed"
  BY <1>1 DEF TakeSample, Sample
<1> QED BY <1>7, <1>9, <1>10, <1>11, <1>12 DEF TypeOK, TakeSample, storageVars

LEMMA PublishType ==
    ASSUME TypeOK, Publish
    PROVE  TypeOK'
<1> DEFINE item == [sample |-> taken, events |-> pending]
<1>1. item \in Item
  BY DEF TypeOK, Publish, Item
<1>2. queue' \in Seq(Item) /\ Len(queue') <= QueueSize
  BY <1>1, SentType DEF TypeOK, Publish, Full, Gone
<1>3. pending' \in Seq(Incident)
  BY EmptySeq DEF TypeOK, Publish
<1>4. shared' \in Snapshot
  <2>1. Live(engine) \subseteq Incident
    BY LiveType DEF TypeOK
  <2>2. taken \in Sample
    BY DEF TypeOK, Publish
  <2>3. \A sent \in BOOLEAN : Dropped(sent) \in Nat
    BY DEF TypeOK, Dropped, Snapshot
  <2>4. PICK sent \in BOOLEAN :
          shared' = [shared EXCEPT !.active = Live(engine), !.connected = TRUE,
                                   !.telemetry = taken, !.storageError = @ \/ ~sent,
                                   !.droppedSamples = Dropped(sent)]
    BY DEF Publish
  <2> QED BY <2>1, <2>2, <2>3, <2>4 DEF TypeOK, Snapshot
<1> QED BY <1>2, <1>3, <1>4 DEF TypeOK, Publish, storageVars, historyVars

LEMMA SampleFailsType ==
    ASSUME TypeOK, SampleFails
    PROVE  TypeOK'
<1> DEFINE lost == shared.telemetry
           raised == IF lost = None THEN {} ELSE LostRaises(engine)
           new == Updates(engine, {}, raised, lost.device, cycle)
           events == IF raised = {} THEN pending ELSE pending \o SetToSeq(new)
<1>1. /\ engine' = IF raised = {} THEN engine
                   ELSE ActiveAfter(engine, {}, raised, lost.device, cycle)
      /\ produced' = IF raised = {} THEN produced
                     ELSE [produced EXCEPT !.updates = @ \cup new]
      /\ IF lost = None THEN UNCHANGED <<pending, queue>>
         ELSE \/ Sent([sample |-> lost, events |-> events]) /\ pending' = <<>>
              \/ Full /\ pending' = events
              \/ Gone /\ pending' = <<>>
      /\ shared' = [shared EXCEPT !.active = Live(engine'), !.connected = FALSE,
                                  !.storageError = @ \/ (lost # None /\ Full)]
  BY DEF SampleFails
<1>2. /\ engine \in ActiveMaps /\ cycle \in Nat /\ shared \in Snapshot
      /\ produced \in Produced
      /\ pending \in Seq(Incident)
  BY DEF TypeOK
<1>3. /\ raised \subseteq Kinds
      /\ raised # {} => lost # None
      /\ lost # None => lost \in Sample /\ lost.device \in Devices
  BY <1>2, IncidentsAssumption DEF LostRaises, Snapshot, Sample
<1>4. raised # {} =>
        /\ new \subseteq Incident
        /\ events \in Seq(Incident)
        /\ ActiveAfter(engine, {}, raised, lost.device, cycle) \in ActiveMaps
  <2> SUFFICES ASSUME raised # {}
               PROVE  /\ new \subseteq Incident
                      /\ events \in Seq(Incident)
                      /\ ActiveAfter(engine, {}, raised, lost.device, cycle) \in ActiveMaps
    OBVIOUS
  <2> HIDE DEF raised, lost
  <2>1. new \subseteq Incident /\ SetToSeq(new) \in Seq(Incident)
    BY <1>2, <1>3, NewEventsType
  <2>2. events \in Seq(Incident)
    BY <2>1, <1>2, ConcatProperties
  <2>3. ActiveAfter(engine, {}, raised, lost.device, cycle) \in ActiveMaps
    BY <1>2, <1>3, ActiveAfterType
  <2> QED BY <2>1, <2>2, <2>3
<1> HIDE DEF raised, new
<1>5. engine' \in ActiveMaps
  BY <1>1, <1>2, <1>4
<1>6. produced' \in Produced
  BY <1>1, <1>2, <1>4 DEF Produced
<1>7. events \in Seq(Incident)
  BY <1>2, <1>4
<1> HIDE DEF events
<1>8. pending' \in Seq(Incident)
  BY <1>1, <1>2, <1>7, EmptySeq
<1>9. queue' \in Seq(Item) /\ Len(queue') <= QueueSize
  <2>1. lost # None => [sample |-> lost, events |-> events] \in Item
    BY <1>3, <1>7 DEF Item
  <2>2. queue \in Seq(Item) /\ Len(queue) <= QueueSize
    BY DEF TypeOK
  <2> QED BY <1>1, <2>1, <2>2, SentType DEF Full, Gone
<1>10. shared' \in Snapshot
  <2>1. Live(engine') \subseteq Incident
    BY <1>5, LiveType
  <2>2. PICK b \in BOOLEAN :
          shared' = [shared EXCEPT !.active = Live(engine'), !.connected = FALSE,
                                   !.storageError = b]
    BY <1>1, <1>2 DEF Snapshot
  <2> QED BY <2>1, <2>2, <1>2 DEF Snapshot
<1> QED
  BY <1>2, <1>5, <1>6, <1>8, <1>9, <1>10 DEF TypeOK, SampleFails, storageVars

LEMMA MonitorExitsType ==
    ASSUME TypeOK, MonitorExits
    PROVE  TypeOK'
  BY DEF TypeOK, MonitorExits, storageVars, historyVars

-----------------------------------------------------------------------------
\* The storage thread, the clients and a restart keep the types.

LEMMA StorageType ==
    ASSUME TypeOK, Storage
    PROVE  TypeOK'
<1> USE DEF monitorVars, historyVars
<1>1. CASE StorageReceives
  <2>1. Head(queue) \in Item /\ Tail(queue) \in Seq(Item) /\ Len(Tail(queue)) <= QueueSize
    BY <1>1, HeadTailProperties, RuntimeAssumption, LenProperties DEF TypeOK, StorageReceives
  <2>2. store' \in StoreState /\ store'.item \in Item
    BY <1>1, <2>1 DEF StorageReceives, StoreState
  <2>3. /\ queue' = Tail(queue)
        /\ UNCHANGED <<stop, monitorVars, shared, rows, samples, failures, startup, client,
                       restarts, historyVars>>
    BY <1>1 DEF StorageReceives
  <2> QED BY <2>1, <2>2, <2>3 DEF TypeOK
<1>2. CASE StorageRecords
  <2>1. store' \in StoreState /\ store'.item = store.item /\ store.item.sample \in Sample
    BY <1>2 DEF TypeOK, StorageRecords, StoreState, Item
  <2> QED BY <1>2, <2>1 DEF TypeOK, StorageRecords
<1>3. CASE StorageUpserts
  <2>1. store.item.events[store.done] \in Incident
    <3>1. /\ store.item.events \in Seq(Incident) /\ store.done \in Nat
          /\ 1 <= store.done /\ store.done <= Len(store.item.events)
      BY <1>3 DEF TypeOK, StorageUpserts, StoreState, Item
    <3>2. store.done \in 1 .. Len(store.item.events)
      BY <3>1, LenProperties
    <3> QED BY <3>1, <3>2, ElementOfSeq
  <2>2. rows' \subseteq Incident
    BY <1>3, <2>1, UpsertType DEF TypeOK, StorageUpserts
  <2>3. store' \in StoreState /\ store'.item = store.item
    <3>1. store \in StoreState /\ store.done \in Nat /\ store' = [store EXCEPT !.done = @ + 1]
      BY <1>3 DEF TypeOK, StorageUpserts, StoreState
    <3> QED BY <3>1 DEF StoreState
  <2> QED BY <1>3, <2>2, <2>3 DEF TypeOK, StorageUpserts
<1>4. CASE StorageCompletes
  <2>1. store' \in StoreState /\ store'.pc # "busy"
    BY <1>4 DEF StorageCompletes, StoreState, IdleStore
  <2>2. shared' \in Snapshot
    BY <1>4 DEF TypeOK, StorageCompletes, Snapshot
  <2> QED BY <1>4, <2>1, <2>2 DEF TypeOK, StorageCompletes
<1>5. CASE StorageFails
  <2>1. store' \in StoreState /\ (store'.pc = "busy" => store'.item = store.item)
    BY <1>5 DEF TypeOK, StorageFails, StoreState, Retry
  <2>2. shared' \in Snapshot
    BY <1>5 DEF TypeOK, StorageFails, Snapshot
  <2>3. queue' \in Seq(Item) /\ Len(queue') <= QueueSize
    <3>1. <<>> \in Seq(Item) /\ Len(<<>>) <= QueueSize
      BY RuntimeAssumption, EmptySeq
    <3>2. queue' = <<>> \/ queue' = queue
      BY <1>5 DEF StorageFails
    <3> QED BY <3>1, <3>2 DEF TypeOK
  <2> QED BY <1>5, <2>1, <2>2, <2>3 DEF TypeOK, StorageFails
<1>6. CASE StorageExits
  <2>1. store' \in StoreState /\ store'.pc # "busy"
    BY <1>6 DEF TypeOK, StorageExits, StoreState
  <2> QED BY <1>6, <2>1 DEF TypeOK, StorageExits
<1> QED BY <1>1, <1>2, <1>3, <1>4, <1>5, <1>6 DEF Storage

\* Marking an incident acknowledged leaves it an incident.
LEMMA AckedType ==
    ASSUME NEW S \in SUBSET Incident, NEW i
    PROVE  {IF Same(r, i) THEN [r EXCEPT !.acked = TRUE] ELSE r : r \in S} \subseteq Incident
<1>1. \A r \in Incident : [r EXCEPT !.acked = TRUE] \in Incident
  BY DEF Incident
<1> QED BY <1>1

LEMMA AcknowledgeType ==
    ASSUME TypeOK, NEW c \in Clients, Acknowledge(c)
    PROVE  TypeOK'
<1> USE DEF monitorVars, storageVars
<1>1. ASSUME NEW i \in rows, AcknowledgeRow(c, i)
      PROVE  TypeOK'
  <2>1. rows' \subseteq Incident
    BY <1>1, AckedType DEF TypeOK, AcknowledgeRow
  <2>2. client' \in [Clients -> Incident \cup {None}]
    BY <1>1 DEF TypeOK, AcknowledgeRow
  <2> QED BY <1>1, <2>1, <2>2 DEF TypeOK, AcknowledgeRow, historyVars
<1>2. CASE AcknowledgeSnapshot(c)
  <2>1. client[c] \in Incident
    BY <1>2 DEF TypeOK, AcknowledgeSnapshot
  <2>2. shared' \in Snapshot
    <3>1. {IF Same(j, client[c]) THEN [j EXCEPT !.acked = TRUE] ELSE j : j \in shared.active}
            \subseteq Incident
      BY AckedType DEF TypeOK, Snapshot
    <3>2. PICK live \in SUBSET Incident : shared' = [shared EXCEPT !.active = live]
      BY <1>2, <3>1 DEF TypeOK, AcknowledgeSnapshot, Snapshot
    <3> QED BY <3>2 DEF TypeOK, Snapshot
  <2>3. client' \in [Clients -> Incident \cup {None}]
    BY <1>2 DEF TypeOK, AcknowledgeSnapshot
  <2> QED BY <1>2, <2>1, <2>2, <2>3 DEF TypeOK, AcknowledgeSnapshot
<1> QED BY <1>1, <1>2 DEF Acknowledge

LEMMA RestartType ==
    ASSUME TypeOK, Restart
    PROVE  TypeOK'
<1>1. OpenRows \subseteq {i \in Incident : i.until = None}
  BY DEF TypeOK, OpenRows
<1>2. engine' \in ActiveMaps
  BY DEF Restart, NoneActive, ActiveMaps, Open
<1>3. shared' \in Snapshot
  BY <1>1 DEF Restart, FirstSnapshot, Snapshot
<1>4. produced' \in Produced
  BY DEF Restart, NothingProduced, Produced
<1>5. /\ pending' \in Seq(Incident)
      /\ queue' \in Seq(Item) /\ Len(queue') <= QueueSize
  BY RuntimeAssumption, EmptySeq DEF Restart
<1>6. store' \in StoreState /\ store'.pc # "busy"
  BY DEF Restart, IdleStore, StoreState
<1>7. startup' \subseteq {i \in Incident : i.until = None}
  BY <1>1 DEF Restart
<1>8. client' \in [Clients -> Incident \cup {None}]
  BY DEF Restart
<1>9. /\ stop' = FALSE /\ mon' = "top" /\ device' = None /\ current' = None
      /\ taken' = None /\ restarts' \in Nat
      /\ UNCHANGED <<rows, samples, cycle, failures, acked>>
  BY DEF TypeOK, Restart
<1> QED
  BY <1>2, <1>3, <1>4, <1>5, <1>6, <1>7, <1>8, <1>9 DEF TypeOK

\* Every reachable state of the runtime is well typed: in particular the queue
\* never exceeds STORAGE_QUEUE_SIZE and a busy storage thread has an item.
THEOREM RuntimeTypeCorrect == Spec => []TypeOK
<1>1. Init => TypeOK
  BY InitType
<1>2. TypeOK /\ [Next]_vars => TypeOK'
  <2> SUFFICES ASSUME TypeOK, [Next]_vars
               PROVE  TypeOK'
    OBVIOUS
  <2>1. CASE Monitor
    BY <2>1, OpenDeviceType, OpenFailsType, TakeSampleType, PublishType, SampleFailsType,
       MonitorExitsType
    DEF Monitor
  <2>2. CASE Storage
    BY <2>2, StorageType
  <2>3. CASE \E c \in Clients : Acknowledge(c)
    BY <2>3, AcknowledgeType
  <2>4. CASE Signal
    BY <2>4 DEF TypeOK, Signal, monitorVars, storageVars, historyVars
  <2>5. CASE Restart
    BY <2>5, RestartType
  <2>6. CASE UNCHANGED vars
    BY <2>6 DEF TypeOK, vars, monitorVars, storageVars, historyVars
  <2> QED BY <2>1, <2>2, <2>3, <2>4, <2>5, <2>6 DEF Next
<1> QED BY <1>1, <1>2, PTL DEF Spec

-----------------------------------------------------------------------------
\* Acknowledgements. An answer is given after the snapshot is marked, the
\* database is written before: between the two the client holds an incident
\* whose row is acknowledged already. That is the strengthening needed.

AckedRow(i) == \E r \in rows : Same(r, i) /\ r.acked

AckInv ==
    /\ AcknowledgementIsDurable
    /\ \A c \in Clients : client[c] # None => AckedRow(client[c])

\* Storing an update, whichever, leaves an acknowledged row acknowledged.
LEMMA UpsertKeepsAck ==
    ASSUME TypeOK, NEW u \in Incident, NEW i, AckedRow(i), rows' = Upsert(u)
    PROVE  AckedRow(i)'
<1>1. PICK r \in rows : Same(r, i) /\ r.acked
  BY DEF AckedRow
<1>2. r \in Incident
  BY DEF TypeOK
<1>3. CASE \E q \in rows : Same(q, u)
  <2> DEFINE r2 == IF Same(r, u) THEN [r EXCEPT !.until = u.until] ELSE r
  <2>1. r2 \in rows'
    BY <1>3 DEF Upsert
  <2>2. r2.acked /\ Same(r2, i)
    BY <1>1, <1>2 DEF Incident, Same
  <2> HIDE DEF r2
  <2> QED BY <2>1, <2>2 DEF AckedRow
<1>4. CASE ~ \E q \in rows : Same(q, u)
  <2>1. r \in rows'
    BY <1>4 DEF Upsert
  <2> QED BY <1>1, <2>1 DEF AckedRow
<1> QED BY <1>3, <1>4

\* So does another acknowledgement; and it acknowledges its own row.
LEMMA AcknowledgeRowAcks ==
    ASSUME TypeOK, NEW c \in Clients, NEW j \in rows, AcknowledgeRow(c, j)
    PROVE  /\ AckedRow(j)'
           /\ \A i : AckedRow(i) => AckedRow(i)'
<1> DEFINE mark(r) == IF Same(r, j) THEN [r EXCEPT !.acked = TRUE] ELSE r
<1>1. rows' = {mark(r) : r \in rows}
  BY DEF AcknowledgeRow
<1>2. \A r \in rows : /\ \A i : Same(r, i) => Same(mark(r), i)
                      /\ r.acked => mark(r).acked
                      /\ Same(r, j) => mark(r).acked
  BY DEF TypeOK, Incident, Same
<1>3. Same(j, j)
  BY DEF Same
<1> HIDE DEF mark
<1>4. AckedRow(j)'
  BY <1>1, <1>2, <1>3 DEF AckedRow
<1>5. ASSUME NEW i, AckedRow(i)
      PROVE  AckedRow(i)'
  BY <1>1, <1>2, <1>5 DEF AckedRow
<1> QED BY <1>4, <1>5

\* An acknowledgement that was answered is in the table for good.
THEOREM AcknowledgementsAreDurable == Spec => []AcknowledgementIsDurable
<1>1. Init => AckInv
  BY DEF Init, AckInv, AcknowledgementIsDurable
<1>2. TypeOK /\ AckInv /\ [Next]_vars => AckInv'
  <2> SUFFICES ASSUME TypeOK, AckInv, [Next]_vars
               PROVE  AckInv'
    OBVIOUS
  <2>1. \A i \in acked : AckedRow(i)
    BY DEF AckInv, AcknowledgementIsDurable, AckedRow
  <2>2. SUFFICES /\ \A i \in acked' : AckedRow(i)'
                 /\ \A c \in Clients : client'[c] # None => AckedRow(client[c])'
    BY DEF AckInv, AcknowledgementIsDurable, AckedRow
  <2>3. CASE UNCHANGED <<rows, acked, client>>
    BY <2>1, <2>3 DEF AckInv, AckedRow
  <2>4. CASE StorageUpserts
    <3>1. store.item.events[store.done] \in Incident
      BY <2>4, ElementOfSeq DEF TypeOK, StorageUpserts, Item
    <3>2. \A i : AckedRow(i) => AckedRow(i)'
      BY <2>4, <3>1, UpsertKeepsAck DEF StorageUpserts
    <3> QED BY <2>1, <2>4, <3>2 DEF AckInv, StorageUpserts, historyVars
  <2>5. ASSUME NEW c \in Clients, NEW j \in rows, AcknowledgeRow(c, j)
        PROVE  /\ \A i \in acked' : AckedRow(i)'
               /\ \A d \in Clients : client'[d] # None => AckedRow(client[d])'
    <3>1. AckedRow(j)' /\ \A i : AckedRow(i) => AckedRow(i)'
      BY <2>5, AcknowledgeRowAcks
    <3>2. acked' = acked /\ client' = [client EXCEPT ![c] = j]
      BY <2>5 DEF AcknowledgeRow, historyVars
    <3>3. \A d \in Clients : client'[d] = IF d = c THEN j ELSE client[d]
      BY <3>2 DEF TypeOK
    <3>4. ASSUME NEW d \in Clients, client'[d] # None
          PROVE  AckedRow(client[d])'
      <4>1. CASE d = c
        <5>1. client'[d] = j
          BY <3>3, <4>1
        <5> QED BY <3>1, <5>1 DEF AckedRow
      <4>2. CASE d # c
        <5>1. client'[d] = client[d] /\ AckedRow(client[d])
          BY <3>3, <3>4, <4>2 DEF AckInv
        <5> QED BY <3>1, <5>1 DEF AckedRow
      <4> QED BY <4>1, <4>2
    <3> QED BY <2>1, <3>1, <3>2, <3>4
  <2>6. ASSUME NEW c \in Clients, AcknowledgeSnapshot(c)
        PROVE  /\ \A i \in acked' : AckedRow(i)'
               /\ \A d \in Clients : client'[d] # None => AckedRow(client[d])'
    <3>1. /\ rows' = rows /\ client[c] # None
          /\ client' = [client EXCEPT ![c] = None]
          /\ acked' = acked \cup {client[c]}
      BY <2>6 DEF AcknowledgeSnapshot, storageVars
    <3>2. \A d \in Clients : client'[d] # None => client'[d] = client[d]
      BY <3>1 DEF TypeOK
    <3>3. AckedRow(client[c])
      BY <3>1 DEF AckInv
    <3> QED BY <2>1, <3>1, <3>2, <3>3 DEF AckInv, AckedRow
  <2>7. CASE Restart
    BY <2>1, <2>7 DEF Restart, AckedRow
  <2> USE DEF monitorVars, storageVars, historyVars
  <2>8. CASE Monitor
    <3>1. UNCHANGED <<rows, acked, client>>
      BY <2>8 DEF Monitor, OpenDevice, OpenFails, TakeSample, Publish, SampleFails, MonitorExits
    <3> QED BY <2>3, <3>1
  <2>9. CASE Storage
    <3>1. StorageUpserts \/ UNCHANGED <<rows, acked, client>>
      BY <2>9
      DEF Storage, StorageReceives, StorageRecords, StorageCompletes, StorageFails, StorageExits
    <3> QED BY <2>3, <2>4, <3>1
  <2>10. CASE Signal \/ UNCHANGED vars
    <3>1. UNCHANGED <<rows, acked, client>>
      BY <2>10 DEF Signal, vars
    <3> QED BY <2>3, <3>1
  <2> QED BY <2>5, <2>6, <2>7, <2>8, <2>9, <2>10 DEF Next, Acknowledge
<1>3. AckInv => AcknowledgementIsDurable
  BY DEF AckInv
<1> QED BY <1>1, <1>2, <1>3, RuntimeTypeCorrect, PTL DEF Spec

-----------------------------------------------------------------------------
\* The engine and its device.

\* The engine never holds a condition of a device other than the one it reads
\* (start, the engine that a changed identity gets).
THEOREM EngineFollowsDevice == Spec => []EngineIsOfDevice
<1>1. Init => EngineIsOfDevice
  BY DEF Init, EngineIsOfDevice, NoneActive, Open
<1>2. TypeOK /\ EngineIsOfDevice /\ [Next]_vars => EngineIsOfDevice'
  <2> SUFFICES ASSUME TypeOK, EngineIsOfDevice, [Next]_vars,
                      NEW k \in Kinds \ {Monitoring}, engine'[k] # None
               PROVE  engine'[k].device = current'
    BY DEF EngineIsOfDevice, Open
  <2> USE DEF monitorVars, storageVars, historyVars
  <2>1. engine[k] # None => engine[k].device = current
    BY DEF EngineIsOfDevice, Open
  <2>2. ASSUME NEW d \in Devices, OpenDevice(d)
        PROVE  engine'[k].device = current'
    <3>1. CASE current = d
      BY <2>1, <2>2, <3>1 DEF OpenDevice
    <3>2. CASE current # d
      <4>1. PICK open : engine' = Restored(open, d)
        BY <2>2, <3>2 DEF OpenDevice
      <4>2. engine'[k] = Oldest({i \in open : i.device = d /\ i.kind = k})
        BY <4>1 DEF Restored
      <4>3. engine'[k] \in {i \in open : i.device = d /\ i.kind = k}
        BY <4>2 DEF Oldest
      <4> QED BY <2>2, <4>3 DEF OpenDevice
    <3> QED BY <3>1, <3>2
  <2>3. CASE TakeSample
    <3>1. PICK recovered, raised : engine' = ActiveAfter(Merged, recovered, raised, current, cycle)
      BY <2>3 DEF TakeSample
    <3>2. Merged[k] # None => engine[k] # None /\ Merged[k].device = engine[k].device
      BY DEF Merged, TypeOK, ActiveMaps, Incident
    <3> QED BY <2>1, <2>3, <3>1, <3>2 DEF ActiveAfter, Raise, TakeSample
  <2>4. CASE SampleFails
    BY <2>1, <2>4 DEF SampleFails, ActiveAfter, LostRaises
  <2>5. CASE Restart
    BY <2>5 DEF Restart, NoneActive
  <2>6. CASE UNCHANGED <<engine, current>>
    BY <2>1, <2>6
  <2>7. CASE OpenFails \/ Publish \/ MonitorExits
    BY <2>6, <2>7 DEF OpenFails, Publish, MonitorExits
  <2>8. CASE Storage
    BY <2>6, <2>8 DEF Storage, StorageReceives, StorageRecords, StorageUpserts, StorageCompletes,
                      StorageFails, StorageExits
  <2>9. CASE Signal \/ (\E c \in Clients : Acknowledge(c)) \/ UNCHANGED vars
    BY <2>6, <2>9 DEF Signal, Acknowledge, AcknowledgeRow, AcknowledgeSnapshot, vars
  <2> QED BY <2>2, <2>3, <2>4, <2>5, <2>7, <2>8, <2>9 DEF Next, Monitor
<1> QED BY <1>1, <1>2, RuntimeTypeCorrect, PTL DEF Spec

-----------------------------------------------------------------------------
\* What goes out to storage.

\* Between two samples none is held; what the item in hand has done is done; and
\* the storage thread leaves an empty queue only when the monitor has ended.
ThreadsInv ==
    /\ mon # "observed" => taken = None
    /\ store.pc = "busy" /\ store.done > 0 => store.item.sample \in samples
    /\ store.pc = "drained" => mon = "exited"

LEMMA ThreadsInvStep ==
    ASSUME TypeOK, ThreadsInv, [Next]_vars
    PROVE  ThreadsInv'
<1> USE DEF monitorVars, storageVars, historyVars
<1>1. CASE Monitor
  BY <1>1 DEF ThreadsInv, Monitor, OpenDevice, OpenFails, TakeSample, Publish, SampleFails,
              MonitorExits, Polling
<1>2. CASE Storage
  BY <1>2 DEF TypeOK, StoreState, ThreadsInv, Storage, StorageReceives, StorageRecords, StorageUpserts,
              StorageCompletes, StorageFails, StorageExits, IdleStore, Retry
<1>3. CASE Restart
  BY <1>3 DEF ThreadsInv, Restart, IdleStore
<1>4. CASE Signal \/ (\E c \in Clients : Acknowledge(c)) \/ UNCHANGED vars
  BY <1>4 DEF ThreadsInv, Signal, Acknowledge, AcknowledgeRow, AcknowledgeSnapshot, vars
<1> QED BY <1>1, <1>2, <1>3, <1>4 DEF Next

THEOREM ThreadsAgree == Spec => []ThreadsInv
<1>1. Init => ThreadsInv
  BY DEF Init, ThreadsInv, IdleStore
<1> QED BY <1>1, ThreadsInvStep, RuntimeTypeCorrect, PTL DEF Spec

\* Storage that gave up stays so until the daemon starts again.
LEMMA FailedStays ==
    ASSUME TypeOK, [Next]_vars, store.pc = "failed"
    PROVE  Restart \/ store'.pc = "failed"
  BY DEF Next, Monitor, OpenDevice, OpenFails, TakeSample, Publish, SampleFails, MonitorExits,
         Storage, StorageReceives, StorageRecords, StorageUpserts, StorageCompletes, StorageFails,
         StorageExits, Signal, Acknowledge, AcknowledgeRow, AcknowledgeSnapshot, vars, storageVars

\* What try_send accepts is one element more, and the queue changes only then.
LEMMA SentGrows ==
    ASSUME TypeOK, NEW item, Sent(item)
    PROVE  /\ queue' # queue
           /\ DOMAIN queue = 1 .. Len(queue) /\ DOMAIN queue' = 1 .. Len(queue) + 1
           /\ Len(queue) \in Nat /\ Len(queue') = Len(queue) + 1
           /\ queue'[Len(queue) + 1] = item
           /\ \A n \in DOMAIN queue : queue'[n] = queue[n]
  BY DEF TypeOK, Sent

\* What the storage thread takes is the oldest element.
LEMMA ReceivedShrinks ==
    ASSUME TypeOK, StorageReceives
    PROVE  /\ DOMAIN queue = 1 .. Len(queue) /\ DOMAIN queue' = 1 .. Len(queue) - 1
           /\ Len(queue) \in Nat /\ Len(queue) > 0 /\ Len(queue') = Len(queue) - 1
           /\ store'.item = queue[1] /\ store'.done = 0 /\ store'.pc = "busy"
           /\ \A n \in DOMAIN queue' : queue'[n] = queue[n + 1]
  BY DEF TypeOK, StorageReceives

\* A part of a set that a number bounds is bounded too.
LEMMA PartIsBounded ==
    ASSUME NEW S, IsFiniteSet(S), NEW T, T \subseteq S, NEW n \in Nat, Cardinality(S) <= n
    PROVE  IsFiniteSet(T) /\ Cardinality(T) <= n
<1>1. IsFiniteSet(T) /\ Cardinality(T) <= Cardinality(S)
  BY FS_Subset
<1>2. Cardinality(S) \in Nat /\ Cardinality(T) \in Nat
  BY <1>1, FS_CardinalityType
<1> QED BY <1>1, <1>2

-----------------------------------------------------------------------------
\* Samples.

LostSamples == {s \in produced.samples : ~Kept(s)}
SamplesInv == IsFiniteSet(produced.samples) /\ NoSampleLostUnnoticed

\* A step that produces nothing and lets go of no sample loses none.
LEMMA NoSampleLetGo ==
    ASSUME TypeOK, SamplesInv, store.pc # "failed",
           produced'.samples = produced.samples,
           shared'.droppedSamples = shared.droppedSamples,
           \A s \in Sample : Kept(s) => Kept(s)'
    PROVE  SamplesInv'
<1>1. produced.samples \subseteq Sample /\ shared.droppedSamples \in Nat
  BY DEF TypeOK, Produced, Snapshot
<1>2. LostSamples' \subseteq LostSamples
  BY <1>1 DEF LostSamples
<1>3. IsFiniteSet(LostSamples) /\ Cardinality(LostSamples) <= shared.droppedSamples
  BY FS_Subset DEF LostSamples, SamplesInv, NoSampleLostUnnoticed
<1>4. Cardinality(LostSamples') <= shared.droppedSamples
  BY <1>1, <1>2, <1>3, PartIsBounded
<1> QED BY <1>4 DEF SamplesInv, NoSampleLostUnnoticed, LostSamples

\* A new sample is the one in hand.
LEMMA TakeSampleLosesNone ==
    ASSUME TypeOK, ThreadsInv, SamplesInv, TakeSample, store.pc # "failed"
    PROVE  SamplesInv'
<1> DEFINE new == [device |-> current, at |-> cycle]
<1>1. /\ produced'.samples = produced.samples \cup {new} /\ taken' = new
      /\ UNCHANGED <<queue, storageVars>>
      /\ shared'.droppedSamples = shared.droppedSamples
  BY SampleIsNew
<1> HIDE DEF new
<1>2. taken = None
  BY DEF TakeSample, Polling, ThreadsInv
<1>3. produced.samples \subseteq Sample /\ None \notin Sample /\ shared.droppedSamples \in Nat
  BY RuntimeAssumption DEF TypeOK, Produced, Snapshot, Sample
<1>4. LostSamples' \subseteq LostSamples
  <2>1. ASSUME NEW s, s = new
        PROVE  Kept(s)'
    BY <1>1, <2>1 DEF Kept
  <2>2. ASSUME NEW s \in produced.samples, Kept(s)
        PROVE  Kept(s)'
    <3>1. s # taken
      BY <1>2, <1>3
    <3>2. UNCHANGED <<queue, store, samples>>
      BY <1>1 DEF storageVars
    <3> QED BY <2>2, <3>1, <3>2 DEF Kept
  <2> QED BY <1>1, <2>1, <2>2 DEF LostSamples
<1>5. IsFiniteSet(LostSamples) /\ Cardinality(LostSamples) <= shared.droppedSamples
  BY FS_Subset DEF LostSamples, SamplesInv, NoSampleLostUnnoticed
<1>6. Cardinality(LostSamples') <= shared.droppedSamples
  BY <1>3, <1>4, <1>5, PartIsBounded
<1>7. IsFiniteSet(produced'.samples)
  BY <1>1, FS_AddElement DEF SamplesInv
<1> QED BY <1>1, <1>6, <1>7 DEF SamplesInv, NoSampleLostUnnoticed, LostSamples

\* The sample in hand goes into the queue, or is counted.
LEMMA PublishLosesNone ==
    ASSUME TypeOK, SamplesInv, Publish, store.pc # "failed"
    PROVE  SamplesInv'
<1>1. produced.samples \subseteq Sample /\ shared.droppedSamples \in Nat
  BY DEF TypeOK, Produced, Snapshot
<1>2. UNCHANGED <<storageVars, historyVars>>
  BY DEF Publish
<1>3. IsFiniteSet(LostSamples) /\ Cardinality(LostSamples) <= shared.droppedSamples
  BY FS_Subset DEF LostSamples, SamplesInv, NoSampleLostUnnoticed
<1>4. CASE Sent([sample |-> taken, events |-> pending])
  <2>1. shared'.droppedSamples = shared.droppedSamples
    BY <1>4, SentGrows DEF Publish, TypeOK, Snapshot, Dropped
  <2>2. \A s \in Sample : Kept(s) => Kept(s)'
    BY <1>2, <1>4, SentGrows DEF Kept, storageVars
  <2> QED BY <1>2, <2>1, <2>2, NoSampleLetGo DEF historyVars
<1>5. CASE queue' = queue
  <2>1. shared'.droppedSamples = shared.droppedSamples + 1
    BY <1>5 DEF Publish, TypeOK, Snapshot, Dropped
  <2>2. LostSamples' \subseteq LostSamples \cup {taken}
    BY <1>2, <1>5 DEF LostSamples, Kept, storageVars, historyVars
  <2>3. /\ IsFiniteSet(LostSamples \cup {taken})
        /\ Cardinality(LostSamples \cup {taken}) <= shared.droppedSamples + 1
    <3>1. Cardinality(LostSamples) \in Nat
      BY <1>3, FS_CardinalityType
    <3>2. /\ IsFiniteSet(LostSamples \cup {taken})
          /\ \/ Cardinality(LostSamples \cup {taken}) = Cardinality(LostSamples)
             \/ Cardinality(LostSamples \cup {taken}) = Cardinality(LostSamples) + 1
      BY <1>3, FS_AddElement
    <3> QED BY <1>1, <1>3, <3>1, <3>2
  <2>4. Cardinality(LostSamples') <= shared.droppedSamples + 1
    BY <1>1, <2>2, <2>3, PartIsBounded
  <2> QED BY <1>2, <2>1, <2>4 DEF SamplesInv, NoSampleLostUnnoticed, LostSamples, historyVars
<1> QED BY <1>4, <1>5 DEF Publish, Full, Gone

\* The storage thread lets go of a sample only after it is in the table.
LEMMA StorageLosesNoSample ==
    ASSUME TypeOK, ThreadsInv, SamplesInv, Storage, store.pc # "failed", store'.pc # "failed"
    PROVE  SamplesInv'
<1>1. produced' = produced /\ taken' = taken
      /\ shared'.droppedSamples = shared.droppedSamples
  BY DEF Storage, StorageReceives, StorageRecords, StorageUpserts, StorageCompletes, StorageFails,
         StorageExits, historyVars, monitorVars, TypeOK, Snapshot
<1>2. ASSUME NEW s \in Sample, Kept(s)
      PROVE  Kept(s)'
  <2>1. CASE StorageReceives
    <3>1. samples' = samples
      BY <2>1 DEF StorageReceives
    <3>2. ASSUME NEW n \in DOMAIN queue, queue[n].sample = s
          PROVE  Kept(s)'
      <4>1. CASE n = 1
        BY <2>1, <3>2, <4>1, ReceivedShrinks DEF Kept
      <4>2. CASE n # 1
        <5>1. n - 1 \in DOMAIN queue' /\ queue'[n - 1] = queue[n]
          BY <2>1, <4>2, ReceivedShrinks
        <5> QED BY <3>2, <5>1 DEF Kept
      <4> QED BY <4>1, <4>2
    <3>3. store.pc # "busy"
      BY <2>1 DEF StorageReceives
    <3> QED BY <1>1, <1>2, <3>1, <3>2, <3>3 DEF Kept
  <2>2. CASE StorageRecords \/ StorageUpserts
    BY <1>1, <1>2, <2>2 DEF StorageRecords, StorageUpserts, Kept, TypeOK, StoreState
  <2>3. CASE StorageCompletes
    <3>1. store.done > 0
      BY <2>3 DEF StorageCompletes, TypeOK, StoreState, Item
    <3>2. store.pc = "busy" /\ store.item.sample \in samples
      BY <2>3, <3>1 DEF StorageCompletes, ThreadsInv
    <3> QED BY <1>1, <1>2, <2>3, <3>2 DEF StorageCompletes, Kept
  <2>4. CASE StorageFails
    <3>1. ~stop /\ store.pc = "busy" /\ UNCHANGED <<queue, samples>>
      BY <2>4 DEF StorageFails
    <3>2. store'.pc = store.pc /\ store'.item = store.item
      BY <2>4, <3>1 DEF StorageFails, Retry, TypeOK, StoreState
    <3> QED BY <1>1, <1>2, <3>1, <3>2 DEF Kept
  <2>5. CASE StorageExits
    <3>1. store.pc # "busy" /\ UNCHANGED <<queue, samples>>
      BY <2>5 DEF StorageExits
    <3> QED BY <1>1, <1>2, <3>1 DEF Kept
  <2> QED BY <2>1, <2>2, <2>3, <2>4, <2>5 DEF Storage
<1> QED BY <1>1, <1>2, NoSampleLetGo

\* Every sample is stored, on its way, or counted as dropped (start, the
\* try_send of a sample; the storage thread, which repeats an item as a whole).
THEOREM NoSampleIsLost == Spec => []NoSampleLostUnnoticed
<1>1. Init => SamplesInv
  BY FS_EmptySet DEF Init, SamplesInv, NoSampleLostUnnoticed, NothingProduced, FirstSnapshot
<1>2. TypeOK /\ ThreadsInv /\ SamplesInv /\ [Next]_vars => SamplesInv'
  <2> SUFFICES ASSUME TypeOK, ThreadsInv, SamplesInv, [Next]_vars PROVE SamplesInv'
    OBVIOUS
  <2>1. CASE Restart
    BY <2>1, FS_EmptySet
    DEF Restart, SamplesInv, NoSampleLostUnnoticed, NothingProduced, FirstSnapshot
  <2>2. CASE store'.pc = "failed" /\ ~Restart
    <3>1. IsFiniteSet(produced'.samples)
      <4>1. produced'.samples = produced.samples
            \/ produced'.samples = produced.samples \cup {[device |-> current, at |-> cycle]}
        BY <2>2
        DEF Next, Monitor, OpenDevice, OpenFails, TakeSample, Publish, SampleFails, MonitorExits,
            Storage, StorageReceives, StorageRecords, StorageUpserts, StorageCompletes,
            StorageFails, StorageExits, Signal, Acknowledge, AcknowledgeRow,
            AcknowledgeSnapshot, vars, historyVars, TypeOK, Produced
      <4> QED BY <4>1, FS_AddElement DEF SamplesInv
    <3> QED BY <2>2, <3>1 DEF SamplesInv, NoSampleLostUnnoticed
  <2> SUFFICES ASSUME ~Restart, store.pc # "failed", store'.pc # "failed" PROVE SamplesInv'
    BY <2>1, <2>2, FailedStays
  <2> DEFINE Quiet == /\ produced'.samples = produced.samples
                      /\ shared'.droppedSamples = shared.droppedSamples
                      /\ \A s \in Sample : Kept(s) => Kept(s)'
  <2>3. CASE Storage
    BY <2>3, StorageLosesNoSample
  <2>4. CASE TakeSample \/ Publish
    BY <2>4, TakeSampleLosesNone, PublishLosesNone
  <2>5. CASE SampleFails
    <3>1. /\ UNCHANGED <<taken, storageVars>>
          /\ produced'.samples = produced.samples
          /\ shared'.droppedSamples = shared.droppedSamples
      BY <2>5 DEF SampleFails, TypeOK, Produced, Snapshot
    <3>2. queue' = queue \/ \E item : Sent(item)
      BY <2>5 DEF SampleFails, Full, Gone
    <3>3. \A n \in DOMAIN queue : n \in DOMAIN queue' /\ queue'[n] = queue[n]
      BY <3>2, SentGrows
    <3> QED BY <3>1, <3>3, NoSampleLetGo DEF Kept, storageVars
  <2>6. CASE (\E d \in Devices : OpenDevice(d)) \/ OpenFails \/ MonitorExits \/ Signal
             \/ (\E c \in Clients : Acknowledge(c)) \/ UNCHANGED vars
    <3>1. UNCHANGED <<produced, taken, queue, store, samples>>
          /\ shared'.droppedSamples = shared.droppedSamples
      BY <2>6 DEF OpenDevice, OpenFails, MonitorExits, Signal, Acknowledge, AcknowledgeRow,
                  AcknowledgeSnapshot, vars, monitorVars, storageVars, historyVars, TypeOK, Snapshot
    <3> QED BY <3>1, NoSampleLetGo DEF Kept
  <2> QED BY <2>3, <2>4, <2>5, <2>6 DEF Next, Monitor
<1>3. SamplesInv => NoSampleLostUnnoticed
  BY DEF SamplesInv
<1> QED BY <1>1, <1>2, <1>3, RuntimeTypeCorrect, ThreadsAgree, PTL DEF Spec

-----------------------------------------------------------------------------
\* Updates.

\* When what an update tells of happened, and when the last update can have been
\* made: the cycle counts on as soon as the sample of a cycle is published.
When(u) == IF u.until = None THEN u.at ELSE u.until
Latest == IF mon = "observed" THEN cycle ELSE cycle - 1

\* The parcels in which updates travel, the oldest first: the item of the storage
\* thread, those of the queue, and what is pending.
Parcels == 0 .. Len(queue) + 1
Parcel(n) ==
    IF n = 0 THEN IF store.pc = "busy" THEN store.item.events ELSE <<>>
    ELSE IF n <= Len(queue) THEN queue[n].events ELSE pending

\* An update of up to that time, and a recovery only later than its raise.
Dated(u, t) == /\ u.at <= t /\ When(u) <= t
               /\ u.until # None => u.at < u.until
InOrder(s) == \A p, q \in DOMAIN s : p < q => When(s[p]) <= When(s[q])

RowsArePast == \A r \in rows \cup startup : r.at < cycle

\* Updates travel in the order in which they are made.
Ordered ==
    /\ \A k \in Open(engine) : engine[k].at <= Latest
    /\ \A u \in produced.updates : Dated(u, Latest)
    /\ \A n \in Parcels : /\ InOrder(Parcel(n))
                          /\ \A u \in ToSet(Parcel(n)) : Dated(u, Latest)
    /\ \A n \in 0 .. Len(queue) : \A u \in ToSet(Parcel(n)) : u.at < cycle

\* D is what was dropped: no more than was counted. Every other update is stored
\* or on its way, and it travels in no earlier parcel than what is older: nothing
\* that is stored later, or stored again, undoes it.
Accounted(D) ==
    /\ IsFiniteSet(D) /\ Cardinality(D) <= shared.droppedUpdates
    /\ \A u \in produced.updates \ D : Stored(u) \/ u \in OnTheWay
    /\ \A u \in produced.updates \ D, n \in Parcels : \A e \in ToSet(Parcel(n)) :
         When(e) < When(u) => \E m \in Parcels : m >= n /\ u \in ToSet(Parcel(m))

UpdatesInv ==
    /\ RowsArePast
    /\ store.pc # "failed" => Ordered /\ \E D : Accounted(D)

\* A parcel is a list of updates.
LEMMA ParcelType ==
    ASSUME TypeOK, NEW n \in Parcels
    PROVE  Parcel(n) \in Seq(Incident)
<1>1. CASE n = 0
  BY <1>1, EmptySeq DEF TypeOK, Item, Parcel
<1>2. CASE n # 0 /\ n <= Len(queue)
  <2>1. n \in 1 .. Len(queue) /\ queue \in Seq(Item)
    BY <1>2 DEF TypeOK, Parcels
  <2>2. queue[n] \in Item
    BY <2>1, ElementOfSeq
  <2> QED BY <1>2, <2>2 DEF Item, Parcel
<1>3. CASE n # 0 /\ ~(n <= Len(queue))
  BY <1>3 DEF TypeOK, Parcel
<1> QED BY <1>1, <1>2, <1>3

\* What is on the way, by parcel.
LEMMA OnTheWayByParcel ==
    ASSUME TypeOK, NEW u
    PROVE  u \in OnTheWay <=>
             \/ \E p \in DOMAIN Parcel(0) : p >= store.done /\ u = Parcel(0)[p]
             \/ \E n \in 1 .. Len(queue) + 1 : u \in ToSet(Parcel(n))
<1>1. u \in InItem <=> \E p \in DOMAIN Parcel(0) : p >= store.done /\ u = Parcel(0)[p]
  BY DEF InItem, ToDo, Parcel
<1>2. u \in InQueue <=> \E n \in 1 .. Len(queue) : u \in ToSet(Parcel(n))
  BY DEF InQueue, Parcel, TypeOK
<1>3. u \in ToSet(pending) <=> u \in ToSet(Parcel(Len(queue) + 1))
  BY DEF Parcel, TypeOK
<1>4. Len(queue) \in Nat
  BY DEF TypeOK
<1> QED BY <1>1, <1>2, <1>3, <1>4 DEF OnTheWay

\* A step that makes no update and moves none between the parcels keeps the
\* account if all that is stored or on the way remains the one or the other.
LEMMA QuietStep ==
    ASSUME TypeOK, Ordered, NEW D, Accounted(D),
           UNCHANGED <<queue, pending, cycle, Latest>>,
           produced'.updates = produced.updates,
           shared'.droppedUpdates = shared.droppedUpdates,
           store'.pc = "busy" <=> store.pc = "busy",
           store.pc = "busy" => store'.item = store.item,
           \A k \in Open(engine)' : engine'[k].at <= Latest,
           \A u \in produced.updates \ D :
              Stored(u) \/ u \in OnTheWay => Stored(u)' \/ u \in OnTheWay'
    PROVE  Ordered' /\ Accounted(D)'
<1>1. Parcels' = Parcels /\ \A n \in Parcels : Parcel(n)' = Parcel(n)
  BY DEF Parcels, Parcel
<1>2. Ordered'
  BY <1>1 DEF Ordered, Dated, Parcels
<1>3. Accounted(D)'
  BY <1>1 DEF Accounted
<1> QED BY <1>2, <1>3

-----------------------------------------------------------------------------
\* New updates, and what is sent.

\* A list is extended by seq and loses its first drop elements.
Shifted(ev, list, seq, drop) ==
    /\ drop <= Len(list) + Len(seq)
    /\ Len(ev) = Len(list) + Len(seq) - drop
    /\ \A i \in 1 .. Len(ev) :
         ev[i] = IF i + drop <= Len(list) THEN list[i + drop] ELSE seq[i + drop - Len(list)]

LEMMA BoundedShifts ==
    ASSUME NEW list \in Seq(Incident), NEW seq \in Seq(Incident)
    PROVE  /\ Overflow(list \o seq) \in Nat
           /\ Shifted(Bounded(list \o seq), list, seq, Overflow(list \o seq))
           /\ Shifted(list \o seq, list, seq, 0)
           /\ Shifted(list, list, <<>>, 0)
<1> DEFINE all == list \o seq
           drop == Overflow(all)
<1>1. /\ all \in Seq(Incident) /\ Len(all) = Len(list) + Len(seq)
      /\ \A i \in 1 .. Len(all) : all[i] = IF i <= Len(list) THEN list[i] ELSE seq[i - Len(list)]
  BY ConcatProperties
<1>2. Len(list) \in Nat /\ Len(seq) \in Nat
  BY LenProperties
<1> HIDE DEF all
<1>3. drop \in Nat /\ drop <= Len(all)
  BY <1>1, <1>2, RuntimeAssumption DEF Overflow
<1>4. Bounded(all) = SubSeq(all, drop + 1, Len(all))
  BY DEF Bounded
<1> HIDE DEF drop
<1>5. \A i \in drop + 1 .. Len(all) : all[i] \in Incident
  BY <1>1, <1>3, ElementOfSeq, LenProperties
<1>6. /\ Len(Bounded(all)) = Len(all) - drop
      /\ \A i \in 1 .. Len(all) - drop : Bounded(all)[i] = all[i + drop]
  <2>1. Len(all) \in Nat
    BY <1>1, <1>2
  <2>2. /\ Len(SubSeq(all, drop + 1, Len(all))) =
              IF drop + 1 <= Len(all) THEN Len(all) - (drop + 1) + 1 ELSE 0
        /\ \A i \in 1 .. Len(all) - (drop + 1) + 1 :
              SubSeq(all, drop + 1, Len(all))[i] = all[drop + 1 + i - 1]
    <3>1. drop + 1 \in Int /\ Len(all) \in Int
      BY <1>3, <2>1
    <3> QED BY <1>5, <3>1, SubSeqProperties
  <2> DEFINE len == Len(all)
             part == SubSeq(all, drop + 1, len)
  <2>3. /\ Len(part) = IF drop + 1 <= len THEN len - (drop + 1) + 1 ELSE 0
        /\ \A i \in 1 .. len - (drop + 1) + 1 : part[i] = all[drop + 1 + i - 1]
        /\ Bounded(all) = part /\ len \in Nat /\ drop \in Nat /\ drop <= len
    BY <1>3, <1>4, <2>1, <2>2
  <2> HIDE DEF len, part
  <2>4. Len(part) = len - drop
    BY <2>3
  <2>5. ASSUME NEW i \in 1 .. len - drop
        PROVE  part[i] = all[i + drop]
    <3>1. i \in 1 .. len - (drop + 1) + 1 /\ drop + 1 + i - 1 = i + drop
      BY <2>3
    <3> QED BY <2>3, <3>1
  <2> QED BY <2>3, <2>4, <2>5 DEF len
<1>7. Shifted(Bounded(all), list, seq, drop)
  BY <1>1, <1>2, <1>3, <1>6 DEF Shifted
<1>8. Shifted(all, list, seq, 0)
  BY <1>1, <1>2 DEF Shifted
<1>9. Shifted(list, list, <<>>, 0)
  BY <1>2 DEF Shifted
<1> QED BY <1>3, <1>7, <1>8, <1>9 DEF all, drop

\* What is dropped is no more than the number that counts it, and all the rest
\* of what was pending and of what is new is in the list.
LEMMA ShiftedDrops ==
    ASSUME NEW list \in Seq(Incident), NEW seq \in Seq(Incident), NEW ev \in Seq(Incident),
           NEW drop \in Nat, Shifted(ev, list, seq, drop)
    PROVE  /\ ToSet(ev) \subseteq ToSet(list) \cup ToSet(seq)
           /\ \E gone : /\ IsFiniteSet(gone) /\ Cardinality(gone) <= drop
                        /\ ToSet(list) \cup ToSet(seq) \subseteq gone \cup ToSet(ev)
<1>1. /\ Len(list) \in Nat /\ Len(seq) \in Nat /\ Len(ev) \in Nat
      /\ DOMAIN list = 1 .. Len(list) /\ DOMAIN seq = 1 .. Len(seq) /\ DOMAIN ev = 1 .. Len(ev)
  <2>1. Len(list) \in Nat /\ DOMAIN list = 1 .. Len(list)
    BY LenProperties
  <2>2. Len(seq) \in Nat /\ DOMAIN seq = 1 .. Len(seq)
    BY LenProperties
  <2>3. Len(ev) \in Nat /\ DOMAIN ev = 1 .. Len(ev)
    BY LenProperties
  <2> QED BY <2>1, <2>2, <2>3
<1> DEFINE at(i) == IF i <= Len(list) THEN list[i] ELSE seq[i - Len(list)]
           gone == {at(i) : i \in 1 .. drop}
           f == [i \in 1 .. drop |-> at(i)]
<1>0. drop <= Len(list) + Len(seq) /\ Len(ev) = Len(list) + Len(seq) - drop
  BY DEF Shifted
<1>2. ASSUME NEW i \in 1 .. Len(ev)
      PROVE  ev[i] = at(i + drop)
  BY DEF Shifted
<1>3. ToSet(ev) \subseteq ToSet(list) \cup ToSet(seq)
  <2>1. ASSUME NEW i \in 1 .. Len(ev)
        PROVE  ev[i] \in ToSet(list) \cup ToSet(seq)
    <3>1. CASE i + drop <= Len(list)
      BY <1>1, <1>2, <3>1 DEF ToSet
    <3>2. CASE ~(i + drop <= Len(list))
      <4>1. i + drop - Len(list) \in 1 .. Len(seq)
        BY <1>0, <1>1, <3>2
      <4>2. ev[i] = seq[i + drop - Len(list)]
        BY <1>2, <3>2
      <4> HIDE DEF at, gone, f
      <4> QED BY <1>1, <4>1, <4>2 DEF ToSet
    <3> QED BY <3>1, <3>2
  <2> QED BY <1>1, <2>1 DEF ToSet
<1>4. IsFiniteSet(gone) /\ Cardinality(gone) <= drop
  <2>1. f \in Surjection(1 .. drop, gone)
    BY DEF Surjection
  <2>2. ExistsSurjection(1 .. drop, gone)
    BY <2>1 DEF ExistsSurjection
  <2> HIDE DEF gone, f
  <2>3. IsFiniteSet(1 .. drop)
    BY FS_Interval
  <2> QED BY <2>1, <2>2, <2>3, FS_SurjCardinalityBound, FS_Surjection
<1>5. \A j \in 1 .. Len(list) + Len(seq) : at(j) \in gone \cup ToSet(ev)
  <2> SUFFICES ASSUME NEW j \in 1 .. Len(list) + Len(seq), ~(j <= drop)
               PROVE  at(j) \in ToSet(ev)
    BY <1>1
  <2>1. j - drop \in 1 .. Len(ev) /\ (j - drop) + drop = j
    BY <1>1 DEF Shifted
  <2>2. ev[j - drop] = at(j)
    BY <1>2, <2>1
  <2> QED BY <1>1, <2>1, <2>2 DEF ToSet
<1>6. ToSet(list) \subseteq gone \cup ToSet(ev)
  <2>1. \A j \in 1 .. Len(list) : j \in 1 .. Len(list) + Len(seq) /\ at(j) = list[j]
    BY <1>1
  <2> HIDE DEF at, gone
  <2> QED BY <1>1, <1>5, <2>1 DEF ToSet
<1>7. ToSet(seq) \subseteq gone \cup ToSet(ev)
  <2>1. \A j \in 1 .. Len(seq) : /\ j + Len(list) \in 1 .. Len(list) + Len(seq)
                                 /\ at(j + Len(list)) = seq[j]
    BY <1>1
  <2> HIDE DEF at, gone
  <2> QED BY <1>1, <1>5, <2>1 DEF ToSet
<1> HIDE DEF gone
<1> QED BY <1>3, <1>4, <1>6, <1>7

\* The list stays in order when what is new is of now.
LEMMA ShiftedInOrder ==
    ASSUME NEW list \in Seq(Incident), NEW seq \in Seq(Incident), NEW ev \in Seq(Incident),
           NEW drop \in Nat, Shifted(ev, list, seq, drop), NEW t \in Int,
           InOrder(list), \A u \in ToSet(list) : When(u) <= t, \A u \in ToSet(seq) : When(u) = t
    PROVE  InOrder(ev)
<1>1. /\ Len(list) \in Nat /\ Len(seq) \in Nat /\ Len(ev) \in Nat
      /\ DOMAIN list = 1 .. Len(list) /\ DOMAIN seq = 1 .. Len(seq) /\ DOMAIN ev = 1 .. Len(ev)
  BY LenProperties
<1> SUFFICES ASSUME NEW p \in 1 .. Len(ev), NEW q \in 1 .. Len(ev), p < q
             PROVE  When(ev[p]) <= When(ev[q])
  BY <1>1 DEF InOrder
<1>2. CASE q + drop <= Len(list)
  <2>1. p + drop \in 1 .. Len(list) /\ q + drop \in 1 .. Len(list) /\ p + drop < q + drop
    BY <1>1, <1>2
  <2>2. ev[p] = list[p + drop] /\ ev[q] = list[q + drop]
    BY <1>1, <1>2, <2>1 DEF Shifted
  <2> QED BY <1>1, <2>1, <2>2 DEF InOrder
<1>3. CASE ~(q + drop <= Len(list))
  <2>1. q + drop - Len(list) \in 1 .. Len(seq)
    BY <1>1, <1>3 DEF Shifted
  <2>2. When(ev[q]) = t
    BY <1>1, <1>3, <2>1 DEF Shifted, ToSet
  <2>3. CASE p + drop <= Len(list)
    <3>1. p + drop \in 1 .. Len(list)
      BY <1>1, <2>3
    <3>2. ev[p] = list[p + drop]
      BY <2>3 DEF Shifted
    <3>3. When(ev[p]) <= t
      BY <1>1, <3>1, <3>2 DEF ToSet
    <3> QED BY <2>2, <3>3
  <2>4. CASE ~(p + drop <= Len(list))
    <3>1. p + drop - Len(list) \in 1 .. Len(seq)
      BY <1>1, <2>4 DEF Shifted
    <3>2. When(ev[p]) = t
      BY <1>1, <2>4, <3>1 DEF Shifted, ToSet
    <3> QED BY <2>2, <3>2
  <2> QED BY <2>3, <2>4
<1> QED BY <1>2, <1>3

\* What is pending is extended, and stays or is sent: the queue is the same, or
\* one item longer and nothing is pending.
Extended(ev) ==
    \/ queue' = queue /\ pending' = ev
    \/ \E s \in Sample : Sent([sample |-> s, events |-> ev]) /\ pending' = <<>>

LEMMA ExtendedParcels ==
    ASSUME TypeOK, TypeOK', NEW ev \in Seq(Incident), Extended(ev), store' = store,
           NEW l, l = Len(queue)
    PROVE  /\ l \in Nat /\ Len(queue') \in Nat
           /\ Len(queue') = l \/ Len(queue') = l + 1
           /\ queue' = queue => Len(queue') = l
           /\ \A n \in 0 .. l : Parcel(n)' = Parcel(n)
           /\ Parcel(l + 1)' = ev
           /\ Parcel(l + 1) = pending
           /\ \A n \in Parcels' : n > l + 1 => Parcel(n)' = <<>>
<1>1. l \in Nat /\ DOMAIN queue = 1 .. l /\ Parcel(l + 1) = pending
  BY DEF TypeOK, Parcel
<1>2. CASE queue' = queue /\ pending' = ev
  BY <1>1, <1>2 DEF Parcels, Parcel
<1>3. ASSUME NEW s \in Sample, Sent([sample |-> s, events |-> ev]), pending' = <<>>
      PROVE  /\ Len(queue') = l + 1
             /\ queue' # queue
             /\ \A n \in 0 .. l : Parcel(n)' = Parcel(n)
             /\ Parcel(l + 1)' = ev
             /\ \A n \in Parcels' : n > l + 1 => Parcel(n)' = <<>>
  <2>1. /\ Len(queue') = l + 1 /\ queue' # queue
        /\ queue'[l + 1] = [sample |-> s, events |-> ev]
        /\ \A n \in 1 .. l : queue'[n] = queue[n]
    BY <1>1, <1>3, SentGrows
  <2>2. \A n \in 0 .. l : Parcel(n)' = Parcel(n)
    BY <1>1, <2>1 DEF Parcel
  <2>3. Parcel(l + 1)' = ev
    BY <1>1, <2>1 DEF Parcel
  <2>4. \A n \in Parcels' : n > l + 1 => Parcel(n)' = <<>>
    BY <1>1, <1>3, <2>1 DEF Parcels, Parcel
  <2> QED BY <2>1, <2>2, <2>3, <2>4
<1>4. CASE \E s \in Sample : Sent([sample |-> s, events |-> ev]) /\ pending' = <<>>
  BY <1>1, <1>3, <1>4
<1> QED BY <1>2, <1>4 DEF Extended

\* Updates of now join those that are pending, the oldest of which are dropped
\* and counted; then all may be sent. The account stays.
LEMMA NewUpdates ==
    ASSUME TypeOK, TypeOK', Ordered, NEW D, Accounted(D),
           NEW seq \in Seq(Incident), NEW ev \in Seq(Incident), NEW drop \in Nat,
           Shifted(ev, pending, seq, drop), Extended(ev),
           UNCHANGED <<store, rows>>,
           produced'.updates = produced.updates \cup ToSet(seq),
           shared'.droppedUpdates = shared.droppedUpdates + drop,
           \A u \in ToSet(seq) : When(u) = cycle /\ Dated(u, cycle),
           Latest' = cycle, Latest <= cycle, ToSet(seq) # {} => Latest < cycle,
           cycle <= cycle', queue' # queue => cycle < cycle',
           \A k \in Open(engine)' : engine'[k].at <= cycle
    PROVE  Ordered' /\ \E E : Accounted(E)'
<1> SUFFICES ASSUME NEW l, l = Len(queue)
             PROVE  Ordered' /\ \E E : Accounted(E)'
  OBVIOUS
<1> DEFINE last == l + 1
           new == ToSet(seq)
<1>1. /\ l \in Nat /\ Len(queue') \in Nat
      /\ Len(queue') = l \/ Len(queue') = l + 1
      /\ queue' = queue => Len(queue') = l
      /\ \A n \in 0 .. l : Parcel(n)' = Parcel(n)
      /\ Parcel(last)' = ev
      /\ Parcel(last) = pending
      /\ \A n \in Parcels' : n > last => Parcel(n)' = <<>>
  BY ExtendedParcels
<1>2. pending \in Seq(Incident) /\ cycle \in Nat /\ cycle' \in Nat /\ Latest \in Int
  BY DEF TypeOK, Latest
<1>3. last \in Parcels /\ last \in Parcels' /\ Parcels \subseteq Parcels'
  BY <1>1 DEF Parcels
<1>4. /\ ToSet(ev) \subseteq ToSet(pending) \cup new
      /\ \E gone : /\ IsFiniteSet(gone) /\ Cardinality(gone) <= drop
                   /\ ToSet(pending) \cup new \subseteq gone \cup ToSet(ev)
  BY <1>2, ShiftedDrops
<1>5. PICK gone : /\ IsFiniteSet(gone) /\ Cardinality(gone) <= drop
                  /\ ToSet(pending) \cup new \subseteq gone \cup ToSet(ev)
  BY <1>4
<1>6. \A u \in Incident : Dated(u, Latest) => Dated(u, cycle)
  BY <1>2, IncidentsAssumption DEF Dated, When, Incident
<1>7. /\ produced.updates \subseteq Incident /\ ToSet(pending) \subseteq Incident
      /\ new \subseteq Incident
  BY <1>2 DEF TypeOK, Produced, ToSet
<1>8. InOrder(pending) /\ \A u \in ToSet(pending) : Dated(u, Latest)
  BY <1>1, <1>3 DEF Ordered
<1>9. InOrder(ev)
  <2>1. \A u \in ToSet(pending) : When(u) <= cycle
    BY <1>6, <1>7, <1>8 DEF Dated
  <2>2. cycle \in Int /\ \A u \in ToSet(seq) : When(u) = cycle
    BY <1>2
  <2> HIDE DEF new
  <2> QED BY <1>2, <1>8, <2>1, <2>2, ShiftedInOrder
<1>10. ASSUME NEW n \in Parcels'
       PROVE  InOrder(Parcel(n)') /\ \A u \in ToSet(Parcel(n)') : Dated(u, cycle)
  <2>1. CASE n \in 0 .. l
    <3>1. n \in Parcels /\ Parcel(n)' = Parcel(n)
      BY <1>1, <2>1 DEF Parcels
    <3>2. ToSet(Parcel(n)) \subseteq Incident
      BY <3>1, ParcelType DEF ToSet
    <3> QED BY <1>6, <3>1, <3>2 DEF Ordered
  <2>2. CASE n = last
    BY <1>1, <1>4, <1>6, <1>7, <1>8, <1>9, <2>2
  <2>3. CASE n > last
    BY <1>1, <2>3 DEF InOrder, ToSet
  <2> QED BY <1>1, <2>1, <2>2, <2>3 DEF Parcels
<1>11. ASSUME NEW n \in 0 .. Len(queue')
       PROVE  \A u \in ToSet(Parcel(n)') : u.at < cycle'
  <2>1. CASE n \in 0 .. l
    <3>1. ToSet(Parcel(n)) \subseteq Incident
      BY <2>1, <1>1, ParcelType DEF ToSet, Parcels
    <3>2. \A u \in ToSet(Parcel(n)) : u.at < cycle
      BY <2>1 DEF Ordered
    <3> QED BY <1>1, <1>2, <2>1, <3>1, <3>2 DEF Incident
  <2>2. CASE n \notin 0 .. l
    <3>1. n \in Parcels' /\ queue' # queue
      BY <1>1, <2>2 DEF Parcels
    <3>2. ToSet(Parcel(n)') \subseteq Incident
      <4>1. CASE n = last
        BY <1>1, <1>4, <1>7, <4>1
      <4>2. CASE n # last
        BY <1>1, <2>2, <3>1, <4>2 DEF ToSet
      <4> QED BY <4>1, <4>2
    <3> QED BY <1>2, <1>10, <3>1, <3>2 DEF Dated, Incident
  <2> QED BY <2>1, <2>2
<1>12. \A u \in produced'.updates : Dated(u, cycle)
  BY <1>6, <1>7 DEF Ordered
<1>13. Ordered'
  BY <1>10, <1>11, <1>12 DEF Ordered, Dated
<1>14. IsFiniteSet(D \cup gone) /\ Cardinality(D \cup gone) <= shared'.droppedUpdates
  <2>1. IsFiniteSet(D) /\ Cardinality(D) <= shared.droppedUpdates
    BY DEF Accounted
  <2>2. shared.droppedUpdates \in Nat
    BY DEF TypeOK, Snapshot
  <2>3. /\ IsFiniteSet(D \cup gone) /\ IsFiniteSet(D \cap gone)
        /\ Cardinality(D \cup gone) = Cardinality(D) + Cardinality(gone) - Cardinality(D \cap gone)
    BY <1>5, <2>1, FS_Union, FS_Subset
  <2>4. Cardinality(D) \in Nat /\ Cardinality(gone) \in Nat /\ Cardinality(D \cap gone) \in Nat
    BY <1>5, <2>1, <2>3, FS_CardinalityType
  <2> QED BY <1>5, <2>1, <2>2, <2>3, <2>4
<1>15. ASSUME NEW u \in ToSet(pending) \cup new, u \notin gone
       PROVE  u \in OnTheWay'
  <2>1. u \in ToSet(ev)
    BY <1>5, <1>15
  <2>2. CASE pending' = ev
    BY <2>1, <2>2 DEF OnTheWay
  <2>3. ASSUME NEW s \in Sample, Sent([sample |-> s, events |-> ev])
        PROVE  u \in OnTheWay'
    <3>1. l + 1 \in DOMAIN queue' /\ queue'[l + 1].events = ev
      BY <1>1, <2>3, SentGrows
    <3> QED BY <2>1, <3>1 DEF OnTheWay, InQueue
  <2> QED BY <2>2, <2>3 DEF Extended
<1>16. ASSUME NEW u, u \in OnTheWay, u \notin gone
       PROVE  u \in OnTheWay'
  <2>1. CASE u \in ToSet(pending)
    BY <1>15, <1>16, <2>1
  <2>2. CASE u \in InItem
    BY <2>2 DEF OnTheWay, InItem, ToDo
  <2>3. CASE u \in InQueue
    <3>1. CASE queue' = queue
      BY <2>3, <3>1 DEF OnTheWay, InQueue
    <3>2. ASSUME NEW s \in Sample, Sent([sample |-> s, events |-> ev])
          PROVE  u \in OnTheWay'
      <4>1. \A n \in DOMAIN queue : n \in DOMAIN queue' /\ queue'[n] = queue[n]
        BY <3>2, SentGrows
      <4> QED BY <2>3, <4>1 DEF OnTheWay, InQueue
    <3> QED BY <3>1, <3>2 DEF Extended
  <2> QED BY <1>16, <2>1, <2>2, <2>3 DEF OnTheWay
<1>17. \A u \in produced'.updates \ (D \cup gone) : Stored(u)' \/ u \in OnTheWay'
  BY <1>15, <1>16 DEF Accounted, Stored
<1>18. ASSUME NEW u \in produced'.updates \ (D \cup gone), NEW n \in Parcels',
              NEW e \in ToSet(Parcel(n)'), When(e) < When(u)
       PROVE  \E m \in Parcels' : m >= n /\ u \in ToSet(Parcel(m)')
  <2>1. n <= last
    BY <1>1, <1>18 DEF ToSet, Parcels
  <2>2. CASE u \in new \cup ToSet(pending)
    BY <1>1, <1>3, <1>5, <1>18, <2>1, <2>2
  <2>3. CASE u \notin new \cup ToSet(pending)
    <3>1. u \in produced.updates \ D /\ u \in Incident
      BY <1>7, <2>3
    <3>2. n \in Parcels /\ e \in ToSet(Parcel(n))
      <4>1. CASE n = last
        <5>1. e \notin new
          BY <1>2, <1>18, <3>1, IncidentsAssumption DEF Ordered, Dated, When, Incident
        <5> QED BY <1>1, <1>3, <1>4, <1>18, <4>1, <5>1
      <4>2. CASE n # last
        BY <1>1, <1>18, <2>1, <4>2 DEF Parcels
      <4> QED BY <4>1, <4>2
    <3>3. PICK m \in Parcels : m >= n /\ u \in ToSet(Parcel(m))
      BY <1>18, <3>1, <3>2 DEF Accounted
    <3>4. m \in 0 .. l
      BY <1>1, <2>3, <3>3 DEF Parcels
    <3> QED BY <1>1, <1>3, <3>3, <3>4
  <2> QED BY <2>2, <2>3
<1>19. Accounted(D \cup gone)'
  BY <1>14, <1>17, <1>18 DEF Accounted
<1> QED BY <1>13, <1>19

-----------------------------------------------------------------------------
\* Each step keeps the account of the updates.

\* Nothing that the queue has a receiver for is gone while the monitor runs.
LEMMA ReceivedWhileRunning ==
    ASSUME TypeOK, ThreadsInv, store.pc # "failed", mon # "exited"
    PROVE  Receiving
  BY DEF TypeOK, StoreState, ThreadsInv, Receiving

\* The updates of a call are of now, and what is open afterwards no later.
LEMMA UpdatesAreDated ==
    ASSUME NEW act \in ActiveMaps, NEW recovered \in SUBSET Open(act), NEW raised \in SUBSET Kinds,
           NEW dev \in Devices, NEW at \in Nat, \A k \in Open(act) : act[k].at < at
    PROVE  /\ \A u \in Updates(act, recovered, raised, dev, at) : When(u) = at /\ Dated(u, at)
           /\ LET after == ActiveAfter(act, recovered, raised, dev, at)
              IN  \A k \in Open(after) : after[k].at <= at
<1>1. at # None
  BY IncidentsAssumption
<1>2. ASSUME NEW k \in recovered
      PROVE  When(Recover(act[k], at)) = at /\ Dated(Recover(act[k], at), at)
  <2>1. k \in Open(act) /\ act[k] \in Incident /\ act[k].at < at
    BY OpenType
  <2>2. Recover(act[k], at).at = act[k].at /\ Recover(act[k], at).until = at
    BY <2>1, RecoverType
  <2>3. act[k].at \in Nat
    BY <2>1 DEF Incident
  <2> QED BY <1>1, <2>1, <2>2, <2>3 DEF When, Dated
<1>3. ASSUME NEW k \in raised
      PROVE  /\ When(Raise(dev, k, at)) = at /\ Dated(Raise(dev, k, at), at)
             /\ Raise(dev, k, at).at = at
  BY RaiseType DEF When, Dated
<1>4. \A k \in Open(act) : act[k].at <= at
  BY OpenType DEF Incident
<1> DEFINE after == ActiveAfter(act, recovered, raised, dev, at)
<1>5. ASSUME NEW k \in Kinds, after[k] # None
      PROVE  after[k].at <= at
  BY <1>3, <1>4, <1>5 DEF ActiveAfter, Open
<1> QED BY <1>2, <1>3, <1>5 DEF Updates, Open

\* The updates of a call, in the order that it returns them.
LEMMA UpdatesInSequence ==
    ASSUME NEW act \in ActiveMaps, NEW recovered \in SUBSET Open(act),
           NEW raised \in SUBSET Kinds, NEW dev \in Devices, NEW at \in Nat
    PROVE  LET new == Updates(act, recovered, raised, dev, at)
           IN  SetToSeq(new) \in Seq(Incident) /\ ToSet(SetToSeq(new)) = new
<1> DEFINE new == Updates(act, recovered, raised, dev, at)
<1>1. SetToSeq(new) \in Seq(Incident) /\ IsFiniteSet(new)
  BY NewEventsType
<1> HIDE DEF new
<1>2. ToSet(SetToSeq(new)) = new
  BY <1>1, SetToSeqCovers
<1> QED BY <1>1, <1>2 DEF new

\* Taking a sample adds its updates; the oldest are dropped and counted.
LEMMA TakeSampleAccounts ==
    ASSUME TypeOK, TypeOK', Ordered, NEW D, Accounted(D), TakeSample
    PROVE  Ordered' /\ \E E : Accounted(E)'
<1>1. current \in Devices /\ cycle \in Nat /\ mon # "observed" /\ pending \in Seq(Incident)
  BY PollingHasDevice DEF TypeOK, TakeSample, Polling
<1>2. Merged \in ActiveMaps /\ Open(Merged) = Open(engine)
  BY MergedType DEF TypeOK, Snapshot
<1>3. PICK recovered \in SUBSET Kinds, raised \in SUBSET Kinds :
        /\ ObserveMay(Merged, recovered, raised)
        /\ engine' = ActiveAfter(Merged, recovered, raised, current, cycle)
        /\ LET new == Updates(Merged, recovered, raised, current, cycle)
               events == pending \o SetToSeq(new)
           IN  /\ pending' = Bounded(events)
               /\ shared' = [shared EXCEPT !.droppedUpdates = @ + Overflow(events)]
               /\ produced' = [updates |-> produced.updates \cup new,
                               samples |-> produced.samples \cup
                                           {[device |-> current, at |-> cycle]}]
  BY DEF TakeSample
<1> DEFINE new == Updates(Merged, recovered, raised, current, cycle)
           events == pending \o SetToSeq(new)
<1>4. recovered \in SUBSET Open(Merged)
  BY <1>3 DEF ObserveMay
<1>5. \A k \in Open(Merged) : Merged[k].at < cycle
  <2>1. ASSUME NEW k \in Open(engine)
        PROVE  Merged[k].at = engine[k].at /\ engine[k].at \in Nat /\ engine[k].at <= cycle - 1
    BY <1>1 DEF TypeOK, ActiveMaps, Open, Incident, Merged, Ordered, Latest
  <2> QED BY <1>1, <1>2, <2>1
<1>6. SetToSeq(new) \in Seq(Incident) /\ ToSet(SetToSeq(new)) = new
  BY <1>1, <1>2, <1>4, UpdatesInSequence
<1>7. /\ \A u \in new : When(u) = cycle /\ Dated(u, cycle)
      /\ \A k \in Open(engine)' : engine'[k].at <= cycle
  <2>1. engine' = ActiveAfter(Merged, recovered, raised, current, cycle)
    BY <1>3
  <2> QED BY <1>1, <1>2, <1>4, <1>5, <2>1, UpdatesAreDated
<1>8. /\ Overflow(events) \in Nat
      /\ Shifted(pending', pending, SetToSeq(new), Overflow(events))
  BY <1>1, <1>3, <1>6, BoundedShifts
<1>9. /\ shared'.droppedUpdates = shared.droppedUpdates + Overflow(events)
      /\ produced'.updates = produced.updates \cup ToSet(SetToSeq(new))
  BY <1>3, <1>6 DEF TypeOK, Snapshot
<1>10. /\ Latest' = cycle /\ Latest < cycle /\ cycle' = cycle /\ queue' = queue
       /\ UNCHANGED <<store, rows>> /\ pending' \in Seq(Incident)
  BY <1>1 DEF TakeSample, Latest, storageVars, TypeOK
<1>11. Extended(pending') /\ Latest <= cycle
  BY <1>1, <1>10 DEF Extended, Latest
<1> HIDE DEF new, events
<1>12. \A u \in ToSet(SetToSeq(new)) : When(u) = cycle /\ Dated(u, cycle)
  BY <1>6, <1>7
<1> QED BY <1>1, <1>6, <1>7, <1>8, <1>9, <1>10, <1>11, <1>12, NewUpdates

\* Publishing sends what is pending, or leaves it pending.
LEMMA PublishAccounts ==
    ASSUME TypeOK, TypeOK', ThreadsInv, store.pc # "failed", Ordered, NEW D, Accounted(D), Publish
    PROVE  Ordered' /\ \E E : Accounted(E)'
<1> DEFINE none == <<>>
<1>1. /\ pending \in Seq(Incident) /\ cycle \in Nat /\ taken \in Sample
      /\ none \in Seq(Incident) /\ ToSet(none) = {}
  BY EmptySeq DEF TypeOK, Publish, ToSet
<1>2. Extended(pending)
  BY <1>1, ReceivedWhileRunning DEF Publish, Extended, Full, Gone
<1>3. Shifted(pending, pending, none, 0)
  BY <1>1, BoundedShifts
<1>4. /\ shared'.droppedUpdates = shared.droppedUpdates + 0
      /\ produced'.updates = produced.updates \cup ToSet(none)
      /\ UNCHANGED <<store, rows>>
  <2>1. shared.droppedUpdates \in Nat
    BY DEF TypeOK, Snapshot
  <2> QED BY <1>1, <2>1 DEF Publish, historyVars, storageVars, TypeOK, Snapshot
<1>5. Latest' = cycle /\ Latest = cycle /\ cycle' = cycle + 1 /\ engine' = engine
  BY <1>1 DEF Publish, Latest
<1>6. \A k \in Open(engine)' : engine'[k].at <= cycle
  BY <1>5 DEF Ordered, Open
<1> HIDE DEF none
<1>7. Latest <= cycle /\ cycle <= cycle' /\ cycle < cycle'
  BY <1>1, <1>5
<1> QED BY <1>1, <1>2, <1>3, <1>4, <1>5, <1>6, <1>7, NewUpdates

\* A failed sample may add the incident that says so, and sends what is pending.
LEMMA SampleFailsAccounts ==
    ASSUME TypeOK, TypeOK', ThreadsInv, store.pc # "failed", Ordered, NEW D, Accounted(D),
           SampleFails
    PROVE  Ordered' /\ \E E : Accounted(E)'
<1> DEFINE lost == shared.telemetry
           raised == IF lost = None THEN {} ELSE LostRaises(engine)
           new == Updates(engine, {}, raised, lost.device, cycle)
           events == IF raised = {} THEN pending ELSE pending \o SetToSeq(new)
           seq == IF raised = {} THEN <<>> ELSE SetToSeq(new)
<1>1. /\ engine' = IF raised = {} THEN engine
                   ELSE ActiveAfter(engine, {}, raised, lost.device, cycle)
      /\ produced' = IF raised = {} THEN produced
                     ELSE [produced EXCEPT !.updates = @ \cup new]
      /\ IF lost = None THEN UNCHANGED <<pending, queue>>
         ELSE \/ Sent([sample |-> lost, events |-> events]) /\ pending' = <<>>
              \/ Full /\ pending' = events
              \/ Gone /\ pending' = <<>>
      /\ shared' = [shared EXCEPT !.active = Live(engine'), !.connected = FALSE,
                                  !.storageError = @ \/ (lost # None /\ Full)]
  BY DEF SampleFails
<1>2. /\ engine \in ActiveMaps /\ cycle \in Nat /\ shared \in Snapshot
      /\ produced \in Produced
      /\ pending \in Seq(Incident)
      /\ <<>> \in Seq(Incident) /\ ToSet(<<>>) = {}
      /\ mon # "observed" /\ mon # "exited"
  BY EmptySeq DEF TypeOK, SampleFails, Polling, ToSet
<1>3. /\ raised \in SUBSET Kinds
      /\ raised # {} => lost # None
      /\ lost # None => lost \in Sample /\ lost.device \in Devices
  BY <1>2, IncidentsAssumption DEF LostRaises, Snapshot, Sample
<1>4. \A k \in Open(engine) : engine[k].at < cycle /\ engine[k].at <= cycle
  <2>1. ASSUME NEW k \in Open(engine)
        PROVE  engine[k].at \in Nat /\ engine[k].at <= cycle - 1
    BY <1>2 DEF ActiveMaps, Open, Incident, Ordered, Latest
  <2> QED BY <1>2, <2>1
<1>5. /\ Latest' = cycle /\ Latest < cycle /\ cycle' = cycle + 1
      /\ UNCHANGED <<store, rows>>
  BY <1>2 DEF SampleFails, Latest, storageVars
<1>6. shared'.droppedUpdates = shared.droppedUpdates + 0
  BY <1>1, <1>2 DEF Snapshot
<1>7. /\ seq \in Seq(Incident)
      /\ events \in Seq(Incident)
      /\ Shifted(events, pending, seq, 0)
      /\ produced'.updates = produced.updates \cup ToSet(seq)
      /\ \A u \in ToSet(seq) : When(u) = cycle /\ Dated(u, cycle)
      /\ \A k \in Open(engine)' : engine'[k].at <= cycle
  <2>1. CASE raised = {}
    <3>1. seq = <<>> /\ events = pending /\ engine' = engine /\ produced' = produced
      BY <1>1, <2>1
    <3> HIDE DEF seq, events, raised
    <3>2. Shifted(pending, pending, <<>>, 0)
      BY <1>2, BoundedShifts
    <3> QED BY <1>2, <1>4, <3>1, <3>2 DEF Open
  <2>2. CASE raised # {}
    <3>1. lost.device \in Devices /\ {} \in SUBSET Open(engine)
      BY <1>3, <2>2
    <3>2. seq = SetToSeq(new) /\ events = pending \o seq
      BY <2>2
    <3>3. /\ engine' = ActiveAfter(engine, {}, raised, lost.device, cycle)
          /\ produced'.updates = produced.updates \cup new
      BY <1>1, <1>2, <2>2 DEF Produced
    <3> HIDE DEF raised, lost, seq, events
    <3>4. /\ \A u \in new : When(u) = cycle /\ Dated(u, cycle)
          /\ \A k \in Open(engine)' : engine'[k].at <= cycle
      BY <1>2, <1>3, <1>4, <3>1, <3>3, UpdatesAreDated DEF Open
    <3>5. SetToSeq(new) \in Seq(Incident) /\ ToSet(SetToSeq(new)) = new
      BY <1>2, <1>3, <3>1, UpdatesInSequence
    <3> HIDE DEF new
    <3>6. events \in Seq(Incident) /\ Shifted(events, pending, seq, 0)
      BY <1>2, <3>2, <3>5, BoundedShifts, ConcatProperties
    <3> QED BY <3>2, <3>3, <3>4, <3>5, <3>6
  <2> QED BY <2>1, <2>2
<1>8. Extended(events)
  <2>1. Receiving
    BY <1>2, ReceivedWhileRunning
  <2>2. CASE lost = None
    BY <1>1, <2>2 DEF Extended
  <2>3. CASE lost # None
    <3> HIDE DEF events, raised
    <3> QED BY <1>1, <1>3, <2>1, <2>3 DEF Extended, Full, Gone
  <2> QED BY <2>2, <2>3
<1> HIDE DEF events, seq, raised, new
<1>9. Latest <= cycle
  BY <1>2 DEF Latest
<1> QED BY <1>2, <1>5, <1>6, <1>7, <1>8, <1>9, NewUpdates

\* The storage thread takes the oldest parcel of the queue.
LEMMA ReceivesAccounts ==
    ASSUME TypeOK, TypeOK', Ordered, NEW D, Accounted(D), StorageReceives
    PROVE  Ordered' /\ Accounted(D)'
<1> SUFFICES ASSUME NEW l, l = Len(queue)
             PROVE  Ordered' /\ Accounted(D)'
  OBVIOUS
<1>1. /\ l \in Nat /\ l > 0 /\ Len(queue') = l - 1
      /\ store.pc # "busy" /\ store'.pc = "busy" /\ store'.done = 0 /\ store'.item = queue[1]
      /\ \A n \in 1 .. l - 1 : queue'[n] = queue[n + 1]
  BY ReceivedShrinks DEF StorageReceives
<1>2. UNCHANGED <<pending, cycle, mon, engine, produced, shared, rows, Latest>>
  BY DEF StorageReceives, monitorVars, historyVars, Latest
<1>3. Parcels = 0 .. l + 1 /\ Parcels' = 0 .. l
  BY <1>1 DEF Parcels
<1>4. ASSUME NEW n \in 0 .. l
      PROVE  Parcel(n)' = Parcel(n + 1)
  <2>1. CASE n = 0
    BY <1>1, <2>1 DEF Parcel
  <2>2. CASE n \in 1 .. l - 1
    BY <1>1, <2>2 DEF Parcel
  <2>3. CASE n = l
    BY <1>1, <1>2, <2>3 DEF Parcel
  <2> QED BY <1>1, <2>1, <2>2, <2>3
<1>5. Parcel(0) = <<>>
  BY <1>1 DEF Parcel
<1>6. Ordered'
  <2>1. \A n \in Parcels' : n + 1 \in Parcels
    BY <1>1, <1>3
  <2>2. \A n \in 0 .. Len(queue') : n + 1 \in 0 .. l /\ n \in 0 .. l
    BY <1>1
  <2> QED BY <1>2, <1>3, <1>4, <2>1, <2>2 DEF Ordered, Dated, Open
<1>7. ASSUME NEW u \in OnTheWay
      PROVE  u \in OnTheWay'
  <2>1. CASE u \in InItem
    BY <1>1, <2>1 DEF InItem
  <2>2. CASE u \in ToSet(pending)
    BY <1>2, <2>2 DEF OnTheWay
  <2>3. CASE u \in InQueue
    <3>1. PICK n \in 1 .. l : u \in ToSet(queue[n].events)
      BY <2>3 DEF InQueue, TypeOK
    <3>2. CASE n = 1
      <4>1. \A p \in DOMAIN queue[1].events : p >= 0
        <5>1. queue[1] \in Item
          BY <1>1 DEF TypeOK
        <5> QED BY <5>1 DEF Item
      <4> QED BY <1>1, <3>1, <3>2, <4>1 DEF OnTheWay, InItem, ToDo, ToSet
    <3>3. CASE n # 1
      <4>1. n - 1 \in 1 .. l - 1 /\ DOMAIN queue' = 1 .. l - 1
        BY <1>1, <3>3, ReceivedShrinks
      <4>2. queue'[n - 1] = queue[n]
        BY <1>1, <4>1
      <4> QED BY <3>1, <4>1, <4>2 DEF OnTheWay, InQueue
    <3> QED BY <3>2, <3>3
  <2> QED BY <2>1, <2>2, <2>3 DEF OnTheWay
<1>8. ASSUME NEW u \in produced.updates \ D, NEW n \in 0 .. l, NEW e \in ToSet(Parcel(n + 1)),
             When(e) < When(u)
      PROVE  \E m \in 0 .. l : m >= n /\ u \in ToSet(Parcel(m + 1))
  <2>1. n + 1 \in Parcels
    BY <1>1, <1>3
  <2>2. PICK m \in Parcels : m >= n + 1 /\ u \in ToSet(Parcel(m))
    BY <1>8, <2>1 DEF Accounted
  <2>3. m - 1 \in 0 .. l /\ m - 1 >= n /\ (m - 1) + 1 = m
    BY <1>1, <1>3, <2>2
  <2> QED BY <2>2, <2>3
<1>9. Accounted(D)'
  BY <1>2, <1>3, <1>4, <1>7, <1>8 DEF Accounted, Stored
<1> QED BY <1>6, <1>9

\* Storing an update leaves stored, or on the way, all that was either: what it
\* may undo is younger and still follows in its item or in a later parcel.
LEMMA UpsertsAccounts ==
    ASSUME TypeOK, TypeOK', Ordered, NEW D, Accounted(D), StorageUpserts
    PROVE  Ordered' /\ Accounted(D)'
<1> SUFFICES ASSUME NEW done, done = store.done, NEW e, e = store.item.events[done]
             PROVE  Ordered' /\ Accounted(D)'
  OBVIOUS
<1>1. /\ store.pc = "busy" /\ done \in 1 .. Len(store.item.events) /\ rows' = Upsert(e)
      /\ store' = [store EXCEPT !.done = @ + 1]
      /\ UNCHANGED <<queue, pending, cycle, mon, engine, produced, shared, Latest>>
  BY DEF StorageUpserts, monitorVars, historyVars, Latest
<1>2. /\ store.item \in Item /\ store.item.events \in Seq(Incident)
      /\ Parcel(0) = store.item.events /\ DOMAIN Parcel(0) = 1 .. Len(store.item.events)
      /\ store'.item = store.item /\ store'.pc = "busy" /\ store'.done = done + 1
      /\ Len(queue) \in Nat
  BY <1>1 DEF TypeOK, StoreState, Item, Parcel
<1>3. e \in Incident /\ e \in ToSet(Parcel(0)) /\ 0 \in Parcels
  BY <1>1, <1>2, ElementOfSeq DEF ToSet, Parcels
<1>4. Stored(e)'
  <2>1. CASE \E r \in rows : Same(r, e)
    <3>1. PICK r \in rows : Same(r, e)
      BY <2>1
    <3>2. [r EXCEPT !.until = e.until] \in rows'
      BY <1>1, <2>1, <3>1 DEF Upsert
    <3>3. r \in Incident
      BY <3>1 DEF TypeOK
    <3>4. /\ [r EXCEPT !.until = e.until].until = e.until
          /\ Same([r EXCEPT !.until = e.until], e)
      BY <3>1, <3>3 DEF Incident, Same
    <3>5. e.until # None => e.until >= e.until
      BY <1>3 DEF Incident
    <3> QED BY <3>2, <3>4, <3>5 DEF Stored
  <2>2. CASE ~ \E r \in rows : Same(r, e)
    <3>1. e \in rows'
      BY <1>1, <2>2 DEF Upsert
    <3>2. e.until # None => e.until >= e.until
      BY <1>3 DEF Incident
    <3> QED BY <3>1, <3>2 DEF Stored, Same
  <2> QED BY <2>1, <2>2
<1>5. ASSUME NEW u \in produced.updates \ D, u \in OnTheWay
      PROVE  Stored(u)' \/ u \in OnTheWay'
  <2>1. CASE u \in InItem
    <3>1. PICK p \in DOMAIN store.item.events : p >= done /\ u = store.item.events[p]
      BY <2>1 DEF InItem, ToDo
    <3>2. CASE p = done
      BY <1>4, <3>1, <3>2
    <3>3. CASE p # done
      <4>1. p >= done + 1
        BY <1>1, <1>2, <3>1, <3>3
      <4> QED BY <1>2, <3>1, <4>1 DEF OnTheWay, InItem, ToDo
    <3> QED BY <3>2, <3>3
  <2>2. CASE u \in InQueue \/ u \in ToSet(pending)
    BY <1>1, <2>2 DEF OnTheWay, InQueue
  <2> QED BY <1>5, <2>1, <2>2 DEF OnTheWay
<1>6. ASSUME NEW u \in produced.updates \ D, When(e) < When(u)
      PROVE  u \in OnTheWay'
  <2>1. PICK m \in Parcels : m >= 0 /\ u \in ToSet(Parcel(m))
    BY <1>3, <1>6 DEF Accounted
  <2>2. CASE m = 0
    <3>1. PICK q \in 1 .. Len(store.item.events) : u = store.item.events[q]
      BY <1>2, <2>1, <2>2 DEF ToSet
    <3>2. InOrder(store.item.events)
      BY <1>2, <1>3 DEF Ordered
    <3>3. ~(q < done) /\ q # done
      <4>1. When(e) \in Int /\ When(u) \in Int
        <5>1. u \in Incident
          BY <1>2, <3>1, ElementOfSeq
        <5> QED BY <1>3, <5>1 DEF When, Incident
      <4> QED BY <1>1, <1>2, <1>6, <3>1, <3>2, <4>1 DEF InOrder
    <3>4. q >= done + 1
      BY <1>1, <3>3
    <3> QED BY <1>2, <3>1, <3>4 DEF OnTheWay, InItem, ToDo
  <2>3. CASE m # 0
    <3>1. m \in 1 .. Len(queue) + 1
      BY <2>3 DEF Parcels
    <3>2. u \in InQueue \cup ToSet(pending)
      BY <1>2, <2>1, <3>1 DEF Parcel, InQueue, TypeOK
    <3> QED BY <1>1, <3>2 DEF OnTheWay, InQueue
  <2> QED BY <2>2, <2>3
<1>7. ASSUME NEW u \in produced.updates \ D, Stored(u)
      PROVE  Stored(u)' \/ u \in OnTheWay'
  <2>1. PICK r \in rows : Same(r, u) /\ (u.until # None => r.until # None /\ r.until >= u.until)
    BY <1>7 DEF Stored
  <2>2. r \in Incident /\ u \in Incident
    BY DEF TypeOK, Produced
  <2>3. CASE ~Same(r, e)
    <3>1. r \in rows'
      BY <1>1, <2>3 DEF Upsert
    <3> QED BY <2>1, <3>1 DEF Stored
  <2>4. CASE Same(r, e)
    <3> DEFINE r2 == [r EXCEPT !.until = e.until]
    <3>1. r2 \in rows'
      BY <1>1, <2>4 DEF Upsert
    <3>2. Same(r2, u) /\ r2.until = e.until
      BY <2>1, <2>2 DEF Incident, Same
    <3> HIDE DEF r2
    <3>3. CASE u.until = None
      BY <3>1, <3>2, <3>3 DEF Stored
    <3>4. CASE u.until # None /\ e.until # None /\ e.until >= u.until
      BY <3>1, <3>2, <3>4 DEF Stored
    <3>5. CASE u.until # None /\ ~(e.until # None /\ e.until >= u.until)
      <4>1. u.at < u.until
        BY <3>5 DEF Ordered, Dated
      <4>2. e.at = u.at
        BY <2>1, <2>4 DEF Same
      <4>3. When(e) < When(u)
        BY <1>3, <2>2, <3>5, <4>1, <4>2 DEF When, Incident
      <4> QED BY <1>6, <4>3
    <3> QED BY <3>3, <3>4, <3>5
  <2> QED BY <2>3, <2>4
<1>8. \A k \in Open(engine)' : engine'[k].at <= Latest
  BY <1>1 DEF Ordered, Open
<1> QED BY <1>1, <1>2, <1>5, <1>7, <1>8, QuietStep

\* An item that is complete has nothing left on the way.
LEMMA CompletesAccounts ==
    ASSUME TypeOK, TypeOK', Ordered, NEW D, Accounted(D), StorageCompletes
    PROVE  Ordered' /\ Accounted(D)'
<1>1. /\ store.pc = "busy" /\ store.done > Len(store.item.events) /\ store'.pc = "idle"
      /\ UNCHANGED <<queue, pending, cycle, mon, engine, produced, rows, Latest>>
      /\ shared'.droppedUpdates = shared.droppedUpdates
  BY DEF StorageCompletes, monitorVars, historyVars, Latest, IdleStore, TypeOK, Snapshot
<1>2. store.item.events \in Seq(Incident) /\ Len(queue) \in Nat /\ store.done \in Nat
  BY <1>1 DEF TypeOK, StoreState, Item
<1>3. /\ Parcels' = Parcels /\ Parcel(0)' = <<>>
      /\ \A n \in Parcels : n # 0 => Parcel(n)' = Parcel(n)
  BY <1>1 DEF Parcels, Parcel
<1>4. ToSet(<<>>) = {} /\ InOrder(<<>>)
  BY DEF ToSet, InOrder
<1>5. Ordered'
  BY <1>1, <1>2, <1>3, <1>4 DEF Ordered, Dated, Parcels, Open
<1>6. OnTheWay' = OnTheWay
  <2>1. InItem = {} /\ InItem' = {}
    BY <1>1, <1>2 DEF InItem, ToDo
  <2> QED BY <1>1, <2>1 DEF OnTheWay, InQueue
<1>7. ASSUME NEW u \in produced.updates \ D, NEW n \in Parcels, NEW e \in ToSet(Parcel(n)'),
             When(e) < When(u)
      PROVE  \E m \in Parcels : m >= n /\ u \in ToSet(Parcel(m)')
  <2>1. n # 0 /\ e \in ToSet(Parcel(n))
    BY <1>3, <1>4, <1>7
  <2>2. PICK m \in Parcels : m >= n /\ u \in ToSet(Parcel(m))
    BY <1>7, <2>1 DEF Accounted
  <2>3. m # 0
    BY <2>1, <2>2 DEF Parcels
  <2> QED BY <1>3, <2>2, <2>3
<1>8. Accounted(D)'
  BY <1>1, <1>3, <1>6, <1>7 DEF Accounted, Stored
<1> QED BY <1>5, <1>8

\* The steps that leave the updates where they are.
LEMMA OpenDeviceAccounts ==
    ASSUME TypeOK, TypeOK', RowsArePast, Ordered, NEW D, Accounted(D),
           NEW d \in Devices, OpenDevice(d)
    PROVE  Ordered' /\ Accounted(D)'
<1>1. /\ UNCHANGED <<queue, pending, cycle, Latest, store, rows, produced, shared>>
      /\ Latest = cycle - 1 /\ cycle \in Nat
  BY DEF OpenDevice, Latest, storageVars, historyVars, TypeOK
<1>2. ASSUME NEW k \in Open(engine)'
      PROVE  engine'[k].at <= Latest
  <2>1. CASE current = d
    BY <1>2, <2>1 DEF OpenDevice, Ordered, Open
  <2>2. CASE current # d
    <3>1. PICK open \in {OpenRows, startup} : engine' = Restored(open, d)
      BY <2>2 DEF OpenDevice
    <3>2. engine'[k] \in {i \in open : i.device = d /\ i.kind = k}
      <4>1. engine'[k] = Oldest({i \in open : i.device = d /\ i.kind = k}) /\ engine'[k] # None
        BY <1>2, <3>1 DEF Restored, Open
      <4> QED BY <4>1 DEF Oldest
    <3>3. engine'[k] \in rows \cup startup
      BY <3>1, <3>2 DEF OpenRows
    <3>4. engine'[k] \in Incident /\ engine'[k].at < cycle
      BY <3>3 DEF RowsArePast, TypeOK
    <3> QED BY <1>1, <3>4 DEF Incident
  <2> QED BY <2>1, <2>2
<1>3. \A u \in produced.updates \ D :
         Stored(u) \/ u \in OnTheWay => Stored(u)' \/ u \in OnTheWay'
  BY <1>1 DEF Stored, OnTheWay, InItem, InQueue, ToDo
<1> QED BY <1>1, <1>2, <1>3, QuietStep

LEMMA AcknowledgeAccounts ==
    ASSUME TypeOK, TypeOK', Ordered, NEW D, Accounted(D), NEW c \in Clients, Acknowledge(c)
    PROVE  Ordered' /\ Accounted(D)'
<1>1. /\ UNCHANGED <<queue, pending, cycle, mon, Latest, store, engine>>
      /\ produced' = produced
      /\ shared'.droppedUpdates = shared.droppedUpdates
  BY DEF Acknowledge, AcknowledgeRow, AcknowledgeSnapshot, Latest, storageVars, monitorVars,
         historyVars, TypeOK, Snapshot
<1>2. ASSUME NEW u, Stored(u)
      PROVE  Stored(u)'
  <2>1. PICK r \in rows : Same(r, u) /\ (u.until # None => r.until # None /\ r.until >= u.until)
    BY <1>2 DEF Stored
  <2>2. CASE rows' = rows
    BY <1>2, <2>2 DEF Stored
  <2>3. ASSUME NEW i \in rows, AcknowledgeRow(c, i)
        PROVE  Stored(u)'
    <3> DEFINE r2 == IF Same(r, i) THEN [r EXCEPT !.acked = TRUE] ELSE r
    <3>1. r2 \in rows'
      BY <2>3 DEF AcknowledgeRow
    <3>2. r2.kind = r.kind /\ r2.at = r.at /\ r2.until = r.until
      BY DEF TypeOK, Incident
    <3> HIDE DEF r2
    <3> QED BY <2>1, <3>1, <3>2 DEF Stored, Same
  <2> QED BY <2>2, <2>3 DEF Acknowledge, AcknowledgeSnapshot, storageVars
<1>3. \A u \in produced.updates \ D :
         Stored(u) \/ u \in OnTheWay => Stored(u)' \/ u \in OnTheWay'
  BY <1>1, <1>2 DEF OnTheWay, InItem, InQueue, ToDo
<1>4. \A k \in Open(engine)' : engine'[k].at <= Latest
  BY <1>1 DEF Ordered, Open
<1> QED BY <1>1, <1>3, <1>4, QuietStep

LEMMA StorageAccounts ==
    ASSUME TypeOK, TypeOK', Ordered, NEW D, Accounted(D), Storage, store'.pc # "failed"
    PROVE  Ordered' /\ Accounted(D)'
<1>1. CASE StorageReceives
  BY <1>1, ReceivesAccounts
<1>2. CASE StorageUpserts
  BY <1>2, UpsertsAccounts
<1>3. CASE StorageCompletes
  BY <1>3, CompletesAccounts
<1>4. CASE StorageRecords \/ StorageFails \/ StorageExits
  <2>1. /\ UNCHANGED <<queue, pending, cycle, mon, engine, produced, rows, Latest>>
        /\ shared'.droppedUpdates = shared.droppedUpdates
        /\ (store'.pc = "busy") = (store.pc = "busy")
        /\ store.pc = "busy" => store'.item = store.item
                                /\ (store'.done = 0 \/ (store'.done = 1 /\ store.done = 0))
    <3>1. CASE StorageRecords
      BY <3>1 DEF StorageRecords, monitorVars, historyVars, Latest, TypeOK, StoreState
    <3>2. CASE StorageFails
      <4>1. ~stop
        BY <3>2 DEF StorageFails
      <4>2. store' = [store EXCEPT !.done = 0] /\ queue' = queue
        BY <3>2, <4>1 DEF StorageFails, Retry
      <4>3. store'.pc = store.pc /\ store'.item = store.item /\ store'.done = 0
        BY <4>2 DEF TypeOK, StoreState
      <4>4. shared'.droppedUpdates = shared.droppedUpdates
        BY <3>2 DEF StorageFails, TypeOK, Snapshot
      <4>5. UNCHANGED <<pending, cycle, mon, engine, produced, rows, Latest>>
        <5>1. UNCHANGED <<cycle, mon>>
          BY <3>2 DEF StorageFails, monitorVars
        <5>2. Latest' = Latest
          BY <5>1 DEF Latest
        <5> QED BY <3>2, <5>1, <5>2 DEF StorageFails, monitorVars, historyVars
      <4>6. (store'.pc = "busy") = (store.pc = "busy")
        BY <4>3
      <4>7. store'.item = store.item /\ (store'.done = 0 \/ (store'.done = 1 /\ store.done = 0))
        BY <4>3
      <4> QED BY <4>2, <4>4, <4>5, <4>6, <4>7
    <3>3. CASE StorageExits
      <4>1. store.pc = "idle" /\ store'.pc = "drained"
        BY <3>3 DEF StorageExits, TypeOK, StoreState
      <4> QED BY <3>3, <4>1 DEF StorageExits, monitorVars, historyVars, Latest
    <3> QED BY <1>4, <3>1, <3>2, <3>3
  <2>2. \A u : u \in InItem => u \in InItem'
    <3>1. store.pc = "busy" => \A p \in DOMAIN store.item.events : p >= 1 /\ p >= 0
      <4>1. store.pc = "busy" => store.item.events \in Seq(Incident)
        BY DEF TypeOK, Item
      <4> QED BY <4>1
    <3> QED BY <2>1, <3>1 DEF InItem, ToDo
  <2>3. \A u \in produced.updates \ D :
           Stored(u) \/ u \in OnTheWay => Stored(u)' \/ u \in OnTheWay'
    BY <2>1, <2>2 DEF Stored, OnTheWay, InQueue
  <2>4. \A k \in Open(engine)' : engine'[k].at <= Latest
    BY <2>1 DEF Ordered, Open
  <2> QED BY <2>1, <2>3, <2>4, QuietStep
<1> QED BY <1>1, <1>2, <1>3, <1>4 DEF Storage

LEMMA IdleAccounts ==
    ASSUME TypeOK, TypeOK', Ordered, NEW D, Accounted(D),
           OpenFails \/ MonitorExits \/ Signal \/ UNCHANGED vars
    PROVE  Ordered' /\ Accounted(D)'
<1>1. /\ UNCHANGED <<queue, pending, cycle, engine, produced, rows, store>>
      /\ shared'.droppedUpdates = shared.droppedUpdates
      /\ Latest' = Latest
  BY DEF OpenFails, MonitorExits, Signal, vars, monitorVars, storageVars, historyVars, Latest,
         TypeOK, Snapshot
<1>2. \A u \in produced.updates \ D :
         Stored(u) \/ u \in OnTheWay => Stored(u)' \/ u \in OnTheWay'
  BY <1>1 DEF Stored, OnTheWay, InItem, InQueue, ToDo
<1>3. \A k \in Open(engine)' : engine'[k].at <= Latest
  BY <1>1 DEF Ordered, Open
<1> QED BY <1>1, <1>2, <1>3, QuietStep

\* The rows are of cycles that are over.
LEMMA RowsStayPast ==
    ASSUME TypeOK, TypeOK', RowsArePast, store.pc # "failed" => Ordered, [Next]_vars
    PROVE  RowsArePast'
<1> USE DEF monitorVars, storageVars, historyVars
<1>1. \A r \in rows \cup startup : r \in Incident /\ r.at \in Nat /\ r.at < cycle
  BY DEF RowsArePast, TypeOK, Incident
<1>2. cycle \in Nat /\ (cycle' = cycle \/ cycle' = cycle + 1)
  BY DEF TypeOK, Next, Monitor, OpenDevice, OpenFails, TakeSample, Publish, SampleFails,
         MonitorExits, Storage, StorageReceives, StorageRecords, StorageUpserts, StorageCompletes,
         StorageFails, StorageExits, Signal, Acknowledge, AcknowledgeRow, AcknowledgeSnapshot,
         Restart, vars
<1>3. CASE UNCHANGED <<rows, startup>>
  BY <1>1, <1>2, <1>3 DEF RowsArePast
<1>4. CASE StorageUpserts
  <2> DEFINE e == store.item.events[store.done]
  <2>1. store.pc = "busy" /\ rows' = Upsert(e) /\ UNCHANGED <<startup, cycle>>
    BY <1>4 DEF StorageUpserts
  <2>2. e \in ToSet(Parcel(0)) /\ 0 \in 0 .. Len(queue)
    BY <1>4 DEF StorageUpserts, Parcel, ToSet, TypeOK, Item
  <2>3. e.at < cycle
    BY <2>1, <2>2 DEF Ordered
  <2> HIDE DEF e
  <2>4. \A r \in rows : [r EXCEPT !.until = e.until].at = r.at
    BY <1>1 DEF Incident
  <2>5. \A r \in rows' : r.at < cycle
    BY <1>1, <2>1, <2>3, <2>4 DEF Upsert
  <2> QED BY <1>1, <2>1, <2>5 DEF RowsArePast
<1>5. ASSUME NEW c \in Clients, NEW i \in rows, AcknowledgeRow(c, i)
      PROVE  RowsArePast'
  <2>1. UNCHANGED <<startup, cycle>>
    BY <1>5 DEF AcknowledgeRow
  <2>2. \A r \in rows : [r EXCEPT !.acked = TRUE].at = r.at
    BY <1>1 DEF Incident
  <2>3. \A r \in rows' : r.at < cycle
    BY <1>1, <1>5, <2>2 DEF AcknowledgeRow
  <2> QED BY <1>1, <2>1, <2>3 DEF RowsArePast
<1>6. CASE Restart
  BY <1>1, <1>6 DEF Restart, RowsArePast, OpenRows
<1>7. CASE Monitor \/ Signal \/ UNCHANGED vars
  BY <1>3, <1>7 DEF Monitor, OpenDevice, OpenFails, TakeSample, Publish, SampleFails, MonitorExits,
                    Signal, vars
<1>8. CASE Storage
  BY <1>3, <1>4, <1>8 DEF Storage, StorageReceives, StorageRecords, StorageCompletes, StorageFails,
                          StorageExits
<1>9. CASE \E c \in Clients : Acknowledge(c)
  BY <1>3, <1>5, <1>9 DEF Acknowledge, AcknowledgeSnapshot
<1> QED BY <1>6, <1>7, <1>8, <1>9 DEF Next

\* A daemon that has just started owes nothing.
LEMMA FreshAccounts ==
    ASSUME queue = <<>>, pending = <<>>, store = IdleStore, engine = NoneActive,
           produced = NothingProduced, shared.droppedUpdates = 0
    PROVE  Ordered /\ \E D : Accounted(D)
<1>1. /\ \A n \in Parcels : Parcel(n) = <<>>
      /\ \A n \in 0 .. Len(queue) : Parcel(n) = <<>>
  BY DEF Parcels, Parcel, IdleStore
<1>2. ToSet(<<>>) = {} /\ InOrder(<<>>)
  BY DEF ToSet, InOrder
<1>3. Ordered
  BY <1>1, <1>2 DEF Ordered, Open, NoneActive, NothingProduced
<1>4. Accounted({})
  BY FS_EmptySet DEF Accounted, NothingProduced
<1> QED BY <1>3, <1>4

LEMMA FreshAccountsNext ==
    ASSUME queue' = <<>>, pending' = <<>>, store' = IdleStore, engine' = NoneActive,
           produced' = NothingProduced, shared'.droppedUpdates = 0
    PROVE  Ordered' /\ \E D : Accounted(D)'
<1>1. /\ \A n \in Parcels' : Parcel(n)' = <<>>
      /\ \A n \in 0 .. Len(queue') : Parcel(n)' = <<>>
  BY DEF Parcels, Parcel, IdleStore
<1>2. ToSet(<<>>) = {} /\ InOrder(<<>>)
  BY DEF ToSet, InOrder
<1>3. Ordered'
  BY <1>1, <1>2 DEF Ordered, Open, NoneActive, NothingProduced
<1>4. Accounted({})'
  BY FS_EmptySet DEF Accounted, NothingProduced
<1> QED BY <1>3, <1>4

\* The account is kept in every reachable state.
THEOREM UpdatesAreAccounted == Spec => []UpdatesInv
<1>1. Init => UpdatesInv
  <2> SUFFICES ASSUME Init PROVE UpdatesInv
    OBVIOUS
  <2>1. RowsArePast
    BY DEF Init, RowsArePast
  <2>2. shared.droppedUpdates = 0
    BY DEF Init, FirstSnapshot
  <2> QED BY <2>1, <2>2, FreshAccounts DEF Init, UpdatesInv
<1>2. TypeOK /\ TypeOK' /\ ThreadsInv /\ UpdatesInv /\ [Next]_vars => UpdatesInv'
  <2> SUFFICES ASSUME TypeOK, TypeOK', ThreadsInv, UpdatesInv, [Next]_vars PROVE UpdatesInv'
    OBVIOUS
  <2>1. RowsArePast'
    BY RowsStayPast DEF UpdatesInv
  <2>2. CASE Restart
    <3>1. shared'.droppedUpdates = 0
      BY <2>2 DEF Restart, FirstSnapshot
    <3>2. queue' = <<>> /\ pending' = <<>> /\ store' = IdleStore /\ engine' = NoneActive
          /\ produced' = NothingProduced
      BY <2>2 DEF Restart
    <3>3. Ordered' /\ \E D : Accounted(D)'
      BY <3>1, <3>2, FreshAccountsNext
    <3> QED BY <2>1, <3>3 DEF UpdatesInv
  <2>3. CASE store'.pc = "failed"
    BY <2>1, <2>3 DEF UpdatesInv
  <2>4. CASE ~Restart /\ store'.pc # "failed"
    <3>1. store.pc # "failed"
      BY <2>4, FailedStays
    <3>2. RowsArePast /\ Ordered
      BY <3>1 DEF UpdatesInv
    <3>3. PICK D : Accounted(D)
      BY <3>1 DEF UpdatesInv
    <3>4. Ordered' /\ \E E : Accounted(E)'
      BY <2>4, <3>1, <3>2, <3>3, OpenDeviceAccounts, TakeSampleAccounts, PublishAccounts,
         SampleFailsAccounts, StorageAccounts, AcknowledgeAccounts, IdleAccounts
      DEF Next, Monitor
    <3> QED BY <2>1, <3>4 DEF UpdatesInv
  <2> QED BY <2>2, <2>3, <2>4
<1> QED BY <1>1, <1>2, RuntimeTypeCorrect, ThreadsAgree, PTL DEF Spec

\* Every incident update is stored, on its way or counted, whatever fails, is
\* repeated, overflows or restarts: the updates travel in the order in which
\* they are made, so that none that is stored, or stored again, undoes a younger
\* one that is not still behind it (start, bound_pending, upsert_incident).
THEOREM NoUpdateIsLost == Spec => []NoUpdateLostUnnoticed
<1>1. TypeOK /\ UpdatesInv => NoUpdateLostUnnoticed
  <2> SUFFICES ASSUME TypeOK, UpdatesInv, store.pc # "failed"
               PROVE  Cardinality({u \in produced.updates : ~Stored(u) /\ u \notin OnTheWay})
                        <= shared.droppedUpdates
    BY DEF NoUpdateLostUnnoticed
  <2> DEFINE Lost == {u \in produced.updates : ~Stored(u) /\ u \notin OnTheWay}
  <2>1. PICK D : Accounted(D)
    BY DEF UpdatesInv
  <2>2. /\ Lost \subseteq D
        /\ IsFiniteSet(D) /\ Cardinality(D) <= shared.droppedUpdates
    BY <2>1 DEF Accounted
  <2>3. shared.droppedUpdates \in Nat
    BY DEF TypeOK, Snapshot
  <2> HIDE DEF Lost
  <2>4. Cardinality(Lost) <= shared.droppedUpdates
    BY <2>2, <2>3, PartIsBounded
  <2> QED BY <2>4 DEF Lost
<1> QED BY <1>1, RuntimeTypeCorrect, UpdatesAreAccounted, PTL

-----------------------------------------------------------------------------
\* The table and the engine.

\* All updates in the parcels, also those of the item in hand that are done.
Carried == {u \in Incident : \E n \in Parcels : u \in ToSet(Parcel(n))}

\* No update travels in a later parcel than what is younger.
Cross ==
    \A m, n \in Parcels : m < n =>
        \A u \in ToSet(Parcel(m)), v \in ToSet(Parcel(n)) : When(u) <= When(v)

\* The recovery of an incident.
Ends(v, u) == v.until # None /\ Same(v, u)

\* The engine holds the incident open.
Held(u) == engine[u.kind] # None /\ engine[u.kind].at = u.at

\* What is on the way is in a parcel, and in the parcels as a whole are
\* incidents.
LEMMA OnTheWayIsCarried ==
    ASSUME TypeOK
    PROVE  /\ OnTheWay \subseteq Carried /\ Carried \subseteq Incident
           /\ \A n \in Parcels : ToSet(Parcel(n)) \subseteq Carried
<1>1. \A n \in Parcels : ToSet(Parcel(n)) \subseteq Incident
  BY ParcelType DEF ToSet
<1>2. Len(queue) \in Nat
  BY DEF TypeOK
<1>3. 0 \in Parcels /\ \A n \in 1 .. Len(queue) + 1 : n \in Parcels
  BY <1>2 DEF Parcels
<1>4. \A u \in OnTheWay : \E n \in Parcels : u \in ToSet(Parcel(n))
  BY <1>3, OnTheWayByParcel DEF ToSet
<1> QED BY <1>1, <1>4 DEF Carried

LEMMA OnTheWayIsCarriedNext ==
    ASSUME TypeOK'
    PROVE  /\ OnTheWay' \subseteq Carried' /\ Carried' \subseteq Incident
           /\ \A n \in Parcels' : ToSet(Parcel(n)') \subseteq Carried'
<1>1. ASSUME NEW n \in Parcels'
      PROVE  ToSet(Parcel(n)') \subseteq Incident
  <2>1. Parcel(n)' \in Seq(Incident)
    <3>1. CASE n = 0
      BY <3>1, EmptySeq DEF TypeOK, Item, Parcel
    <3>2. CASE n # 0 /\ n <= Len(queue')
      <4>1. n \in 1 .. Len(queue') /\ queue' \in Seq(Item)
        BY <3>2 DEF TypeOK, Parcels
      <4>2. queue'[n] \in Item
        BY <4>1, ElementOfSeq
      <4> QED BY <3>2, <4>2 DEF Item, Parcel
    <3>3. CASE n # 0 /\ ~(n <= Len(queue'))
      BY <3>3 DEF TypeOK, Parcel
    <3> QED BY <3>1, <3>2, <3>3
  <2> QED BY <2>1 DEF ToSet
<1>2. Len(queue') \in Nat /\ 0 \in Parcels'
  BY DEF TypeOK, Parcels
<1>3. InItem' \subseteq ToSet(Parcel(0)')
  BY DEF InItem, ToDo, Parcel, ToSet
<1>4. \A u \in InQueue' : \E n \in Parcels' : u \in ToSet(Parcel(n)')
  <2>1. DOMAIN queue' = 1 .. Len(queue')
    BY DEF TypeOK
  <2>2. ASSUME NEW n \in DOMAIN queue'
        PROVE  n \in Parcels' /\ Parcel(n)' = queue'[n].events
    BY <1>2, <2>1 DEF Parcels, Parcel
  <2> QED BY <2>2 DEF InQueue
<1>5. ASSUME NEW m, m = Len(queue') + 1
      PROVE  m \in Parcels' /\ Parcel(m)' = pending'
  BY <1>2, <1>5 DEF Parcels, Parcel
<1>6. \A u \in ToSet(pending') : \E n \in Parcels' : u \in ToSet(Parcel(n)')
  BY <1>5
<1>7. \A u \in InItem' : \E n \in Parcels' : u \in ToSet(Parcel(n)')
  BY <1>2, <1>3
<1>8. \A u \in OnTheWay' : \E n \in Parcels' : u \in ToSet(Parcel(n)')
  BY <1>4, <1>6, <1>7 DEF OnTheWay
<1> QED BY <1>1, <1>8 DEF Carried

\* A step that moves no parcel.
LEMMA ParcelsStay ==
    ASSUME UNCHANGED <<queue, pending>>, store'.pc = "busy" <=> store.pc = "busy",
           store.pc = "busy" => store'.item = store.item
    PROVE  Carried' = Carried /\ Cross' = Cross
<1>1. Parcels' = Parcels /\ \A n \in Parcels : Parcel(n)' = Parcel(n)
  BY DEF Parcels, Parcel
<1> QED BY <1>1 DEF Carried, Cross

\* Updates of now join those that are pending, and all may be sent: nothing that
\* was on the way is gone, and the order of the parcels stays.
LEMMA AddedUpdates ==
    ASSUME TypeOK, TypeOK', Ordered, Cross,
           NEW seq \in Seq(Incident), NEW ev \in Seq(Incident),
           Shifted(ev, pending, seq, 0), Extended(ev), store' = store,
           \A u \in ToSet(seq) : When(u) = cycle, Latest <= cycle
    PROVE  /\ Carried' = Carried \cup ToSet(seq)
           /\ OnTheWay' = OnTheWay \cup ToSet(seq)
           /\ Cross'
<1> SUFFICES ASSUME NEW l, l = Len(queue)
             PROVE  /\ Carried' = Carried \cup ToSet(seq)
                    /\ OnTheWay' = OnTheWay \cup ToSet(seq)
                    /\ Cross'
  OBVIOUS
<1> DEFINE last == l + 1
           new == ToSet(seq)
<1>1. /\ l \in Nat /\ Len(queue') \in Nat
      /\ Len(queue') = l \/ Len(queue') = l + 1
      /\ queue' = queue => Len(queue') = l
      /\ \A n \in 0 .. l : Parcel(n)' = Parcel(n)
      /\ Parcel(last)' = ev
      /\ Parcel(last) = pending
      /\ \A n \in Parcels' : n > last => Parcel(n)' = <<>>
  BY ExtendedParcels
<1>2. ToSet(ev) = ToSet(pending) \cup new /\ new \subseteq Incident /\ pending \in Seq(Incident)
  <2>1. pending \in Seq(Incident)
    BY DEF TypeOK
  <2>2. /\ ToSet(ev) \subseteq ToSet(pending) \cup new
        /\ \E gone : /\ IsFiniteSet(gone) /\ Cardinality(gone) <= 0
                     /\ ToSet(pending) \cup new \subseteq gone \cup ToSet(ev)
    BY <2>1, ShiftedDrops
  <2>3. PICK gone : /\ IsFiniteSet(gone) /\ Cardinality(gone) <= 0
                    /\ ToSet(pending) \cup new \subseteq gone \cup ToSet(ev)
    BY <2>2
  <2>4. gone = {}
    <3>1. Cardinality(gone) \in Nat
      BY <2>3, FS_CardinalityType
    <3>2. Cardinality(gone) = 0
      BY <2>3, <3>1
    <3> QED BY <2>3, <3>2, FS_EmptySet
  <2>5. new \subseteq Incident
    BY DEF ToSet
  <2> QED BY <2>1, <2>2, <2>3, <2>4, <2>5
<1>3. /\ Parcels = 0 .. last /\ Parcels \subseteq Parcels'
      /\ \A n \in Parcels' : n \notin Parcels => n > last
  BY <1>1 DEF Parcels
<1>4. \A n \in Parcels : ToSet(Parcel(n)') = IF n = last THEN ToSet(Parcel(n)) \cup new
                                             ELSE ToSet(Parcel(n))
  BY <1>1, <1>2, <1>3
<1>5. \A n \in Parcels' : n \notin Parcels => ToSet(Parcel(n)') = {}
  BY <1>1, <1>3 DEF ToSet
<1>6. last \in Parcels
  BY <1>1, <1>3
<1> HIDE DEF new, last
<1>7. Carried' = Carried \cup new
  BY <1>2, <1>3, <1>4, <1>5, <1>6 DEF Carried
<1>8. Cross'
  <2> SUFFICES ASSUME NEW m \in Parcels', NEW n \in Parcels', m < n,
                      NEW u \in ToSet(Parcel(m)'), NEW v \in ToSet(Parcel(n)')
               PROVE  When(u) <= When(v)
    BY DEF Cross, When
  <2>1. m \in Parcels /\ n \in Parcels
    BY <1>5
  <2>2. m # last /\ u \in ToSet(Parcel(m)) /\ u \in Incident
    <3>1. m # last
      BY <1>1, <1>3, <2>1 DEF last
    <3>2. u \in ToSet(Parcel(m))
      BY <1>4, <2>1, <3>1
    <3> QED BY <2>1, <3>1, <3>2, ParcelType DEF ToSet
  <2>3. CASE v \in ToSet(Parcel(n))
    BY <2>1, <2>2, <2>3 DEF Cross
  <2>4. CASE v \in new
    <3>1. Dated(u, Latest)
      BY <2>1, <2>2 DEF Ordered
    <3>2. When(v) = cycle /\ cycle \in Int /\ Latest \in Int
      BY <2>4 DEF new, TypeOK, Latest
    <3>3. When(u) \in Int
      BY <2>2 DEF When, Incident
    <3> QED BY <3>1, <3>2, <3>3 DEF Dated
  <2> QED BY <1>4, <2>1, <2>3, <2>4
<1>9. OnTheWay' = OnTheWay \cup new
  <2>1. InItem' = InItem
    BY DEF InItem, ToDo
  <2>2. CASE queue' = queue /\ pending' = ev
    BY <1>2, <2>1, <2>2 DEF OnTheWay, InQueue
  <2>3. ASSUME NEW s \in Sample, Sent([sample |-> s, events |-> ev]), pending' = <<>>
        PROVE  OnTheWay' = OnTheWay \cup new
    <3>1. /\ DOMAIN queue = 1 .. l /\ DOMAIN queue' = 1 .. l + 1
          /\ queue'[l + 1] = [sample |-> s, events |-> ev]
          /\ \A n \in DOMAIN queue : queue'[n] = queue[n]
      BY <2>3, SentGrows
    <3>2. \A n \in DOMAIN queue' : n \in DOMAIN queue \/ n = l + 1
      BY <1>1, <3>1
    <3>3. DOMAIN queue \subseteq DOMAIN queue' /\ l + 1 \in DOMAIN queue'
      BY <1>1, <3>1
    <3>4. InQueue' = InQueue \cup ToSet(ev)
      BY <3>1, <3>2, <3>3 DEF InQueue
    <3>5. ToSet(pending') = {}
      BY <2>3 DEF ToSet
    <3> QED BY <1>2, <2>1, <3>4, <3>5 DEF OnTheWay
  <2> QED BY <2>2, <2>3 DEF Extended
<1> QED BY <1>7, <1>8, <1>9 DEF new

\* The storage thread takes the oldest parcel, as it is.
LEMMA ReceivedUpdates ==
    ASSUME TypeOK, TypeOK', Cross, StorageReceives
    PROVE  Carried' = Carried /\ OnTheWay' = OnTheWay /\ Cross'
<1> SUFFICES ASSUME NEW l, l = Len(queue)
             PROVE  Carried' = Carried /\ OnTheWay' = OnTheWay /\ Cross'
  OBVIOUS
<1>1. /\ l \in Nat /\ l > 0 /\ Len(queue') = l - 1
      /\ DOMAIN queue = 1 .. l /\ DOMAIN queue' = 1 .. l - 1
      /\ store.pc # "busy" /\ store'.pc = "busy" /\ store'.done = 0 /\ store'.item = queue[1]
      /\ \A n \in 1 .. l - 1 : queue'[n] = queue[n + 1]
      /\ pending' = pending
  BY ReceivedShrinks DEF StorageReceives, monitorVars
<1>2. Parcels = 0 .. l + 1 /\ Parcels' = 0 .. l /\ Parcel(0) = <<>>
  BY <1>1 DEF Parcels, Parcel
<1>3. ASSUME NEW n \in 0 .. l
      PROVE  Parcel(n)' = Parcel(n + 1)
  <2>1. CASE n = 0
    BY <1>1, <2>1 DEF Parcel
  <2>2. CASE n \in 1 .. l - 1
    BY <1>1, <2>2 DEF Parcel
  <2>3. CASE n = l
    BY <1>1, <2>3 DEF Parcel
  <2> QED BY <1>1, <2>1, <2>2, <2>3
<1>4. ToSet(Parcel(0)) = {}
  BY <1>2 DEF ToSet
<1>5. \A n \in 1 .. l + 1 : n - 1 \in 0 .. l /\ Parcel(n - 1)' = Parcel(n)
  <2>1. ASSUME NEW n \in 1 .. l + 1
        PROVE  n - 1 \in 0 .. l /\ (n - 1) + 1 = n
    BY <1>1
  <2> QED BY <1>3, <2>1
<1>6. \A n \in 0 .. l : n + 1 \in 1 .. l + 1
  BY <1>1
<1>7. Carried' = Carried
  <2>1. \A n \in Parcels : n = 0 \/ n \in 1 .. l + 1
    BY <1>2
  <2>2. 1 .. l + 1 \subseteq Parcels
    BY <1>1, <1>2
  <2>3. \A u \in Carried : u \in Carried'
    BY <1>2, <1>4, <1>5, <2>1 DEF Carried
  <2>4. \A u \in Carried' : u \in Carried
    BY <1>2, <1>3, <1>6, <2>2 DEF Carried
  <2> QED BY <2>3, <2>4
<1>8. Cross'
  <2>1. \A m, n \in 0 .. l : m < n => m + 1 < n + 1 /\ m + 1 \in Parcels /\ n + 1 \in Parcels
    BY <1>1, <1>2
  <2> QED BY <1>2, <1>3, <2>1 DEF Cross, When
<1>9. OnTheWay' = OnTheWay
  <2>1. InItem = {}
    BY <1>1 DEF InItem
  <2>2. InItem' = ToSet(queue[1].events)
    <3>1. queue[1] \in Item
      BY <1>1 DEF TypeOK
    <3>2. \A p \in DOMAIN queue[1].events : p >= 0
      BY <3>1 DEF Item
    <3> QED BY <1>1, <3>2 DEF InItem, ToDo, ToSet
  <2>3. \A u \in InQueue : u \in ToSet(queue[1].events) \/ u \in InQueue'
    <3>1. ASSUME NEW n \in 1 .. l, n # 1
          PROVE  n - 1 \in 1 .. l - 1 /\ queue'[n - 1] = queue[n]
      <4>1. n - 1 \in 1 .. l - 1 /\ (n - 1) + 1 = n
        BY <1>1, <3>1
      <4> QED BY <1>1, <4>1
    <3> QED BY <1>1, <3>1 DEF InQueue
  <2>4. ToSet(queue[1].events) \subseteq InQueue
    BY <1>1 DEF InQueue
  <2>5. InQueue' \subseteq InQueue
    <3>1. \A n \in 1 .. l - 1 : n + 1 \in 1 .. l
      BY <1>1
    <3> QED BY <1>1, <3>1 DEF InQueue
  <2> QED BY <1>1, <2>1, <2>2, <2>3, <2>4, <2>5 DEF OnTheWay
<1> QED BY <1>7, <1>8, <1>9

\* What the parcels say of the order of two updates: a younger one is still on
\* the way when an older one is, and the item has none that is younger than one
\* of another parcel.
LEMMA YoungerFollows ==
    ASSUME TypeOK, Ordered, Cross, NEW u \in OnTheWay, NEW v \in Carried, When(u) < When(v)
    PROVE  v \in OnTheWay
<1>1. /\ u \in Incident /\ v \in Incident /\ When(u) \in Int /\ When(v) \in Int
  BY OnTheWayIsCarried DEF Incident, When
<1>2. Len(queue) \in Nat /\ 0 \in Parcels /\ DOMAIN Parcel(0) \subseteq Nat
  BY ParcelType DEF TypeOK, Parcels
<1>3. PICK n \in Parcels : v \in ToSet(Parcel(n))
  BY DEF Carried
<1>4. CASE n # 0
  BY <1>2, <1>3, <1>4, OnTheWayByParcel DEF Parcels
<1>5. CASE n = 0
  <2>1. PICK q \in DOMAIN Parcel(0) : v = Parcel(0)[q]
    BY <1>3, <1>5 DEF ToSet
  <2>2. PICK p \in DOMAIN Parcel(0) : p >= store.done /\ u = Parcel(0)[p]
    <3>1. ASSUME NEW m \in 1 .. Len(queue) + 1, u \in ToSet(Parcel(m))
          PROVE  FALSE
      <4>1. m \in Parcels /\ 0 < m
        BY <1>2 DEF Parcels
      <4>2. When(v) <= When(u)
        BY <1>2, <1>3, <1>5, <3>1, <4>1 DEF Cross
      <4> QED BY <1>1, <4>2
    <3> QED BY <3>1, OnTheWayByParcel
  <2>3. ~(q < p)
    <3>1. InOrder(Parcel(0))
      BY <1>2 DEF Ordered
    <3>2. q < p => When(v) <= When(u)
      BY <2>1, <2>2, <3>1 DEF InOrder
    <3> QED BY <1>1, <3>2
  <2>4. q >= store.done
    <3>1. p \in Nat /\ q \in Nat
      BY <1>2
    <3>2. store.done \in Nat
      BY DEF TypeOK, StoreState
    <3> QED BY <2>2, <2>3, <3>1, <3>2
  <2> QED BY <2>1, <2>4, OnTheWayByParcel
<1> QED BY <1>4, <1>5

\* The update that is stored is one of the oldest on the way, and the rest stays
\* there.
LEMMA UpsertedUpdates ==
    ASSUME TypeOK, TypeOK', Ordered, Cross, StorageUpserts, NEW e, e = store.item.events[store.done]
    PROVE  /\ Carried' = Carried /\ Cross'
           /\ e \in OnTheWay
           /\ OnTheWay' \subseteq OnTheWay /\ OnTheWay \subseteq OnTheWay' \cup {e}
           /\ \A u \in OnTheWay : When(e) <= When(u)
<1>1. /\ store.pc = "busy" /\ store.done \in 1 .. Len(store.item.events)
      /\ store' = [store EXCEPT !.done = @ + 1]
      /\ UNCHANGED <<queue, pending>>
  BY DEF StorageUpserts, monitorVars
<1>2. /\ store.item \in Item /\ store.item.events \in Seq(Incident)
      /\ Parcel(0) = store.item.events /\ DOMAIN store.item.events = 1 .. Len(store.item.events)
      /\ store'.item = store.item /\ store'.pc = "busy" /\ store'.done = store.done + 1
      /\ store.done \in Nat /\ Len(store.item.events) \in Nat
      /\ Len(queue) \in Nat /\ 0 \in Parcels
  <2>1. store.item \in Item /\ store \in StoreState /\ Len(queue) \in Nat
    BY <1>1 DEF TypeOK
  <2>2. store.item.events \in Seq(Incident)
    BY <2>1 DEF Item
  <2>3. store'.item = store.item /\ store'.pc = "busy" /\ store'.done = store.done + 1
        /\ store.done \in Nat
    BY <1>1, <2>1 DEF StoreState
  <2>4. DOMAIN store.item.events = 1 .. Len(store.item.events) /\ Len(store.item.events) \in Nat
    BY <2>2
  <2>5. Parcel(0) = store.item.events /\ 0 \in Parcels
    BY <1>1, <2>1 DEF Parcel, Parcels
  <2> QED BY <2>1, <2>2, <2>3, <2>4, <2>5
<1>3. Carried' = Carried /\ Cross'
  <2>1. Carried' = Carried /\ Cross' = Cross
    BY <1>1, <1>2, ParcelsStay
  <2> QED BY <2>1
<1>4. e \in OnTheWay /\ e \in Incident
  <2>1. e \in InItem
    <3>1. store.done \in ToDo
      BY <1>1, <1>2 DEF ToDo
    <3> QED BY <1>1, <3>1 DEF InItem
  <2>2. e \in Incident
    BY <1>1, <1>2, ElementOfSeq
  <2> QED BY <2>1, <2>2 DEF OnTheWay
<1>5. InItem' \subseteq InItem /\ InItem \subseteq InItem' \cup {e}
  <2>1. ToDo = {n \in 1 .. Len(store.item.events) : n >= store.done}
        /\ ToDo' = {n \in 1 .. Len(store.item.events) : n >= store.done + 1}
    BY <1>2 DEF ToDo
  <2>2. ToDo' \subseteq ToDo /\ ToDo \subseteq ToDo' \cup {store.done}
    BY <1>1, <1>2, <2>1
  <2>3. InItem = {store.item.events[n] : n \in ToDo} /\ InItem' = {store.item.events[n] : n \in ToDo'}
    BY <1>1, <1>2 DEF InItem
  <2> QED BY <2>2, <2>3
<1>6. OnTheWay' \subseteq OnTheWay /\ OnTheWay \subseteq OnTheWay' \cup {e}
  BY <1>1, <1>5 DEF OnTheWay, InQueue
<1>7. ASSUME NEW u \in OnTheWay
      PROVE  When(e) <= When(u)
  <2>1. e \in ToSet(Parcel(0))
    BY <1>1, <1>2 DEF ToSet
  <2>2. CASE \E p \in DOMAIN Parcel(0) : p >= store.done /\ u = Parcel(0)[p]
    <3>1. PICK p \in 1 .. Len(store.item.events) : p >= store.done /\ u = store.item.events[p]
      BY <1>2, <2>2
    <3>2. InOrder(store.item.events)
      BY <1>2 DEF Ordered
    <3>3. p = store.done \/ store.done < p
      BY <1>1, <1>2, <3>1
    <3>4. When(e) \in Int
      BY <1>4 DEF When, Incident
    <3> QED BY <1>1, <1>2, <3>1, <3>2, <3>3, <3>4 DEF InOrder
  <2>3. CASE \E n \in 1 .. Len(queue) + 1 : u \in ToSet(Parcel(n))
    <3>1. PICK n \in 1 .. Len(queue) + 1 : u \in ToSet(Parcel(n))
      BY <2>3
    <3>2. n \in Parcels /\ 0 < n
      BY <1>2 DEF Parcels
    <3> QED BY <1>2, <2>1, <3>1, <3>2 DEF Cross
  <2> QED BY <2>2, <2>3, OnTheWayByParcel
<1> QED BY <1>3, <1>4, <1>6, <1>7

\* An item that is complete leaves nothing behind; its updates are the oldest.
LEMMA CompletedUpdates ==
    ASSUME TypeOK, TypeOK', Cross, StorageCompletes
    PROVE  /\ Carried' \subseteq Carried /\ OnTheWay' = OnTheWay /\ Cross'
           /\ \A u \in Carried', v \in Carried : v \in Carried' \/ When(v) <= When(u)
<1>1. /\ store.pc = "busy" /\ store.done > Len(store.item.events) /\ store'.pc = "idle"
      /\ UNCHANGED <<queue, pending>>
  BY DEF StorageCompletes, monitorVars, IdleStore
<1>2. store.item.events \in Seq(Incident) /\ Len(queue) \in Nat /\ store.done \in Nat
  BY <1>1 DEF TypeOK, StoreState, Item
<1>3. /\ Parcels' = Parcels /\ ToSet(Parcel(0)') = {} /\ 0 \in Parcels
      /\ \A n \in Parcels : n # 0 => Parcel(n)' = Parcel(n) /\ 0 < n
  BY <1>1, <1>2 DEF Parcels, Parcel, ToSet
<1>4. OnTheWay' = OnTheWay
  <2>1. InItem = {} /\ InItem' = {}
    BY <1>1, <1>2 DEF InItem, ToDo
  <2> QED BY <1>1, <2>1 DEF OnTheWay, InQueue
<1>5. Carried' \subseteq Carried
  BY <1>3 DEF Carried
<1>6. Cross'
  BY <1>3 DEF Cross, When
<1>7. ASSUME NEW u \in Carried', NEW v \in Carried, v \notin Carried'
      PROVE  When(v) <= When(u)
  <2>1. PICK n \in Parcels : n # 0 /\ u \in ToSet(Parcel(n))
    BY <1>3 DEF Carried
  <2>2. v \in ToSet(Parcel(0))
    BY <1>3, <1>7 DEF Carried
  <2> QED BY <1>3, <2>1, <2>2 DEF Cross
<1> QED BY <1>4, <1>5, <1>6, <1>7

\* The item again: what it has done is on the way once more.
LEMMA RetriedUpdates ==
    ASSUME TypeOK, UNCHANGED <<queue, pending>>,
           store'.pc = "busy" <=> store.pc = "busy", store.pc = "busy" => store'.item = store.item,
           store.pc = "busy" => (store'.done = 0 \/ (store'.done = 1 /\ store.done = 0))
    PROVE  OnTheWay \subseteq OnTheWay'
<1>1. store.pc = "busy" => \A p \in DOMAIN store.item.events : p >= 1 /\ p >= 0
  <2>1. store.pc = "busy" => store.item.events \in Seq(Incident)
    BY DEF TypeOK, Item
  <2> QED BY <2>1
<1>2. InItem \subseteq InItem'
  BY <1>1 DEF InItem, ToDo
<1> QED BY <1>2 DEF OnTheWay, InQueue

-----------------------------------------------------------------------------
\* The engine's incidents and the open rows are the same but for what is on the
\* way: an open row that the engine does not hold has its recovery on the way,
\* and so has an update that raises one in its parcels; what the engine holds is
\* an open row, or will be, and nothing ends it.
Matched ==
    /\ \A r \in OpenRows : Held(r) \/ \E v \in OnTheWay : Ends(v, r)
    /\ \A u \in Carried : u.until = None => Held(u) \/ \E v \in Carried : Ends(v, u)
    /\ \A k \in Open(engine) :
         /\ \E u \in OpenRows \cup OnTheWay : u.until = None /\ Same(u, engine[k])
         /\ ~\E v \in Carried : Ends(v, engine[k])

\* Of a kind one row is open, and it ends before another one is raised.
OneEach ==
    /\ \A r, q \in OpenRows : r.kind = q.kind => Same(r, q)
    /\ \A u \in OnTheWay, r \in OpenRows :
         u.until = None /\ r.kind = u.kind =>
            Same(r, u) \/ \E v \in OnTheWay : Ends(v, r) /\ v.until < u.at
    /\ \A u, r \in OnTheWay :
         u.until = None /\ r.until = None /\ r.kind = u.kind /\ r.at < u.at =>
            \E v \in OnTheWay : Ends(v, r) /\ v.until < u.at

\* A call of the engine with the updates N: what it ends was open, what it
\* raises was not, and all the rest stays open.
Called(N) ==
    /\ N \subseteq Incident
    /\ \A u \in N : u.until = None => /\ u.at = cycle
                                      /\ u.kind \notin Open(engine)
                                      /\ u.kind \in Open(engine') /\ engine'[u.kind].at = cycle
    /\ \A u \in N : u.until # None => u.kind \notin Open(engine')
    /\ \A k \in Open(engine) :
         \/ k \in Open(engine') /\ engine'[k].at = engine[k].at
         \/ \E u \in N : Ends(u, engine[k])
    /\ \A k \in Open(engine') :
         \/ k \in Open(engine) /\ engine'[k].at = engine[k].at
         \/ \E u \in N : u.until = None /\ Same(u, engine'[k])

\* What travels is not of the future, and a recovery is younger than its raise.
LEMMA CarriedIsDated ==
    ASSUME TypeOK, Ordered
    PROVE  /\ \A u \in Carried : u \in Incident /\ Dated(u, Latest) /\ When(u) \in Int /\ u.at \in Int
           /\ \A u, v \in Carried : u.until = None /\ Ends(v, u) => When(u) < When(v)
<1>1. \A u \in Carried : u \in Incident /\ Dated(u, Latest)
  BY DEF Carried, Ordered
<1>2. \A u \in Carried : When(u) \in Int /\ u.at \in Int
  BY <1>1 DEF When, Incident
<1>3. \A u, v \in Carried : u.until = None /\ Ends(v, u) => When(u) < When(v)
  BY <1>1 DEF Dated, Ends, Same, When
<1> QED BY <1>1, <1>2, <1>3

\* What the engine holds, by kind.
LEMMA HeldIsOpen ==
    ASSUME TypeOK, TypeOK'
    PROVE  /\ \A k \in Open(engine) : engine[k].kind = k /\ k \in Kinds
           /\ \A k \in Open(engine') : engine'[k].kind = k /\ k \in Kinds
           /\ \A u \in Incident : Held(u) <=> u.kind \in Open(engine) /\ engine[u.kind].at = u.at
           /\ \A u \in Incident : Held(u)' <=> u.kind \in Open(engine') /\ engine'[u.kind].at = u.at
  BY DEF TypeOK, ActiveMaps, Open, Held, Incident

\* The open rows are incidents.
LEMMA OpenRowsType ==
    ASSUME TypeOK, TypeOK'
    PROVE  /\ \A r \in OpenRows : r \in Incident /\ r.until = None /\ r \in rows
           /\ \A r \in OpenRows' : r \in Incident /\ r.until = None /\ r \in rows'
  BY DEF TypeOK, OpenRows

\* A call keeps the engine and the table matched.
LEMMA CallMatches ==
    ASSUME TypeOK, TypeOK', Ordered, Matched, NEW N, Called(N),
           Carried' = Carried \cup N, OnTheWay' = OnTheWay \cup N, rows' = rows,
           N # {} => Latest < cycle
    PROVE  Matched'
<1>1. OpenRows' = OpenRows
  BY DEF OpenRows
<1>2. /\ \A u \in Carried : u \in Incident /\ u.at <= Latest /\ u.at \in Int
      /\ cycle \in Int /\ Latest \in Int
  BY CarriedIsDated DEF Dated, TypeOK, Latest
<1>3. ASSUME NEW u \in Incident, Held(u)
      PROVE  Held(u)' \/ \E v \in N : Ends(v, u)
  <2>1. u.kind \in Open(engine) /\ engine[u.kind].at = u.at /\ engine[u.kind].kind = u.kind
    BY <1>3, HeldIsOpen
  <2>2. CASE u.kind \in Open(engine') /\ engine'[u.kind].at = engine[u.kind].at
    BY <2>1, <2>2, HeldIsOpen
  <2>3. CASE \E v \in N : Ends(v, engine[u.kind])
    BY <2>1, <2>3 DEF Ends, Same
  <2> QED BY <2>1, <2>2, <2>3 DEF Called
<1>4. \A r \in OpenRows : Held(r)' \/ \E v \in OnTheWay \cup N : Ends(v, r)
  BY <1>3, OpenRowsType DEF Matched
<1>5. \A u \in Carried \cup N : u.until = None => Held(u)' \/ \E v \in Carried \cup N : Ends(v, u)
  <2>1. \A u \in Carried : u.until = None => Held(u)' \/ \E v \in Carried \cup N : Ends(v, u)
    BY <1>2, <1>3 DEF Matched
  <2>2. \A u \in N : u.until = None => Held(u)'
    BY HeldIsOpen DEF Called
  <2> QED BY <2>1, <2>2
<1>6. ASSUME NEW k \in Open(engine')
      PROVE  /\ \E u \in OpenRows \cup (OnTheWay \cup N) : u.until = None /\ Same(u, engine'[k])
             /\ ~\E v \in Carried \cup N : Ends(v, engine'[k])
  <2>1. engine'[k].kind = k
    BY HeldIsOpen
  <2>2. \A v \in N : ~Ends(v, engine'[k])
    BY <2>1 DEF Called, Ends, Same
  <2>3. CASE k \in Open(engine) /\ engine'[k].at = engine[k].at
    <3>1. \A u : Same(u, engine'[k]) <=> Same(u, engine[k])
      BY <2>1, <2>3, HeldIsOpen DEF Same
    <3> QED BY <2>2, <2>3, <3>1 DEF Matched, Ends
  <2>4. CASE \E u \in N : u.until = None /\ Same(u, engine'[k])
    <3>1. PICK u \in N : u.until = None /\ Same(u, engine'[k])
      BY <2>4
    <3>2. engine'[k].at = cycle /\ Latest < cycle
      BY <3>1 DEF Called, Same
    <3>3. \A v \in Carried : ~Ends(v, engine'[k])
      BY <1>2, <3>2 DEF Ends, Same
    <3> QED BY <2>2, <3>1, <3>3
  <2> QED BY <2>3, <2>4 DEF Called
<1> QED BY <1>1, <1>4, <1>5, <1>6 DEF Matched, Ends, Open

\* What the engine raises comes after the end of what was open before.
LEMMA CallAddsOne ==
    ASSUME TypeOK, TypeOK', Ordered, Cross, Matched, OneEach, NEW N, Called(N),
           OnTheWay' = OnTheWay \cup N, rows' = rows,
           N # {} => Latest < cycle
    PROVE  OneEach'
<1>1. OpenRows' = OpenRows
  BY DEF OpenRows
<1>2. /\ \A u \in OnTheWay : u \in Carried /\ u \in Incident /\ u.at <= Latest /\ u.at \in Int
      /\ \A v \in OnTheWay : v.until # None => v.until <= Latest /\ v.until \in Int
      /\ cycle \in Int /\ Latest \in Int
  BY CarriedIsDated, OnTheWayIsCarried DEF Dated, TypeOK, Latest, When
<1>3. ASSUME NEW u \in N, u.until = None,
             NEW r \in OpenRows \cup OnTheWay, r.until = None, r.kind = u.kind
      PROVE  \E v \in OnTheWay : Ends(v, r) /\ v.until < u.at
  <2>1. u.at = cycle /\ u.kind \notin Open(engine) /\ Latest < cycle
    BY <1>3 DEF Called
  <2>2. r \in Incident /\ ~Held(r)
    BY <1>2, <1>3, <2>1, HeldIsOpen, OpenRowsType
  <2>3. \E v \in OnTheWay : Ends(v, r)
    <3>1. CASE r \in OpenRows
      BY <2>2, <3>1 DEF Matched
    <3>2. CASE r \in OnTheWay
      <4>1. PICK v \in Carried : Ends(v, r)
        BY <1>2, <1>3, <2>2, <3>2 DEF Matched
      <4>2. When(r) < When(v)
        BY <1>2, <1>3, <3>2, <4>1, CarriedIsDated
      <4>3. v \in OnTheWay
        BY <3>2, <4>2, YoungerFollows
      <4> QED BY <4>1, <4>3
    <3> QED BY <3>1, <3>2
  <2> QED BY <1>2, <2>1, <2>3 DEF Ends
<1>4. ASSUME NEW u \in OnTheWay', u.until = None, NEW r \in OpenRows, r.kind = u.kind
      PROVE  Same(r, u) \/ \E v \in OnTheWay' : Ends(v, r) /\ v.until < u.at
  <2>1. CASE u \in OnTheWay
    BY <1>4, <2>1 DEF OneEach
  <2>2. CASE u \in N
    BY <1>3, <1>4, <2>2, OpenRowsType
  <2> QED BY <2>1, <2>2
<1>5. ASSUME NEW u \in OnTheWay', NEW r \in OnTheWay', u.until = None, r.until = None,
             r.kind = u.kind, r.at < u.at
      PROVE  \E v \in OnTheWay' : Ends(v, r) /\ v.until < u.at
  <2>1. CASE u \in OnTheWay /\ r \in OnTheWay
    BY <1>5, <2>1 DEF OneEach
  <2>2. CASE u \in N /\ r \in OnTheWay
    BY <1>3, <1>5, <2>2
  <2>3. CASE r \in N
    <3>1. r.at = cycle /\ Latest < cycle
      BY <1>5, <2>3 DEF Called
    <3>2. u \in OnTheWay => u.at <= Latest /\ u.at \in Int
      BY <1>2
    <3>3. u \in N => u.at = cycle
      BY <1>5 DEF Called
    <3> QED BY <1>2, <1>5, <3>1, <3>2, <3>3
  <2> QED BY <2>1, <2>2, <2>3
<1>6. \A r, q \in OpenRows : r.kind = q.kind => Same(r, q)
  BY DEF OneEach
<1> QED BY <1>1, <1>4, <1>5, <1>6 DEF OneEach, Ends

\* The open rows after an update is stored: a raise opens a row of its incident
\* and a recovery leaves none.
LEMMA UpsertOpens ==
    ASSUME TypeOK, TypeOK', NEW e \in Incident, rows' = Upsert(e)
    PROVE  /\ e.until = None =>
                 /\ \A r \in OpenRows' : Same(r, e) \/ r \in OpenRows
                 /\ \A r \in OpenRows : \E q \in OpenRows' : Same(q, r)
                 /\ \E q \in OpenRows' : Same(q, e)
           /\ e.until # None =>
                 /\ \A r \in OpenRows' : r \in OpenRows /\ ~Same(r, e)
                 /\ \A r \in OpenRows : Same(r, e) \/ r \in OpenRows'
<1> DEFINE put(r) == [r EXCEPT !.until = e.until]
<1>1. \A r \in rows : r \in Incident /\ put(r).until = e.until /\ Same(put(r), r)
  BY DEF TypeOK, Incident, Same
<1>2. CASE \E r \in rows : Same(r, e)
  <2>1. rows' = {IF Same(r, e) THEN put(r) ELSE r : r \in rows}
    BY <1>2 DEF Upsert
  <2> HIDE DEF put
  <2>2. \A q \in rows' : \E r \in rows : IF Same(r, e) THEN q = put(r) ELSE q = r
    BY <2>1
  <2>3. \A r \in rows : IF Same(r, e) THEN put(r) \in rows' ELSE r \in rows'
    BY <2>1
  <2>4. \A r, q : Same(r, q) => (Same(r, e) <=> Same(q, e))
    BY DEF Same
  <2>5. CASE e.until = None
    <3>1. \A q \in OpenRows' : Same(q, e) \/ q \in OpenRows
      BY <1>1, <2>2, <2>4 DEF OpenRows
    <3>2. \A r \in OpenRows : \E q \in OpenRows' : Same(q, r)
      BY <1>1, <2>3, <2>5 DEF OpenRows, Same
    <3>3. \E q \in OpenRows' : Same(q, e)
      BY <1>1, <1>2, <2>3, <2>4, <2>5 DEF OpenRows
    <3> QED BY <2>5, <3>1, <3>2, <3>3
  <2>6. CASE e.until # None
    <3>1. \A q \in OpenRows' : q \in OpenRows /\ ~Same(q, e)
      BY <1>1, <2>2, <2>6 DEF OpenRows
    <3>2. \A r \in OpenRows : Same(r, e) \/ r \in OpenRows'
      BY <2>3 DEF OpenRows
    <3> QED BY <2>6, <3>1, <3>2
  <2> QED BY <2>5, <2>6
<1>3. CASE ~ \E r \in rows : Same(r, e)
  BY <1>3 DEF Upsert, OpenRows, Same
<1> QED BY <1>2, <1>3

\* Storing an update keeps the engine and the table matched.
LEMMA UpsertMatches ==
    ASSUME TypeOK, TypeOK', Ordered, Cross, Matched, StorageUpserts,
           NEW e, e = store.item.events[store.done]
    PROVE  Matched'
<1>1. /\ Carried' = Carried /\ e \in OnTheWay /\ e \in Carried /\ e \in Incident
      /\ OnTheWay' \subseteq OnTheWay /\ OnTheWay \subseteq OnTheWay' \cup {e}
      /\ OnTheWay \subseteq Carried
  BY UpsertedUpdates, OnTheWayIsCarried
<1>2. engine' = engine /\ rows' = Upsert(e)
  BY DEF StorageUpserts, monitorVars
<1>3. \A u : Held(u)' <=> Held(u)
  BY <1>2 DEF Held
<1>4. ASSUME NEW r \in OpenRows'
      PROVE  Held(r) \/ \E v \in OnTheWay' : Ends(v, r)
  <2>1. CASE r \in OpenRows /\ ~(e.until # None /\ Same(r, e))
    <3>1. \A v \in OnTheWay : Ends(v, r) => v # e
      BY <2>1 DEF Ends, Same
    <3> QED BY <1>1, <2>1, <3>1 DEF Matched
  <2>2. CASE Same(r, e) /\ e.until = None
    <3>1. Held(e) \/ \E v \in Carried : Ends(v, e)
      BY <1>1, <2>2 DEF Matched
    <3>2. Held(e) => Held(r)
      BY <2>2 DEF Held, Same
    <3>3. ASSUME NEW v \in Carried, Ends(v, e)
          PROVE  v \in OnTheWay' /\ Ends(v, r)
      <4>1. v \in OnTheWay
        BY <1>1, <2>2, <3>3, CarriedIsDated, YoungerFollows
      <4> QED BY <1>1, <2>2, <3>3, <4>1 DEF Ends, Same
    <3> QED BY <3>1, <3>2, <3>3
  <2> QED BY <1>1, <1>2, <2>1, <2>2, UpsertOpens
<1>5. ASSUME NEW k \in Open(engine)
      PROVE  \E u \in OpenRows' \cup OnTheWay' : u.until = None /\ Same(u, engine[k])
  <2>1. ~Ends(e, engine[k])
    BY <1>1, <1>5 DEF Matched
  <2>2. PICK u \in OpenRows \cup OnTheWay : u.until = None /\ Same(u, engine[k])
    BY <1>5 DEF Matched
  <2>3. CASE e.until = None
    <3>1. \A q \in OpenRows' : q.until = None
      BY OpenRowsType
    <3>2. \A q : Same(q, u) => Same(q, engine[k])
      BY <2>2 DEF Same
    <3>3. CASE u \in OpenRows \/ u = e
      BY <1>1, <1>2, <2>3, <3>1, <3>2, <3>3, UpsertOpens
    <3> QED BY <1>1, <2>2, <3>3
  <2>4. CASE e.until # None
    <3>1. ~Same(u, e)
      BY <2>1, <2>2, <2>4 DEF Ends, Same
    <3>2. CASE u \in OpenRows
      BY <1>1, <1>2, <2>2, <2>4, <3>1, <3>2, UpsertOpens
    <3>3. CASE u \in OnTheWay
      BY <1>1, <2>2, <2>4, <3>3
    <3> QED BY <3>2, <3>3
  <2> QED BY <2>3, <2>4
<1>6. \A u \in Carried : u.until = None => Held(u) \/ \E v \in Carried : Ends(v, u)
  BY DEF Matched
<1>7. \A k \in Open(engine) : ~\E v \in Carried : Ends(v, engine[k])
  BY DEF Matched
<1>8. Open(engine') = Open(engine) /\ \A k : engine'[k] = engine[k]
  BY <1>2
<1> QED BY <1>1, <1>3, <1>4, <1>5, <1>6, <1>7, <1>8 DEF Matched, Ends, Open

\* Storing an update leaves one open row of a kind: the recovery of another one
\* would be older, and still on the way.
LEMMA UpsertKeepsOne ==
    ASSUME TypeOK, TypeOK', Ordered, Cross, OneEach, StorageUpserts,
           NEW e, e = store.item.events[store.done]
    PROVE  OneEach'
<1>1. /\ e \in OnTheWay /\ e \in Carried /\ e \in Incident
      /\ OnTheWay' \subseteq OnTheWay /\ OnTheWay \subseteq OnTheWay' \cup {e}
      /\ \A u \in OnTheWay : When(e) <= When(u) /\ u \in Carried
      /\ rows' = Upsert(e)
  BY UpsertedUpdates, OnTheWayIsCarried DEF StorageUpserts
<1>2. /\ \A u \in Carried : When(u) \in Int /\ u.at \in Int
      /\ \A u \in Carried : u.until = None => When(u) = u.at
      /\ \A u \in Carried : u.until # None => When(u) = u.until
      /\ \A u, v \in Carried : u.until = None /\ Ends(v, u) => When(u) < When(v)
  BY CarriedIsDated DEF When
<1>3. \A v \in OnTheWay : \A u : e.until = None /\ Ends(v, u) => v \in OnTheWay'
  BY <1>1 DEF Ends
<1>4. ASSUME e.until = None, NEW r \in OpenRows, r.kind = e.kind
      PROVE  Same(r, e)
  <2>1. \A v \in OnTheWay : Ends(v, r) => ~(v.until < e.at)
    BY <1>1, <1>2, <1>4 DEF Ends
  <2> QED BY <1>1, <1>4, <2>1 DEF OneEach
<1>5. ASSUME NEW r \in OpenRows', NEW q \in OpenRows', r.kind = q.kind
      PROVE  Same(r, q)
  <2>1. CASE r \in OpenRows /\ q \in OpenRows
    BY <1>5, <2>1 DEF OneEach
  <2>2. CASE ~(r \in OpenRows /\ q \in OpenRows)
    <3>1. e.until = None /\ (Same(r, e) \/ Same(q, e))
      BY <1>1, <2>2, UpsertOpens
    <3>2. Same(r, e) /\ Same(q, e)
      BY <1>1, <1>4, <1>5, <3>1, UpsertOpens DEF Same
    <3> QED BY <3>2 DEF Same
  <2> QED BY <2>1, <2>2
<1>6. ASSUME NEW u \in OnTheWay', NEW r \in OpenRows', u.until = None, r.kind = u.kind
      PROVE  Same(r, u) \/ \E v \in OnTheWay' : Ends(v, r) /\ v.until < u.at
  <2>1. CASE r \in OpenRows
    <3>1. Same(r, u) \/ \E v \in OnTheWay : Ends(v, r) /\ v.until < u.at
      BY <1>1, <1>6, <2>1 DEF OneEach
    <3>2. \A v \in OnTheWay : Ends(v, r) => v \in OnTheWay'
      <4>1. e.until # None => ~Same(r, e)
        BY <1>1, <1>6, UpsertOpens
      <4> QED BY <1>1, <1>3, <4>1 DEF Ends, Same
    <3> QED BY <3>1, <3>2
  <2>2. CASE r \notin OpenRows
    <3>1. e.until = None /\ Same(r, e)
      BY <1>1, <1>6, <2>2, UpsertOpens
    <3>2. u \in OnTheWay /\ e.kind = u.kind
      BY <1>1, <1>6, <3>1 DEF Same
    <3>3. u.at = e.at \/ e.at < u.at
      BY <1>1, <1>2, <1>6, <3>1, <3>2
    <3>4. CASE u.at = e.at
      BY <3>1, <3>2, <3>4 DEF Same
    <3>5. CASE e.at < u.at
      <4>1. PICK v \in OnTheWay : Ends(v, e) /\ v.until < u.at
        BY <1>1, <1>6, <3>1, <3>2, <3>5 DEF OneEach
      <4>2. v \in OnTheWay' /\ Ends(v, r)
        BY <1>3, <3>1, <4>1 DEF Ends, Same
      <4> QED BY <4>1, <4>2
    <3> QED BY <3>3, <3>4, <3>5
  <2> QED BY <2>1, <2>2
<1>7. ASSUME NEW u \in OnTheWay', NEW r \in OnTheWay', u.until = None, r.until = None,
             r.kind = u.kind, r.at < u.at
      PROVE  \E v \in OnTheWay' : Ends(v, r) /\ v.until < u.at
  <2>1. PICK v \in OnTheWay : Ends(v, r) /\ v.until < u.at
    BY <1>1, <1>7 DEF OneEach
  <2>2. v # e
    BY <1>1, <1>2, <1>7, <2>1
  <2> QED BY <1>1, <2>1, <2>2
<1> QED BY <1>5, <1>6, <1>7 DEF OneEach, Ends

\* A step that changes nothing of the matter, or has more on the way.
LEMMA QuietMatches ==
    ASSUME Matched, engine' = engine, Carried' = Carried, OnTheWay \subseteq OnTheWay',
           \A r \in OpenRows' : \E q \in OpenRows : Same(q, r),
           \A r \in OpenRows : \E q \in OpenRows' : Same(q, r)
    PROVE  Matched'
<1>1. /\ \A u : Held(u)' <=> Held(u)
      /\ Open(engine') = Open(engine) /\ \A k : engine'[k] = engine[k]
  BY DEF Held
<1>2. \A r, q, v : Same(q, r) => (Held(q) <=> Held(r)) /\ (Ends(v, q) <=> Ends(v, r))
  BY DEF Held, Ends, Same
<1>3. \A r \in OpenRows' : Held(r) \/ \E v \in OnTheWay' : Ends(v, r)
  BY <1>2 DEF Matched
<1>4. \A k \in Open(engine) : \E u \in OpenRows' \cup OnTheWay' : u.until = None /\ Same(u, engine[k])
  <2>1. ASSUME NEW k \in Open(engine)
        PROVE  \E u \in OpenRows' \cup OnTheWay' : u.until = None /\ Same(u, engine[k])
    <3>1. PICK u \in OpenRows \cup OnTheWay : u.until = None /\ Same(u, engine[k])
      BY DEF Matched
    <3>2. CASE u \in OpenRows
      <4>1. PICK q \in OpenRows' : Same(q, u)
        BY <3>2
      <4>2. q.until = None /\ Same(q, engine[k])
        BY <3>1, <4>1 DEF OpenRows, Same
      <4> QED BY <4>2
    <3> QED BY <3>1, <3>2
  <2> QED BY <2>1
<1>5. /\ \A u \in Carried : u.until = None => Held(u) \/ \E v \in Carried : Ends(v, u)
      /\ \A k \in Open(engine) : ~\E v \in Carried : Ends(v, engine[k])
  BY DEF Matched
<1> QED BY <1>1, <1>3, <1>4, <1>5 DEF Matched, Ends, Open

LEMMA QuietKeepsOne ==
    ASSUME OneEach, OnTheWay' = OnTheWay,
           \A r \in OpenRows' : \E q \in OpenRows : Same(q, r)
    PROVE  OneEach'
<1>1. \A r, q, v : Same(q, r) => q.kind = r.kind /\ (Ends(v, q) <=> Ends(v, r))
  BY DEF Ends, Same
<1>2. \A r, q \in OpenRows' : r.kind = q.kind => Same(r, q)
  BY DEF OneEach, Same
<1>3. ASSUME NEW u \in OnTheWay, NEW r \in OpenRows', u.until = None, r.kind = u.kind
      PROVE  Same(r, u) \/ \E v \in OnTheWay : Ends(v, r) /\ v.until < u.at
  <2>1. PICK q \in OpenRows : Same(q, r)
    OBVIOUS
  <2>2. Same(q, u) \/ \E v \in OnTheWay : Ends(v, q) /\ v.until < u.at
    BY <1>1, <1>3, <2>1 DEF OneEach
  <2>3. Same(q, u) => Same(r, u)
    BY <2>1 DEF Same
  <2> QED BY <1>1, <2>1, <2>2, <2>3
<1>4. \A u, r \in OnTheWay :
         u.until = None /\ r.until = None /\ r.kind = u.kind /\ r.at < u.at =>
            \E v \in OnTheWay : Ends(v, r) /\ v.until < u.at
  BY DEF OneEach
<1> QED BY <1>2, <1>3, <1>4 DEF OneEach, Ends

\* An item that is complete takes no recovery with it that a raise still needs.
LEMMA CompletedMatches ==
    ASSUME TypeOK, TypeOK', Ordered, Cross, Matched, StorageCompletes
    PROVE  Matched'
<1>1. /\ Carried' \subseteq Carried /\ OnTheWay' = OnTheWay
      /\ \A u \in Carried', v \in Carried : v \in Carried' \/ When(v) <= When(u)
  BY CompletedUpdates
<1>2. engine' = engine /\ OpenRows' = OpenRows
  BY DEF StorageCompletes, monitorVars, OpenRows
<1>3. /\ \A u : Held(u)' <=> Held(u)
      /\ Open(engine') = Open(engine) /\ \A k : engine'[k] = engine[k]
  BY <1>2 DEF Held
<1>4. ASSUME NEW u \in Carried', u.until = None
      PROVE  Held(u) \/ \E v \in Carried' : Ends(v, u)
  <2>1. ASSUME NEW v \in Carried, Ends(v, u)
        PROVE  v \in Carried'
    <3>1. When(u) < When(v) /\ When(u) \in Int /\ When(v) \in Int
      BY <1>1, <1>4, <2>1, CarriedIsDated
    <3> QED BY <1>1, <3>1
  <2> QED BY <1>1, <1>4, <2>1 DEF Matched
<1>5. \A k \in Open(engine) :
         /\ \E u \in OpenRows \cup OnTheWay : u.until = None /\ Same(u, engine[k])
         /\ ~\E v \in Carried' : Ends(v, engine[k])
  BY <1>1 DEF Matched
<1>6. \A r \in OpenRows : Held(r) \/ \E v \in OnTheWay : Ends(v, r)
  BY DEF Matched
<1> QED BY <1>1, <1>2, <1>3, <1>4, <1>5, <1>6 DEF Matched, Ends, Open

-----------------------------------------------------------------------------
\* What the calls of the engine do.

LEMMA EngineIsCalled ==
    ASSUME TypeOK, NEW act \in ActiveMaps, Open(act) = Open(engine),
           \A k \in Open(engine) : act[k].at = engine[k].at,
           NEW recovered \in SUBSET Open(act), NEW raised \in SUBSET (Kinds \ Open(act)),
           NEW dev \in Devices, engine' = ActiveAfter(act, recovered, raised, dev, cycle)
    PROVE  Called(Updates(act, recovered, raised, dev, cycle))
<1>1. cycle \in Nat /\ cycle # None /\ raised \subseteq Kinds /\ engine \in ActiveMaps
  BY IncidentsAssumption DEF TypeOK
<1>2. ASSUME NEW k \in Open(act)
      PROVE  /\ act[k] \in Incident /\ act[k].kind = k /\ engine[k].kind = k
             /\ act[k].at = engine[k].at
  BY <1>1, <1>2, OpenType
<1>3. ASSUME NEW k \in recovered
      PROVE  LET u == Recover(act[k], cycle) IN
             /\ u \in Incident /\ u.kind = k /\ u.at = engine[k].at /\ u.until = cycle
  BY <1>1, <1>2, RecoverType
<1>4. ASSUME NEW k \in raised
      PROVE  LET u == Raise(dev, k, cycle) IN
             /\ u \in Incident /\ u.kind = k /\ u.at = cycle /\ u.until = None
  BY <1>1, RaiseType
<1>5. ASSUME NEW k \in Kinds
      PROVE  engine'[k] = IF k \in raised THEN Raise(dev, k, cycle)
                          ELSE IF k \in recovered THEN None ELSE act[k]
  BY DEF ActiveAfter
<1>6. ASSUME NEW k \in raised
      PROVE  k \in Open(engine') /\ engine'[k] = Raise(dev, k, cycle)
  <2>1. k \in Kinds /\ engine'[k] = Raise(dev, k, cycle)
    BY <1>1, <1>5
  <2>2. Raise(dev, k, cycle) # None
    BY <1>4, IncidentsAssumption DEF Incident
  <2> QED BY <2>1, <2>2 DEF Open
<1>7. ASSUME NEW k \in recovered
      PROVE  k \notin Open(engine')
  BY <1>5 DEF Open
<1> DEFINE N == Updates(act, recovered, raised, dev, cycle)
<1>8. ASSUME NEW u \in N
      PROVE  \/ \E k \in recovered : u = Recover(act[k], cycle)
             \/ \E k \in raised : u = Raise(dev, k, cycle)
  BY DEF Updates
<1>9. /\ \A k \in recovered : Recover(act[k], cycle) \in N
      /\ \A k \in raised : Raise(dev, k, cycle) \in N
  BY DEF Updates
<1> HIDE DEF N
<1>10. N \subseteq Incident
  BY <1>3, <1>4, <1>8
<1>11. \A u \in N : u.until = None => /\ u.at = cycle
                                      /\ u.kind \notin Open(engine)
                                      /\ u.kind \in Open(engine') /\ engine'[u.kind].at = cycle
  BY <1>1, <1>3, <1>4, <1>6, <1>8
<1>12. \A u \in N : u.until # None => u.kind \notin Open(engine')
  BY <1>3, <1>4, <1>7, <1>8
<1>13. ASSUME NEW k \in Open(engine)
       PROVE  \/ k \in Open(engine') /\ engine'[k].at = engine[k].at
              \/ \E u \in N : Ends(u, engine[k])
  <2>1. CASE k \in recovered
    BY <1>1, <1>2, <1>3, <1>9, <2>1 DEF Ends, Same
  <2>2. CASE k \notin recovered
    <3>1. k \in Kinds /\ k \notin raised /\ act[k] # None
      BY <1>13 DEF Open
    <3>2. engine'[k] = act[k]
      BY <1>5, <2>2, <3>1
    <3> QED BY <1>2, <3>1, <3>2 DEF Open
  <2> QED BY <2>1, <2>2
<1>14. ASSUME NEW k \in Open(engine')
       PROVE  \/ k \in Open(engine) /\ engine'[k].at = engine[k].at
              \/ \E u \in N : u.until = None /\ Same(u, engine'[k])
  <2>1. CASE k \in raised
    BY <1>4, <1>6, <1>9, <2>1 DEF Same
  <2>2. CASE k \notin raised
    <3>1. k \in Kinds /\ k \notin recovered /\ engine'[k] = act[k] /\ act[k] # None
      BY <1>5, <1>7, <1>14, <2>2 DEF Open
    <3> QED BY <1>2, <3>1 DEF Open
  <2> QED BY <2>1, <2>2
<1>15. Called(N)
  BY <1>10, <1>11, <1>12, <1>13, <1>14 DEF Called
<1> QED BY <1>15 DEF N

\* A step of the monitor adds N to what is on the way.
Adds(N) ==
    /\ Called(N)
    /\ Carried' = Carried \cup N /\ OnTheWay' = OnTheWay \cup N
    /\ Cross' /\ rows' = rows
    /\ N # {} => Latest < cycle
    /\ N \subseteq produced'.updates /\ produced.updates \subseteq produced'.updates

LEMMA TakeSampleAdds ==
    ASSUME TypeOK, TypeOK', Ordered, Cross, TakeSample,
           shared.droppedUpdates = 0, shared'.droppedUpdates = 0
    PROVE  \E N : Adds(N)
<1>1. current \in Devices /\ cycle \in Nat /\ mon # "observed" /\ pending \in Seq(Incident)
  BY PollingHasDevice DEF TypeOK, TakeSample, Polling
<1>2. Merged \in ActiveMaps /\ Open(Merged) = Open(engine)
  BY MergedType DEF TypeOK, Snapshot
<1>3. PICK recovered \in SUBSET Kinds, raised \in SUBSET Kinds :
        /\ ObserveMay(Merged, recovered, raised)
        /\ engine' = ActiveAfter(Merged, recovered, raised, current, cycle)
        /\ LET new == Updates(Merged, recovered, raised, current, cycle)
               events == pending \o SetToSeq(new)
           IN  /\ pending' = Bounded(events)
               /\ shared' = [shared EXCEPT !.droppedUpdates = @ + Overflow(events)]
               /\ produced' = [updates |-> produced.updates \cup new,
                               samples |-> produced.samples \cup
                                           {[device |-> current, at |-> cycle]}]
  BY DEF TakeSample
<1> DEFINE new == Updates(Merged, recovered, raised, current, cycle)
           events == pending \o SetToSeq(new)
<1>4. recovered \in SUBSET Open(Merged) /\ raised \in SUBSET (Kinds \ Open(Merged))
  BY <1>3 DEF ObserveMay
<1>5. ASSUME NEW k \in Open(engine)
      PROVE  Merged[k].at = engine[k].at /\ Merged[k].at \in Nat /\ Merged[k].at < cycle
  <2>1. Merged[k].at = engine[k].at /\ engine[k].at \in Nat
    BY DEF TypeOK, ActiveMaps, Open, Incident, Merged
  <2>2. engine[k].at <= cycle - 1
    BY <1>1 DEF Ordered, Latest
  <2> QED BY <1>1, <2>1, <2>2
<1>6. SetToSeq(new) \in Seq(Incident) /\ ToSet(SetToSeq(new)) = new
  BY <1>1, <1>2, <1>4, UpdatesInSequence
<1>7. \A u \in new : When(u) = cycle
  BY <1>1, <1>2, <1>4, <1>5, UpdatesAreDated
<1>8. Called(new)
  BY <1>1, <1>2, <1>3, <1>4, <1>5, EngineIsCalled
<1>9. /\ Overflow(events) \in Nat
      /\ Shifted(pending', pending, SetToSeq(new), Overflow(events))
  BY <1>1, <1>3, <1>6, BoundedShifts
<1>10. shared'.droppedUpdates = shared.droppedUpdates + Overflow(events)
  BY <1>3 DEF TypeOK, Snapshot
<1>11. produced'.updates = produced.updates \cup new
  BY <1>3
<1>12. /\ Latest < cycle /\ queue' = queue /\ UNCHANGED <<store, rows>> /\ pending' \in Seq(Incident)
  BY <1>1 DEF TakeSample, Latest, storageVars, TypeOK
<1> HIDE DEF new, events
<1>13. Shifted(pending', pending, SetToSeq(new), 0)
  BY <1>9, <1>10
<1>14. Extended(pending') /\ Latest <= cycle
  BY <1>1, <1>12 DEF Extended, Latest
<1>15. \A u \in ToSet(SetToSeq(new)) : When(u) = cycle
  BY <1>6, <1>7
<1>16. Carried' = Carried \cup new /\ OnTheWay' = OnTheWay \cup new /\ Cross'
  BY <1>6, <1>12, <1>13, <1>14, <1>15, AddedUpdates
<1> QED BY <1>8, <1>11, <1>12, <1>16 DEF Adds

\* A call with no updates leaves the engine as it is.
LEMMA NoneCalled ==
    ASSUME TypeOK, engine' = engine
    PROVE  Called({})
  BY DEF Called, Open

LEMMA PublishAdds ==
    ASSUME TypeOK, TypeOK', ThreadsInv, store.pc # "failed", Ordered, Cross, Publish
    PROVE  \E N : Adds(N)
<1> DEFINE none == <<>>
<1>1. /\ pending \in Seq(Incident) /\ cycle \in Nat /\ none \in Seq(Incident) /\ ToSet(none) = {}
  BY EmptySeq DEF TypeOK, ToSet
<1>2. Extended(pending)
  BY <1>1, ReceivedWhileRunning DEF Publish, Extended, Full, Gone, TypeOK
<1>3. Shifted(pending, pending, none, 0)
  BY <1>1, BoundedShifts
<1>4. UNCHANGED <<store, rows, engine, produced>>
  BY DEF Publish, historyVars, storageVars
<1>5. Latest <= cycle
  BY <1>1 DEF Publish, Latest
<1> HIDE DEF none
<1>6. Carried' = Carried \cup {} /\ OnTheWay' = OnTheWay \cup {} /\ Cross'
  <2>1. \A u \in ToSet(none) : When(u) = cycle
    BY <1>1
  <2> QED BY <1>1, <1>2, <1>3, <1>4, <1>5, <2>1, AddedUpdates
<1> QED BY <1>4, <1>6, NoneCalled DEF Adds

LEMMA SampleFailsAdds ==
    ASSUME TypeOK, TypeOK', ThreadsInv, store.pc # "failed", Ordered, Cross, SampleFails
    PROVE  \E N : Adds(N)
<1> DEFINE lost == shared.telemetry
           raised == IF lost = None THEN {} ELSE LostRaises(engine)
           new == Updates(engine, {}, raised, lost.device, cycle)
           events == IF raised = {} THEN pending ELSE pending \o SetToSeq(new)
<1>1. /\ engine' = IF raised = {} THEN engine
                   ELSE ActiveAfter(engine, {}, raised, lost.device, cycle)
      /\ produced' = IF raised = {} THEN produced
                     ELSE [produced EXCEPT !.updates = @ \cup new]
      /\ IF lost = None THEN UNCHANGED <<pending, queue>>
         ELSE \/ Sent([sample |-> lost, events |-> events]) /\ pending' = <<>>
              \/ Full /\ pending' = events
              \/ Gone /\ pending' = <<>>
  BY DEF SampleFails
<1>2. /\ engine \in ActiveMaps /\ cycle \in Nat /\ shared \in Snapshot
      /\ produced \in Produced
      /\ pending \in Seq(Incident)
      /\ mon # "observed" /\ mon # "exited"
  BY DEF TypeOK, SampleFails, Polling
<1>3. /\ raised \in SUBSET Kinds /\ raised \in SUBSET (Kinds \ Open(engine))
      /\ raised # {} => lost # None
      /\ lost # None => lost \in Sample /\ lost.device \in Devices
  BY <1>2, IncidentsAssumption DEF LostRaises, Snapshot, Sample
<1>4. ASSUME NEW k \in Open(engine)
      PROVE  engine[k].at < cycle
  <2>1. engine[k].at \in Nat /\ engine[k].at <= cycle - 1
    BY <1>2 DEF ActiveMaps, Open, Incident, Ordered, Latest
  <2> QED BY <1>2, <2>1
<1>5. /\ Latest < cycle /\ Latest <= cycle
      /\ UNCHANGED <<store, rows>>
  BY <1>2 DEF SampleFails, Latest, storageVars
<1>6. Receiving
  BY <1>2, ReceivedWhileRunning
<1>7. events \in Seq(Incident) => Extended(events)
  <2>1. CASE lost = None
    BY <1>1, <2>1 DEF Extended
  <2>2. CASE lost # None
    <3> HIDE DEF events, raised
    <3> QED BY <1>1, <1>3, <1>6, <2>2 DEF Extended, Full, Gone
  <2> QED BY <2>1, <2>2
<1>8. CASE raised = {}
  <2> DEFINE none == <<>>
  <2>1. events = pending /\ engine' = engine /\ produced' = produced
    BY <1>1, <1>8
  <2>2. none \in Seq(Incident) /\ ToSet(none) = {} /\ Shifted(pending, pending, none, 0)
    BY <1>2, EmptySeq, BoundedShifts DEF ToSet
  <2> HIDE DEF none, events, raised
  <2>3. \A u \in ToSet(none) : When(u) = cycle
    BY <2>2
  <2>4. Carried' = Carried \cup {} /\ OnTheWay' = OnTheWay \cup {} /\ Cross'
    BY <1>2, <1>5, <1>7, <2>1, <2>2, <2>3, AddedUpdates
  <2> QED BY <1>5, <2>1, <2>4, NoneCalled DEF Adds
<1>9. CASE raised # {}
  <2>1. lost.device \in Devices /\ {} \in SUBSET Open(engine)
    BY <1>3, <1>9
  <2>2. events = pending \o SetToSeq(new)
    BY <1>9
  <2>3. /\ engine' = ActiveAfter(engine, {}, raised, lost.device, cycle)
        /\ produced'.updates = produced.updates \cup new
    BY <1>1, <1>2, <1>9 DEF Produced
  <2> HIDE DEF raised, lost, events
  <2>4. \A u \in new : When(u) = cycle
    BY <1>2, <1>3, <1>4, <2>1, UpdatesAreDated
  <2>5. SetToSeq(new) \in Seq(Incident) /\ ToSet(SetToSeq(new)) = new
    BY <1>2, <1>3, <2>1, UpdatesInSequence
  <2>6. Called(new)
    BY <1>2, <1>3, <2>1, <2>3, EngineIsCalled
  <2> HIDE DEF new
  <2>7. events \in Seq(Incident) /\ Shifted(events, pending, SetToSeq(new), 0)
    BY <1>2, <2>2, <2>5, BoundedShifts, ConcatProperties
  <2>8. \A u \in ToSet(SetToSeq(new)) : When(u) = cycle
    BY <2>4, <2>5
  <2>9. Carried' = Carried \cup new /\ OnTheWay' = OnTheWay \cup new /\ Cross'
    BY <1>5, <1>7, <2>5, <2>7, <2>8, AddedUpdates
  <2> QED BY <1>5, <2>3, <2>6, <2>9 DEF Adds
<1> QED BY <1>8, <1>9

-----------------------------------------------------------------------------
\* What is restored.

\* There is one power supply.
OneSupply == \A d, e \in Devices : d = e

\* A new engine that is given the open incidents, one of a kind, holds them all.
LEMMA RestoredMatches ==
    ASSUME TypeOK, TypeOK', OneSupply, NEW d \in Devices,
           NEW open \in SUBSET {i \in Incident : i.until = None},
           \A r \in OpenRows : \E i \in open : Same(i, r),
           \A i \in open : \E r \in OpenRows : Same(i, r),
           \A r, q \in OpenRows : r.kind = q.kind => Same(r, q),
           engine' = Restored(open, d), rows' = rows, Carried' = {}
    PROVE  Matched'
<1>1. OpenRows' = OpenRows
  BY DEF OpenRows
<1>2. OnTheWay' = {}
  BY OnTheWayIsCarriedNext
<1> DEFINE of(k) == {i \in open : i.device = d /\ i.kind = k}
<1>3. ASSUME NEW k \in Kinds
      PROVE  engine'[k] = Oldest(of(k))
  BY DEF Restored
<1>4. ASSUME NEW i \in open, NEW j \in open, i.kind = j.kind
      PROVE  i.at = j.at /\ i.at \in Nat
  <2>1. PICK r \in OpenRows : Same(i, r)
    OBVIOUS
  <2>2. PICK q \in OpenRows : Same(j, q)
    OBVIOUS
  <2>3. Same(r, q)
    <3>1. r.kind = q.kind
      BY <1>4, <2>1, <2>2 DEF Same
    <3> QED BY <3>1
  <2>4. i \in Incident
    OBVIOUS
  <2> QED BY <2>1, <2>2, <2>3, <2>4 DEF Same, Incident
<1>5. ASSUME NEW i \in open
      PROVE  /\ i.kind \in Kinds /\ engine'[i.kind] \in of(i.kind)
             /\ engine'[i.kind] # None /\ engine'[i.kind].at = i.at
  <2>1. i \in Incident /\ i.kind \in Kinds /\ i.device = d
    BY DEF OneSupply, Incident
  <2>2. i \in of(i.kind) /\ \A j \in of(i.kind) : j \in open /\ j.kind = i.kind
    BY <2>1
  <2>3. i \in {f \in of(i.kind) : \A j \in of(i.kind) : f.at <= j.at}
    BY <1>4, <2>2
  <2>4. Oldest(of(i.kind)) \in of(i.kind)
    BY <2>3 DEF Oldest
  <2>5. engine'[i.kind] \in of(i.kind)
    BY <1>3, <2>1, <2>4
  <2> HIDE DEF of
  <2>6. engine'[i.kind] \in open /\ engine'[i.kind].kind = i.kind
    BY <2>2, <2>5
  <2>7. \A j \in Incident : j # None
    BY IncidentsAssumption DEF Incident
  <2> QED BY <1>4, <2>1, <2>5, <2>6, <2>7
<1>6. ASSUME NEW r \in OpenRows
      PROVE  Held(r)'
  <2>1. PICK i \in open : Same(i, r)
    OBVIOUS
  <2> QED BY <1>5, <2>1 DEF Same, Held
<1>7. ASSUME NEW k \in Open(engine')
      PROVE  \E r \in OpenRows : r.until = None /\ Same(r, engine'[k])
  <2>1. engine'[k] \in of(k)
    <3>1. k \in Kinds /\ engine'[k] # None
      BY DEF Open
    <3> QED BY <1>3, <3>1 DEF Oldest
  <2>2. PICK r \in OpenRows : Same(engine'[k], r)
    BY <2>1
  <2> QED BY <2>2 DEF Same, OpenRows
<1> QED BY <1>1, <1>2, <1>6, <1>7 DEF Matched, Open

\* What travels was made; a daemon's first life starts with an empty table; and
\* until a device is open nothing has been made, and the open rows are still
\* those that were read at the start.
Sources ==
    /\ store.pc # "failed" => Carried \subseteq produced.updates
    /\ restarts = 0 /\ produced.updates = {} => rows = {}
    /\ current = None =>
         /\ produced.updates = {} /\ mon # "observed"
         /\ \A r \in OpenRows : \E i \in startup : Same(i, r)
         /\ \A i \in startup : \E r \in OpenRows : Same(i, r)

TableInv ==
    /\ Sources
    /\ failures = 0 => store.pc # "failed"
    /\ store.pc # "failed" => Cross
    /\ OneSupply /\ store.pc # "failed" /\ current # None => Matched
    /\ OneSupply /\ failures = 0 => OneEach

\* No update is dropped, and statements fail only if the daemon never restarts.
Smooth == shared.droppedUpdates = 0 /\ (failures = 0 \/ restarts = 0)

\* Acknowledging changes no more of a row than that.
LEMMA AcknowledgeKeepsOpen ==
    ASSUME TypeOK, NEW c \in Clients, Acknowledge(c)
    PROVE  /\ \A r \in OpenRows' : \E q \in OpenRows : Same(q, r)
           /\ \A r \in OpenRows : \E q \in OpenRows' : Same(q, r)
           /\ rows = {} => rows' = {}
<1>1. CASE rows' = rows
  BY <1>1 DEF OpenRows, Same
<1>2. ASSUME NEW i \in rows, AcknowledgeRow(c, i)
      PROVE  /\ \A r \in OpenRows' : \E q \in OpenRows : Same(q, r)
             /\ \A r \in OpenRows : \E q \in OpenRows' : Same(q, r)
             /\ rows # {}
  <2> DEFINE mark(r) == IF Same(r, i) THEN [r EXCEPT !.acked = TRUE] ELSE r
  <2>1. \A r \in rows : Same(r, mark(r)) /\ Same(mark(r), r) /\ mark(r).until = r.until
    BY DEF TypeOK, Incident, Same
  <2>2. rows' = {mark(r) : r \in rows}
    BY <1>2 DEF AcknowledgeRow
  <2> HIDE DEF mark
  <2>3. \A r \in OpenRows' : \E q \in OpenRows : Same(q, r)
    BY <2>1, <2>2 DEF OpenRows
  <2>4. \A r \in OpenRows : \E q \in OpenRows' : Same(q, r)
    BY <2>1, <2>2 DEF OpenRows
  <2> QED BY <2>3, <2>4
<1> QED BY <1>1, <1>2 DEF Acknowledge, AcknowledgeSnapshot, storageVars

\* What the steps leave alone.
LEMMA NextKeeps ==
    ASSUME TypeOK, [Next]_vars, ~Restart
    PROVE  /\ restarts' = restarts /\ startup' = startup
           /\ failures \in Nat /\ (failures' = failures \/ (StorageFails /\ failures' = failures + 1))
           /\ produced.updates \subseteq produced'.updates
           /\ current' = current \/ \E d \in Devices : OpenDevice(d)
           /\ TakeSample \/ SampleFails => current \in Devices
           /\ Publish => mon = "observed"
<1> USE DEF monitorVars, storageVars, historyVars
<1>1. restarts' = restarts /\ startup' = startup
  BY DEF Next, Monitor, OpenDevice, OpenFails, TakeSample, Publish, SampleFails,
         MonitorExits, Storage, StorageReceives, StorageRecords, StorageUpserts, StorageCompletes,
         StorageFails, StorageExits, Signal, Acknowledge, AcknowledgeRow, AcknowledgeSnapshot, vars
<1>2. failures' = failures \/ (StorageFails /\ failures' = failures + 1)
  BY DEF Next, Monitor, OpenDevice, OpenFails, TakeSample, Publish, SampleFails,
         MonitorExits, Storage, StorageReceives, StorageRecords, StorageUpserts, StorageCompletes,
         StorageFails, StorageExits, Signal, Acknowledge, AcknowledgeRow, AcknowledgeSnapshot, vars
<1>3. produced.updates \subseteq produced'.updates
  <2>1. CASE TakeSample
    BY <2>1 DEF TakeSample
  <2>2. CASE SampleFails
    <3>1. \E S : produced' = produced \/ produced' = [produced EXCEPT !.updates = @ \cup S]
      BY <2>2 DEF SampleFails
    <3> QED BY <3>1 DEF TypeOK, Produced
  <2>3. CASE ~TakeSample /\ ~SampleFails
    BY <2>3 DEF Next, Monitor, OpenDevice, OpenFails, Publish,
         MonitorExits, Storage, StorageReceives, StorageRecords, StorageUpserts, StorageCompletes,
         StorageFails, StorageExits, Signal, Acknowledge, AcknowledgeRow, AcknowledgeSnapshot, vars
  <2> QED BY <2>1, <2>2, <2>3
<1>4. current' = current \/ \E d \in Devices : OpenDevice(d)
  BY DEF Next, Monitor, OpenFails, TakeSample, Publish, SampleFails,
         MonitorExits, Storage, StorageReceives, StorageRecords, StorageUpserts, StorageCompletes,
         StorageFails, StorageExits, Signal, Acknowledge, AcknowledgeRow, AcknowledgeSnapshot, vars
<1>5. TakeSample \/ SampleFails => current \in Devices
  BY PollingHasDevice DEF TakeSample, SampleFails
<1>6. Publish => mon = "observed"
  BY DEF Publish
<1>7. failures \in Nat
  BY DEF TypeOK
<1> QED BY <1>1, <1>2, <1>3, <1>4, <1>5, <1>6, <1>7

\* The rows change in two steps only.
LEMMA RowsChange ==
    ASSUME [Next]_vars, ~Restart
    PROVE  rows' = rows \/ StorageUpserts \/ \E c \in Clients : Acknowledge(c)
  BY DEF Next, Monitor, OpenDevice, OpenFails, TakeSample, Publish, SampleFails,
         MonitorExits, Storage, StorageReceives, StorageRecords, StorageCompletes,
         StorageFails, StorageExits, Signal, vars, monitorVars, storageVars, historyVars

\* An update that is stored was made.
LEMMA StoredWasMade ==
    ASSUME TypeOK, Sources, StorageUpserts
    PROVE  produced.updates # {}
<1>1. store.pc = "busy" /\ store.done \in 1 .. Len(store.item.events)
  BY DEF StorageUpserts
<1>2. store.item.events \in Seq(Incident) /\ Parcel(0) = store.item.events /\ 0 \in Parcels
  BY <1>1 DEF TypeOK, Item, Parcel, Parcels
<1>3. store.item.events[store.done] \in ToSet(Parcel(0))
  BY <1>1, <1>2 DEF ToSet
<1>4. store.item.events[store.done] \in Carried
  BY <1>2, <1>3, OnTheWayIsCarried
<1> QED BY <1>1, <1>4 DEF Sources

\* What was read at the start and the empty table of the first life stay as long
\* as nothing is made.
LEMMA StartStays ==
    ASSUME TypeOK, TypeOK', Sources, [Next]_vars, ~Restart
    PROVE  /\ restarts' = 0 /\ produced'.updates = {} => rows' = {}
           /\ current' = None =>
                /\ produced'.updates = {} /\ mon' # "observed"
                /\ \A r \in OpenRows' : \E i \in startup' : Same(i, r)
                /\ \A i \in startup' : \E r \in OpenRows' : Same(i, r)
<1>1. ASSUME restarts' = 0, produced'.updates = {}
      PROVE  rows' = {}
  <2>1. rows = {} /\ produced.updates = {}
    BY <1>1, NextKeeps DEF Sources
  <2> QED BY <2>1, RowsChange, StoredWasMade, AcknowledgeKeepsOpen
<1>2. ASSUME current' = None
      PROVE  /\ produced'.updates = {} /\ mon' # "observed"
             /\ \A r \in OpenRows' : \E i \in startup' : Same(i, r)
             /\ \A i \in startup' : \E r \in OpenRows' : Same(i, r)
  <2>1. current = None
    BY <1>2, NextKeeps, RuntimeAssumption DEF OpenDevice
  <2>2. produced.updates = {} /\ mon # "observed" /\ ~StorageUpserts
    BY <2>1, StoredWasMade DEF Sources
  <2>3. ~TakeSample /\ ~SampleFails /\ ~Publish
    BY <2>1, <2>2, NextKeeps, RuntimeAssumption
  <2>4. produced' = produced /\ mon' # "observed"
    BY <2>2, <2>3 DEF Next, Monitor, OpenDevice, OpenFails,
         MonitorExits, Storage, StorageReceives, StorageRecords, StorageCompletes,
         StorageFails, StorageExits, Signal, Acknowledge, AcknowledgeRow, AcknowledgeSnapshot,
         vars, monitorVars, historyVars
  <2>5. /\ \A r \in OpenRows' : \E q \in OpenRows : Same(q, r)
        /\ \A r \in OpenRows : \E q \in OpenRows' : Same(q, r)
    <3>1. CASE rows' = rows
      BY <3>1 DEF OpenRows, Same
    <3> QED BY <2>2, <3>1, RowsChange, AcknowledgeKeepsOpen
  <2>6. startup' = startup
    BY NextKeeps
  <2>7. /\ \A r \in OpenRows : \E i \in startup : Same(i, r)
        /\ \A i \in startup : \E r \in OpenRows : Same(i, r)
    BY <2>1 DEF Sources
  <2>8. \A r \in OpenRows' : \E i \in startup : Same(i, r)
    BY <2>5, <2>7 DEF Same
  <2>9. \A i \in startup : \E r \in OpenRows' : Same(i, r)
    BY <2>5, <2>7 DEF Same
  <2> QED BY <2>2, <2>4, <2>6, <2>8, <2>9
<1> QED BY <1>1, <1>2

-----------------------------------------------------------------------------
\* Each step keeps the engine and the table matched.

Agrees ==
    /\ Carried' \subseteq produced'.updates
    /\ Cross'
    /\ OneSupply /\ current' # None => Matched'
    /\ OneSupply /\ failures' = 0 => OneEach'

\* What holds while storage has not given up.
Running ==
    /\ TypeOK /\ TypeOK' /\ ThreadsInv /\ Ordered /\ TableInv /\ [Next]_vars /\ ~Restart
    /\ store.pc # "failed"

LEMMA AddingAgrees ==
    ASSUME Running, Smooth, Smooth', TakeSample \/ Publish \/ SampleFails
    PROVE  Agrees
<1>1. PICK N : Adds(N)
  BY TakeSampleAdds, PublishAdds, SampleFailsAdds DEF Running, TableInv, Smooth
<1>2. current # None
  BY NextKeeps, RuntimeAssumption DEF Running, TableInv, Sources
<1>3. Carried' \subseteq produced'.updates /\ Cross'
  BY <1>1 DEF Running, TableInv, Sources, Adds
<1>4. OneSupply => Matched
  BY <1>2 DEF Running, TableInv
<1>5. OneSupply => Matched'
  BY <1>1, <1>4, CallMatches DEF Running, Adds
<1>6. failures' = 0 => failures = 0
  BY NextKeeps DEF Running
<1>7. OneSupply /\ failures' = 0 => OneEach'
  BY <1>1, <1>4, <1>6, CallAddsOne DEF Running, TableInv, Adds
<1> QED BY <1>3, <1>5, <1>7 DEF Agrees

\* A step by which no parcel moves and no engine is called.
LEMMA QuietAgrees ==
    ASSUME Running, Carried' = Carried, Cross', engine' = engine, OnTheWay \subseteq OnTheWay',
           OnTheWay' = OnTheWay \/ StorageFails,
           current' = current,
           \A r \in OpenRows' : \E q \in OpenRows : Same(q, r),
           \A r \in OpenRows : \E q \in OpenRows' : Same(q, r)
    PROVE  Agrees
<1>1. Carried' \subseteq produced'.updates
  BY NextKeeps DEF Running, TableInv, Sources
<1>2. OneSupply /\ current' # None => Matched'
  BY QuietMatches DEF Running, TableInv
<1>3. ASSUME OneSupply, failures' = 0
      PROVE  OneEach'
  <2>1. failures = 0 /\ ~StorageFails
    BY <1>3, NextKeeps DEF Running, StorageFails
  <2> QED BY <1>3, <2>1, QuietKeepsOne DEF Running, TableInv
<1> QED BY <1>1, <1>2, <1>3 DEF Agrees

LEMMA OpeningAgrees ==
    ASSUME Running, Smooth, NEW d \in Devices, OpenDevice(d)
    PROVE  Agrees
<1>1. UNCHANGED <<queue, pending, store, rows, startup, produced, restarts, failures>>
  BY DEF OpenDevice, storageVars, historyVars
<1>2. Carried' = Carried /\ Cross' = Cross
  BY <1>1, ParcelsStay
<1>3. OnTheWay' = OnTheWay /\ OpenRows' = OpenRows
  BY <1>1 DEF OnTheWay, InItem, InQueue, ToDo, OpenRows
<1>4. \A r : Same(r, r)
  BY DEF Same
<1>5. CASE current = d
  <2>1. engine' = engine /\ current' = current
    BY <1>5 DEF OpenDevice
  <2> QED BY <1>2, <1>3, <1>4, <2>1, QuietAgrees DEF Running, TableInv
<1>6. CASE current # d
  <2>1. Carried' \subseteq produced'.updates /\ Cross'
    BY <1>1, <1>2 DEF Running, TableInv, Sources
  <2>2. ASSUME OneSupply, failures' = 0
        PROVE  OneEach'
    BY <1>1, <1>3, <1>4, <2>2, QuietKeepsOne DEF Running, TableInv
  <2>3. ASSUME OneSupply
        PROVE  Matched'
    <3>1. current = None
      BY <1>6, <2>3 DEF OneSupply, Running, TypeOK
    <3>2. Carried' = {}
      BY <1>2, <3>1 DEF Running, TableInv, Sources
    <3>3. PICK open \in {OpenRows, startup} : engine' = Restored(open, d)
      BY <1>6 DEF OpenDevice
    <3>4. open \in SUBSET {i \in Incident : i.until = None}
      BY <3>3, OpenRowsType DEF Running, TypeOK
    <3>5. /\ \A r \in OpenRows : \E i \in open : Same(i, r)
          /\ \A i \in open : \E r \in OpenRows : Same(i, r)
      BY <1>4, <3>1, <3>3 DEF Running, TableInv, Sources
    <3>6. \A r, q \in OpenRows : r.kind = q.kind => Same(r, q)
      <4>1. CASE failures = 0
        BY <2>3, <4>1 DEF Running, TableInv, OneEach
      <4>2. CASE restarts = 0
        <5>1. rows = {}
          BY <3>1, <4>2 DEF Running, TableInv, Sources
        <5> QED BY <5>1 DEF OpenRows
      <4> QED BY <4>1, <4>2 DEF Smooth
    <3> QED BY <1>1, <2>3, <3>2, <3>3, <3>4, <3>5, <3>6, RestoredMatches DEF Running
  <2> QED BY <2>1, <2>2, <2>3 DEF Agrees
<1> QED BY <1>5, <1>6

LEMMA StoringAgrees ==
    ASSUME Running, Storage, store'.pc # "failed"
    PROVE  Agrees
<1>1. engine' = engine /\ current' = current /\ Cross
  BY DEF Storage, StorageReceives, StorageRecords, StorageUpserts, StorageCompletes,
         StorageFails, StorageExits, monitorVars, Running, TableInv
<1>2. \A r : Same(r, r)
  BY DEF Same
<1>3. CASE StorageReceives
  <2>1. Carried' = Carried /\ OnTheWay' = OnTheWay /\ Cross'
    BY <1>1, <1>3, ReceivedUpdates DEF Running
  <2>2. OpenRows' = OpenRows
    BY <1>3 DEF StorageReceives, OpenRows
  <2> QED BY <1>1, <1>2, <2>1, <2>2, QuietAgrees
<1>4. CASE StorageUpserts
  <2> SUFFICES ASSUME NEW e, e = store.item.events[store.done]
               PROVE  Agrees
    OBVIOUS
  <2>1. Carried' = Carried /\ Cross'
    BY <1>1, <1>4, UpsertedUpdates DEF Running
  <2>2. Carried' \subseteq produced'.updates
    BY <2>1, NextKeeps DEF Running, TableInv, Sources
  <2>3. OneSupply /\ current' # None => Matched'
    BY <1>1, <1>4, UpsertMatches DEF Running, TableInv
  <2>4. failures' = 0 => failures = 0
    BY NextKeeps DEF Running
  <2>5. OneSupply /\ failures' = 0 => OneEach'
    BY <1>1, <1>4, <2>4, UpsertKeepsOne DEF Running, TableInv
  <2> QED BY <2>1, <2>2, <2>3, <2>5 DEF Agrees
<1>5. CASE StorageCompletes
  <2>1. Carried' \subseteq Carried /\ OnTheWay' = OnTheWay /\ Cross'
    BY <1>1, <1>5, CompletedUpdates DEF Running
  <2>2. Carried' \subseteq produced'.updates
    BY <2>1, NextKeeps DEF Running, TableInv, Sources
  <2>3. OneSupply /\ current' # None => Matched'
    BY <1>1, <1>5, CompletedMatches DEF Running, TableInv
  <2>4. failures' = 0 => failures = 0
    BY NextKeeps DEF Running
  <2>5. OpenRows' = OpenRows
    BY <1>5 DEF StorageCompletes, OpenRows
  <2>6. OneSupply /\ failures' = 0 => OneEach'
    BY <1>2, <2>1, <2>4, <2>5, QuietKeepsOne DEF Running, TableInv
  <2> QED BY <2>1, <2>2, <2>3, <2>6 DEF Agrees
<1>6. CASE StorageRecords \/ StorageFails \/ StorageExits
  <2>1. /\ UNCHANGED <<queue, pending, rows>>
        /\ (store'.pc = "busy") = (store.pc = "busy")
        /\ store.pc = "busy" => store'.item = store.item
                                /\ (store'.done = 0 \/ (store'.done = 1 /\ store.done = 0))
        /\ StorageRecords => store.done = 0 /\ store'.done = 1
        /\ StorageExits => store.pc # "busy"
    <3>1. CASE StorageRecords
      BY <3>1 DEF StorageRecords, monitorVars, Running, TypeOK, StoreState, StorageExits
    <3>2. CASE StorageFails
      <4>1. ~stop
        BY <3>2 DEF StorageFails
      <4>2. store' = [store EXCEPT !.done = 0] /\ queue' = queue
        BY <3>2, <4>1 DEF StorageFails, Retry
      <4>3. store'.pc = store.pc /\ store'.item = store.item /\ store'.done = 0 /\ store.pc = "busy"
        BY <3>2, <4>2 DEF Running, TypeOK, StoreState, StorageFails
      <4>4. UNCHANGED <<pending, rows>>
        BY <3>2 DEF StorageFails, monitorVars
      <4>5. ~StorageRecords
        BY <3>2 DEF StorageFails, StorageRecords, Running, TypeOK
      <4>6. ~StorageExits
        BY <4>3 DEF StorageExits
      <4> QED BY <4>2, <4>3, <4>4, <4>5, <4>6
    <3>3. CASE StorageExits
      <4>1. store.pc = "idle" /\ store'.pc = "drained"
        BY <3>3 DEF StorageExits, Running, TypeOK, StoreState
      <4> QED BY <3>3, <4>1 DEF StorageExits, monitorVars, StorageRecords
    <3> QED BY <1>6, <3>1, <3>2, <3>3
  <2>2. Carried' = Carried /\ Cross' = Cross
    BY <2>1, ParcelsStay
  <2>3. OnTheWay \subseteq OnTheWay'
    <3>1. /\ store'.pc = "busy" <=> store.pc = "busy"
          /\ store.pc = "busy" => store'.item = store.item
          /\ store.pc = "busy" => (store'.done = 0 \/ (store'.done = 1 /\ store.done = 0))
      BY <2>1
    <3> QED BY <2>1, <3>1, RetriedUpdates DEF Running
  <2>4. StorageRecords \/ StorageExits => OnTheWay' \subseteq OnTheWay
    <3>1. store.pc = "busy" => \A p \in DOMAIN store.item.events : p >= 0
      <4>1. store.pc = "busy" => store.item.events \in Seq(Incident)
        BY DEF Running, TypeOK, Item
      <4> QED BY <4>1
    <3>2. StorageRecords \/ StorageExits => InItem' \subseteq InItem
      BY <2>1, <3>1 DEF InItem, ToDo
    <3> QED BY <2>1, <3>2 DEF OnTheWay, InQueue
  <2>5. OpenRows' = OpenRows
    BY <2>1 DEF OpenRows
  <2> QED BY <1>1, <1>2, <1>6, <2>2, <2>3, <2>4, <2>5, QuietAgrees
<1> QED BY <1>3, <1>4, <1>5, <1>6 DEF Storage

LEMMA WaitingAgrees ==
    ASSUME Running, OpenFails \/ MonitorExits \/ Signal \/ UNCHANGED vars
                    \/ \E c \in Clients : Acknowledge(c)
    PROVE  Agrees
<1>1. UNCHANGED <<queue, pending, store, engine, current>> /\ Cross
  BY DEF OpenFails, MonitorExits, Signal, vars, Acknowledge, AcknowledgeRow, AcknowledgeSnapshot,
         monitorVars, storageVars, Running, TableInv
<1>2. Carried' = Carried /\ Cross' = Cross
  BY <1>1, ParcelsStay
<1>3. OnTheWay' = OnTheWay
  BY <1>1 DEF OnTheWay, InItem, InQueue, ToDo
<1>4. /\ \A r \in OpenRows' : \E q \in OpenRows : Same(q, r)
      /\ \A r \in OpenRows : \E q \in OpenRows' : Same(q, r)
  <2>1. CASE \E c \in Clients : Acknowledge(c)
    BY <2>1, AcknowledgeKeepsOpen DEF Running
  <2>2. CASE OpenFails \/ MonitorExits \/ Signal \/ UNCHANGED vars
    BY <2>2 DEF OpenFails, MonitorExits, Signal, vars, storageVars, OpenRows, Same
  <2> QED BY <2>1, <2>2
<1> QED BY <1>1, <1>2, <1>3, <1>4, QuietAgrees

\* A daemon that has just started has nothing on the way.
LEMMA RestartAgrees ==
    ASSUME TypeOK, TypeOK', TableInv, Smooth, Smooth', Restart
    PROVE  TableInv'
<1>1. /\ queue' = <<>> /\ pending' = <<>> /\ store' = IdleStore /\ engine' = NoneActive
      /\ produced' = NothingProduced /\ current' = None /\ mon' = "top" /\ startup' = OpenRows
      /\ rows' = rows /\ failures' = failures /\ restarts' = restarts + 1
  BY DEF Restart
<1>2. \A n \in Parcels' : ToSet(Parcel(n)') = {}
  BY <1>1 DEF Parcels, Parcel, IdleStore, ToSet
<1>3. Carried' = {} /\ Cross'
  BY <1>2 DEF Carried, Cross
<1>4. OnTheWay' = {}
  BY <1>3, OnTheWayIsCarriedNext
<1>5. OpenRows' = OpenRows /\ \A r : Same(r, r)
  BY <1>1 DEF OpenRows, Same
<1>6. restarts' # 0
  BY <1>1 DEF TypeOK
<1>7. Sources'
  BY <1>1, <1>3, <1>5, <1>6 DEF Sources, NothingProduced
<1>8. OneSupply /\ failures' = 0 => OneEach'
  BY <1>1, <1>4, <1>5 DEF TableInv, OneEach
<1> QED BY <1>1, <1>3, <1>7, <1>8 DEF TableInv, IdleStore

LEMMA TableInvStep ==
    ASSUME TypeOK, TypeOK', ThreadsInv, UpdatesInv, TableInv, Smooth, Smooth', [Next]_vars
    PROVE  TableInv'
<1>1. CASE Restart
  BY <1>1, RestartAgrees
<1>2. CASE ~Restart
  <2>1. failures' = 0 => failures = 0 /\ ~StorageFails
    BY <1>2, NextKeeps DEF StorageFails
  <2>2. failures' = 0 => store'.pc # "failed"
    <3>1. CASE StorageFails
      BY <2>1, <3>1
    <3>2. CASE ~StorageFails
      <4>1. store'.pc = "failed" => store.pc = "failed"
        BY <1>2, <3>2 DEF TypeOK, StoreState, Next, Monitor, OpenDevice, OpenFails, TakeSample, Publish,
           SampleFails, MonitorExits, Storage, StorageReceives, StorageRecords, StorageUpserts,
           StorageCompletes, StorageExits, Signal, Acknowledge, AcknowledgeRow,
           AcknowledgeSnapshot, vars, storageVars, IdleStore
      <4> QED BY <2>1, <4>1 DEF TableInv
    <3> QED BY <3>1, <3>2
  <2>3. /\ restarts' = 0 /\ produced'.updates = {} => rows' = {}
        /\ current' = None =>
             /\ produced'.updates = {} /\ mon' # "observed"
             /\ \A r \in OpenRows' : \E i \in startup' : Same(i, r)
             /\ \A i \in startup' : \E r \in OpenRows' : Same(i, r)
    BY <1>2, StartStays DEF TableInv
  <2>4. CASE store'.pc = "failed"
    <3>1. Sources'
      BY <2>3, <2>4 DEF Sources
    <3> QED BY <2>2, <2>4, <3>1 DEF TableInv
  <2>5. CASE store'.pc # "failed"
    <3>1. store.pc # "failed"
      BY <1>2, <2>5, FailedStays
    <3>2. Running
      BY <1>2, <3>1 DEF Running, UpdatesInv
    <3>3. Agrees
      BY <1>2, <2>5, <3>2, AddingAgrees, OpeningAgrees, StoringAgrees, WaitingAgrees
      DEF Next, Monitor
    <3>4. Sources'
      BY <2>3, <3>3 DEF Sources, Agrees
    <3> QED BY <2>2, <3>3, <3>4 DEF TableInv, Agrees
  <2> QED BY <2>4, <2>5
<1> QED BY <1>1, <1>2

\* At the start too.
LEMMA TableInvInit ==
    ASSUME Init, TypeOK
    PROVE  TableInv
<1>1. \A n \in Parcels : ToSet(Parcel(n)) = {}
  BY DEF Init, Parcels, Parcel, IdleStore, ToSet
<1>2. Carried = {} /\ Cross
  BY <1>1 DEF Carried, Cross
<1>3. OnTheWay = {}
  BY <1>2, OnTheWayIsCarried
<1>4. Sources
  BY <1>2 DEF Init, Sources, NothingProduced, OpenRows
<1>5. OneEach
  BY <1>3 DEF Init, OneEach, OpenRows
<1> QED BY <1>2, <1>4, <1>5 DEF Init, TableInv, IdleStore

\* In a behaviour of one power supply in which no update is dropped, and in which
\* no statement fails or the daemon never restarts, engine and table agree.
THEOREM EngineAndTableAgree == Spec /\ OneSupply /\ []Smooth => []TableInv
<1>1. Init /\ TypeOK => TableInv
  BY TableInvInit
<1>2. TypeOK /\ TypeOK' /\ ThreadsInv /\ UpdatesInv /\ TableInv /\ Smooth /\ Smooth' /\ [Next]_vars
        => TableInv'
  BY TableInvStep
<1> QED BY <1>1, <1>2, RuntimeTypeCorrect, ThreadsAgree, UpdatesAreAccounted, PTL DEF Spec

\* In such a behaviour the open incidents of the table are those that the engine
\* holds whenever nothing is on its way (start, upsert_incident, observe).
THEOREM TableFollowsEngine == Spec /\ OneSupply /\ []Smooth => []TableMatchesEngine
<1>1. TypeOK /\ TableInv /\ OneSupply => TableMatchesEngine
  <2> SUFFICES ASSUME TypeOK, TableInv, OneSupply, OnTheWay = {}, store.pc = "idle",
                      current # None, NEW k \in Kinds
               PROVE  {r.at : r \in {r \in OpenRows : r.kind = k /\ r.device = current}}
                        = IF engine[k] = None THEN {} ELSE {engine[k].at}
    BY DEF TableMatchesEngine
  <2>1. Matched
    BY DEF TableInv
  <2>2. \A r \in OpenRows : r \in Incident /\ r.device = current /\ Held(r)
    BY <2>1 DEF TypeOK, OpenRows, Matched, OneSupply, Incident
  <2>3. engine[k] # None => engine[k].kind = k /\ \E r \in OpenRows : Same(r, engine[k])
    BY <2>1 DEF TypeOK, ActiveMaps, Open, Matched
  <2>4. CASE engine[k] = None
    BY <2>2, <2>4 DEF Held
  <2>5. CASE engine[k] # None
    <3>1. \A r \in OpenRows : r.kind = k => r.at = engine[k].at
      BY <2>2 DEF Held
    <3>2. \E r \in OpenRows : r.kind = k /\ r.at = engine[k].at
      BY <2>3, <2>5 DEF Same
    <3> QED BY <2>2, <2>5, <3>1, <3>2
  <2> QED BY <2>4, <2>5
<1>2. OneSupply => OneSupply'
  OBVIOUS
<1> QED BY <1>1, <1>2, EngineAndTableAgree, RuntimeTypeCorrect, PTL

\* And a device that is opened has all its open incidents back before its first
\* sample is taken (start, which restores them for a device that is new to it).
THEOREM OpenIncidentsComeBack == Spec /\ OneSupply /\ []Smooth => []OpenIncidentsAreRestored
<1>1. TypeOK /\ TableInv /\ OneSupply /\ Smooth => OpenIncidentsAreRestored
  <2> SUFFICES ASSUME TypeOK, TableInv, OneSupply, Smooth, mon = "opened",
                      produced = NothingProduced, NEW r \in OpenRows
               PROVE  engine[r.kind] # None /\ Same(engine[r.kind], r)
    BY DEF OpenIncidentsAreRestored
  <2>1. r \in rows /\ r \in Incident /\ current # None /\ produced.updates = {}
    BY RuntimeAssumption DEF TypeOK, OpenRows, NothingProduced
  <2>2. store.pc # "failed"
    BY <2>1 DEF TableInv, Smooth, Sources
  <2>3. Carried = {} /\ OnTheWay = {}
    BY <2>1, <2>2, OnTheWayIsCarried DEF TableInv, Sources
  <2>4. Held(r)
    BY <2>1, <2>2, <2>3 DEF TableInv, Matched
  <2>5. r.kind \in Kinds /\ engine[r.kind] # None => engine[r.kind].kind = r.kind
    BY DEF TypeOK, ActiveMaps, Open
  <2> QED BY <2>1, <2>4, <2>5 DEF Held, Same, Incident
<1>2. OneSupply => OneSupply'
  OBVIOUS
<1> QED BY <1>1, <1>2, EngineAndTableAgree, RuntimeTypeCorrect, PTL

-----------------------------------------------------------------------------
\* The runtime with evidence.

\* A step of the monitor or of the storage thread is one of the runtime, or one
\* that touches only evidence.
LEMMA ThreadsStep ==
    ASSUME EvidenceMonitor \/ EvidenceStorage
    PROVE  [Next]_vars
<1>1. CASE EvidenceMonitor
  BY <1>1 DEF EvidenceMonitor, EvidenceOpenDevice, EvidenceTakeSample, EvidencePublish,
              EvidenceSampleFails, Next, Monitor
<1>2. CASE EvidenceStorage
  <2>1. CASE StorageWritesEvidence
    BY <2>1 DEF StorageWritesEvidence
  <2> QED BY <1>2, <2>1 DEF EvidenceStorage, EvidenceReceives, EvidenceCompletes, EvidenceFails,
                            Next, Storage
<1> QED BY <1>1, <1>2

LEMMA EvidenceStep == ASSUME [EvidenceNext]_allVars PROVE [Next]_vars
<1>1. CASE UNCHANGED allVars
  BY <1>1 DEF allVars
<1>2. CASE EvidenceNext
  BY <1>2, ThreadsStep DEF EvidenceNext, EvidenceRestart, Next
<1> QED BY <1>1, <1>2

\* Capturing evidence, and storing it with the items of the queue, changes
\* nothing of what the runtime does with samples and incidents (start).
THEOREM EvidenceKeepsRuntime == EvidenceSpec => Spec
<1>1. EvidenceInit => Init
  BY DEF EvidenceInit
<1> QED BY <1>1, EvidenceStep, PTL DEF EvidenceSpec, Spec

\* An answered acknowledgement stays in the database also while evidence is
\* stored, repeated and dropped (acknowledge, upsert_incident).
THEOREM AcknowledgementsAreDurableWithEvidence == EvidenceSpec => []AcknowledgementIsDurable
  BY EvidenceKeepsRuntime, AcknowledgementsAreDurable, PTL

\* Nor does evidence make the storage thread lose a sample or an update, or mix
\* the incidents of two devices (start, bound_pending, record, upsert_incident).
THEOREM NothingIsLostWithEvidence ==
    EvidenceSpec => [](NoSampleLostUnnoticed /\ NoUpdateLostUnnoticed /\ EngineIsOfDevice)
  BY EvidenceKeepsRuntime, NoSampleIsLost, NoUpdateIsLost, EngineFollowsDevice, PTL

\* Nor does it come between the engine and the table (start, upsert_incident).
THEOREM TableFollowsEngineWithEvidence ==
    EvidenceSpec /\ OneSupply /\ []Smooth => [](TableMatchesEngine /\ OpenIncidentsAreRestored)
  BY EvidenceKeepsRuntime, TableFollowsEngine, OpenIncidentsComeBack, PTL

-----------------------------------------------------------------------------
\* Evidence.

Window == [id : Id, until : Nat]

EvidenceTypeOK ==
    /\ ring \in Seq(Sample)
    /\ capturing \in Seq(Window)
    /\ waiting \in Seq(Reading)
    /\ carried \in Seq(Seq(Reading)) /\ Len(carried) = Len(queue)
    /\ held \in Seq(Reading) /\ written \in Nat /\ written <= Len(held)
    /\ store.pc # "busy" => held = <<>>
    /\ evidence \subseteq Reading
    /\ counts \in [dropped : Nat, truncated : Nat]
    /\ forgone \in [updates : SUBSET Incident, windows : SUBSET Id]

\* An incident is in the table, or its update was dropped.
Known(id) ==
    \/ \E r \in rows : IdOf(r) = id
    \/ \E u \in forgone.updates : IdOf(u) = id

\* It is so, or an update of it travels in one of the first n parcels.
Traced(id, n) ==
    Known(id) \/ \E m \in 0 .. n : \E u \in ToSet(Parcel(m)) : IdOf(u) = id

\* A reading travels with an update of its incident or after it, and an open
\* window ahead of its readings.
Travels ==
    /\ \A e \in ToSet(held) : Traced(e.id, 0)
    /\ \A n \in DOMAIN carried : \A e \in ToSet(carried[n]) : Traced(e.id, n)
    /\ \A e \in ToSet(waiting) : Traced(e.id, Len(queue) + 1)
    /\ \A w \in ToSet(capturing) : Traced(w.id, Len(queue) + 1)

\* An item that has got to its evidence has stored its updates.
BelongsInv ==
    /\ \A e \in evidence : Known(e.id)
    /\ store.pc = "busy" =>
        \A n \in DOMAIN store.item.events :
            n < store.done => \E r \in rows : Same(r, store.item.events[n])
    /\ Receiving => Travels

-----------------------------------------------------------------------------
\* The incidents that were raised and what is due to them.
Raised == {u \in produced.updates : u.until = None}

\* A sample for each cycle at most; the ring holds those of the last minute to
\* which no gap leads; a device is closed when a cycle had none.
RingInv ==
    /\ \A s, t \in produced.samples : s.at = t.at => s = t
    /\ \A s \in produced.samples : s.at <= Latest
    /\ \A u \in Raised : u.at <= Latest
    /\ \A s \in produced.samples :
        Unbroken(s.at, Latest) /\ Latest - s.at <= Before => s \in ToSet(ring)
    /\ device = None => /\ mon \in {"top", "exited"}
                        /\ \A s \in produced.samples : s.at < Latest

\* A reading after the raise of an incident whose window was truncated.
OfTruncated(e, T) == e.id \in T /\ e.sample.at \in e.id.at .. e.id.at + After

\* A window that can still take a sample is open, truncated or ended.
Watched(u, T) ==
    \/ u.kind = Monitoring \/ u.at + After <= Latest
    \/ IdOf(u) \in T \cup forgone.windows
    \/ WindowAt(IdOf(u), u.at + After) \in ToSet(capturing)

\* X are the readings that were dropped, T the incidents whose windows were
\* truncated: no more than was counted. All else that is due is there.
Explained(X, T) ==
    /\ IsFiniteSet(X) /\ Cardinality(X) <= counts.dropped
    /\ IsFiniteSet(T) /\ Cardinality(T) <= counts.truncated
    /\ \A u \in Raised : Watched(u, T)
    /\ \A u \in Raised : \A e \in Due(u) :
        e \in evidence \cup EvidenceOnTheWay \cup X \/ OfTruncated(e, T)

-----------------------------------------------------------------------------
\* Sequences of evidence.

\* What is retained is a list of the elements at these places.
LEMMA RetainKeeps ==
    ASSUME NEW T, NEW s \in Seq(T), NEW P \in SUBSET (DOMAIN s)
    PROVE  /\ Retain(s, P) \in Seq(T)
           /\ ToSet(Retain(s, P)) = {s[p] : p \in P}
<1> DEFINE k == Cardinality(P)
           r == Retain(s, P)
<1>1. IsFiniteSet(P) /\ P \in SUBSET Nat
  <2>1. DOMAIN s = 1 .. Len(s) /\ Len(s) \in Nat
    BY LenProperties
  <2>2. IsFiniteSet(1 .. Len(s))
    BY <2>1, FS_Interval
  <2> QED BY <2>1, <2>2, FS_Subset
<1>2. /\ k \in Nat
      /\ \A n \in 1 .. k : Nth(P, n) \in P
      /\ \A p \in P : \E n \in 1 .. k : Nth(P, n) = p
  BY <1>1, NthOfFinite
<1>3. r = [n \in 1 .. k |-> s[Nth(P, n)]]
  BY DEF Retain
<1>4. \A p \in P : s[p] \in T
  BY ElementOfSeq, LenProperties
<1> HIDE DEF k, r
<1>5. r \in Seq(T)
  BY <1>2, <1>3, <1>4
<1>6. ToSet(r) = {s[p] : p \in P}
  BY <1>2, <1>3 DEF ToSet
<1> QED BY <1>5, <1>6 DEF r

\* Newest: what is left out is counted, and all the rest is there.
LEMMA NewestDrops ==
    ASSUME NEW T, NEW s \in Seq(T), NEW limit \in Nat
    PROVE  /\ Newest(s, limit) \in Seq(T)
           /\ ToSet(Newest(s, limit)) \subseteq ToSet(s)
           /\ Excess(s, limit) \in Nat
           /\ \E gone : /\ IsFiniteSet(gone) /\ Cardinality(gone) <= Excess(s, limit)
                        /\ ToSet(s) \subseteq gone \cup ToSet(Newest(s, limit))
<1> DEFINE l == Len(s)
           m == Min({l, limit})
           drop == Excess(s, limit)
           new == Newest(s, limit)
           gone == {s[i] : i \in 1 .. drop}
<1>1. l \in Nat /\ DOMAIN s = 1 .. l
  BY LenProperties
<1>2. m \in Nat /\ m <= l
  BY <1>1 DEF Min
<1>3. drop = l - m
  BY DEF Excess
<1>4. new = SubSeq(s, l - m + 1, l)
  BY DEF Newest
<1> HIDE DEF l, m, drop, new
<1>5. drop \in Nat /\ drop <= l /\ new = SubSeq(s, drop + 1, l)
  BY <1>1, <1>2, <1>3, <1>4
<1>6. \A i \in drop + 1 .. l : s[i] \in T
  BY <1>1, <1>5, ElementOfSeq DEF l
<1>7. /\ new \in Seq(T) /\ Len(new) = l - drop
      /\ \A i \in 1 .. l - drop : new[i] = s[i + drop]
  BY <1>1, <1>5, <1>6, SubSeqProperties
<1>8. DOMAIN new = 1 .. l - drop
  BY <1>7, LenProperties
<1>9. ToSet(new) \subseteq ToSet(s)
  BY <1>1, <1>5, <1>7, <1>8 DEF ToSet
<1>10. IsFiniteSet(gone) /\ Cardinality(gone) <= drop
  <2> DEFINE f == [i \in 1 .. drop |-> s[i]]
  <2>1. f \in Surjection(1 .. drop, gone)
    BY DEF Surjection
  <2>2. ExistsSurjection(1 .. drop, gone)
    BY <2>1 DEF ExistsSurjection
  <2> HIDE DEF gone, f
  <2>3. IsFiniteSet(1 .. drop) /\ Cardinality(1 .. drop) = drop
    BY <1>5, FS_Interval
  <2> QED BY <1>5, <2>1, <2>2, <2>3, FS_SurjCardinalityBound, FS_Surjection
<1>11. ToSet(s) \subseteq gone \cup ToSet(new)
  <2>1. ASSUME NEW i \in 1 .. l, i > drop
        PROVE  s[i] \in ToSet(new)
    <3>1. i - drop \in 1 .. l - drop /\ (i - drop) + drop = i
      BY <1>1, <1>5, <2>1
    <3> QED BY <1>7, <1>8, <3>1 DEF ToSet
  <2>2. \A i \in 1 .. l : i <= drop => s[i] \in gone
    BY <1>5
  <2> HIDE DEF gone
  <2>3. ASSUME NEW i \in 1 .. l
        PROVE  s[i] \in gone \cup ToSet(new)
    <3>1. i > drop \/ i <= drop
      BY <1>1, <1>5
    <3> QED BY <2>1, <2>2, <3>1
  <2> QED BY <1>1, <2>3 DEF ToSet
<1> HIDE DEF gone
<1> QED BY <1>5, <1>7, <1>9, <1>10, <1>11 DEF drop, new

\* Two sequences in one have the elements of both.
LEMMA JoinKeeps ==
    ASSUME NEW T, NEW a \in Seq(T), NEW b \in Seq(T)
    PROVE  a \o b \in Seq(T) /\ ToSet(a \o b) = ToSet(a) \cup ToSet(b)
<1> DEFINE c == a \o b
<1>1. /\ c \in Seq(T) /\ Len(c) = Len(a) + Len(b)
      /\ \A i \in 1 .. Len(a) + Len(b) : c[i] = IF i <= Len(a) THEN a[i] ELSE b[i - Len(a)]
  BY ConcatProperties
<1> HIDE DEF c
<1>2. /\ Len(a) \in Nat /\ Len(b) \in Nat
      /\ DOMAIN a = 1 .. Len(a) /\ DOMAIN b = 1 .. Len(b) /\ DOMAIN c = 1 .. Len(c)
  BY <1>1, LenProperties
<1>3. ASSUME NEW i \in DOMAIN a
      PROVE  i \in DOMAIN c /\ c[i] = a[i]
  BY <1>1, <1>2
<1>4. ASSUME NEW i \in DOMAIN b
      PROVE  i + Len(a) \in DOMAIN c /\ c[i + Len(a)] = b[i]
  <2>1. /\ i + Len(a) \in 1 .. Len(a) + Len(b) /\ ~(i + Len(a) <= Len(a))
        /\ (i + Len(a)) - Len(a) = i
    BY <1>2
  <2> QED BY <1>1, <1>2, <2>1
<1>5. ASSUME NEW i \in DOMAIN c
      PROVE  c[i] \in ToSet(a) \/ c[i] \in ToSet(b)
  <2>1. CASE i <= Len(a)
    BY <1>1, <1>2, <2>1 DEF ToSet
  <2>2. CASE ~(i <= Len(a))
    <3>1. i - Len(a) \in DOMAIN b /\ c[i] = b[i - Len(a)]
      BY <1>1, <1>2, <2>2
    <3> QED BY <3>1 DEF ToSet
  <2> QED BY <2>1, <2>2
<1>6. ToSet(a) \subseteq ToSet(c)
  BY <1>3 DEF ToSet
<1>7. ToSet(b) \subseteq ToSet(c)
  BY <1>4 DEF ToSet
<1>8. ToSet(c) \subseteq ToSet(a) \cup ToSet(b)
  BY <1>5 DEF ToSet
<1> QED BY <1>1, <1>6, <1>7, <1>8 DEF c

\* F is the function by which the first k sequences are joined.
Joins(seqs, k, F) ==
    F = [i \in 1 .. k |-> IF i = 1 THEN seqs[i] ELSE F[i - 1] \o seqs[i]]

\* One more sequence is joined to the first k.
LEMMA JoinsStep ==
    ASSUME NEW seqs, NEW k, NEW F, Joins(seqs, k, F), NEW i \in 1 .. k
    PROVE  F[i] = IF i = 1 THEN seqs[i] ELSE F[i - 1] \o seqs[i]
  BY DEF Joins

\* There is one, however many they are.
LEMMA JoinsExist ==
    ASSUME NEW seqs, NEW k \in Nat
    PROVE  \E F : Joins(seqs, k, F)
<1> DEFINE Bad == {n \in Nat : ~\E F : Joins(seqs, n, F)}
<1>1. SUFFICES ASSUME Bad # {} PROVE FALSE
  OBVIOUS
<1>2. PICK n \in Bad : \A m \in Bad : n <= m
  <2>1. Bad \in SUBSET Nat
    OBVIOUS
  <2> HIDE DEF Bad
  <2> QED BY <1>1, <2>1, LeastOf
<1>3. n \in Nat /\ ~\E F : Joins(seqs, n, F)
  OBVIOUS
<1>4. CASE n = 0
  <2>1. Joins(seqs, 0, [i \in 1 .. 0 |-> seqs[i]])
    BY DEF Joins
  <2> QED BY <1>3, <1>4, <2>1
<1>5. CASE n # 0
  <2>1. n - 1 \in Nat /\ n - 1 \notin Bad
    BY <1>2, <1>3, <1>5
  <2>2. PICK G : Joins(seqs, n - 1, G)
    BY <2>1
  <2> HIDE DEF Bad
  <2> DEFINE F == [i \in 1 .. n |-> IF i = n THEN IF n = 1 THEN seqs[n] ELSE G[n - 1] \o seqs[n]
                                    ELSE G[i]]
             H == [i \in 1 .. n |-> IF i = 1 THEN seqs[i] ELSE F[i - 1] \o seqs[i]]
  <2>3. ASSUME NEW i \in 1 .. n
        PROVE  F[i] = H[i]
    <3>1. CASE i = n
      BY <1>3, <1>5, <3>1
    <3>2. CASE i # n
      <4>1. i \in 1 .. n - 1 /\ (i # 1 => i - 1 \in 1 .. n /\ i - 1 # n)
        BY <1>3, <3>2
      <4>2. G[i] = IF i = 1 THEN seqs[i] ELSE G[i - 1] \o seqs[i]
        BY <2>2, <4>1, JoinsStep
      <4> QED BY <3>2, <4>1, <4>2
    <3> QED BY <3>1, <3>2
  <2>4. F = H
    <3>1. DOMAIN F = 1 .. n /\ DOMAIN H = 1 .. n
      OBVIOUS
    <3> QED BY <2>3
  <2>5. Joins(seqs, n, F)
    BY <2>4 DEF Joins
  <2> QED BY <1>3, <2>5
<1> QED BY <1>4, <1>5

\* Joined sequences have the elements of each.
LEMMA FlattenKeeps ==
    ASSUME NEW T, NEW seqs \in Seq(Seq(T))
    PROVE  /\ FlattenSeq(seqs) \in Seq(T)
           /\ \A n \in DOMAIN seqs : ToSet(seqs[n]) \subseteq ToSet(FlattenSeq(seqs))
           /\ \A x \in ToSet(FlattenSeq(seqs)) : \E n \in DOMAIN seqs : x \in ToSet(seqs[n])
<1> DEFINE k == Len(seqs)
<1>1. k \in Nat /\ DOMAIN seqs = 1 .. k /\ \A n \in 1 .. k : seqs[n] \in Seq(T)
  BY LenProperties, ElementOfSeq
<1>2. CASE k = 0
  <2>1. FlattenSeq(seqs) = seqs /\ seqs = <<>>
    BY <1>2 DEF FlattenSeq
  <2> QED BY <1>1, <1>2, <2>1 DEF ToSet
<1>3. CASE k # 0
  <2> DEFINE F == CHOOSE F : Joins(seqs, k, F)
  <2>1. FlattenSeq(seqs) = F[k]
    BY <1>3 DEF FlattenSeq, Joins
  <2> HIDE DEF k
  <2>2. Joins(seqs, k, F)
    BY <1>1, JoinsExist
  <2> HIDE DEF F
  <2> DEFINE Good(i) == /\ F[i] \in Seq(T)
                        /\ \A n \in 1 .. i : ToSet(seqs[n]) \subseteq ToSet(F[i])
                        /\ \A x \in ToSet(F[i]) : \E n \in 1 .. i : x \in ToSet(seqs[n])
             Bad == {i \in 1 .. k : ~Good(i)}
  <2>3. ASSUME NEW i \in 1 .. k, i # 1 => Good(i - 1)
        PROVE  Good(i)
    <3>1. F[i] = IF i = 1 THEN seqs[i] ELSE F[i - 1] \o seqs[i]
      BY <2>2, JoinsStep
    <3>2. CASE i = 1
      <4>1. F[i] = seqs[i] /\ seqs[i] \in Seq(T) /\ \A n \in 1 .. i : n = i
        BY <1>1, <3>1, <3>2
      <4>2. i \in 1 .. i
        BY <3>2
      <4> QED BY <4>1, <4>2
    <3>3. CASE i # 1
      <4> DEFINE a == F[i - 1]
                 b == seqs[i]
      <4>1. a \in Seq(T) /\ b \in Seq(T) /\ F[i] = a \o b
        BY <1>1, <2>3, <3>1, <3>3
      <4>2. /\ \A n \in 1 .. i - 1 : ToSet(seqs[n]) \subseteq ToSet(a)
            /\ \A x \in ToSet(a) : \E n \in 1 .. i - 1 : x \in ToSet(seqs[n])
        BY <2>3, <3>3
      <4> HIDE DEF a
      <4>3. F[i] \in Seq(T) /\ ToSet(F[i]) = ToSet(a) \cup ToSet(b)
        BY <4>1, JoinKeeps
      <4>4. \A n \in 1 .. i : n = i \/ n \in 1 .. i - 1
        BY <1>1
      <4>5. 1 .. i - 1 \subseteq 1 .. i /\ i \in 1 .. i
        BY <1>1
      <4> QED BY <4>2, <4>3, <4>4, <4>5
    <3> QED BY <3>2, <3>3
  <2>4. Bad = {}
    <3> SUFFICES ASSUME Bad # {} PROVE FALSE
      OBVIOUS
    <3>1. Bad \in SUBSET Nat
      OBVIOUS
    <3>2. PICK i \in Bad : \A j \in Bad : i <= j
      <4> HIDE DEF Bad
      <4> QED BY <3>1, LeastOf
    <3>3. i \in 1 .. k /\ ~Good(i) /\ (i # 1 => i - 1 \in 1 .. k)
      <4> HIDE DEF Good
      <4>1. i \in 1 .. k /\ ~Good(i)
        OBVIOUS
      <4> HIDE DEF Bad
      <4> QED BY <1>1, <4>1 DEF k
    <3>4. i # 1 => Good(i - 1)
      <4> SUFFICES ASSUME i # 1 PROVE Good(i - 1)
        OBVIOUS
      <4>1. ~(i <= i - 1) /\ i - 1 \in 1 .. k
        BY <1>1, <3>3
      <4>2. i - 1 \notin Bad
        <5>1. \A j \in Bad : i <= j
          BY <3>2
        <5> HIDE DEF Bad
        <5>2. i - 1 \in Bad => i <= i - 1
          BY <5>1
        <5> QED BY <4>1, <5>2
      <4> HIDE DEF Good
      <4> QED BY <4>1, <4>2
    <3> HIDE DEF Good, Bad
    <3> QED BY <2>3, <3>3, <3>4
  <2>5. Good(k)
    <3>1. k \in 1 .. k
      BY <1>1, <1>3 DEF k
    <3> HIDE DEF Good
    <3> QED BY <2>4, <3>1
  <2> QED BY <1>1, <2>1, <2>5
<1> QED BY <1>2, <1>3

-----------------------------------------------------------------------------
\* What a step does with evidence.

\* What a list has after a map of its elements.
LEMMA MapKeeps ==
    ASSUME NEW T, NEW l \in Nat, NEW f \in [1 .. l -> T]
    PROVE  f \in Seq(T) /\ DOMAIN f = 1 .. l /\ ToSet(f) = {f[i] : i \in 1 .. l}
  BY DEF ToSet

\* The identities of the incidents of a finite set of updates, in an order.
LEMMA IdsInSequence ==
    ASSUME NEW S \in SUBSET Incident, IsFiniteSet(S)
    PROVE  LET ids == {IdOf(u) : u \in S}
           IN  SetToSeq(ids) \in Seq(Id) /\ ToSet(SetToSeq(ids)) = ids
<1> DEFINE ids == {IdOf(u) : u \in S}
           f == [u \in S |-> IdOf(u)]
<1>1. ids \subseteq Id
  BY DEF IdOf, Id, Incident
<1>2. f \in Surjection(S, ids)
  BY DEF Surjection
<1> HIDE DEF f, ids
<1>3. IsFiniteSet(ids)
  BY <1>2, FS_Surjection
<1>4. SetToSeq(ids) \in Seq(Id) /\ ToSet(SetToSeq(ids)) = ids
  BY <1>1, <1>3, SetToSeqType, SetToSeqCovers
<1> QED BY <1>4 DEF ids

\* The past of some incidents is every sample of the ring for each of them.
LEMMA PastKeeps ==
    ASSUME EvidenceTypeOK, NEW ids \in Seq(Id)
    PROVE  /\ Past(ids) \in Seq(Reading)
           /\ \A i \in ToSet(ids), s \in ToSet(ring) : Of(i, s) \in ToSet(Past(ids))
           /\ \A e \in ToSet(Past(ids)) : e.id \in ToSet(ids)
<1> DEFINE of(n) == [m \in DOMAIN ring |-> Of(ids[n], ring[m])]
           seqs == [n \in DOMAIN ids |-> of(n)]
<1>1. /\ ring \in Seq(Sample) /\ Len(ring) \in Nat /\ DOMAIN ring = 1 .. Len(ring)
      /\ Len(ids) \in Nat /\ DOMAIN ids = 1 .. Len(ids)
  BY LenProperties DEF EvidenceTypeOK
<1>2. ASSUME NEW n \in DOMAIN ids
      PROVE  of(n) \in Seq(Reading) /\ ToSet(of(n)) = {Of(ids[n], ring[m]) : m \in DOMAIN ring}
  <2>1. ids[n] \in Id /\ \A m \in DOMAIN ring : ring[m] \in Sample
    BY <1>1, ElementOfSeq
  <2>2. of(n) \in [1 .. Len(ring) -> Reading]
    BY <1>1, <2>1 DEF Of, Reading
  <2> QED BY <1>1, <2>2 DEF ToSet
<1>3. /\ seqs \in Seq(Seq(Reading)) /\ DOMAIN seqs = DOMAIN ids
      /\ \A n \in DOMAIN ids : seqs[n] = of(n)
  <2> HIDE DEF of
  <2>1. seqs \in [1 .. Len(ids) -> Seq(Reading)]
    BY <1>1, <1>2
  <2> QED BY <1>1, <2>1
<1>8. ASSUME NEW n \in DOMAIN ids
      PROVE  ToSet(seqs[n]) = {Of(ids[n], ring[m]) : m \in DOMAIN ring}
  <2>1. seqs[n] = of(n) /\ ToSet(of(n)) = {Of(ids[n], ring[m]) : m \in DOMAIN ring}
    BY <1>2, <1>3
  <2> HIDE DEF of, seqs
  <2> QED BY <2>1
<1>4. Past(ids) = FlattenSeq(seqs)
  BY DEF Past
<1> DEFINE past == Past(ids)
<1> HIDE DEF of, seqs, past
<1>5. /\ past \in Seq(Reading)
      /\ \A n \in DOMAIN seqs : ToSet(seqs[n]) \subseteq ToSet(past)
      /\ \A x \in ToSet(past) : \E n \in DOMAIN seqs : x \in ToSet(seqs[n])
  BY <1>3, <1>4, FlattenKeeps DEF past
<1>6. ASSUME NEW i \in ToSet(ids), NEW s \in ToSet(ring)
      PROVE  Of(i, s) \in ToSet(past)
  <2>1. PICK n \in DOMAIN ids : i = ids[n]
    BY DEF ToSet
  <2>2. PICK m \in DOMAIN ring : s = ring[m]
    BY DEF ToSet
  <2>3. Of(i, s) \in ToSet(seqs[n])
    BY <1>8, <2>1, <2>2
  <2> QED BY <1>3, <1>5, <2>3
<1>7. ASSUME NEW e \in ToSet(past)
      PROVE  e.id \in ToSet(ids)
  <2>1. PICK n \in DOMAIN ids : e \in ToSet(seqs[n])
    BY <1>3, <1>5
  <2>2. PICK m \in DOMAIN ring : e = Of(ids[n], ring[m])
    BY <1>8, <2>1
  <2>3. e.id = ids[n]
    BY <2>2 DEF Of
  <2> QED BY <2>3 DEF ToSet
<1> QED BY <1>5, <1>6, <1>7 DEF past

\* Taking a sample: its updates, of which those that raise an incident are of
\* this cycle.
LEMMA SampleTaken ==
    ASSUME TypeOK, TakeSample
    PROVE  \E new \in SUBSET Incident :
             /\ IsFiniteSet(new)
             /\ produced'.updates = produced.updates \cup new
             /\ \A u \in new : u.until = None => u.at = cycle /\ u.kind # Monitoring
<1>1. current \in Devices /\ cycle \in Nat
  BY PollingHasDevice DEF TypeOK, TakeSample
<1>2. Merged \in ActiveMaps
  BY MergedType DEF TypeOK, Snapshot
<1>3. PICK recovered \in SUBSET Kinds, raised \in SUBSET Kinds :
        /\ ObserveMay(Merged, recovered, raised)
        /\ produced'.updates = produced.updates \cup Updates(Merged, recovered, raised, current, cycle)
  BY DEF TakeSample
<1> DEFINE new == Updates(Merged, recovered, raised, current, cycle)
<1>4. recovered \in SUBSET Open(Merged) /\ Monitoring \notin raised
  BY <1>3 DEF ObserveMay
<1>5. new \subseteq Incident /\ IsFiniteSet(new)
  BY <1>1, <1>2, <1>4, NewEventsType
<1>6. ASSUME NEW u \in new, u.until = None
      PROVE  u.at = cycle /\ u.kind # Monitoring
  <2>1. ASSUME NEW k \in recovered, u = Recover(Merged[k], cycle)
        PROVE  FALSE
    <3>1. Merged[k] \in Incident
      BY <1>2, <1>4, OpenType
    <3> QED BY <1>1, <1>6, <2>1, <3>1, RecoverType, IncidentsAssumption
  <2>2. PICK k \in raised : u = Raise(current, k, cycle)
    BY <2>1 DEF Updates
  <2>3. k \in Kinds
    OBVIOUS
  <2> HIDE DEF new
  <2> QED BY <1>1, <1>4, <2>2, <2>3, RaiseType
<1> HIDE DEF new
<1> QED BY <1>3, <1>5, <1>6 DEF new

\* A step takes a sample: R are the incidents it raises and opened their windows,
\* G the windows that are truncated and X the readings that are dropped, no more
\* than g and x. Every other window of now gets the sample.
Captured(R, opened, G, X, g, x) ==
    /\ IsFiniteSet(G) /\ Cardinality(G) <= g
    /\ IsFiniteSet(X) /\ Cardinality(X) <= x
    /\ counts' = [dropped |-> counts.dropped + x, truncated |-> counts.truncated + g]
    /\ ToSet(waiting) \subseteq ToSet(waiting') \cup X
    /\ \A u \in R, s \in ToSet(ring) : Of(IdOf(u), s) \in ToSet(waiting') \cup X
    /\ \A w \in ToSet(capturing) \cup opened :
         \/ w \in G
         \/ ~(cycle <= w.until)
         \/ w \in ToSet(capturing') /\ Of(w.id, taken') \in ToSet(waiting') \cup X

LEMMA EvidenceTaken ==
    ASSUME TypeOK, TypeOK', EvidenceTypeOK, EvidenceTakeSample,
           NEW R, R = {u \in produced'.updates \ produced.updates : u.until = None},
           NEW opened, opened = {WindowAt(IdOf(u), cycle + After) : u \in R}
    PROVE  /\ capturing' \in Seq(Window) /\ waiting' \in Seq(Reading)
           /\ ToSet(capturing') \subseteq ToSet(capturing) \cup opened
           /\ \A e \in ToSet(waiting') : \/ e \in ToSet(waiting)
                                         \/ \E u \in R : e.id = IdOf(u)
                                         \/ \E w \in ToSet(capturing') : e.id = w.id
           /\ \E G, X : \E g, x \in Nat : Captured(R, opened, G, X, g, x)
<1> DEFINE ids == SetToSeq({IdOf(u) : u \in R})
           opens == [n \in DOMAIN ids |-> WindowAt(ids[n], cycle + After)]
           windows == capturing \o opens
           kept == Newest(windows, MaxWindows)
           open == OpenWindows(kept)
           now == [n \in DOMAIN open |-> Of(open[n].id, taken')]
           past == Past(ids)
           all == waiting \o past \o now
<1>1. /\ capturing' = open
      /\ waiting' = Newest(all, MaxEvidence)
      /\ counts' = [dropped |-> counts.dropped + Excess(all, MaxEvidence),
                    truncated |-> counts.truncated + Excess(windows, MaxWindows)]
  BY DEF EvidenceTakeSample
<1>2. ids \in Seq(Id) /\ ToSet(ids) = {IdOf(u) : u \in R}
  <2>1. PICK new \in SUBSET Incident :
           IsFiniteSet(new) /\ produced'.updates = produced.updates \cup new
    BY SampleTaken DEF EvidenceTakeSample
  <2>2. R \subseteq new
    BY <2>1
  <2>3. IsFiniteSet(R) /\ R \in SUBSET Incident
    BY <2>1, <2>2, FS_Subset
  <2> HIDE DEF ids
  <2> QED BY <2>3, IdsInSequence DEF ids
<1>3. /\ capturing \in Seq(Window) /\ waiting \in Seq(Reading) /\ ring \in Seq(Sample)
      /\ taken' \in Sample /\ cycle + After \in Nat
      /\ MaxWindows \in Nat /\ MaxEvidence \in Nat
  <2>1. taken' \in Sample
    BY PollingHasDevice DEF EvidenceTakeSample, TakeSample, TypeOK, Sample
  <2>2. cycle \in Nat /\ After \in Nat
    BY EvidenceAssumption DEF TypeOK
  <2>3. cycle + After \in Nat
    BY <2>2
  <2>4. MaxWindows \in Nat /\ MaxEvidence \in Nat
    BY EvidenceAssumption
  <2>5. capturing \in Seq(Window) /\ waiting \in Seq(Reading) /\ ring \in Seq(Sample)
    BY DEF EvidenceTypeOK
  <2> QED BY <2>1, <2>3, <2>4, <2>5
<1> HIDE DEF ids
<1>4. opens \in Seq(Window) /\ ToSet(opens) = opened
  <2>1. /\ Len(ids) \in Nat /\ DOMAIN ids = 1 .. Len(ids)
        /\ \A n \in 1 .. Len(ids) : ids[n] \in Id
    BY <1>2, LenProperties, ElementOfSeq
  <2>2. \A n \in 1 .. Len(ids) : WindowAt(ids[n], cycle + After) \in Window
    BY <1>3, <2>1 DEF WindowAt, Window
  <2>3. opens \in [1 .. Len(ids) -> Window]
    BY <2>1, <2>2
  <2>4. opens \in Seq(Window) /\ ToSet(opens) = {WindowAt(ids[n], cycle + After) : n \in 1 .. Len(ids)}
    BY <2>1, <2>3 DEF ToSet
  <2>5. \A n \in 1 .. Len(ids) : \E u \in R : ids[n] = IdOf(u)
    BY <1>2, <2>1 DEF ToSet
  <2>6. \A u \in R : \E n \in 1 .. Len(ids) : ids[n] = IdOf(u)
    BY <1>2, <2>1 DEF ToSet
  <2> HIDE DEF opens
  <2>7. \A w \in ToSet(opens) : w \in opened
    BY <2>4, <2>5
  <2>8. \A u \in R : WindowAt(IdOf(u), cycle + After) \in ToSet(opens)
    BY <2>4, <2>6
  <2> QED BY <2>4, <2>7, <2>8
<1> HIDE DEF opens
<1>5. windows \in Seq(Window) /\ ToSet(windows) = ToSet(capturing) \cup opened
  BY <1>3, <1>4, JoinKeeps
<1> HIDE DEF windows
<1>6. /\ kept \in Seq(Window) /\ ToSet(kept) \subseteq ToSet(windows)
      /\ Excess(windows, MaxWindows) \in Nat
      /\ \E G : /\ IsFiniteSet(G) /\ Cardinality(G) <= Excess(windows, MaxWindows)
                /\ ToSet(windows) \subseteq G \cup ToSet(kept)
  BY <1>3, <1>5, NewestDrops
<1> HIDE DEF kept
<1>7. /\ open \in Seq(Window)
      /\ ToSet(open) = {w \in ToSet(kept) : cycle <= w.until}
  <2> DEFINE places == {n \in DOMAIN kept : cycle <= kept[n].until}
  <2>1. open = Retain(kept, places) /\ places \in SUBSET (DOMAIN kept)
    BY DEF OpenWindows
  <2>2. \A w : w \in {kept[n] : n \in places} <=> w \in ToSet(kept) /\ cycle <= w.until
    BY DEF ToSet
  <2> HIDE DEF open, places
  <2>3. open \in Seq(Window) /\ ToSet(open) = {kept[n] : n \in places}
    BY <1>6, <2>1, RetainKeeps
  <2> QED BY <2>2, <2>3
<1> HIDE DEF open
<1>8. now \in Seq(Reading) /\ ToSet(now) = {Of(w.id, taken') : w \in ToSet(open)}
  <2>1. /\ Len(open) \in Nat /\ DOMAIN open = 1 .. Len(open)
        /\ \A n \in 1 .. Len(open) : open[n] \in Window
    BY <1>7, LenProperties, ElementOfSeq
  <2>2. \A n \in 1 .. Len(open) : Of(open[n].id, taken') \in Reading
    BY <1>3, <2>1 DEF Of, Reading, Window
  <2>3. now \in [1 .. Len(open) -> Reading]
    BY <2>1, <2>2
  <2> QED BY <2>1, <2>3 DEF ToSet
<1> HIDE DEF now
<1>9. /\ past \in Seq(Reading)
      /\ \A i \in ToSet(ids), s \in ToSet(ring) : Of(i, s) \in ToSet(past)
      /\ \A e \in ToSet(past) : e.id \in ToSet(ids)
  BY <1>2, PastKeeps
<1> HIDE DEF past
<1>10. all \in Seq(Reading) /\ ToSet(all) = ToSet(waiting) \cup ToSet(past) \cup ToSet(now)
  <2>1. /\ waiting \o past \in Seq(Reading)
        /\ ToSet(waiting \o past) = ToSet(waiting) \cup ToSet(past)
    BY <1>3, <1>9, JoinKeeps
  <2> DEFINE both == waiting \o past
  <2>2. both \in Seq(Reading) /\ ToSet(both) = ToSet(waiting) \cup ToSet(past)
    BY <2>1
  <2> HIDE DEF both
  <2>3. both \o now \in Seq(Reading) /\ ToSet(both \o now) = ToSet(both) \cup ToSet(now)
    BY <1>8, <2>2, JoinKeeps
  <2> QED BY <2>2, <2>3 DEF both
<1> HIDE DEF all
<1>11. /\ waiting' \in Seq(Reading) /\ ToSet(waiting') \subseteq ToSet(all)
       /\ Excess(all, MaxEvidence) \in Nat
       /\ \E X : /\ IsFiniteSet(X) /\ Cardinality(X) <= Excess(all, MaxEvidence)
                 /\ ToSet(all) \subseteq X \cup ToSet(waiting')
  BY <1>1, <1>3, <1>10, NewestDrops
<1>12. PICK G : /\ IsFiniteSet(G) /\ Cardinality(G) <= Excess(windows, MaxWindows)
                /\ ToSet(windows) \subseteq G \cup ToSet(kept)
  BY <1>6
<1>13. PICK X : /\ IsFiniteSet(X) /\ Cardinality(X) <= Excess(all, MaxEvidence)
                /\ ToSet(all) \subseteq X \cup ToSet(waiting')
  BY <1>11
<1>14. ToSet(capturing') \subseteq ToSet(capturing) \cup opened
  BY <1>1, <1>5, <1>6, <1>7
<1>15. ASSUME NEW e \in ToSet(waiting')
       PROVE  \/ e \in ToSet(waiting)
              \/ \E u \in R : e.id = IdOf(u)
              \/ \E w \in ToSet(capturing') : e.id = w.id
  <2>1. e \in ToSet(waiting) \/ e \in ToSet(past) \/ e \in ToSet(now)
    BY <1>10, <1>11
  <2>2. CASE e \in ToSet(past)
    BY <1>2, <1>9, <2>2
  <2>3. CASE e \in ToSet(now)
    <3>1. PICK w \in ToSet(open) : e = Of(w.id, taken')
      BY <1>8, <2>3
    <3> QED BY <1>1, <3>1 DEF Of
  <2> QED BY <2>1, <2>2, <2>3
<1>16. ASSUME NEW u \in R, NEW s \in ToSet(ring)
       PROVE  Of(IdOf(u), s) \in ToSet(waiting') \cup X
  BY <1>2, <1>9, <1>10, <1>13
<1>17. ASSUME NEW w \in ToSet(capturing) \cup opened, w \notin G, cycle <= w.until
       PROVE  w \in ToSet(capturing') /\ Of(w.id, taken') \in ToSet(waiting') \cup X
  <2>1. w \in ToSet(open)
    BY <1>5, <1>7, <1>12, <1>17
  <2>2. Of(w.id, taken') \in ToSet(now)
    BY <1>8, <2>1
  <2> QED BY <1>1, <1>10, <1>13, <2>1, <2>2
<1>18. ToSet(waiting) \subseteq ToSet(waiting') \cup X
  BY <1>10, <1>13
<1>19. capturing' \in Seq(Window)
  BY <1>1, <1>7
<1> DEFINE g == Excess(windows, MaxWindows)
           x == Excess(all, MaxEvidence)
<1>20. /\ g \in Nat /\ x \in Nat
       /\ Cardinality(G) <= g /\ Cardinality(X) <= x
       /\ counts' = [dropped |-> counts.dropped + x, truncated |-> counts.truncated + g]
  BY <1>1, <1>6, <1>11, <1>12, <1>13
<1> HIDE DEF g, x
<1>21. Captured(R, opened, G, X, g, x)
  BY <1>12, <1>13, <1>16, <1>17, <1>18, <1>20 DEF Captured
<1> QED BY <1>11, <1>14, <1>15, <1>19, <1>20, <1>21

\* A failed sample: its updates, if any, tell that monitoring is lost.
LEMMA FailureTaken ==
    ASSUME TypeOK, SampleFails, NEW new, new = produced'.updates \ produced.updates
    PROVE  /\ new \in SUBSET Incident /\ IsFiniteSet(new)
           /\ produced'.updates = produced.updates \cup new
           /\ \A u \in new : u.at = cycle /\ u.kind = Monitoring /\ u.until = None
           /\ new # {} => shared.telemetry # None
<1> DEFINE lost == shared.telemetry
           raised == IF lost = None THEN {} ELSE LostRaises(engine)
           all == Updates(engine, {}, raised, lost.device, cycle)
<1>1. produced' = IF raised = {} THEN produced ELSE [produced EXCEPT !.updates = @ \cup all]
  BY DEF SampleFails
<1>2. engine \in ActiveMaps /\ cycle \in Nat /\ shared \in Snapshot /\ produced \in Produced
  BY DEF TypeOK
<1>3. CASE raised = {}
  <2>1. produced' = produced /\ new = {}
    BY <1>1, <1>3
  <2> QED BY <2>1, FS_EmptySet
<1>4. CASE raised # {}
  <2>1. lost # None /\ raised \in SUBSET Kinds /\ raised \subseteq {Monitoring}
    BY <1>4, IncidentsAssumption DEF LostRaises
  <2>2. lost.device \in Devices /\ {} \in SUBSET Open(engine)
    BY <1>2, <2>1 DEF Snapshot, Sample
  <2> HIDE DEF raised, lost
  <2>3. all \subseteq Incident /\ IsFiniteSet(all)
    BY <1>2, <2>1, <2>2, NewEventsType
  <2>4. \A u \in all : \E k \in raised : u = Raise(lost.device, k, cycle)
    BY DEF Updates
  <2>5. \A u \in all : u.at = cycle /\ u.kind = Monitoring /\ u.until = None
    BY <1>2, <2>1, <2>2, <2>4, RaiseType
  <2> HIDE DEF all
  <2>6. produced'.updates = produced.updates \cup all
    BY <1>1, <1>2, <1>4 DEF Produced
  <2>7. new \subseteq all
    BY <2>6
  <2> QED BY <2>1, <2>3, <2>5, <2>6, <2>7, FS_Subset DEF lost
<1> QED BY <1>3, <1>4

\* What goes to storage is the whole list of readings, in a parcel of its own, or
\* it stays; without a receiver it is gone.
LEMMA RideKeeps ==
    ASSUME TypeOK, EvidenceTypeOK, NEW all \in Seq(Reading), Ride(all),
           queue' = queue \/ \E item : Sent(item)
    PROVE  /\ carried' \in Seq(Seq(Reading)) /\ Len(carried') = Len(queue')
           /\ waiting' \in Seq(Reading)
           /\ \A n \in DOMAIN carried : n \in DOMAIN carried' /\ carried'[n] = carried[n]
           /\ \/ queue' = queue /\ carried' = carried /\ (Receiving => waiting' = all)
              \/ /\ queue' # queue /\ waiting' = <<>>
                 /\ DOMAIN carried' = 1 .. Len(queue) + 1 /\ carried'[Len(queue) + 1] = all
<1>1. /\ carried \in Seq(Seq(Reading)) /\ Len(carried) = Len(queue) /\ Len(queue) \in Nat
      /\ DOMAIN carried = 1 .. Len(queue)
      /\ <<>> \in Seq(Reading)
  BY EmptySeq, LenProperties DEF EvidenceTypeOK, TypeOK
<1>2. CASE queue' = queue
  BY <1>1, <1>2 DEF Ride
<1>3. CASE queue' # queue
  <2>1. Len(queue') = Len(queue) + 1
    BY <1>3, SentGrows
  <2>2. carried' = Append(carried, all) /\ waiting' = <<>>
    BY <1>3 DEF Ride
  <2>3. /\ carried' \in Seq(Seq(Reading)) /\ Len(carried') = Len(queue) + 1
        /\ carried'[Len(queue) + 1] = all
        /\ \A n \in 1 .. Len(queue) : carried'[n] = carried[n]
        /\ DOMAIN carried' = 1 .. Len(queue) + 1
    BY <1>1, <2>2
  <2>4. \A n \in DOMAIN carried : n \in 1 .. Len(queue) + 1
    BY <1>1
  <2>5. \A n \in DOMAIN carried : n \in DOMAIN carried' /\ carried'[n] = carried[n]
    BY <1>1, <2>3, <2>4
  <2> QED BY <1>1, <1>3, <2>1, <2>2, <2>3, <2>5
<1> QED BY <1>2, <1>3

\* What the storage thread takes is the oldest of the readings too.
LEMMA HeadOfCarried ==
    ASSUME TypeOK, EvidenceTypeOK, EvidenceReceives
    PROVE  /\ Len(queue) \in Nat /\ Len(queue) > 0 /\ DOMAIN carried = 1 .. Len(queue)
           /\ held' = carried[1] /\ held' \in Seq(Reading)
           /\ carried' \in Seq(Seq(Reading)) /\ Len(carried') = Len(queue')
           /\ DOMAIN carried' = 1 .. Len(queue) - 1
           /\ \A n \in DOMAIN carried' : carried'[n] = carried[n + 1]
<1>1. Len(queue) \in Nat /\ Len(queue) > 0 /\ Len(queue') = Len(queue) - 1
  BY ReceivedShrinks DEF EvidenceReceives
<1>2. carried \in Seq(Seq(Reading)) /\ Len(carried) = Len(queue) /\ carried # <<>>
  BY <1>1 DEF EvidenceTypeOK
<1>3. DOMAIN carried = 1 .. Len(queue) /\ carried[1] \in Seq(Reading)
  BY <1>1, <1>2, LenProperties, ElementOfSeq
<1>4. held' = carried[1] /\ carried' = Tail(carried)
  BY <1>2 DEF EvidenceReceives
<1>5. /\ carried' \in Seq(Seq(Reading)) /\ Len(carried') = Len(queue) - 1
      /\ \A n \in 1 .. Len(queue) - 1 : carried'[n] = carried[n + 1]
  BY <1>1, <1>2, <1>4
<1> QED BY <1>1, <1>3, <1>4, <1>5, LenProperties

\* What rides with the update of a failed sample: all that waited, and a past
\* of the whole ring for each new incident.
FailureJoined(new, all) ==
    /\ Ride(all)
    /\ ToSet(waiting) \subseteq ToSet(all)
    /\ \A e \in ToSet(all) : e \in ToSet(waiting) \/ \E u \in new : e.id = IdOf(u)
    /\ \A u \in new, s \in ToSet(ring) : Of(IdOf(u), s) \in ToSet(all)

\* The evidence of a failed sample is sent, or stays, as that of a sample.
LEMMA FailureRides ==
    ASSUME TypeOK, EvidenceTypeOK, EvidenceSampleFails,
           NEW new, new = produced'.updates \ produced.updates
    PROVE  \/ /\ new = {} /\ shared.telemetry = None
              /\ UNCHANGED <<queue, pending, waiting, carried>>
           \/ /\ queue' = queue \/ \E item : Sent(item)
              /\ \E all \in Seq(Reading) : FailureJoined(new, all)
<1>1. SampleFails
  BY DEF EvidenceSampleFails
<1>2. /\ new \in SUBSET Incident /\ IsFiniteSet(new)
      /\ new # {} => shared.telemetry # None
  BY <1>1, FailureTaken
<1>3. CASE shared.telemetry = None
  BY <1>1, <1>2, <1>3 DEF EvidenceSampleFails, SampleFails
<1>4. CASE shared.telemetry # None
  <2> DEFINE ids == SetToSeq({IdOf(u) : u \in new})
             past == Past(ids)
             all == waiting \o past
  <2>1. Ride(all)
    BY <1>4 DEF EvidenceSampleFails
  <2>2. queue' = queue \/ \E item : Sent(item)
    BY <1>1 DEF SampleFails, Full, Gone
  <2>3. ids \in Seq(Id) /\ ToSet(ids) = {IdOf(u) : u \in new}
    BY <1>2, IdsInSequence
  <2> HIDE DEF ids
  <2>4. /\ past \in Seq(Reading)
        /\ \A i \in ToSet(ids), s \in ToSet(ring) : Of(i, s) \in ToSet(past)
        /\ \A e \in ToSet(past) : e.id \in ToSet(ids)
    BY <2>3, PastKeeps
  <2> HIDE DEF past
  <2>5. all \in Seq(Reading) /\ ToSet(all) = ToSet(waiting) \cup ToSet(past)
    BY <2>4, JoinKeeps DEF EvidenceTypeOK
  <2> HIDE DEF all
  <2>6. /\ ToSet(waiting) \subseteq ToSet(all)
        /\ \A e \in ToSet(all) : e \in ToSet(waiting) \/ \E u \in new : e.id = IdOf(u)
        /\ \A u \in new, s \in ToSet(ring) : Of(IdOf(u), s) \in ToSet(all)
    BY <2>3, <2>4, <2>5
  <2>7. FailureJoined(new, all)
    BY <2>1, <2>6 DEF FailureJoined
  <2> QED BY <2>2, <2>5, <2>7
<1> QED BY <1>3, <1>4

-----------------------------------------------------------------------------
\* Types of evidence.

\* At the start there is no evidence.
LEMMA EvidenceInitType == EvidenceInit => EvidenceTypeOK
<1> SUFFICES ASSUME EvidenceInit PROVE EvidenceTypeOK
  OBVIOUS
<1>1. /\ ring = <<>> /\ capturing = <<>> /\ waiting = <<>> /\ carried = <<>> /\ queue = <<>>
      /\ held = <<>> /\ written = 0 /\ evidence = {}
      /\ counts = [dropped |-> 0, truncated |-> 0]
      /\ forgone = [updates |-> {}, windows |-> {}]
  BY DEF EvidenceInit, Init
<1>2. Len(<<>>) = 0
  OBVIOUS
<1> QED BY <1>1, <1>2, EmptySeq DEF EvidenceTypeOK

\* Taking a sample keeps the types.
LEMMA EvidenceSampleType ==
    ASSUME TypeOK, TypeOK', EvidenceTypeOK, EvidenceTakeSample
    PROVE  EvidenceTypeOK'
<1> DEFINE R == {u \in produced'.updates \ produced.updates : u.until = None}
           opened == {WindowAt(IdOf(u), cycle + After) : u \in R}
           updates == produced'.updates \ produced.updates
           extended == Append(ring, taken')
           recent == {n \in DOMAIN extended : cycle' - extended[n].at <= Before}
<1>1. /\ capturing' \in Seq(Window) /\ waiting' \in Seq(Reading)
      /\ \E g, x \in Nat : counts' = [dropped |-> counts.dropped + x,
                                      truncated |-> counts.truncated + g]
  <2> HIDE DEF R, opened
  <2> QED BY EvidenceTaken DEF R, opened, Captured
<1>2. PICK g \in Nat, x \in Nat :
        counts' = [dropped |-> counts.dropped + x, truncated |-> counts.truncated + g]
  BY <1>1
<1>3. counts' \in [dropped : Nat, truncated : Nat]
  <2>1. counts.dropped \in Nat /\ counts.truncated \in Nat
    BY DEF EvidenceTypeOK
  <2>2. counts.dropped + x \in Nat /\ counts.truncated + g \in Nat
    BY <2>1
  <2> QED BY <1>2, <2>2
<1>4. forgone' \in [updates : SUBSET Incident, windows : SUBSET Id]
  <2>1. updates \subseteq Incident /\ ToSet(pending) \subseteq Incident
    <3>1. pending \in Seq(Incident) /\ produced' \in Produced
      BY DEF TypeOK
    <3> QED BY <3>1, ElementOfSeq, LenProperties DEF ToSet, Produced
  <2>2. forgone' = [forgone EXCEPT !.updates = @ \cup ((ToSet(pending) \cup updates) \ ToSet(pending'))]
    BY DEF EvidenceTakeSample
  <2> HIDE DEF updates
  <2> QED BY <2>1, <2>2 DEF EvidenceTypeOK
<1>5. ring' \in Seq(Sample)
  <2>1. taken' \in Sample /\ cycle' = cycle
    BY PollingHasDevice DEF EvidenceTakeSample, TakeSample, TypeOK, Sample
  <2>2. extended \in Seq(Sample)
    BY <2>1, AppendProperties DEF EvidenceTypeOK
  <2>3. ring' = Retain(extended, recent) /\ recent \in SUBSET (DOMAIN extended)
    BY <2>1 DEF EvidenceTakeSample, Recent
  <2> HIDE DEF extended, recent
  <2> QED BY <2>2, <2>3, RetainKeeps
<1>6. UNCHANGED <<carried, held, written, evidence, queue, store>>
  BY DEF EvidenceTakeSample, TakeSample, storageVars
<1> HIDE DEF R, opened, updates, extended, recent
<1> QED BY <1>1, <1>3, <1>4, <1>5, <1>6 DEF EvidenceTypeOK

\* So do the other steps of the monitor thread,
LEMMA EvidenceMonitorType ==
    ASSUME TypeOK, TypeOK', EvidenceTypeOK, EvidenceMonitor
    PROVE  EvidenceTypeOK'
<1>1. ASSUME NEW d \in Devices, EvidenceOpenDevice(d)
      PROVE  EvidenceTypeOK'
  <2>1. UNCHANGED <<waiting, carried, held, written, evidence, counts, queue, store>>
    BY <1>1 DEF EvidenceOpenDevice, OpenDevice, storageVars
  <2>2. ring' \in Seq(Sample) /\ capturing' \in Seq(Window)
    BY <1>1, EmptySeq DEF EvidenceOpenDevice, EvidenceTypeOK
  <2>3. {w.id : w \in ToSet(capturing)} \subseteq Id
    <3>1. \A w \in ToSet(capturing) : w \in Window
      BY ElementOfSeq, LenProperties DEF EvidenceTypeOK, ToSet
    <3> QED BY <3>1 DEF Window
  <2>4. forgone' \in [updates : SUBSET Incident, windows : SUBSET Id]
    BY <1>1, <2>3 DEF EvidenceOpenDevice, EvidenceTypeOK
  <2> QED BY <2>1, <2>2, <2>4 DEF EvidenceTypeOK
<1>2. CASE (OpenFails \/ MonitorExits) /\ UNCHANGED evidenceVars
  BY <1>2 DEF OpenFails, MonitorExits, evidenceVars, storageVars, EvidenceTypeOK
<1>3. CASE EvidenceTakeSample
  BY <1>3, EvidenceSampleType
<1>4. CASE EvidencePublish
  <2>1. queue' = queue \/ \E item : Sent(item)
    BY <1>4 DEF EvidencePublish, Publish, Full, Gone
  <2>2. /\ UNCHANGED <<ring, capturing, held, written, evidence, counts, forgone, store>>
        /\ Ride(waiting) /\ waiting \in Seq(Reading)
    BY <1>4 DEF EvidencePublish, Publish, storageVars, EvidenceTypeOK
  <2>3. /\ carried' \in Seq(Seq(Reading)) /\ Len(carried') = Len(queue')
        /\ waiting' \in Seq(Reading)
    BY <2>1, <2>2, RideKeeps
  <2> QED BY <2>2, <2>3 DEF EvidenceTypeOK
<1>5. CASE EvidenceSampleFails
  <2>1. UNCHANGED <<ring, capturing, held, written, evidence, counts, forgone, store>>
    BY <1>5 DEF EvidenceSampleFails, SampleFails, storageVars
  <2>2. /\ carried' \in Seq(Seq(Reading)) /\ Len(carried') = Len(queue')
        /\ waiting' \in Seq(Reading)
    <3>1. CASE UNCHANGED <<queue, pending, waiting, carried>>
      BY <3>1 DEF EvidenceTypeOK
    <3>2. CASE ~UNCHANGED <<queue, pending, waiting, carried>>
      <4>1. PICK all \in Seq(Reading) :
               FailureJoined(produced'.updates \ produced.updates, all)
        BY <1>5, <3>2, FailureRides
      <4>2. queue' = queue \/ \E item : Sent(item)
        BY <1>5, <3>2, FailureRides
      <4>3. Ride(all)
        BY <4>1 DEF FailureJoined
      <4> QED BY <4>2, <4>3, RideKeeps
    <3> QED BY <3>1, <3>2
  <2> QED BY <2>1, <2>2 DEF EvidenceTypeOK
<1> QED BY <1>1, <1>2, <1>3, <1>4, <1>5 DEF EvidenceMonitor

\* and those of the storage thread.
LEMMA EvidenceStorageType ==
    ASSUME TypeOK, TypeOK', EvidenceTypeOK, EvidenceStorage
    PROVE  EvidenceTypeOK'
<1> USE DEF storageVars
<1>1. CASE EvidenceReceives
  <2>1. /\ UNCHANGED <<ring, capturing, waiting, evidence, counts, forgone>>
        /\ written' = 0 /\ store'.pc = "busy"
    BY <1>1, ReceivedShrinks DEF EvidenceReceives
  <2>2. /\ held' \in Seq(Reading)
        /\ carried' \in Seq(Seq(Reading)) /\ Len(carried') = Len(queue')
    BY <1>1, HeadOfCarried
  <2>3. 0 <= Len(held')
    BY <2>2
  <2> QED BY <2>1, <2>2, <2>3 DEF EvidenceTypeOK
<1>2. CASE (StorageRecords \/ StorageUpserts) /\ UNCHANGED evidenceVars
  <2>1. queue' = queue /\ store.pc = "busy" /\ store'.pc = "busy"
    BY <1>2 DEF StorageRecords, StorageUpserts, TypeOK, StoreState
  <2> QED BY <1>2, <2>1 DEF evidenceVars, EvidenceTypeOK
<1>3. CASE StorageWritesEvidence
  <2>1. /\ UNCHANGED <<ring, capturing, waiting, carried, held, counts, forgone, queue, store>>
        /\ written' = written + 1 /\ written < Len(held) /\ store.pc = "busy"
        /\ evidence' = evidence \cup {held[written + 1]}
    BY <1>3 DEF StorageWritesEvidence, AfterIncidents, vars
  <2>2. held \in Seq(Reading) /\ Len(held) \in Nat /\ written \in Nat
    BY DEF EvidenceTypeOK
  <2>3. held[written + 1] \in Reading
    BY <2>1, <2>2
  <2>4. written + 1 \in Nat /\ written + 1 <= Len(held)
    BY <2>1, <2>2
  <2> QED BY <2>1, <2>3, <2>4 DEF EvidenceTypeOK
<1>4. CASE EvidenceCompletes
  <2>1. /\ UNCHANGED <<ring, capturing, waiting, carried, evidence, counts, forgone, queue>>
        /\ held' = <<>> /\ written' = 0
    BY <1>4 DEF EvidenceCompletes, StorageCompletes
  <2>2. Len(<<>>) = 0 /\ 0 \in Nat /\ 0 <= 0
    OBVIOUS
  <2> QED BY <2>1, <2>2, EmptySeq DEF EvidenceTypeOK
<1>5. CASE EvidenceFails
  <2>1. UNCHANGED <<ring, capturing, waiting, evidence, counts, forgone>> /\ written' = 0
    BY <1>5 DEF EvidenceFails
  <2>2. Len(<<>>) = 0 /\ 0 \in Nat /\ 0 <= 0 /\ 0 <= Len(held)
    BY DEF EvidenceTypeOK
  <2>3. CASE stop
    <3>1. held' = <<>> /\ carried' = <<>> /\ queue' = <<>>
      BY <1>5, <2>3 DEF EvidenceFails, StorageFails
    <3> QED BY <2>1, <2>2, <3>1, EmptySeq DEF EvidenceTypeOK
  <2>4. CASE ~stop
    <3>1. UNCHANGED <<held, carried, queue>> /\ store.pc = "busy" /\ store' = [store EXCEPT !.done = 0]
      BY <1>5, <2>4 DEF EvidenceFails, StorageFails, Retry
    <3>2. store'.pc = "busy"
      BY <3>1 DEF TypeOK, StoreState
    <3> QED BY <2>1, <2>2, <3>1, <3>2 DEF EvidenceTypeOK
  <2> QED BY <2>3, <2>4
<1>6. CASE StorageExits /\ UNCHANGED evidenceVars
  <2>1. queue' = queue /\ store.pc # "busy"
    BY <1>6 DEF StorageExits
  <2> QED BY <1>6, <2>1 DEF evidenceVars, EvidenceTypeOK
<1> QED BY <1>1, <1>2, <1>3, <1>4, <1>5, <1>6 DEF EvidenceStorage

\* The variables of evidence keep their types, and every item of the queue has
\* evidence of its own, however small (StorageItem).
THEOREM EvidenceTypeCorrect == EvidenceSpec => []EvidenceTypeOK
<1>1. TypeOK /\ TypeOK' /\ EvidenceTypeOK /\ [EvidenceNext]_allVars => EvidenceTypeOK'
  <2> SUFFICES ASSUME TypeOK, TypeOK', EvidenceTypeOK, [EvidenceNext]_allVars
               PROVE  EvidenceTypeOK'
    OBVIOUS
  <2>1. CASE EvidenceMonitor
    BY <2>1, EvidenceMonitorType
  <2>2. CASE EvidenceStorage
    BY <2>2, EvidenceStorageType
  <2>3. CASE EvidenceRestart
    <3>1. /\ ring' = <<>> /\ capturing' = <<>> /\ waiting' = <<>> /\ carried' = <<>>
          /\ queue' = <<>> /\ held' = <<>> /\ written' = 0
          /\ counts' = [dropped |-> 0, truncated |-> 0]
          /\ UNCHANGED <<evidence, forgone>>
      BY <2>3 DEF EvidenceRestart, Restart
    <3>2. Len(<<>>) = 0
      OBVIOUS
    <3> QED BY <3>1, <3>2, EmptySeq DEF EvidenceTypeOK
  <2>4. CASE ((\E c \in Clients : Acknowledge(c)) \/ Signal) /\ UNCHANGED evidenceVars
    BY <2>4 DEF Acknowledge, AcknowledgeRow, AcknowledgeSnapshot, Signal, storageVars,
                evidenceVars, EvidenceTypeOK
  <2>5. CASE UNCHANGED allVars
    BY <2>5 DEF allVars, vars, storageVars, evidenceVars, EvidenceTypeOK
  <2> QED BY <2>1, <2>2, <2>3, <2>4, <2>5 DEF EvidenceNext
<1>2. EvidenceSpec => []TypeOK
  BY EvidenceKeepsRuntime, RuntimeTypeCorrect, PTL
<1> QED BY <1>1, <1>2, EvidenceInitType, PTL DEF EvidenceSpec

-----------------------------------------------------------------------------
\* Evidence belongs to incidents. A reading travels in the parcel of an update of
\* its incident or in a later one; an item comes to its evidence only when its
\* updates are stored.

\* Rows are changed and added, never removed.
LEMMA RowsKeepIdentity ==
    ASSUME TypeOK, [Next]_vars
    PROVE  \A r \in rows : \E q \in rows' : Same(q, r)
<1> USE DEF monitorVars, storageVars, historyVars
<1>1. \A r \in rows : Same(r, r) /\ r \in Incident
  BY DEF TypeOK, Same
<1>2. CASE rows' = rows
  BY <1>1, <1>2
<1>3. CASE StorageUpserts
  <2> SUFFICES ASSUME NEW e, rows' = Upsert(e), NEW r \in rows
               PROVE  \E q \in rows' : Same(q, r)
    BY <1>3 DEF StorageUpserts
  <2>1. CASE \E q \in rows : Same(q, e)
    <3> DEFINE r2 == IF Same(r, e) THEN [r EXCEPT !.until = e.until] ELSE r
    <3>1. r2 \in rows'
      BY <2>1 DEF Upsert
    <3>2. Same(r2, r)
      BY <1>1 DEF Same, Incident
    <3> HIDE DEF r2
    <3> QED BY <3>1, <3>2
  <2>2. CASE ~\E q \in rows : Same(q, e)
    BY <1>1, <2>2 DEF Upsert
  <2> QED BY <2>1, <2>2
<1>4. ASSUME NEW c \in Clients, NEW i \in rows, AcknowledgeRow(c, i)
      PROVE  \A r \in rows : \E q \in rows' : Same(q, r)
  <2> SUFFICES ASSUME NEW r \in rows
               PROVE  \E q \in rows' : Same(q, r)
    OBVIOUS
  <2> DEFINE r2 == IF Same(r, i) THEN [r EXCEPT !.acked = TRUE] ELSE r
  <2>1. r2 \in rows'
    BY <1>4 DEF AcknowledgeRow
  <2>2. Same(r2, r)
    BY <1>1 DEF Same, Incident
  <2> HIDE DEF r2
  <2> QED BY <2>1, <2>2
<1>5. CASE Monitor \/ Signal \/ Restart \/ UNCHANGED vars
  BY <1>2, <1>5 DEF Monitor, OpenDevice, OpenFails, TakeSample, Publish, SampleFails, MonitorExits,
                    Signal, Restart, vars
<1>6. CASE Storage
  BY <1>2, <1>3, <1>6 DEF Storage, StorageReceives, StorageRecords, StorageCompletes, StorageFails,
                          StorageExits
<1>7. CASE \E c \in Clients : Acknowledge(c)
  BY <1>2, <1>4, <1>7 DEF Acknowledge, AcknowledgeSnapshot
<1> QED BY <1>5, <1>6, <1>7 DEF Next

\* Storing an update leaves a row of its incident.
LEMMA UpsertLeavesRow ==
    ASSUME TypeOK, NEW e, rows' = Upsert(e)
    PROVE  \E q \in rows' : Same(q, e)
<1>1. CASE \E q \in rows : Same(q, e)
  <2>1. PICK q \in rows : Same(q, e)
    BY <1>1
  <2>2. [q EXCEPT !.until = e.until] \in rows'
    BY <1>1, <2>1 DEF Upsert
  <2>3. q \in Incident
    BY DEF TypeOK
  <2>4. Same([q EXCEPT !.until = e.until], e)
    BY <2>1, <2>3 DEF Same, Incident
  <2> QED BY <2>2, <2>4
<1>2. CASE ~\E q \in rows : Same(q, e)
  BY <1>2 DEF Upsert, Same
<1> QED BY <1>1, <1>2

\* Nor does any step forget an update that was dropped.
LEMMA KnownStays ==
    ASSUME TypeOK, [Next]_vars, forgone.updates \subseteq forgone'.updates
    PROVE  \A id : Known(id) => Known(id)'
<1>1. \A r \in rows : \E q \in rows' : Same(q, r)
  BY RowsKeepIdentity
<1>2. \A r, q : Same(q, r) => IdOf(q) = IdOf(r)
  BY DEF Same, IdOf
<1> QED BY <1>1, <1>2 DEF Known

\* What dropped updates a step of the runtime with evidence remembers.
LEMMA ForgoneGrows ==
    ASSUME EvidenceTypeOK, [EvidenceNext]_allVars
    PROVE  forgone.updates \subseteq forgone'.updates
<1>1. forgone \in [updates : SUBSET Incident, windows : SUBSET Id]
  BY DEF EvidenceTypeOK
<1>2. ASSUME NEW d \in Devices, EvidenceOpenDevice(d)
      PROVE  forgone.updates \subseteq forgone'.updates
  BY <1>1, <1>2 DEF EvidenceOpenDevice
<1>3. CASE EvidenceTakeSample
  BY <1>1, <1>3 DEF EvidenceTakeSample
<1>4. CASE forgone' = forgone
  BY <1>4
<1> QED BY <1>2, <1>3, <1>4 DEF EvidenceNext, EvidenceMonitor, EvidencePublish, EvidenceSampleFails,
           EvidenceStorage, EvidenceReceives, StorageWritesEvidence, EvidenceCompletes,
           EvidenceFails, EvidenceRestart, evidenceVars, allVars

\* An incident stays traced when the updates of each parcel stay in the parcel or
\* are stored or dropped.
LEMMA TracedStays ==
    ASSUME \A id : Known(id) => Known(id)',
           NEW l \in Nat,
           \A m \in 0 .. l : \A u \in ToSet(Parcel(m)) : u \in ToSet(Parcel(m)') \/ Known(IdOf(u))'
    PROVE  \A n \in 0 .. l : \A id : Traced(id, n) => Traced(id, n)'
<1> SUFFICES ASSUME NEW n \in 0 .. l, NEW id, Traced(id, n)
             PROVE  Traced(id, n)'
  OBVIOUS
<1>1. CASE Known(id)
  BY <1>1 DEF Traced
<1>2. ASSUME NEW m \in 0 .. n, NEW u \in ToSet(Parcel(m)), IdOf(u) = id
      PROVE  Traced(id, n)'
  <2>1. m \in 0 .. l
    OBVIOUS
  <2> QED BY <1>2, <2>1 DEF Traced
<1> QED BY <1>1, <1>2 DEF Traced

\* A longer part of the way holds no fewer updates.
LEMMA TracedFurther ==
    ASSUME NEW n \in Nat, NEW m \in Nat, n <= m, NEW id, Traced(id, n)
    PROVE  Traced(id, m)
<1>1. \A k \in 0 .. n : k \in 0 .. m
  OBVIOUS
<1> QED BY <1>1 DEF Traced

\* What travels with its updates goes on to when no parcel and no reading moves.
LEMMA TravelsOn ==
    ASSUME TypeOK, EvidenceTypeOK, Travels, \A id : Known(id) => Known(id)',
           UNCHANGED <<queue, pending, held, carried, waiting>>,
           store'.pc = "busy" <=> store.pc = "busy",
           store.pc = "busy" => store'.item = store.item,
           ToSet(capturing') \subseteq ToSet(capturing)
    PROVE  Travels'
<1> SUFFICES ASSUME NEW l, l = Len(queue) PROVE Travels'
  OBVIOUS
<1>1. l \in Nat /\ l + 1 \in Nat /\ DOMAIN carried = 1 .. l
  BY LenProperties DEF TypeOK, EvidenceTypeOK
<1>2. \A m \in 0 .. l + 1 : Parcel(m)' = Parcel(m)
  BY DEF Parcel
<1>3. \A n \in 0 .. l + 1 : \A id : Traced(id, n) => Traced(id, n)'
  <2>1. \A m \in 0 .. l + 1 : \A u \in ToSet(Parcel(m)) : u \in ToSet(Parcel(m)') \/ Known(IdOf(u))'
    BY <1>2
  <2> QED BY <1>1, <2>1, TracedStays
<1>4. 0 \in 0 .. l + 1 /\ l + 1 \in 0 .. l + 1 /\ \A n \in DOMAIN carried : n \in 0 .. l + 1
  BY <1>1
<1> QED BY <1>3, <1>4 DEF Travels

\* Taking a sample: the incidents that are raised are pending, or were dropped.
LEMMA SampleTravels ==
    ASSUME TypeOK, TypeOK', EvidenceTypeOK, Travels, \A id : Known(id) => Known(id)',
           EvidenceTakeSample
    PROVE  Travels'
<1> SUFFICES ASSUME NEW l, l = Len(queue) PROVE Travels'
  OBVIOUS
<1> DEFINE updates == produced'.updates \ produced.updates
           R == {u \in produced'.updates \ produced.updates : u.until = None}
           opened == {WindowAt(IdOf(u), cycle + After) : u \in R}
<1>1. /\ l \in Nat /\ l + 1 \in Nat /\ DOMAIN carried = 1 .. l
      /\ UNCHANGED <<queue, store, held, carried>>
  <2>1. UNCHANGED <<queue, store, held, carried>>
    BY SampleIsNew DEF EvidenceTakeSample, storageVars
  <2>2. l \in Nat /\ DOMAIN carried = 1 .. l
    BY LenProperties DEF TypeOK, EvidenceTypeOK
  <2> QED BY <2>1, <2>2
<1>2. \A u : u \in ToSet(pending) \cup updates => u \in ToSet(pending') \/ Known(IdOf(u))'
  <2>1. forgone'.updates = forgone.updates \cup ((ToSet(pending) \cup updates) \ ToSet(pending'))
    BY DEF EvidenceTakeSample, EvidenceTypeOK
  <2> HIDE DEF updates
  <2> QED BY <2>1 DEF Known
<1>3. /\ \A m \in 0 .. l : Parcel(m)' = Parcel(m)
      /\ Parcel(l + 1) = pending /\ Parcel(l + 1)' = pending'
  BY <1>1 DEF Parcel
<1>4. \A n \in 0 .. l + 1 : \A id : Traced(id, n) => Traced(id, n)'
  <2>1. ASSUME NEW m \in 0 .. l + 1, NEW u \in ToSet(Parcel(m))
        PROVE  u \in ToSet(Parcel(m)') \/ Known(IdOf(u))'
    <3>1. m \in 0 .. l \/ m = l + 1
      BY <1>1
    <3> QED BY <1>2, <1>3, <2>1, <3>1
  <2> QED BY <1>1, <2>1, TracedStays
<1>5. \A u \in R : Traced(IdOf(u), l + 1)'
  <2>1. \A u \in R : u \in ToSet(Parcel(l + 1)') \/ Known(IdOf(u))'
    BY <1>2, <1>3
  <2>2. l + 1 \in 0 .. l + 1
    BY <1>1
  <2> HIDE DEF R
  <2> QED BY <2>1, <2>2 DEF Traced
<1>6. /\ ToSet(capturing') \subseteq ToSet(capturing) \cup opened
      /\ \A e \in ToSet(waiting') : \/ e \in ToSet(waiting)
                                    \/ \E u \in R : e.id = IdOf(u)
                                    \/ \E w \in ToSet(capturing') : e.id = w.id
  <2> HIDE DEF R, opened
  <2> QED BY EvidenceTaken DEF R, opened
<1>7. 0 \in 0 .. l + 1 /\ l + 1 \in 0 .. l + 1 /\ \A n \in DOMAIN carried : n \in 0 .. l + 1
  BY <1>1
<1>8. /\ \A e \in ToSet(held') : Traced(e.id, 0)'
      /\ \A n \in DOMAIN carried' : \A e \in ToSet(carried'[n]) : Traced(e.id, n)'
  BY <1>1, <1>4, <1>7 DEF Travels
<1>9. \A w \in ToSet(capturing') : Traced(w.id, l + 1)'
  <2>1. \A w \in opened : \E u \in R : w.id = IdOf(u)
    BY DEF WindowAt
  <2>2. \A w \in ToSet(capturing) : Traced(w.id, l + 1)
    BY DEF Travels
  <2> HIDE DEF opened, R
  <2> QED BY <1>4, <1>5, <1>6, <1>7, <2>1, <2>2
<1>10. \A e \in ToSet(waiting') : Traced(e.id, l + 1)'
  <2>1. \A e \in ToSet(waiting) : Traced(e.id, l + 1)
    BY DEF Travels
  <2> HIDE DEF R
  <2> QED BY <1>4, <1>5, <1>6, <1>7, <1>9, <2>1
<1>11. Len(queue') = l
  BY <1>1
<1> QED BY <1>8, <1>9, <1>10, <1>11 DEF Travels

\* What is sent travels in one parcel with the updates that were pending.
LEMMA SentTravels ==
    ASSUME TypeOK, TypeOK', EvidenceTypeOK, Travels, Receiving, \A id : Known(id) => Known(id)',
           UNCHANGED <<store, held, capturing>>,
           NEW ev \in Seq(Incident), Extended(ev), ToSet(pending) \subseteq ToSet(ev),
           NEW all \in Seq(Reading), Ride(all),
           \A e \in ToSet(all) : e \in ToSet(waiting) \/ \E u \in ToSet(ev) : e.id = IdOf(u)
    PROVE  Travels'
<1> SUFFICES ASSUME NEW l, l = Len(queue) PROVE Travels'
  OBVIOUS
<1>1. /\ l \in Nat /\ Len(queue') \in Nat
      /\ Len(queue') = l \/ Len(queue') = l + 1
      /\ queue' = queue => Len(queue') = l
      /\ \A n \in 0 .. l : Parcel(n)' = Parcel(n)
      /\ Parcel(l + 1)' = ev
      /\ Parcel(l + 1) = pending
  BY ExtendedParcels
<1>2. l + 1 \in Nat /\ DOMAIN carried = 1 .. l
  BY <1>1, LenProperties DEF EvidenceTypeOK
<1>3. \A n \in 0 .. l + 1 : \A id : Traced(id, n) => Traced(id, n)'
  <2>1. ASSUME NEW m \in 0 .. l + 1, NEW u \in ToSet(Parcel(m))
        PROVE  u \in ToSet(Parcel(m)')
    <3>1. m \in 0 .. l \/ m = l + 1
      BY <1>1
    <3> QED BY <1>1, <2>1, <3>1
  <2> QED BY <1>2, <2>1, TracedStays
<1>4. 0 \in 0 .. l + 1 /\ l + 1 \in 0 .. l + 1 /\ \A n \in DOMAIN carried : n \in 0 .. l + 1
  BY <1>2
<1>5. \A e \in ToSet(all) : Traced(e.id, l + 1)'
  <2>1. \A u \in ToSet(ev) : Traced(IdOf(u), l + 1)'
    BY <1>1, <1>4 DEF Traced
  <2>2. \A e \in ToSet(waiting) : Traced(e.id, l + 1)'
    BY <1>3, <1>4 DEF Travels
  <2> QED BY <2>1, <2>2
<1>6. /\ carried' \in Seq(Seq(Reading)) /\ Len(carried') = Len(queue')
      /\ \A n \in DOMAIN carried : n \in DOMAIN carried' /\ carried'[n] = carried[n]
      /\ \/ queue' = queue /\ carried' = carried /\ waiting' = all
         \/ /\ queue' # queue /\ waiting' = <<>>
            /\ DOMAIN carried' = 1 .. l + 1 /\ carried'[l + 1] = all
  <2>1. queue' = queue \/ \E item : Sent(item)
    BY DEF Extended
  <2> QED BY <2>1, RideKeeps
<1>7. \A e \in ToSet(held') : Traced(e.id, 0)'
  BY <1>3, <1>4 DEF Travels
<1>8. ASSUME NEW n \in DOMAIN carried', NEW e \in ToSet(carried'[n])
      PROVE  Traced(e.id, n)'
  <2>1. n \in DOMAIN carried \/ (n = l + 1 /\ carried'[n] = all)
    BY <1>2, <1>6
  <2>2. CASE n \in DOMAIN carried
    BY <1>3, <1>4, <1>6, <1>8, <2>2 DEF Travels
  <2> QED BY <1>5, <1>8, <2>1, <2>2
<1>9. ASSUME NEW id, Traced(id, l + 1)'
      PROVE  Traced(id, Len(queue) + 1)'
  <2>1. \A k \in 0 .. l + 1 : k \in 0 .. Len(queue') + 1
    BY <1>1
  <2> QED BY <1>9, <2>1 DEF Traced
<1>10. \A w \in ToSet(capturing') : Traced(w.id, Len(queue) + 1)'
  <2>1. \A w \in ToSet(capturing) : Traced(w.id, l + 1)
    BY DEF Travels
  <2> QED BY <1>3, <1>4, <1>9, <2>1
<1>11. \A e \in ToSet(waiting') : Traced(e.id, Len(queue) + 1)'
  <2>1. ToSet(<<>>) = {}
    BY DEF ToSet
  <2> QED BY <1>5, <1>6, <1>9, <2>1
<1> QED BY <1>7, <1>8, <1>10, <1>11 DEF Travels

\* The storage thread takes the parcel with its readings.
LEMMA ReceivedTravels ==
    ASSUME TypeOK, TypeOK', EvidenceTypeOK, Travels, \A id : Known(id) => Known(id)',
           EvidenceReceives
    PROVE  Travels'
<1> SUFFICES ASSUME NEW l, l = Len(queue) PROVE Travels'
  OBVIOUS
<1>1. /\ l \in Nat /\ l > 0 /\ Len(queue') = l - 1
      /\ store.pc # "busy" /\ store'.pc = "busy" /\ store'.item = queue[1]
      /\ \A n \in 1 .. l - 1 : queue'[n] = queue[n + 1]
      /\ UNCHANGED <<pending, waiting, capturing>>
  BY ReceivedShrinks DEF EvidenceReceives, StorageReceives, monitorVars
<1>2. /\ DOMAIN carried = 1 .. l /\ DOMAIN carried' = 1 .. l - 1
      /\ held' = carried[1]
      /\ \A n \in DOMAIN carried' : carried'[n] = carried[n + 1]
  BY HeadOfCarried
<1>3. Parcel(0) = <<>>
  BY <1>1 DEF Parcel
<1>4. ASSUME NEW n \in 0 .. l
      PROVE  Parcel(n)' = Parcel(n + 1)
  <2>1. CASE n = 0
    BY <1>1, <2>1 DEF Parcel
  <2>2. CASE n \in 1 .. l - 1
    BY <1>1, <2>2 DEF Parcel
  <2>3. CASE n = l
    BY <1>1, <2>3 DEF Parcel
  <2> QED BY <1>1, <2>1, <2>2, <2>3
<1>5. ASSUME NEW n \in 0 .. l, NEW id, Traced(id, n + 1)
      PROVE  Traced(id, n)'
  <2>1. CASE Known(id)
    BY <2>1 DEF Traced
  <2>2. ASSUME NEW m \in 0 .. n + 1, NEW u \in ToSet(Parcel(m)), IdOf(u) = id
        PROVE  Traced(id, n)'
    <3>1. m # 0
      BY <1>3 DEF ToSet
    <3>2. m - 1 \in 0 .. n /\ m - 1 \in 0 .. l /\ (m - 1) + 1 = m
      BY <1>1, <3>1
    <3>3. u \in ToSet(Parcel(m - 1)')
      BY <1>4, <3>2
    <3> QED BY <2>2, <3>2, <3>3 DEF Traced
  <2> QED BY <1>5, <2>1, <2>2 DEF Traced
<1>6. \A e \in ToSet(held') : Traced(e.id, 0)'
  <2>1. 1 \in DOMAIN carried /\ 0 \in 0 .. l /\ 0 + 1 = 1
    BY <1>1, <1>2
  <2>2. \A e \in ToSet(held') : Traced(e.id, 0 + 1)
    BY <1>2, <2>1 DEF Travels
  <2> QED BY <1>5, <2>1, <2>2
<1>7. ASSUME NEW n \in DOMAIN carried', NEW e \in ToSet(carried'[n])
      PROVE  Traced(e.id, n)'
  <2>1. n + 1 \in DOMAIN carried /\ n \in 0 .. l /\ carried'[n] = carried[n + 1]
    BY <1>1, <1>2
  <2>2. Traced(e.id, n + 1)
    BY <1>7, <2>1 DEF Travels
  <2> QED BY <1>5, <2>1, <2>2
<1>8. l \in 0 .. l /\ Len(queue') + 1 = l
  BY <1>1
<1>9. /\ \A e \in ToSet(waiting') : Traced(e.id, l)'
      /\ \A w \in ToSet(capturing') : Traced(w.id, l)'
  BY <1>1, <1>5, <1>8 DEF Travels
<1> QED BY <1>6, <1>7, <1>8, <1>9 DEF Travels

\* An item whose updates are done has them all in the table.
LEMMA ItemIsKnown ==
    ASSUME TypeOK, BelongsInv, store.pc = "busy", store.done > Len(store.item.events)
    PROVE  \A u \in ToSet(Parcel(0)) : Known(IdOf(u))
<1>1. Parcel(0) = store.item.events
  BY DEF Parcel
<1>2. store.item.events \in Seq(Incident) /\ store.done \in Nat
  BY DEF TypeOK, StoreState, Item
<1>3. \A n \in DOMAIN store.item.events : n < store.done
  BY <1>2
<1>4. \A n \in DOMAIN store.item.events : \E r \in rows : Same(r, store.item.events[n])
  BY <1>3 DEF BelongsInv
<1>5. \A u \in ToSet(Parcel(0)) : \E r \in rows : IdOf(r) = IdOf(u)
  BY <1>1, <1>4 DEF ToSet, Same, IdOf
<1> QED BY <1>5 DEF Known

\* The item is complete: its updates are stored.
LEMMA CompletedTravels ==
    ASSUME TypeOK, TypeOK', EvidenceTypeOK, BelongsInv, Travels, \A id : Known(id) => Known(id)',
           EvidenceCompletes
    PROVE  Travels'
<1> SUFFICES ASSUME NEW l, l = Len(queue) PROVE Travels'
  OBVIOUS
<1>1. /\ store.pc = "busy" /\ store.done > Len(store.item.events) /\ store'.pc = "idle"
      /\ UNCHANGED <<queue, pending, waiting, capturing, carried>> /\ held' = <<>>
  <2>1. /\ StorageCompletes /\ UNCHANGED <<waiting, capturing, carried>> /\ held' = <<>>
    BY DEF EvidenceCompletes
  <2>2. /\ store.pc = "busy" /\ store.done > Len(store.item.events)
        /\ store' = IdleStore /\ UNCHANGED <<queue, pending>>
    BY <2>1 DEF StorageCompletes, monitorVars
  <2> QED BY <2>1, <2>2 DEF IdleStore
<1>2. l \in Nat /\ l + 1 \in Nat /\ DOMAIN carried = 1 .. l
  <2>1. l \in Nat
    BY LenProperties DEF TypeOK
  <2>2. DOMAIN carried = 1 .. l
    BY LenProperties DEF EvidenceTypeOK
  <2> QED BY <2>1, <2>2
<1>3. \A m \in 0 .. l + 1 : m # 0 => Parcel(m)' = Parcel(m)
  BY <1>1 DEF Parcel
<1>4. \A u \in ToSet(Parcel(0)) : Known(IdOf(u))'
  BY <1>1, ItemIsKnown
<1>5. \A n \in 0 .. l + 1 : \A id : Traced(id, n) => Traced(id, n)'
  <2>1. \A m \in 0 .. l + 1 : \A u \in ToSet(Parcel(m)) : u \in ToSet(Parcel(m)') \/ Known(IdOf(u))'
    BY <1>3, <1>4
  <2> QED BY <1>2, <2>1, TracedStays
<1>6. l + 1 \in 0 .. l + 1 /\ (\A n \in DOMAIN carried : n \in 0 .. l + 1) /\ ToSet(<<>>) = {}
  BY <1>2 DEF ToSet
<1> QED BY <1>1, <1>5, <1>6 DEF Travels

\* The updates of a failed sample join those that are pending, and all are sent
\* or stay.
LEMMA FailureSends ==
    ASSUME TypeOK, SampleFails, Receiving, shared.telemetry # None
    PROVE  \E ev \in Seq(Incident) :
             /\ Extended(ev)
             /\ ToSet(pending) \subseteq ToSet(ev)
             /\ produced'.updates \ produced.updates \subseteq ToSet(ev)
<1> DEFINE lost == shared.telemetry
           raised == LostRaises(engine)
           new == Updates(engine, {}, raised, lost.device, cycle)
           seq == SetToSeq(new)
           events == IF raised = {} THEN pending ELSE pending \o seq
<1>1. /\ produced' = IF raised = {} THEN produced ELSE [produced EXCEPT !.updates = @ \cup new]
      /\ \/ Sent([sample |-> lost, events |-> events]) /\ pending' = <<>>
         \/ Full /\ pending' = events
  BY DEF SampleFails, Gone
<1>2. /\ engine \in ActiveMaps /\ cycle \in Nat /\ lost \in Sample /\ lost.device \in Devices
      /\ raised \in SUBSET Kinds /\ {} \in SUBSET Open(engine)
      /\ produced \in Produced /\ pending \in Seq(Incident)
  BY IncidentsAssumption DEF TypeOK, Snapshot, Sample, LostRaises
<1> HIDE DEF lost, raised
<1>3. seq \in Seq(Incident) /\ ToSet(seq) = new
  BY <1>2, UpdatesInSequence
<1> HIDE DEF new, seq
<1>4. /\ events \in Seq(Incident)
      /\ ToSet(pending) \subseteq ToSet(events)
      /\ produced'.updates \ produced.updates \subseteq ToSet(events)
  <2>1. CASE raised = {}
    BY <1>1, <1>2, <2>1
  <2>2. CASE raised # {}
    <3>1. produced'.updates = produced.updates \cup new /\ events = pending \o seq
      BY <1>1, <1>2, <2>2 DEF Produced
    <3> HIDE DEF events
    <3>2. events \in Seq(Incident) /\ ToSet(events) = ToSet(pending) \cup ToSet(seq)
      BY <1>2, <1>3, <3>1, JoinKeeps
    <3> QED BY <1>3, <3>1, <3>2
  <2> QED BY <2>1, <2>2
<1> HIDE DEF events
<1>5. Extended(events)
  BY <1>1, <1>2 DEF Extended, Full
<1> QED BY <1>4, <1>5

\* Each step keeps evidence behind the updates of its incident.
LEMMA BelongsStep ==
    ASSUME TypeOK, TypeOK', ThreadsInv, EvidenceTypeOK, BelongsInv, [EvidenceNext]_allVars
    PROVE  BelongsInv'
<1> USE DEF monitorVars, storageVars, historyVars
<1>0. [Next]_vars
  BY EvidenceStep
<1>1. \A id : Known(id) => Known(id)'
  BY <1>0, ForgoneGrows, KnownStays
<1>2. \A e \in evidence' : Known(e.id)'
  <2>1. CASE evidence' = evidence
    BY <1>1, <2>1 DEF BelongsInv
  <2>2. CASE StorageWritesEvidence
    <3> DEFINE e == held[written + 1]
    <3>1. /\ store.pc = "busy" /\ store.done > Len(store.item.events) /\ written < Len(held)
          /\ evidence' = evidence \cup {e}
      BY <2>2 DEF StorageWritesEvidence, AfterIncidents
    <3>2. e \in ToSet(held)
      BY <3>1 DEF EvidenceTypeOK, ToSet
    <3> HIDE DEF e
    <3>3. Traced(e.id, 0)
      BY <3>1, <3>2 DEF BelongsInv, Travels, Receiving
    <3>4. \A u \in ToSet(Parcel(0)) : Known(IdOf(u))
      BY <3>1, ItemIsKnown
    <3>5. Known(e.id)
      BY <3>3, <3>4 DEF Traced
    <3> QED BY <1>1, <3>1, <3>5 DEF BelongsInv
  <2> QED BY <2>1, <2>2 DEF EvidenceNext, EvidenceMonitor, EvidenceOpenDevice, EvidenceTakeSample,
             EvidencePublish, EvidenceSampleFails, EvidenceStorage, EvidenceReceives,
             EvidenceCompletes, EvidenceFails, EvidenceRestart, evidenceVars, allVars
<1>3. ASSUME store'.pc = "busy", NEW n \in DOMAIN store'.item.events, n < store'.done
      PROVE  \E r \in rows' : Same(r, store'.item.events[n])
  <2>0. n \in Nat /\ n # 0 /\ store'.done \in Nat
    <3>1. store'.item.events \in Seq(Incident) /\ store'.done \in Nat
      BY <1>3 DEF TypeOK, StoreState, Item
    <3> QED BY <3>1
  <2>1. ASSUME NEW i, \E r \in rows : Same(r, i)
        PROVE  \E r \in rows' : Same(r, i)
    BY <1>0, <2>1, RowsKeepIdentity DEF Same
  <2>2. CASE store' = store
    BY <1>3, <2>1, <2>2 DEF BelongsInv
  <2>3. CASE StorageUpserts
    <3>1. /\ store.pc = "busy" /\ rows' = Upsert(store.item.events[store.done])
          /\ store'.item = store.item /\ store'.done = store.done + 1
          /\ store.done \in Nat
      BY <2>3 DEF StorageUpserts, TypeOK, StoreState
    <3>2. n = store.done \/ n < store.done
      BY <1>3, <2>0, <3>1
    <3>3. CASE n = store.done
      BY <3>1, <3>3, UpsertLeavesRow
    <3>4. CASE n < store.done
      BY <1>3, <2>1, <3>1, <3>4 DEF BelongsInv
    <3> QED BY <3>2, <3>3, <3>4
  <2>4. CASE StorageReceives
    BY <1>3, <2>0, <2>4 DEF StorageReceives
  <2>5. CASE StorageRecords \/ StorageFails
    <3>1. store'.done = 1 \/ store'.done = 0
      BY <1>3, <2>5 DEF StorageRecords, StorageFails, Retry, TypeOK, StoreState
    <3> QED BY <1>3, <2>0, <3>1
  <2>6. CASE StorageCompletes \/ StorageExits \/ Restart
    BY <1>3, <2>6 DEF StorageCompletes, StorageExits, Restart, IdleStore, TypeOK, StoreState
  <2>7. CASE Monitor \/ Signal \/ UNCHANGED vars \/ \E c \in Clients : Acknowledge(c)
    BY <2>2, <2>7 DEF Monitor, OpenDevice, OpenFails, TakeSample, Publish, SampleFails, MonitorExits,
                      Signal, vars, Acknowledge, AcknowledgeRow, AcknowledgeSnapshot
  <2> QED BY <1>0, <2>2, <2>3, <2>4, <2>5, <2>6, <2>7 DEF Next, Storage
<1>4. ASSUME Receiving'
      PROVE  Travels'
  <2>1. CASE EvidenceRestart
    <3>1. /\ held' = <<>> /\ carried' = <<>> /\ waiting' = <<>> /\ capturing' = <<>>
      BY <2>1 DEF EvidenceRestart
    <3> QED BY <3>1 DEF Travels, ToSet
  <2>2. ASSUME UNCHANGED <<store, queue, pending, held, carried, waiting>>,
               capturing' = capturing \/ capturing' = <<>>
        PROVE  Travels'
    <3>1. ToSet(capturing') \subseteq ToSet(capturing)
      BY <2>2 DEF ToSet
    <3> QED BY <1>1, <1>4, <2>2, <3>1, TravelsOn DEF BelongsInv, Receiving
  <2>3. ASSUME NEW d \in Devices, EvidenceOpenDevice(d)
        PROVE  Travels'
    BY <2>2, <2>3 DEF EvidenceOpenDevice, OpenDevice
  <2>4. CASE EvidenceTakeSample
    <3>1. store' = store
      BY <2>4 DEF EvidenceTakeSample, TakeSample
    <3> QED BY <1>1, <1>4, <2>4, <3>1, SampleTravels DEF BelongsInv, Receiving
  <2>5. CASE EvidencePublish
    <3>1. Publish /\ Ride(waiting) /\ UNCHANGED <<store, held, capturing>>
      BY <2>5 DEF EvidencePublish, Publish
    <3>2. Receiving /\ Travels
      BY <1>4, <3>1 DEF BelongsInv, Receiving
    <3>3. Extended(pending) /\ pending \in Seq(Incident) /\ waiting \in Seq(Reading)
      BY <3>1, <3>2 DEF Publish, Extended, Full, Gone, TypeOK, EvidenceTypeOK
    <3> QED BY <1>1, <3>1, <3>2, <3>3, SentTravels
  <2>6. CASE EvidenceSampleFails
    <3> DEFINE new == produced'.updates \ produced.updates
    <3>1. SampleFails /\ UNCHANGED <<store, held, capturing>>
      BY <2>6 DEF EvidenceSampleFails, SampleFails
    <3>2. Receiving /\ Travels
      BY <1>4, <3>1 DEF BelongsInv, Receiving
    <3>3. CASE UNCHANGED <<queue, pending, waiting, carried>>
      BY <2>2, <3>1, <3>3
    <3>4. CASE ~UNCHANGED <<queue, pending, waiting, carried>>
      <4>1. shared.telemetry # None
        BY <3>1, <3>4, <2>6 DEF EvidenceSampleFails, SampleFails
      <4>2. PICK ev \in Seq(Incident) : /\ Extended(ev)
                                        /\ ToSet(pending) \subseteq ToSet(ev)
                                        /\ new \subseteq ToSet(ev)
        BY <3>1, <3>2, <4>1, FailureSends
      <4>3. PICK all \in Seq(Reading) :
                   /\ Ride(all)
                   /\ \A e \in ToSet(all) : e \in ToSet(waiting) \/ \E u \in new : e.id = IdOf(u)
        <5>1. PICK all \in Seq(Reading) : FailureJoined(new, all)
          <6> HIDE DEF new
          <6> QED BY <2>6, <3>4, FailureRides DEF new
        <5> QED BY <5>1 DEF FailureJoined
      <4> HIDE DEF new
      <4>4. \A e \in ToSet(all) : e \in ToSet(waiting) \/ \E u \in ToSet(ev) : e.id = IdOf(u)
        BY <4>2, <4>3
      <4> QED BY <1>1, <3>1, <3>2, <4>2, <4>3, <4>4, SentTravels
    <3> QED BY <3>3, <3>4
  <2>7. CASE EvidenceReceives
    <3>1. Receiving
      BY <2>7 DEF EvidenceReceives, StorageReceives, Receiving
    <3> QED BY <1>1, <2>7, <3>1, ReceivedTravels DEF BelongsInv
  <2>8. CASE EvidenceCompletes
    <3>1. Receiving
      BY <2>8 DEF EvidenceCompletes, StorageCompletes, Receiving
    <3> QED BY <1>1, <2>8, <3>1, CompletedTravels DEF BelongsInv
  <2>9. CASE (StorageRecords \/ StorageUpserts) /\ UNCHANGED evidenceVars
    <3>1. /\ UNCHANGED <<queue, pending, held, carried, waiting, capturing>>
          /\ store.pc = "busy" /\ store'.pc = "busy" /\ store'.item = store.item
      BY <2>9 DEF StorageRecords, StorageUpserts, evidenceVars, TypeOK, StoreState
    <3> QED BY <1>1, <3>1, TravelsOn DEF BelongsInv, Receiving
  <2>10. CASE EvidenceFails
    <3>1. ~stop
      BY <1>4, <2>10 DEF EvidenceFails, StorageFails, Receiving
    <3>2. /\ UNCHANGED <<queue, pending, held, carried, waiting, capturing>>
          /\ store.pc = "busy" /\ store'.pc = "busy" /\ store'.item = store.item
      BY <2>10, <3>1 DEF EvidenceFails, StorageFails, Retry, TypeOK, StoreState
    <3> QED BY <1>1, <3>2, TravelsOn DEF BelongsInv, Receiving
  <2>11. CASE StorageExits
    BY <1>4, <2>11 DEF StorageExits, Receiving, TypeOK, StoreState
  <2>12. CASE StorageWritesEvidence
    BY <2>2, <2>12 DEF StorageWritesEvidence, vars
  <2>13. CASE (OpenFails \/ MonitorExits \/ Signal \/ \E c \in Clients : Acknowledge(c))
              /\ UNCHANGED evidenceVars
    BY <2>2, <2>13 DEF OpenFails, MonitorExits, Signal, Acknowledge, AcknowledgeRow,
                       AcknowledgeSnapshot, evidenceVars
  <2>14. CASE UNCHANGED allVars
    BY <2>2, <2>14 DEF allVars, vars, evidenceVars
  <2> QED BY <2>1, <2>3, <2>4, <2>5, <2>6, <2>7, <2>8, <2>9, <2>10, <2>11, <2>12, <2>13, <2>14
      DEF EvidenceNext, EvidenceMonitor, EvidenceStorage
<1> QED BY <1>2, <1>3, <1>4 DEF BelongsInv

\* A reading in the table of evidence belongs to an incident in the table of
\* incidents, whatever statement fails and is repeated and wherever the process
\* ends, unless the update that tells of the incident was dropped (start, the
\* order of a storage item: upsert_incident before record_evidence).
THEOREM EvidenceBelongs == EvidenceSpec => []EvidenceHasIncident
<1>1. EvidenceInit => BelongsInv
  BY DEF EvidenceInit, Init, IdleStore, BelongsInv, Travels, ToSet
<1>2. TypeOK /\ TypeOK' /\ ThreadsInv /\ EvidenceTypeOK /\ BelongsInv /\ [EvidenceNext]_allVars
        => BelongsInv'
  BY BelongsStep
<1>3. BelongsInv => EvidenceHasIncident
  BY DEF BelongsInv, Known, EvidenceHasIncident
<1>4. EvidenceSpec => []TypeOK /\ []ThreadsInv
  BY EvidenceKeepsRuntime, RuntimeTypeCorrect, ThreadsAgree, PTL
<1> QED BY <1>1, <1>2, <1>3, <1>4, EvidenceTypeCorrect, PTL DEF EvidenceSpec

-----------------------------------------------------------------------------
\* The account of the evidence. The ring holds what an incident that is raised
\* now has for a past, and an open window takes what is to come.

\* Cycles pass, and a sample is of its cycle.
LEMMA LatestType ==
    ASSUME TypeOK
    PROVE  /\ Latest \in Int /\ cycle \in Nat /\ Latest <= cycle
           /\ \A s \in produced.samples : s \in Sample /\ s.at \in Nat
           /\ \A u \in Raised : u \in Incident /\ u.at \in Nat
<1>1. cycle \in Nat /\ produced \in Produced
  BY DEF TypeOK
<1>2. \A s \in produced.samples : s \in Sample /\ s.at \in Nat
  BY <1>1 DEF Produced, Sample
<1>3. \A u \in Raised : u \in Incident /\ u.at \in Nat
  BY <1>1 DEF Produced, Raised, Incident
<1>4. Latest \in Int /\ Latest <= cycle
  BY <1>1 DEF Latest
<1> QED BY <1>1, <1>2, <1>3, <1>4

\* A step that takes no sample and raises nothing leaves the ring what it is.
LEMMA RingStays ==
    ASSUME RingInv, produced' = produced, ring' = ring, Latest' = Latest,
           device' = device, mon' = mon \/ mon' \in {"top", "exited"}
    PROVE  RingInv'
  BY DEF RingInv, Raised, Unbroken

\* Another sample.
LEMMA RingTakes ==
    ASSUME TypeOK, TypeOK', EvidenceTypeOK, RingInv, EvidenceTakeSample
    PROVE  RingInv'
<1> DEFINE new == [device |-> current, at |-> cycle]
           extended == Append(ring, taken')
           recent == {n \in DOMAIN extended : cycle - extended[n].at <= Before}
<1>1. /\ taken' = new /\ new \in Sample /\ new.at = cycle
      /\ produced'.samples = produced.samples \cup {new}
      /\ mon # "observed" /\ mon # "exited" /\ mon' = "observed" /\ device' = device /\ cycle' = cycle
      /\ mon = "opened" \/ device # None
  <2>1. TakeSample
    BY DEF EvidenceTakeSample
  <2>2. mon = "opened" \/ device # None
    BY <2>1 DEF TakeSample, Polling
  <2> QED BY <2>1, <2>2, SampleIsNew
<1>2. /\ Latest' = cycle /\ Latest = cycle - 1 /\ cycle \in Nat /\ Latest < cycle
      /\ \A s \in produced.samples : s \in Sample /\ s.at \in Nat
  BY <1>1, LatestType DEF Latest
<1>3. PICK fresh \in SUBSET Incident :
        /\ produced'.updates = produced.updates \cup fresh
        /\ \A u \in fresh : u.until = None => u.at = cycle /\ u.kind # Monitoring
  BY SampleTaken DEF EvidenceTakeSample
<1>4. \A s \in produced.samples : s.at <= Latest /\ s.at < cycle /\ s.at # cycle
  BY <1>2 DEF RingInv
<1>5. \A s, t \in produced'.samples : s.at = t.at => s = t
  BY <1>1, <1>4 DEF RingInv
<1>6. \A s \in produced'.samples : s.at <= Latest'
  <2>1. new.at <= cycle
    BY <1>1, <1>2
  <2>2. \A s \in produced.samples : s.at <= cycle
    BY <1>2, <1>4
  <2> HIDE DEF new
  <2> QED BY <1>1, <1>2, <2>1, <2>2
<1>7. \A u \in Raised' : u.at <= Latest'
  <2>1. ASSUME NEW u \in Raised'
        PROVE  u.at <= cycle
    <3>1. u \in Raised \/ (u \in fresh /\ u.until = None)
      BY <1>3 DEF Raised
    <3>2. CASE u \in Raised
      <4>1. u.at \in Nat /\ u.at <= Latest
        BY <3>2, LatestType DEF RingInv
      <4> QED BY <1>2, <4>1
    <3> QED BY <1>2, <1>3, <3>1, <3>2
  <2> QED BY <1>2, <2>1
<1>8. ToSet(ring') = {extended[n] : n \in recent} /\ ToSet(extended) = ToSet(ring) \cup {new}
  <2>1. extended \in Seq(Sample) /\ ring \in Seq(Sample)
    BY <1>1, AppendProperties DEF EvidenceTypeOK
  <2>2. ring' = Retain(extended, recent) /\ recent \in SUBSET (DOMAIN extended)
    BY <1>1 DEF EvidenceTakeSample, Recent
  <2>3. ToSet(extended) = ToSet(ring) \cup {new}
    <3>1. /\ Len(extended) = Len(ring) + 1 /\ extended[Len(ring) + 1] = new
          /\ \A n \in 1 .. Len(ring) : extended[n] = ring[n]
          /\ Len(ring) \in Nat /\ DOMAIN ring = 1 .. Len(ring)
          /\ DOMAIN extended = 1 .. Len(ring) + 1
      BY <1>1, <2>1, AppendProperties, LenProperties
    <3> HIDE DEF extended, new
    <3>2. \A n \in 1 .. Len(ring) + 1 : n \in 1 .. Len(ring) \/ n = Len(ring) + 1
      BY <3>1
    <3>3. /\ \A n \in 1 .. Len(ring) : n \in DOMAIN extended
          /\ Len(ring) + 1 \in DOMAIN extended
      BY <3>1
    <3> QED BY <3>1, <3>2, <3>3 DEF ToSet
  <2> HIDE DEF extended, recent
  <2> QED BY <2>1, <2>2, <2>3, RetainKeeps
<1>9. ASSUME NEW s \in produced'.samples, Unbroken(s.at, Latest)', Latest' - s.at <= Before
      PROVE  s \in ToSet(ring')
  <2>1. s \in ToSet(extended)
    <3>1. CASE s = new
      BY <1>8, <3>1
    <3>2. CASE s \in produced.samples
      <4>1. ASSUME NEW n \in s.at .. Latest
            PROVE  \E t \in produced.samples : t.at = n
        <5>1. n \in s.at .. cycle /\ n # cycle
          BY <1>2, <3>2
        <5>2. \E t \in produced'.samples : t.at = n
          BY <1>2, <1>9, <5>1 DEF Unbroken
        <5> QED BY <1>1, <5>1, <5>2
      <4>2. Unbroken(s.at, Latest)
        BY <4>1 DEF Unbroken
      <4>3. Latest - s.at <= Before
        BY <1>2, <1>9, <3>2, EvidenceAssumption
      <4>4. s \in ToSet(ring)
        BY <3>2, <4>2, <4>3 DEF RingInv
      <4> HIDE DEF extended, new
      <4> QED BY <1>8, <4>4
    <3> HIDE DEF extended
    <3> QED BY <1>1, <3>1, <3>2
  <2>2. cycle - s.at <= Before
    BY <1>2, <1>9
  <2>3. PICK n \in DOMAIN extended : s = extended[n]
    <3> HIDE DEF extended
    <3> QED BY <2>1 DEF ToSet
  <2>4. n \in recent
    <3> HIDE DEF extended
    <3> QED BY <2>2, <2>3
  <2> HIDE DEF extended, recent
  <2> QED BY <1>8, <2>3, <2>4
<1>10. device' # None
  BY <1>1 DEF RingInv
<1> HIDE DEF new, extended, recent
<1> QED BY <1>5, <1>6, <1>7, <1>9, <1>10 DEF RingInv

\* Each step keeps the ring what it is.
LEMMA RingStep ==
    ASSUME TypeOK, TypeOK', EvidenceTypeOK, RingInv, [EvidenceNext]_allVars
    PROVE  RingInv'
<1> USE DEF monitorVars, storageVars, historyVars
<1>1. ASSUME NEW d \in Devices, EvidenceOpenDevice(d)
      PROVE  RingInv'
  <2>1. /\ produced' = produced /\ mon = "top" /\ mon' = "opened" /\ cycle' = cycle
        /\ device = None /\ device' \in Devices
    BY <1>1 DEF EvidenceOpenDevice, OpenDevice
  <2>2. Latest' = Latest /\ device' # None
    BY <2>1, RuntimeAssumption DEF Latest
  <2>3. ASSUME NEW s \in produced.samples, Unbroken(s.at, Latest)
        PROVE  FALSE
    <3>1. Latest \in Int /\ s.at \in Nat /\ \A t \in produced.samples : t.at \in Nat /\ t.at < Latest
      BY <2>1, LatestType DEF RingInv
    <3>2. Latest \in s.at .. Latest
      BY <3>1
    <3>3. PICK t \in produced.samples : t.at = Latest
      BY <2>3, <3>2 DEF Unbroken
    <3> QED BY <3>1, <3>3
  <2> QED BY <2>1, <2>2, <2>3 DEF RingInv, Raised, Unbroken
<1>2. CASE EvidenceTakeSample
  BY <1>2, RingTakes
<1>3. CASE EvidencePublish
  <2>1. /\ produced' = produced /\ ring' = ring /\ mon = "observed" /\ mon' = "top" /\ device' = device
        /\ cycle' = cycle + 1 /\ cycle \in Nat
    BY <1>3 DEF EvidencePublish, Publish, TypeOK
  <2>2. Latest' = Latest
    BY <2>1 DEF Latest
  <2> QED BY <2>1, <2>2, RingStays
<1>4. CASE EvidenceSampleFails
  <2>1. /\ mon # "observed" /\ mon' = "top" /\ device' = None /\ ring' = ring
        /\ cycle' = cycle + 1 /\ cycle \in Nat
    BY <1>4 DEF EvidenceSampleFails, SampleFails, Polling, TypeOK
  <2>2. Latest' = cycle /\ Latest = cycle - 1
    BY <2>1 DEF Latest
  <2>3. produced'.samples = produced.samples
    BY <1>4 DEF EvidenceSampleFails, SampleFails, TypeOK, Produced
  <2>4. \A s \in produced.samples : s.at \in Nat /\ s.at <= Latest /\ s.at < cycle /\ s.at <= cycle
    <3>1. \A s \in produced.samples : s.at \in Nat /\ s.at <= Latest
      BY LatestType DEF RingInv
    <3> QED BY <2>1, <2>2, <3>1
  <2>5. \A u \in Raised' : u.at <= Latest'
    <3>1. \A u \in produced'.updates \ produced.updates : u.at = cycle
      BY <1>4, FailureTaken DEF EvidenceSampleFails
    <3>2. \A u \in Raised : u.at \in Nat /\ u.at <= Latest
      BY LatestType DEF RingInv
    <3>3. \A u \in Raised' : u \in Raised \/ u \in produced'.updates \ produced.updates
      BY DEF Raised
    <3>4. \A u \in Raised : u.at <= cycle
      BY <2>1, <2>2, <3>2
    <3> QED BY <2>1, <2>2, <3>1, <3>3, <3>4
  <2>6. ASSUME NEW s \in produced'.samples, Unbroken(s.at, Latest)'
        PROVE  FALSE
    <3>1. cycle \in s.at .. cycle
      BY <2>1, <2>3, <2>4
    <3>2. PICK t \in produced'.samples : t.at = cycle
      BY <2>2, <2>6, <3>1 DEF Unbroken
    <3> QED BY <2>1, <2>3, <2>4, <3>2
  <2>7. \A s \in produced'.samples : s.at <= Latest' /\ s.at < Latest'
    BY <2>2, <2>3, <2>4
  <2>8. \A s, t \in produced'.samples : s.at = t.at => s = t
    BY <2>3 DEF RingInv
  <2> QED BY <2>1, <2>5, <2>6, <2>7, <2>8 DEF RingInv
<1>5. CASE EvidenceRestart
  <2>1. produced' = NothingProduced /\ mon' = "top"
    BY <1>5 DEF EvidenceRestart, Restart
  <2> QED BY <2>1 DEF RingInv, Raised, NothingProduced
<1>6. CASE UNCHANGED <<produced, ring, mon, device, cycle>>
  BY <1>6, RingStays DEF Latest
<1>7. CASE EvidenceStorage
  BY <1>6, <1>7 DEF EvidenceStorage, EvidenceReceives, StorageReceives, StorageRecords, StorageUpserts,
                    StorageWritesEvidence, EvidenceCompletes, StorageCompletes, EvidenceFails,
                    StorageFails, StorageExits, evidenceVars, vars
<1>8. CASE (OpenFails \/ Signal \/ \E c \in Clients : Acknowledge(c)) /\ UNCHANGED evidenceVars
  BY <1>6, <1>8 DEF OpenFails, Signal, Acknowledge, AcknowledgeRow, AcknowledgeSnapshot, evidenceVars
<1>9. CASE MonitorExits /\ UNCHANGED evidenceVars
  <2>1. UNCHANGED <<produced, ring, cycle, device>> /\ mon = "top" /\ mon' = "exited"
    BY <1>9 DEF MonitorExits, evidenceVars
  <2>2. Latest' = Latest
    BY <2>1 DEF Latest
  <2> QED BY <2>1, <2>2, RingStays
<1>10. CASE UNCHANGED allVars
  BY <1>6, <1>10 DEF allVars, vars, evidenceVars
<1> QED BY <1>1, <1>2, <1>3, <1>4, <1>5, <1>7, <1>8, <1>9, <1>10 DEF EvidenceNext, EvidenceMonitor

-----------------------------------------------------------------------------
\* What is due to an incident: its past, and the samples of its window.
InPast(u, s) ==
    /\ s.at < u.at /\ Unbroken(s.at, u.at - 1)
    /\ u.at - (IF u.kind = Monitoring THEN 1 ELSE 0) - s.at <= Before
\* A sample of its window.
InWindow(u, s) ==
    u.kind # Monitoring /\ s.at \in u.at .. u.at + After /\ IdOf(u) \notin forgone.windows

\* A reading that is due: of such a sample of its device.
DueOf(u, e) ==
    \E s \in produced.samples :
        e = Of(IdOf(u), s) /\ s.device = u.device /\ (InPast(u, s) \/ InWindow(u, s))

\* It is so now,
LEMMA DueIs == \A u, e : e \in Due(u) <=> DueOf(u, e)
  BY DEF Due, DueOf, InPast, InWindow

\* and after a step.
LEMMA DueIsNext == \A u, e : e \in Due(u)' <=> DueOf(u, e)'
  BY DEF Due, DueOf, InPast, InWindow

\* What is on the way, list by list.
LEMMA EvidenceOnTheWayIs ==
    \A e : e \in EvidenceOnTheWay <=>
             \/ e \in ToSet(waiting) \/ e \in ToSet(held)
             \/ \E n \in DOMAIN carried : e \in ToSet(carried[n])
<1>1. \A e : (\E l \in ToSet(carried) : e \in ToSet(l))
                <=> \E n \in DOMAIN carried : e \in ToSet(carried[n])
  BY DEF ToSet
<1> QED BY <1>1 DEF EvidenceOnTheWay

\* The same after a step.
LEMMA EvidenceOnTheWayIsNext ==
    \A e : e \in EvidenceOnTheWay' <=>
             \/ e \in ToSet(waiting') \/ e \in ToSet(held')
             \/ \E n \in DOMAIN carried' : e \in ToSet(carried'[n])
<1>1. \A e : (\E l \in ToSet(carried') : e \in ToSet(l))
                <=> \E n \in DOMAIN carried' : e \in ToSet(carried'[n])
  BY DEF ToSet
<1> QED BY <1>1 DEF EvidenceOnTheWay

\* Nothing is made, and what there is stays somewhere: the account stays.
LEMMA QuietExplains ==
    ASSUME TypeOK, TypeOK', NEW X, NEW T, Explained(X, T),
           produced' = produced, counts' = counts, Latest' = Latest,
           forgone.windows \subseteq forgone'.windows,
           \A w \in ToSet(capturing) : w \in ToSet(capturing') \/ w.id \in forgone'.windows,
           evidence \cup EvidenceOnTheWay \subseteq evidence' \cup EvidenceOnTheWay'
    PROVE  Explained(X, T)'
<1>1. Raised' = Raised
  BY DEF Raised
<1>2. ASSUME NEW u \in Raised
      PROVE  Watched(u, T)'
  <2>1. Watched(u, T)
    BY DEF Explained
  <2> QED BY <2>1 DEF Watched, WindowAt
<1>3. ASSUME NEW u \in Raised, NEW e \in Due(u)'
      PROVE  e \in evidence' \cup EvidenceOnTheWay' \cup X \/ OfTruncated(e, T)
  <2>1. DueOf(u, e)'
    BY <1>3, DueIsNext
  <2>2. DueOf(u, e)
    BY <2>1 DEF DueOf, InPast, InWindow, Unbroken
  <2>3. e \in Due(u)
    BY <2>2, DueIs
  <2> QED BY <2>3 DEF Explained
<1> QED BY <1>1, <1>2, <1>3 DEF Explained, OfTruncated

\* What rides into the queue, or stays, is on the way as before.
LEMMA RidesOn ==
    ASSUME TypeOK, EvidenceTypeOK, Receiving, NEW all \in Seq(Reading), Ride(all),
           queue' = queue \/ \E item : Sent(item), held' = held,
           ToSet(waiting) \subseteq ToSet(all)
    PROVE  EvidenceOnTheWay \cup ToSet(all) \subseteq EvidenceOnTheWay'
<1>1. /\ \A n \in DOMAIN carried : n \in DOMAIN carried' /\ carried'[n] = carried[n]
      /\ \/ carried' = carried /\ waiting' = all
         \/ /\ DOMAIN carried' = 1 .. Len(queue) + 1 /\ carried'[Len(queue) + 1] = all
  BY RideKeeps
<1>2. Len(queue) + 1 \in 1 .. Len(queue) + 1
  BY DEF TypeOK
<1>3. \A e \in ToSet(all) : e \in EvidenceOnTheWay'
  BY <1>1, <1>2, EvidenceOnTheWayIsNext
<1>4. \A e \in EvidenceOnTheWay : e \in EvidenceOnTheWay'
  BY <1>1, <1>3, EvidenceOnTheWayIs, EvidenceOnTheWayIsNext
<1> QED BY <1>3, <1>4

\* More may be counted.
LEMMA CountMore ==
    ASSUME NEW A, IsFiniteSet(A), NEW a \in Nat, Cardinality(A) <= a,
           NEW B, IsFiniteSet(B), NEW b \in Nat, Cardinality(B) <= b
    PROVE  IsFiniteSet(A \cup B) /\ Cardinality(A \cup B) <= a + b
<1>1. /\ IsFiniteSet(A \cup B)
      /\ Cardinality(A \cup B) = Cardinality(A) + Cardinality(B) - Cardinality(A \cap B)
  BY FS_Union
<1>2. IsFiniteSet(A \cap B)
  BY FS_Intersection
<1>3. Cardinality(A) \in Nat /\ Cardinality(B) \in Nat /\ Cardinality(A \cap B) \in Nat
  BY <1>2, FS_CardinalityType
<1> QED BY <1>1, <1>3

\* Incidents of one step have no more identities than there are of them.
LEMMA IdsAreFewer ==
    ASSUME NEW G, IsFiniteSet(G), NEW g \in Nat, Cardinality(G) <= g
    PROVE  IsFiniteSet({w.id : w \in G}) /\ Cardinality({w.id : w \in G}) <= g
<1> DEFINE ids == {w.id : w \in G}
           f == [w \in G |-> w.id]
<1>1. f \in Surjection(G, ids)
  BY DEF Surjection
<1> HIDE DEF f, ids
<1>2. IsFiniteSet(ids) /\ Cardinality(ids) <= Cardinality(G)
  BY <1>1, FS_Surjection
<1>3. Cardinality(ids) \in Nat /\ Cardinality(G) \in Nat
  BY <1>2, FS_CardinalityType
<1> QED BY <1>2, <1>3 DEF ids

\* Another sample is due to the incidents that are raised, with the ring, and to
\* those whose windows are open.
LEMMA SampleExplains ==
    ASSUME TypeOK, TypeOK', EvidenceTypeOK, RingInv, NEW X, NEW T, Explained(X, T),
           EvidenceTakeSample
    PROVE  \E E, F : Explained(E, F)'
<1> DEFINE R == {u \in produced'.updates \ produced.updates : u.until = None}
           opened == {WindowAt(IdOf(u), cycle + After) : u \in R}
           new == taken'
<1>1. /\ new = [device |-> current, at |-> cycle] /\ new \in Sample /\ new.at = cycle
      /\ produced'.samples = produced.samples \cup {new}
      /\ mon # "observed" /\ mon' = "observed" /\ cycle' = cycle
      /\ UNCHANGED <<carried, held, evidence>>
      /\ forgone'.windows = forgone.windows
  <2>1. forgone'.windows = forgone.windows
    BY DEF EvidenceTakeSample, EvidenceTypeOK
  <2>2. /\ new = [device |-> current, at |-> cycle] /\ new \in Sample /\ new.at = cycle
        /\ produced'.samples = produced.samples \cup {new}
        /\ mon # "observed" /\ mon' = "observed" /\ cycle' = cycle
    BY SampleIsNew DEF EvidenceTakeSample
  <2>3. UNCHANGED <<carried, held, evidence>>
    BY DEF EvidenceTakeSample
  <2> QED BY <2>1, <2>2, <2>3
<1>2. /\ Latest' = cycle /\ Latest = cycle - 1 /\ cycle \in Nat /\ Latest < cycle
      /\ \A s \in produced.samples : s \in Sample /\ s.at \in Nat
      /\ \A u \in Raised : u \in Incident /\ u.at \in Nat
  BY <1>1, LatestType DEF Latest
<1>3. \A u \in R : u \in Incident /\ u.at = cycle /\ u.kind # Monitoring
  <2>1. PICK fresh \in SUBSET Incident :
          /\ produced'.updates = produced.updates \cup fresh
          /\ \A u \in fresh : u.until = None => u.at = cycle /\ u.kind # Monitoring
    BY SampleTaken DEF EvidenceTakeSample
  <2> QED BY <2>1
<1>4. \A u \in Raised' : u \in Raised \/ u \in R
  BY DEF Raised
<1>5. PICK G, D : \E g, x \in Nat : Captured(R, opened, G, D, g, x)
  <2>1. /\ R = {u \in produced'.updates \ produced.updates : u.until = None}
        /\ opened = {WindowAt(IdOf(u), cycle + After) : u \in R}
    OBVIOUS
  <2> HIDE DEF R, opened
  <2> QED BY <2>1, EvidenceTaken
<1>6. PICK g \in Nat, x \in Nat :
         /\ IsFiniteSet(G) /\ Cardinality(G) <= g
         /\ IsFiniteSet(D) /\ Cardinality(D) <= x
         /\ counts' = [dropped |-> counts.dropped + x, truncated |-> counts.truncated + g]
         /\ ToSet(waiting) \subseteq ToSet(waiting') \cup D
         /\ \A u \in R, s \in ToSet(ring) : Of(IdOf(u), s) \in ToSet(waiting') \cup D
         /\ \A w \in ToSet(capturing) \cup opened :
              \/ w \in G
              \/ ~(cycle <= w.until)
              \/ w \in ToSet(capturing') /\ Of(w.id, new) \in ToSet(waiting') \cup D
  <2> HIDE DEF R, opened
  <2> QED BY <1>5 DEF Captured
<1> DEFINE E == X \cup D
           Closed == {w.id : w \in G}
           F == T \cup Closed
           There == evidence' \cup EvidenceOnTheWay' \cup E
<1> HIDE DEF new
<1>7. IsFiniteSet(E) /\ Cardinality(E) <= counts'.dropped
  <2>1. counts.dropped \in Nat /\ IsFiniteSet(X) /\ Cardinality(X) <= counts.dropped
    BY DEF Explained, EvidenceTypeOK
  <2>2. counts'.dropped = counts.dropped + x
    BY <1>6
  <2> QED BY <1>6, <2>1, <2>2, CountMore
<1>8. IsFiniteSet(F) /\ Cardinality(F) <= counts'.truncated
  <2>1. counts.truncated \in Nat /\ IsFiniteSet(T) /\ Cardinality(T) <= counts.truncated
    BY DEF Explained, EvidenceTypeOK
  <2>2. counts'.truncated = counts.truncated + g
    BY <1>6
  <2>3. IsFiniteSet(Closed) /\ Cardinality(Closed) <= g
    BY <1>6, IdsAreFewer
  <2> HIDE DEF Closed
  <2> QED BY <2>1, <2>2, <2>3, CountMore
<1>9. /\ \A e \in evidence \cup EvidenceOnTheWay \cup X : e \in There
      /\ \A e \in ToSet(waiting') \cup D : e \in There
  <2>1. \A e \in ToSet(waiting') : e \in EvidenceOnTheWay'
    BY EvidenceOnTheWayIsNext
  <2>2. \A e \in ToSet(waiting') \cup D : e \in There
    BY <2>1
  <2>3. \A e \in EvidenceOnTheWay : e \in ToSet(waiting) \/ e \in EvidenceOnTheWay'
    BY <1>1, EvidenceOnTheWayIs, EvidenceOnTheWayIsNext
  <2>4. \A e \in ToSet(waiting) : e \in There
    BY <1>6, <2>2
  <2> QED BY <1>1, <2>2, <2>3, <2>4
<1> HIDE DEF There, E
<1>10. \A w : w \in G => w.id \in F
  OBVIOUS
<1>11. T \subseteq F
  OBVIOUS
<1> HIDE DEF F
<1>12. ASSUME NEW u, u.kind # Monitoring, u.at \in Nat, u.at <= cycle, cycle <= u.at + After,
              WindowAt(IdOf(u), u.at + After) \in ToSet(capturing) \cup opened
       PROVE  Of(IdOf(u), new) \in There \/ OfTruncated(Of(IdOf(u), new), F)
  <2> DEFINE w == WindowAt(IdOf(u), u.at + After)
  <2>1. w.id = IdOf(u) /\ w.until = u.at + After /\ IdOf(u).at = u.at
    BY DEF WindowAt, IdOf
  <2>2. w \in G \/ Of(w.id, new) \in ToSet(waiting') \cup D
    BY <1>6, <1>12, <2>1
  <2>3. CASE w \in G
    <3>1. IdOf(u) \in F
      BY <1>10, <2>1, <2>3
    <3>2. cycle \in u.at .. u.at + After
      BY <1>2, <1>12
    <3> QED BY <1>1, <2>1, <3>1, <3>2 DEF OfTruncated, Of
  <2>4. CASE Of(w.id, new) \in ToSet(waiting') \cup D
    BY <1>9, <2>1, <2>4
  <2> QED BY <2>2, <2>3, <2>4
<1>13. ASSUME NEW u \in R
       PROVE  WindowAt(IdOf(u), u.at + After) \in opened
  BY <1>3
<1> HIDE DEF R, opened
<1>14. ASSUME NEW u \in Raised'
       PROVE  Watched(u, F)'
  <2> DEFINE w == WindowAt(IdOf(u), u.at + After)
  <2>1. w.id = IdOf(u) /\ w.until = u.at + After
    BY DEF WindowAt
  <2>2. u.at \in Nat /\ After \in Nat
    BY <1>2, <1>3, <1>4, EvidenceAssumption
  <2>3. ASSUME w \in ToSet(capturing) \cup opened
        PROVE  Watched(u, F)'
    <3>1. w \in G \/ ~(cycle <= u.at + After) \/ w \in ToSet(capturing')
      BY <1>6, <2>1, <2>3
    <3>2. ~(cycle <= u.at + After) => u.at + After <= cycle
      BY <1>2, <2>2
    <3> QED BY <1>2, <1>10, <2>1, <3>1, <3>2 DEF Watched
  <2>4. CASE u \in R
    BY <1>13, <2>3, <2>4
  <2>5. CASE u \in Raised
    <3>1. Watched(u, T)
      BY <2>5 DEF Explained
    <3>2. u.at + After <= Latest => u.at + After <= cycle
      BY <1>2, <2>2
    <3> QED BY <1>1, <1>2, <1>11, <2>3, <3>1, <3>2 DEF Watched
  <2> QED BY <1>4, <2>4, <2>5
<1>15. ASSUME NEW u \in Raised', NEW e \in Due(u)'
       PROVE  e \in There \/ OfTruncated(e, F)
  <2>1. PICK s \in produced'.samples :
           /\ e = Of(IdOf(u), s) /\ s.device = u.device
           /\ InPast(u, s)' \/ InWindow(u, s)'
    BY <1>15, DueIsNext DEF DueOf
  <2>2. u.at \in Nat /\ u.at <= cycle /\ After \in Nat /\ Before \in Nat
    <3>1. \A v \in Raised : v.at <= cycle
      BY <1>2 DEF RingInv
    <3> QED BY <1>2, <1>3, <1>4, <3>1, EvidenceAssumption
  <2>3. \A t \in produced.samples : t.at <= Latest /\ t.at < cycle
    BY <1>2 DEF RingInv
  <2>4. ASSUME NEW from \in Nat, NEW to \in Int, to < cycle, Unbroken(from, to)'
        PROVE  Unbroken(from, to)
    <3>1. ASSUME NEW n \in from .. to
          PROVE  \E t \in produced.samples : t.at = n
      <4>1. \E t \in produced'.samples : t.at = n
        BY <2>4 DEF Unbroken
      <4>2. n # cycle
        BY <1>2, <2>4
      <4> QED BY <1>1, <4>1, <4>2
    <3> QED BY <3>1 DEF Unbroken
  <2>5. CASE s = new
    <3>1. ~InPast(u, s)'
      BY <1>1, <1>2, <2>2, <2>5 DEF InPast
    <3>2. /\ u.kind # Monitoring /\ cycle <= u.at + After /\ IdOf(u) \notin forgone.windows
      BY <1>1, <2>1, <2>5, <3>1 DEF InWindow
    <3>3. CASE WindowAt(IdOf(u), u.at + After) \in ToSet(capturing) \cup opened
      BY <1>12, <2>1, <2>2, <2>5, <3>2, <3>3
    <3>4. CASE WindowAt(IdOf(u), u.at + After) \notin ToSet(capturing) \cup opened
      <4>1. u \in Raised
        BY <1>4, <1>13, <3>4
      <4>2. Watched(u, T)
        BY <4>1 DEF Explained
      <4>3. ~(u.at + After <= Latest)
        BY <1>2, <2>2, <3>2
      <4>4. IdOf(u) \in F
        BY <1>11, <3>2, <3>4, <4>2, <4>3 DEF Watched
      <4>5. cycle \in u.at .. u.at + After
        BY <1>2, <2>2, <3>2
      <4> QED BY <1>1, <2>1, <2>5, <4>4, <4>5 DEF OfTruncated, Of, IdOf
    <3> QED BY <3>3, <3>4
  <2>6. CASE s \in produced.samples /\ u \in Raised
    <3>1. InPast(u, s)' => InPast(u, s)
      <4>1. u.at - 1 \in Int /\ u.at - 1 < cycle /\ s.at \in Nat
        BY <1>2, <2>2, <2>6
      <4> QED BY <2>4, <4>1 DEF InPast
    <3>2. InWindow(u, s)' => InWindow(u, s)
      BY <1>1 DEF InWindow
    <3>3. DueOf(u, e)
      BY <2>1, <2>6, <3>1, <3>2 DEF DueOf
    <3>4. e \in evidence \cup EvidenceOnTheWay \cup X \/ OfTruncated(e, T)
      BY <2>6, <3>3, DueIs DEF Explained
    <3> QED BY <1>9, <1>11, <3>4 DEF OfTruncated
  <2>7. CASE s \in produced.samples /\ u \in R
    <3>1. u.at = cycle /\ u.kind # Monitoring /\ s.at \in Nat /\ s.at < cycle
      BY <1>2, <1>3, <2>3, <2>7
    <3>2. ~InWindow(u, s)'
      BY <1>2, <3>1 DEF InWindow
    <3>3. Unbroken(s.at, u.at - 1)' /\ u.at - 0 - s.at <= Before
      BY <2>1, <3>1, <3>2 DEF InPast
    <3>4. Unbroken(s.at, Latest)
      <4>1. u.at - 1 = Latest /\ u.at - 1 < cycle /\ u.at - 1 \in Int
        BY <1>2, <3>1
      <4>2. Unbroken(s.at, u.at - 1)
        BY <2>4, <3>1, <3>3, <4>1
      <4> QED BY <4>1, <4>2
    <3>5. Latest - s.at <= Before
      BY <1>2, <2>2, <3>1, <3>3
    <3>6. s \in ToSet(ring)
      BY <2>7, <3>4, <3>5 DEF RingInv
    <3> QED BY <1>6, <1>9, <2>1, <2>7, <3>6
  <2> QED BY <1>1, <1>4, <2>5, <2>6, <2>7
<1>16. Explained(E, F)'
  BY <1>7, <1>8, <1>14, <1>15 DEF Explained, There, OfTruncated
<1> QED BY <1>16

\* A failed sample: the incident that says so has a past and no window.
LEMMA FailureExplains ==
    ASSUME TypeOK, TypeOK', EvidenceTypeOK, RingInv, Receiving, NEW X, NEW T, Explained(X, T),
           EvidenceSampleFails
    PROVE  Explained(X, T)'
<1> DEFINE new == produced'.updates \ produced.updates
<1>1. /\ SampleFails /\ mon # "observed" /\ mon' = "top" /\ cycle' = cycle + 1 /\ cycle \in Nat
      /\ UNCHANGED <<capturing, held, evidence, counts, forgone>>
      /\ produced'.samples = produced.samples
  BY DEF EvidenceSampleFails, SampleFails, Polling, TypeOK, Produced
<1>2. /\ Latest' = cycle /\ Latest = cycle - 1 /\ Latest < cycle
      /\ \A u \in Raised : u.at \in Nat
      /\ \A s \in produced.samples : s.at \in Nat
  BY <1>1, LatestType DEF Latest
<1>3. /\ \A u \in new : u.at = cycle /\ u.kind = Monitoring
      /\ \A u \in Raised' : u \in Raised \/ u \in new
  BY <1>1, FailureTaken DEF Raised
<1> HIDE DEF new
<1>4. /\ EvidenceOnTheWay \subseteq EvidenceOnTheWay'
      /\ \A u \in new, s \in ToSet(ring) : Of(IdOf(u), s) \in EvidenceOnTheWay'
  <2>1. CASE new = {} /\ UNCHANGED <<waiting, carried>>
    BY <1>1, <2>1 DEF EvidenceOnTheWay
  <2>2. CASE ~(new = {} /\ UNCHANGED <<waiting, carried>>)
    <3>1. /\ queue' = queue \/ \E item : Sent(item)
          /\ \E all \in Seq(Reading) : FailureJoined(new, all)
      <4>1. new = produced'.updates \ produced.updates
        BY DEF new
      <4> QED BY <2>2, <4>1, FailureRides
    <3>2. PICK all \in Seq(Reading) :
                   /\ Ride(all)
                   /\ ToSet(waiting) \subseteq ToSet(all)
                   /\ \A u \in new, s \in ToSet(ring) : Of(IdOf(u), s) \in ToSet(all)
      BY <3>1 DEF FailureJoined
    <3>3. EvidenceOnTheWay \cup ToSet(all) \subseteq EvidenceOnTheWay'
      BY <1>1, <3>1, <3>2, RidesOn
    <3> QED BY <3>2, <3>3
  <2> QED BY <2>1, <2>2
<1>5. ASSUME NEW u \in Raised'
      PROVE  Watched(u, T)'
  <2>1. CASE u \in new
    BY <1>3, <2>1 DEF Watched
  <2>2. CASE u \in Raised
    <3>1. Watched(u, T)
      BY <2>2 DEF Explained
    <3>2. u.at + After <= Latest => u.at + After <= cycle
      <4>1. u.at \in Nat /\ After \in Nat
        BY <1>2, <2>2, EvidenceAssumption
      <4> QED BY <1>1, <1>2, <4>1
    <3> QED BY <1>1, <1>2, <3>1, <3>2 DEF Watched
  <2> QED BY <1>3, <2>1, <2>2
<1>6. ASSUME NEW u \in Raised', NEW e \in Due(u)'
      PROVE  e \in evidence' \cup EvidenceOnTheWay' \cup X \/ OfTruncated(e, T)
  <2>1. PICK s \in produced'.samples :
           /\ e = Of(IdOf(u), s) /\ s.device = u.device
           /\ InPast(u, s)' \/ InWindow(u, s)'
    BY <1>6, DueIsNext DEF DueOf
  <2>2. /\ InPast(u, s)' => InPast(u, s)
        /\ InWindow(u, s)' => InWindow(u, s)
    BY <1>1 DEF InPast, InWindow, Unbroken
  <2>3. CASE u \in Raised
    <3>1. e \in Due(u)
      BY <1>1, <2>1, <2>2, DueIs DEF DueOf
    <3>2. e \in evidence \cup EvidenceOnTheWay \cup X \/ OfTruncated(e, T)
      BY <2>3, <3>1 DEF Explained
    <3> QED BY <1>1, <1>4, <3>2
  <2>4. CASE u \in new
    <3>1. u.at = cycle /\ u.kind = Monitoring
      BY <1>3, <2>4
    <3>2. InPast(u, s)
      BY <2>1, <2>2, <3>1 DEF InWindow
    <3>3. Unbroken(s.at, Latest) /\ cycle - 1 - s.at <= Before
      BY <1>2, <3>1, <3>2 DEF InPast
    <3>4. s \in ToSet(ring)
      BY <1>1, <1>2, <3>3 DEF RingInv
    <3> QED BY <1>4, <2>1, <2>4, <3>4
  <2> QED BY <1>3, <2>3, <2>4
<1> QED BY <1>1, <1>5, <1>6 DEF Explained, OfTruncated

\* What storage has written of the item in hand is in the table.
WrittenInv == \A n \in 1 .. written : held[n] \in evidence

\* Each step keeps it so.
LEMMA WrittenStep ==
    ASSUME EvidenceTypeOK, WrittenInv, [EvidenceNext]_allVars
    PROVE  WrittenInv'
<1>1. CASE written' = 0
  BY <1>1 DEF WrittenInv
<1>2. CASE UNCHANGED <<written, held, evidence>>
  BY <1>2 DEF WrittenInv
<1>3. CASE StorageWritesEvidence
  <2>1. /\ evidence' = evidence \cup {held[written + 1]} /\ written' = written + 1 /\ held' = held
        /\ written \in Nat
    BY <1>3 DEF StorageWritesEvidence, EvidenceTypeOK
  <2>2. \A n \in 1 .. written + 1 : n \in 1 .. written \/ n = written + 1
    BY <2>1
  <2> QED BY <2>1, <2>2 DEF WrittenInv
<1> QED BY <1>1, <1>2, <1>3 DEF EvidenceNext, EvidenceMonitor, EvidenceOpenDevice, EvidenceTakeSample,
           EvidencePublish, EvidenceSampleFails, EvidenceStorage, EvidenceReceives,
           EvidenceCompletes, EvidenceFails, EvidenceRestart, evidenceVars, allVars

\* Storage that gave up stays so until the daemon starts again.
LEMMA EvidenceFailedStays ==
    ASSUME TypeOK, [EvidenceNext]_allVars, store.pc = "failed", ~EvidenceRestart
    PROVE  store'.pc = "failed"
<1>1. CASE StorageWritesEvidence
  BY <1>1 DEF StorageWritesEvidence, AfterIncidents
<1>2. CASE ~StorageWritesEvidence /\ EvidenceNext
  BY <1>2 DEF EvidenceNext, EvidenceMonitor, EvidenceOpenDevice, EvidenceTakeSample, EvidencePublish,
         EvidenceSampleFails, EvidenceStorage, EvidenceReceives, EvidenceCompletes, EvidenceFails,
         OpenDevice, OpenFails, TakeSample, Publish, SampleFails, MonitorExits,
         StorageReceives, StorageRecords, StorageUpserts, StorageCompletes, StorageFails,
         StorageExits, Signal, Acknowledge, AcknowledgeRow, AcknowledgeSnapshot, storageVars
<1>3. CASE UNCHANGED allVars
  BY <1>3 DEF allVars, vars, storageVars
<1> QED BY <1>1, <1>2, <1>3

\* Each step keeps the account of the evidence.
LEMMA ExplainedStep ==
    ASSUME TypeOK, TypeOK', ThreadsInv, EvidenceTypeOK, RingInv, WrittenInv,
           NEW X, NEW T, Explained(X, T), store.pc # "failed",
           [EvidenceNext]_allVars, store'.pc # "failed"
    PROVE  \E E, F : Explained(E, F)'
<1> USE DEF monitorVars, storageVars, historyVars
<1>1. CASE EvidenceTakeSample
  BY <1>1, SampleExplains
<1>2. CASE EvidenceSampleFails
  <2>1. Receiving
    BY <1>2, ReceivedWhileRunning DEF EvidenceSampleFails, SampleFails, Polling
  <2> QED BY <1>2, <2>1, FailureExplains
<1>3. CASE EvidenceRestart
  <2>1. /\ produced' = NothingProduced /\ counts' = [dropped |-> 0, truncated |-> 0]
    BY <1>3 DEF EvidenceRestart, Restart
  <2>2. Explained({}, {})'
    BY <2>1, FS_EmptySet DEF Explained, Raised, NothingProduced
  <2> QED BY <2>2
<1>4. ASSUME produced' = produced, counts' = counts, Latest' = Latest,
             forgone' = forgone, capturing' = capturing,
             evidence \cup EvidenceOnTheWay \subseteq evidence' \cup EvidenceOnTheWay'
      PROVE  \E E, F : Explained(E, F)'
  BY <1>4, QuietExplains
<1>5. ASSUME NEW d \in Devices, EvidenceOpenDevice(d)
      PROVE  \E E, F : Explained(E, F)'
  <2>1. /\ produced' = produced /\ counts' = counts /\ UNCHANGED <<waiting, held, carried, evidence>>
        /\ mon = "top" /\ mon' = "opened" /\ cycle' = cycle
    BY <1>5 DEF EvidenceOpenDevice, OpenDevice
  <2>2. Latest' = Latest
    BY <2>1 DEF Latest
  <2>3. /\ forgone.windows \subseteq forgone'.windows
        /\ \A w \in ToSet(capturing) : w \in ToSet(capturing') \/ w.id \in forgone'.windows
    <3>1. CASE current = d
      BY <1>5, <3>1 DEF EvidenceOpenDevice
    <3>2. CASE current # d
      <4>1. forgone'.windows = forgone.windows \cup {w.id : w \in ToSet(capturing)}
        BY <1>5, <3>2 DEF EvidenceOpenDevice, EvidenceTypeOK
      <4> QED BY <4>1
    <3> QED BY <3>1, <3>2
  <2>4. EvidenceOnTheWay' = EvidenceOnTheWay
    BY <2>1 DEF EvidenceOnTheWay
  <2> QED BY <2>1, <2>2, <2>3, <2>4, QuietExplains
<1>6. CASE EvidencePublish
  <2>1. /\ Publish /\ mon = "observed" /\ mon' = "top" /\ cycle' = cycle + 1 /\ cycle \in Nat
        /\ produced' = produced
        /\ Ride(waiting) /\ UNCHANGED <<capturing, held, evidence, counts, forgone>>
        /\ waiting \in Seq(Reading)
    BY <1>6 DEF EvidencePublish, Publish, TypeOK, EvidenceTypeOK
  <2>2. Latest' = Latest
    BY <2>1 DEF Latest
  <2>3. Receiving
    BY <2>1, ReceivedWhileRunning
  <2>4. queue' = queue \/ \E item : Sent(item)
    BY <2>1 DEF Publish, Full, Gone
  <2>5. EvidenceOnTheWay \subseteq EvidenceOnTheWay'
    BY <2>1, <2>3, <2>4, RidesOn
  <2> QED BY <1>4, <2>1, <2>2, <2>5
<1>7. CASE EvidenceReceives
  <2>1. UNCHANGED <<produced, mon, cycle, capturing, waiting, evidence, counts, forgone>>
        /\ store.pc = "idle"
    BY <1>7 DEF EvidenceReceives, StorageReceives
  <2>2. Latest' = Latest
    BY <2>1 DEF Latest
  <2>3. /\ Len(queue) \in Nat /\ Len(queue) > 0 /\ DOMAIN carried = 1 .. Len(queue)
        /\ held' = carried[1] /\ DOMAIN carried' = 1 .. Len(queue) - 1
        /\ \A n \in DOMAIN carried' : carried'[n] = carried[n + 1]
    BY <1>7, HeadOfCarried
  <2>4. ToSet(held) = {}
    BY <2>1 DEF EvidenceTypeOK, ToSet
  <2>5. ASSUME NEW n \in DOMAIN carried, NEW e \in ToSet(carried[n])
        PROVE  e \in EvidenceOnTheWay'
    <3>1. CASE n = 1
      BY <2>3, <2>5, <3>1, EvidenceOnTheWayIsNext
    <3>2. CASE n # 1
      <4>1. n - 1 \in DOMAIN carried' /\ (n - 1) + 1 = n
        BY <2>3, <3>2
      <4>2. e \in ToSet(carried'[n - 1])
        BY <2>3, <2>5, <4>1
      <4> QED BY <4>1, <4>2, EvidenceOnTheWayIsNext
    <3> QED BY <3>1, <3>2
  <2>6. \A e \in EvidenceOnTheWay : e \in EvidenceOnTheWay'
    BY <2>1, <2>4, <2>5, EvidenceOnTheWayIs, EvidenceOnTheWayIsNext
  <2> QED BY <1>4, <2>1, <2>2, <2>6
<1>8. CASE EvidenceCompletes
  <2>1. /\ UNCHANGED <<produced, mon, cycle, capturing, waiting, carried, evidence, counts, forgone>>
        /\ written = Len(held)
    BY <1>8 DEF EvidenceCompletes, StorageCompletes
  <2>2. Latest' = Latest
    BY <2>1 DEF Latest
  <2>3. \A e \in ToSet(held) : e \in evidence
    <3>1. held \in Seq(Reading)
      BY DEF EvidenceTypeOK
    <3> QED BY <2>1, <3>1, LenProperties DEF WrittenInv, ToSet
  <2>4. \A e \in EvidenceOnTheWay : e \in evidence' \cup EvidenceOnTheWay'
    BY <2>1, <2>3, EvidenceOnTheWayIs, EvidenceOnTheWayIsNext
  <2> QED BY <1>4, <2>1, <2>2, <2>4
<1>9. CASE EvidenceFails
  <2>1. ~stop
    BY <1>9 DEF EvidenceFails, StorageFails
  <2>2. UNCHANGED <<produced, mon, cycle, capturing, waiting, held, carried, evidence, counts, forgone>>
    BY <1>9, <2>1 DEF EvidenceFails, StorageFails
  <2>3. Latest' = Latest /\ EvidenceOnTheWay' = EvidenceOnTheWay
    BY <2>2 DEF Latest, EvidenceOnTheWay
  <2> QED BY <1>4, <2>2, <2>3
<1>10. CASE StorageWritesEvidence
  <2>1. /\ UNCHANGED <<produced, mon, cycle, capturing, waiting, held, carried, counts, forgone>>
        /\ evidence \subseteq evidence'
    BY <1>10 DEF StorageWritesEvidence, vars
  <2>2. Latest' = Latest /\ EvidenceOnTheWay' = EvidenceOnTheWay
    BY <2>1 DEF Latest, EvidenceOnTheWay
  <2> QED BY <1>4, <2>1, <2>2
<1>11. CASE /\ OpenFails \/ MonitorExits \/ StorageRecords \/ StorageUpserts \/ StorageExits
               \/ Signal \/ \E c \in Clients : Acknowledge(c)
            /\ UNCHANGED evidenceVars
  <2>1. produced' = produced /\ Latest' = Latest
    BY <1>11 DEF OpenFails, MonitorExits, StorageRecords, StorageUpserts, StorageExits, Signal,
                 Acknowledge, AcknowledgeRow, AcknowledgeSnapshot, Latest
  <2>2. UNCHANGED <<capturing, counts, forgone, evidence, EvidenceOnTheWay>>
    BY <1>11 DEF evidenceVars, EvidenceOnTheWay
  <2> QED BY <1>4, <2>1, <2>2
<1>12. CASE UNCHANGED allVars
  <2>1. produced' = produced /\ Latest' = Latest
    BY <1>12 DEF allVars, vars, Latest
  <2>2. UNCHANGED <<capturing, counts, forgone, evidence, EvidenceOnTheWay>>
    BY <1>12 DEF allVars, evidenceVars, EvidenceOnTheWay
  <2> QED BY <1>4, <2>1, <2>2
<1> QED BY <1>1, <1>2, <1>3, <1>5, <1>6, <1>7, <1>8, <1>9, <1>10, <1>11, <1>12
    DEF EvidenceNext, EvidenceMonitor, EvidenceStorage

\* Of a window that was truncated no more is missing than the samples it takes.
LEMMA TruncatedAreFew ==
    ASSUME TypeOK, RingInv, NEW T, IsFiniteSet(T), NEW t \in Nat, Cardinality(T) <= t,
           NEW B, \A e \in B : /\ OfTruncated(e, T)
                               /\ \E u \in Raised : \E s \in produced.samples : e = Of(IdOf(u), s)
    PROVE  IsFiniteSet(B) /\ Cardinality(B) <= (After + 1) * t
<1> DEFINE f == [e \in B |-> <<e.id, e.sample.at - e.id.at>>]
           places == 0 .. After
           target == T \X places
<1>1. After \in Nat
  BY EvidenceAssumption
<1>2. ASSUME NEW e \in B
      PROVE  /\ e.id \in T /\ e.id.at \in Nat /\ e.sample.at \in Nat
             /\ e.sample.at - e.id.at \in places
             /\ e.sample \in produced.samples /\ e = Of(e.id, e.sample)
  <2>1. PICK u \in Raised : \E s \in produced.samples : e = Of(IdOf(u), s)
    OBVIOUS
  <2>2. PICK s \in produced.samples : e = Of(IdOf(u), s)
    BY <2>1
  <2>3. u.at \in Nat /\ s.at \in Nat
    BY LatestType
  <2>4. e.id = IdOf(u) /\ e.sample = s /\ e.id.at = u.at
    BY <2>2 DEF Of, IdOf
  <2>5. e.id \in T /\ e.sample.at \in e.id.at .. e.id.at + After
    BY DEF OfTruncated
  <2>6. s.at - u.at \in 0 .. After
    BY <1>1, <2>3, <2>4, <2>5
  <2> QED BY <2>2, <2>3, <2>4, <2>5, <2>6
<1>3. f \in [B -> target]
  BY <1>2
<1>4. ASSUME NEW d \in B, NEW e \in B, f[d] = f[e]
      PROVE  d = e
  <2>1. d.id = e.id /\ d.sample.at - d.id.at = e.sample.at - e.id.at
    BY <1>4
  <2>2. d.sample.at = e.sample.at
    BY <1>2, <2>1
  <2>3. d.sample = e.sample
    BY <1>2, <2>2 DEF RingInv
  <2>4. d = Of(d.id, d.sample) /\ e = Of(e.id, e.sample)
    BY <1>2
  <2> HIDE DEF f
  <2> QED BY <2>1, <2>3, <2>4
<1>5. f \in Injection(B, target)
  <2> HIDE DEF f, target
  <2> QED BY <1>3, <1>4 DEF Injection, IsInjective
<1>6. IsFiniteSet(places) /\ Cardinality(places) = After + 1
  <2>1. 0 \in Int /\ After \in Int /\ 0 <= After + 1
    BY <1>1
  <2> QED BY <1>1, <2>1, FS_Interval
<1> HIDE DEF places
<1>7. IsFiniteSet(target) /\ Cardinality(target) = Cardinality(T) * (After + 1)
  BY <1>6, FS_Product
<1> HIDE DEF f, target
<1>8. IsFiniteSet(B) /\ Cardinality(B) <= Cardinality(target)
  BY <1>5, <1>7, FS_Injection
<1>9. Cardinality(T) \in Nat /\ Cardinality(B) \in Nat
  BY <1>8, FS_CardinalityType
<1>10. \A a, b, c \in Nat : a <= b => a * (c + 1) <= (c + 1) * b
  <2> SUFFICES ASSUME NEW a \in Nat, NEW b \in Nat, NEW c \in Nat, a <= b
               PROVE  a * (c + 1) <= (c + 1) * b
    OBVIOUS
  <2>1. PICK d \in Nat : b = a + d
    <3>1. b - a \in Nat /\ b = a + (b - a)
      OBVIOUS
    <3> QED BY <3>1
  <2>2. (c + 1) * b = a * (c + 1) + d * (c + 1)
    BY <2>1
  <2>3. a * (c + 1) \in Nat /\ d * (c + 1) \in Nat
    OBVIOUS
  <2> QED BY <2>2, <2>3
<1>11. Cardinality(T) * (After + 1) <= (After + 1) * t
  BY <1>1, <1>9, <1>10
<1>12. Cardinality(T) * (After + 1) \in Nat /\ (After + 1) * t \in Nat
  BY <1>1, <1>9
<1> QED BY <1>7, <1>8, <1>9, <1>11, <1>12

\* The account, while storage has not given up.
AccountInv ==
    /\ RingInv
    /\ WrittenInv
    /\ store.pc # "failed" => \E X, T : Explained(X, T)

\* The evidence of every incident is complete but for what is counted, and for
\* what the end of another device's windows leaves out: whatever is full, fails
\* or is repeated, no other reading of its window is missing (start, the ring and
\* the windows, bound_pending_evidence, record_evidence).
THEOREM EvidenceIsCounted == EvidenceSpec => []EvidenceIsAccounted
<1>1. EvidenceInit => AccountInv
  <2> SUFFICES ASSUME EvidenceInit PROVE AccountInv
    OBVIOUS
  <2>1. /\ produced = NothingProduced /\ mon = "top" /\ written = 0
        /\ counts = [dropped |-> 0, truncated |-> 0]
    BY DEF EvidenceInit, Init
  <2>2. Explained({}, {})
    BY <2>1, FS_EmptySet DEF Explained, Raised, NothingProduced
  <2>3. RingInv /\ WrittenInv
    BY <2>1 DEF RingInv, WrittenInv, Raised, NothingProduced
  <2> QED BY <2>2, <2>3 DEF AccountInv
<1>2. TypeOK /\ TypeOK' /\ ThreadsInv /\ EvidenceTypeOK /\ AccountInv /\ [EvidenceNext]_allVars
        => AccountInv'
  <2> SUFFICES ASSUME TypeOK, TypeOK', ThreadsInv, EvidenceTypeOK, AccountInv, [EvidenceNext]_allVars
               PROVE  AccountInv'
    OBVIOUS
  <2>1. RingInv' /\ WrittenInv'
    BY RingStep, WrittenStep DEF AccountInv
  <2>2. ASSUME store'.pc # "failed"
        PROVE  \E E, F : Explained(E, F)'
    <3>1. CASE EvidenceRestart
      <4>1. produced' = NothingProduced /\ counts' = [dropped |-> 0, truncated |-> 0]
        BY <3>1 DEF EvidenceRestart, Restart
      <4>2. Explained({}, {})'
        BY <4>1, FS_EmptySet DEF Explained, Raised, NothingProduced
      <4> QED BY <4>2
    <3>2. CASE store.pc # "failed"
      <4>1. PICK X, T : Explained(X, T)
        BY <3>2 DEF AccountInv
      <4> QED BY <2>2, <3>2, <4>1, ExplainedStep DEF AccountInv
    <3>3. CASE store.pc = "failed" /\ ~EvidenceRestart
      BY <2>2, <3>3, EvidenceFailedStays
    <3> QED BY <3>1, <3>2, <3>3
  <2> QED BY <2>1, <2>2 DEF AccountInv
<1>3. TypeOK /\ EvidenceTypeOK /\ AccountInv => EvidenceIsAccounted
  <2> DEFINE due == UNION {Due(u) : u \in Raised}
             missing == due \ (evidence \cup EvidenceOnTheWay)
  <2> SUFFICES ASSUME TypeOK, EvidenceTypeOK, AccountInv, store.pc # "failed"
               PROVE  Cardinality(missing) <= counts.dropped + (After + 1) * counts.truncated
    BY DEF EvidenceIsAccounted, Raised
  <2>1. PICK X, T : Explained(X, T)
    BY DEF AccountInv
  <2>2. /\ counts.dropped \in Nat /\ counts.truncated \in Nat /\ After \in Nat
        /\ IsFiniteSet(X) /\ Cardinality(X) <= counts.dropped
        /\ IsFiniteSet(T) /\ Cardinality(T) <= counts.truncated
    BY <2>1, EvidenceAssumption DEF Explained, EvidenceTypeOK
  <2> DEFINE B == {e \in missing : OfTruncated(e, T)}
  <2>3. missing \subseteq X \cup B
    BY <2>1 DEF Explained
  <2>4. \A e \in B : /\ OfTruncated(e, T)
                     /\ \E u \in Raised : \E s \in produced.samples : e = Of(IdOf(u), s)
    BY DueIs DEF DueOf
  <2> HIDE DEF B, missing
  <2>5. IsFiniteSet(B) /\ Cardinality(B) <= (After + 1) * counts.truncated
    <3>1. RingInv
      BY DEF AccountInv
    <3> QED BY <2>2, <2>4, <3>1, TruncatedAreFew
  <2>6. (After + 1) * counts.truncated \in Nat
    BY <2>2
  <2> DEFINE most == (After + 1) * counts.truncated
  <2>7. most \in Nat /\ Cardinality(B) <= most
    BY <2>5, <2>6
  <2> HIDE DEF most
  <2>8. /\ IsFiniteSet(X \cup B)
        /\ Cardinality(X \cup B) <= counts.dropped + most
    BY <2>2, <2>5, <2>7, CountMore
  <2>9. counts.dropped + most \in Nat
    BY <2>2, <2>7
  <2>10. Cardinality(missing) <= counts.dropped + most
    BY <2>3, <2>8, <2>9, PartIsBounded
  <2> QED BY <2>10 DEF most
<1>4. EvidenceSpec => []TypeOK /\ []ThreadsInv
  BY EvidenceKeepsRuntime, RuntimeTypeCorrect, ThreadsAgree, PTL
<1> QED BY <1>1, <1>2, <1>3, <1>4, EvidenceTypeCorrect, PTL DEF EvidenceSpec

=============================================================================
