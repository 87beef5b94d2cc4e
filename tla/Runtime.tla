------------------------------- MODULE Runtime -------------------------------
(***************************************************************************)
(* The daemon's runtime (src/runtime.rs) with the incident side of its     *)
(* database (src/history.rs) and the Acknowledge request (src/ipc.rs).     *)
(*                                                                         *)
(* The monitor thread takes a sample in every cycle, lets the alert engine *)
(* observe it and hands the sample and the incident updates to the storage *)
(* thread over a bounded queue. It never waits for storage: what does not  *)
(* fit is kept (the updates, up to a limit) or counted as dropped. The     *)
(* storage thread writes one item at a time, each statement a transaction  *)
(* of its own, and starts the item again when a statement fails. A client  *)
(* that acknowledges an incident writes the database first and the shared  *)
(* snapshot second. The threads meet in the snapshot, under its lock, and  *)
(* in the database; every action below is one critical section, or one     *)
(* transaction, with the thread's local steps up to it.                    *)
(*                                                                         *)
(* The engine does whatever Incidents!ObserveMay allows: AlertEngine is    *)
(* shown to do no more. Evidence samples, which travel in the same items,  *)
(* are added by module Evidence; the texts of errors are left out.         *)
(***************************************************************************)
EXTENDS Incidents, Sequences, FiniteSets, SequencesExt

CONSTANTS
    Clients,        \* connections that may acknowledge
    QueueSize,      \* STORAGE_QUEUE_SIZE
    MaxPending,     \* MAX_PENDING_EVENTS
    MaxCycles,      \* bound: cycles of the monitor
    MaxFailures,    \* bound: failed statements of the storage thread
    MaxRestarts     \* bound: crashes and orderly stops

ASSUME RuntimeAssumption ==
    /\ IsFiniteSet(Kinds)
    /\ None \notin Devices /\ None \notin [device : Devices, at : Nat]
    /\ QueueSize \in Nat \ {0}
    /\ MaxPending \in Nat \ {0}
    /\ MaxCycles \in Nat
    /\ MaxFailures \in Nat
    /\ MaxRestarts \in Nat

VARIABLES
    stop,       \* STOP
    mon,        \* the monitor thread: where it is in its loop
    device,     \* the open device, or None
    current,    \* current_id
    engine,     \* engine.active
    pending,    \* pending_events
    taken,      \* the sample of this cycle, before it is published
    shared,     \* the Snapshot behind the lock
    queue,      \* the channel to the storage thread
    store,      \* the storage thread: where it is, its item, statements done
    rows,       \* table incidents
    samples,    \* table samples
    startup,    \* `active', the open incidents read at start
    client,     \* per connection: the incident whose snapshot entry it will mark
    cycle,      \* the number of cycles so far, which is also the time
    failures,   \* failed statements so far
    restarts,   \* restarts so far
    produced,   \* history: updates and samples since the daemon started
    acked       \* history: incidents whose acknowledgement was answered

monitorVars == <<mon, device, current, engine, pending, taken, cycle>>
storageVars == <<store, rows, samples, failures>>
historyVars == <<produced, acked>>
vars == <<stop, monitorVars, shared, queue, storageVars, startup, client, restarts,
          historyVars>>

Sample == [device : Devices, at : Nat]
Item == [sample : Sample, events : Seq(Incident)]
NoItem == None

\* Rows and snapshot entries of the same incident: the UUID is kind and at.
Same(i, j) == i.kind = j.kind /\ i.at = j.at

Snapshot == [active : SUBSET Incident, connected : BOOLEAN, storageError : BOOLEAN,
             telemetry : Sample \cup {None}, droppedSamples : Nat, droppedUpdates : Nat]

StoreState == [pc : {"idle", "busy", "drained", "failed"},
               item : Item \cup {NoItem}, done : Nat]
Produced == [updates : SUBSET Incident, samples : SUBSET Sample]

TypeOK ==
    /\ stop \in BOOLEAN
    /\ mon \in {"top", "opened", "observed", "exited"}
    /\ device \in Devices \cup {None}
    /\ current \in Devices \cup {None}
    /\ engine \in ActiveMaps
    /\ pending \in Seq(Incident)
    /\ taken \in Sample \cup {None}
    /\ shared \in Snapshot
    /\ queue \in Seq(Item) /\ Len(queue) <= QueueSize
    /\ store \in StoreState
    /\ store.pc = "busy" => store.item \in Item
    /\ mon = "observed" => taken \in Sample
    /\ mon = "opened" \/ device # None => current \in Devices
    /\ rows \subseteq Incident
    /\ samples \subseteq Sample
    /\ startup \subseteq {i \in Incident : i.until = None}
    /\ client \in [Clients -> Incident \cup {None}]
    /\ cycle \in Nat /\ failures \in Nat /\ restarts \in Nat
    /\ produced \in Produced
    /\ acked \subseteq Incident

-----------------------------------------------------------------------------
\* The database.

OpenRows == {r \in rows : r.until = None}

\* upsert_incident: a known incident gets the new recovery time and keeps its
\* acknowledgement.
UpsertWhole(i) == {r \in rows : ~Same(r, i)} \cup {i}
UpsertIfNew(i) == IF \E r \in rows : Same(r, i) THEN rows ELSE rows \cup {i}
Upsert(i) ==
    IF \E r \in rows : Same(r, i)
    THEN {IF Same(r, i) THEN [r EXCEPT !.until = i.until] ELSE r : r \in rows}
    ELSE rows \cup {i}

-----------------------------------------------------------------------------
\* Starting.

\* The snapshot that start makes of the open incidents of the database, with
\* those of every device.
FirstSnapshot(open) ==
    [active |-> open, connected |-> FALSE, storageError |-> FALSE,
     telemetry |-> None, droppedSamples |-> 0, droppedUpdates |-> 0]

IdleStore == [pc |-> "idle", item |-> NoItem, done |-> 0]
NothingProduced == [updates |-> {}, samples |-> {}]

Init ==
    /\ rows = {} /\ samples = {}
    /\ stop = FALSE
    /\ mon = "top" /\ device = None /\ current = None
    /\ engine = NoneActive /\ pending = <<>> /\ taken = None
    /\ shared = FirstSnapshot({}) /\ startup = {}
    /\ queue = <<>> /\ store = IdleStore
    /\ client = [c \in Clients |-> None]
    /\ cycle = 0 /\ failures = 0 /\ restarts = 0
    /\ produced = NothingProduced /\ acked = {}

Stopped == mon = "exited" /\ store.pc \in {"drained", "failed"}

\* The process ends, in good order or at any moment, and starts again: of its
\* memory nothing is left.
Restart ==
    /\ restarts < MaxRestarts
    /\ restarts' = restarts + 1
    /\ stop' = FALSE
    /\ mon' = "top" /\ device' = None /\ current' = None
    /\ engine' = NoneActive /\ pending' = <<>> /\ taken' = None
    /\ shared' = FirstSnapshot(OpenRows) /\ startup' = OpenRows
    /\ queue' = <<>> /\ store' = IdleStore
    /\ client' = [c \in Clients |-> None]
    /\ produced' = NothingProduced
    /\ UNCHANGED <<rows, samples, cycle, failures, acked>>

\* A signal asks the daemon to stop.
Signal ==
    /\ ~stop
    /\ stop' = TRUE
    /\ UNCHANGED <<monitorVars, shared, queue, storageVars, startup, client, restarts,
                   historyVars>>

-----------------------------------------------------------------------------
\* The monitor thread.

\* The engine's map built from open incidents: of several of one kind the
\* oldest comes last in the query and stays.
Oldest(of) ==
    LET first == {i \in of : \A j \in of : i.at <= j.at}
    IN  IF first = {} THEN None ELSE CHOOSE i \in first : TRUE

RestoredUnacknowledged(open, d) ==
    [k \in Kinds |-> Oldest({i \in open : i.device = d /\ i.kind = k /\ ~i.acked})]
RestoredOfAnyDevice(open, d) == [k \in Kinds |-> Oldest({i \in open : i.kind = k})]
Restored(open, d) ==
    [k \in Kinds |-> Oldest({i \in open : i.device = d /\ i.kind = k})]

\* The device is found. Another device than before gets an engine of its own,
\* from the database or, when that cannot be read, from what start read.
OpenDevice(d) ==
    /\ mon = "top" /\ ~stop /\ device = None /\ cycle < MaxCycles
    /\ device' = d
    /\ current' = d
    /\ IF current = d THEN engine' = engine
       ELSE \E open \in {OpenRows, startup} : engine' = Restored(open, d)
    /\ mon' = "opened"
    /\ UNCHANGED <<stop, pending, taken, cycle, shared, queue, storageVars, startup, client,
                   restarts, historyVars>>

\* The device is not there; the loop tries again.
OpenFails ==
    /\ mon = "top" /\ ~stop /\ device = None
    /\ shared' = [shared EXCEPT !.connected = FALSE]
    /\ UNCHANGED <<stop, monitorVars, queue, storageVars, startup, client, restarts,
                   historyVars>>

Polling == mon = "opened" \/ (mon = "top" /\ ~stop /\ device # None)

\* The engine takes the acknowledgement of each of its incidents that the
\* snapshot also has.
Merged ==
    [k \in Kinds |->
        IF engine[k] # None /\ \E i \in shared.active : Same(i, engine[k])
        THEN [engine[k] EXCEPT !.acked =
                 (CHOOSE i \in shared.active : Same(i, engine[k])).acked]
        ELSE engine[k]]

\* bound_pending: the oldest updates beyond the limit are dropped and counted.
Overflow(events) == IF Len(events) > MaxPending THEN Len(events) - MaxPending ELSE 0
Bounded(events) == SubSeq(events, Overflow(events) + 1, Len(events))

\* A sample is taken and observed; its updates join those still pending.
TakeSample ==
    /\ Polling /\ cycle < MaxCycles
    /\ \E recovered, raised \in SUBSET Kinds :
        /\ ObserveMay(Merged, recovered, raised)
        /\ LET new == Updates(Merged, recovered, raised, current, cycle)
               events == pending \o SetToSeq(new)
           IN  /\ engine' = ActiveAfter(Merged, recovered, raised, current, cycle)
               /\ pending' = Bounded(events)
               /\ shared' = [shared EXCEPT !.droppedUpdates = @ + Overflow(events)]
               /\ produced' = [updates |-> produced.updates \cup new,
                               samples |-> produced.samples \cup
                                           {[device |-> current, at |-> cycle]}]
    /\ taken' = [device |-> current, at |-> cycle]
    /\ mon' = "observed"
    /\ UNCHANGED <<stop, device, current, cycle, queue, storageVars, startup, client, restarts,
                   acked>>

\* try_send: the queue takes the item, is full and gives it back, or has no
\* receiver any more and the item is gone.
Receiving == store.pc \in {"idle", "busy"}
Sent(item) == Receiving /\ Len(queue) < QueueSize /\ queue' = Append(queue, item)
Full == Receiving /\ Len(queue) >= QueueSize /\ UNCHANGED queue
Gone == ~Receiving /\ UNCHANGED queue

\* engine.active.values()
Live(act) == {act[k] : k \in Open(act)}

\* A sample that the queue did not take is counted.
DroppedIfGone(sent) ==
    IF sent \/ Receiving THEN shared.droppedSamples ELSE shared.droppedSamples + 1
Dropped(sent) == IF sent THEN shared.droppedSamples ELSE shared.droppedSamples + 1

Publish ==
    /\ mon = "observed"
    /\ \/ Sent([sample |-> taken, events |-> pending]) /\ pending' = <<>>
       \/ Full /\ UNCHANGED pending
       \/ Gone /\ pending' = <<>>
    /\ LET sent == queue' # queue IN
       shared' = [shared EXCEPT !.active = Live(engine), !.connected = TRUE, !.telemetry = taken,
                                !.storageError = @ \/ ~sent,
                                !.droppedSamples = Dropped(sent)]
    /\ taken' = None
    /\ cycle' = cycle + 1
    /\ mon' = "top"
    /\ UNCHANGED <<stop, device, current, engine, storageVars, startup, client, restarts,
                   historyVars>>

\* A sample cannot be taken: the incident that says so is raised, and the last
\* sample goes to storage again to carry it. The device is closed.
SampleFails ==
    /\ Polling /\ cycle < MaxCycles
    /\ LET last == shared.telemetry
           raised == IF last = None THEN {} ELSE LostRaises(engine)
           new == Updates(engine, {}, raised, last.device, cycle)
           events == IF raised = {} THEN pending ELSE pending \o SetToSeq(new)
       IN  /\ engine' = IF raised = {} THEN engine
                        ELSE ActiveAfter(engine, {}, raised, last.device, cycle)
           /\ produced' = IF raised = {} THEN produced
                          ELSE [produced EXCEPT !.updates = @ \cup new]
           /\ IF last = None THEN UNCHANGED <<pending, queue>>
              ELSE \/ Sent([sample |-> last, events |-> events]) /\ pending' = <<>>
                   \/ Full /\ pending' = events
                   \/ Gone /\ pending' = <<>>
           /\ shared' = [shared EXCEPT !.active = Live(engine'), !.connected = FALSE,
                                       !.storageError = @ \/ (last # None /\ Full)]
    /\ device' = None
    /\ cycle' = cycle + 1
    /\ mon' = "top"
    /\ UNCHANGED <<stop, current, taken, storageVars, startup, client, restarts, acked>>

\* The thread leaves its loop; what is still pending is not sent any more.
MonitorExitsIfConnected ==
    /\ mon = "top" /\ stop /\ device # None
    /\ mon' = "exited"
    /\ UNCHANGED <<stop, device, current, engine, pending, taken, cycle, shared, queue,
                   storageVars, startup, client, restarts, historyVars>>
MonitorExits ==
    /\ mon = "top" /\ stop
    /\ mon' = "exited"
    /\ UNCHANGED <<stop, device, current, engine, pending, taken, cycle, shared, queue,
                   storageVars, startup, client, restarts, historyVars>>

-----------------------------------------------------------------------------
\* The storage thread.

StorageReceives ==
    /\ store.pc = "idle" /\ queue # <<>>
    /\ store' = [pc |-> "busy", item |-> Head(queue), done |-> 0]
    /\ queue' = Tail(queue)
    /\ UNCHANGED <<stop, monitorVars, shared, rows, samples, failures, startup, client,
                   restarts, historyVars>>

\* record: a sample that is there already is ignored.
StorageRecords ==
    /\ store.pc = "busy" /\ store.done = 0
    /\ samples' = samples \cup {store.item.sample}
    /\ store' = [store EXCEPT !.done = 1]
    /\ UNCHANGED <<stop, monitorVars, shared, queue, rows, failures, startup, client,
                   restarts, historyVars>>

\* upsert_incident of the next update of the item.
StorageUpserts ==
    /\ store.pc = "busy" /\ store.done \in 1 .. Len(store.item.events)
    /\ rows' = Upsert(store.item.events[store.done])
    /\ store' = [store EXCEPT !.done = @ + 1]
    /\ UNCHANGED <<stop, monitorVars, shared, queue, samples, failures, startup, client,
                   restarts, historyVars>>

\* The evidence and the pruning are done too.
StorageCompletes ==
    /\ store.pc = "busy" /\ store.done > Len(store.item.events)
    /\ shared' = [shared EXCEPT !.storageError = FALSE]
    /\ store' = IdleStore
    /\ UNCHANGED <<stop, monitorVars, queue, rows, samples, failures, startup, client,
                   restarts, historyVars>>

\* A statement fails: the whole item again after a pause, or, when the daemon
\* stops, the thread gives up and its queue with it.
RetryFromNext == [store EXCEPT !.done = @ + 1]
RetryAbandons == IdleStore
Retry == [store EXCEPT !.done = 0]
StorageFails ==
    /\ store.pc = "busy" /\ failures < MaxFailures
    /\ failures' = failures + 1
    /\ shared' = [shared EXCEPT !.storageError = TRUE]
    /\ IF stop
       THEN store' = [pc |-> "failed", item |-> NoItem, done |-> 0] /\ queue' = <<>>
       ELSE store' = Retry /\ UNCHANGED queue
    /\ UNCHANGED <<stop, monitorVars, rows, samples, startup, client, restarts, historyVars>>

\* The channel is empty and its sender gone.
StorageExits ==
    /\ store.pc = "idle" /\ queue = <<>> /\ mon = "exited"
    /\ store' = [store EXCEPT !.pc = "drained"]
    /\ UNCHANGED <<stop, monitorVars, shared, queue, rows, samples, failures, startup, client,
                   restarts, historyVars>>

-----------------------------------------------------------------------------
\* Acknowledge.

\* The transaction; an incident that is not in the table is an error.
AcknowledgeRow(c, i) ==
    /\ client[c] = None
    /\ i \in rows
    /\ rows' = {IF Same(r, i) THEN [r EXCEPT !.acked = TRUE] ELSE r : r \in rows}
    /\ client' = [client EXCEPT ![c] = i]
    /\ UNCHANGED <<stop, monitorVars, shared, queue, store, samples, failures, startup,
                   restarts, historyVars>>

\* The snapshot, under its lock, and the answer.
AcknowledgeSnapshot(c) ==
    /\ client[c] # None
    /\ shared' = [shared EXCEPT !.active =
                    {IF Same(j, client[c]) THEN [j EXCEPT !.acked = TRUE] ELSE j : j \in @}]
    /\ client' = [client EXCEPT ![c] = None]
    /\ acked' = acked \cup {client[c]}
    /\ UNCHANGED <<stop, monitorVars, queue, storageVars, startup, restarts, produced>>

-----------------------------------------------------------------------------
Monitor ==
    \/ \E d \in Devices : OpenDevice(d)
    \/ OpenFails
    \/ TakeSample
    \/ Publish
    \/ SampleFails
    \/ MonitorExits

Storage ==
    \/ StorageReceives
    \/ StorageRecords
    \/ StorageUpserts
    \/ StorageCompletes
    \/ StorageFails
    \/ StorageExits

Acknowledge(c) ==
    \/ \E i \in rows : AcknowledgeRow(c, i)
    \/ AcknowledgeSnapshot(c)

Next == Monitor \/ Storage \/ (\E c \in Clients : Acknowledge(c)) \/ Signal \/ Restart

Spec == Init /\ [][Next]_vars

\* Both threads run for as long as they have something to do. Nothing is assumed
\* about the device, the disk, the clients or the signal.
FairSpec == Spec /\ WF_vars(Monitor) /\ WF_vars(Storage)

-----------------------------------------------------------------------------
\* Properties.

\* An answered acknowledgement is in the database for good, whatever updates
\* of the incident are stored, or stored again, afterwards and whatever restarts
\* (upsert_incident leaves ack_ms alone; acknowledge keeps the first one).
AcknowledgementIsDurable ==
    \A i \in acked : \E r \in rows : Same(r, i) /\ r.acked

\* The updates on their way: in the item of the storage thread those not yet
\* done, those in the queue and those that are pending.
ToDo == {n \in DOMAIN store.item.events : n >= store.done}
InItem == IF store.pc = "busy" THEN {store.item.events[n] : n \in ToDo} ELSE {}
InQueue == UNION {ToSet(queue[n].events) : n \in DOMAIN queue}
OnTheWay == InItem \cup InQueue \cup ToSet(pending)

\* The table knows of the incident and, if it ended, of that end or a later one.
Stored(u) ==
    \E r \in rows : /\ Same(r, u)
                    /\ u.until # None => r.until # None /\ r.until >= u.until

\* Every incident update is stored, on its way, or counted as dropped; none
\* gets lost unnoticed between the engine, the pending list, the queue and a
\* storage thread that repeats a half-written item (installation.md:60). An
\* incident that is restored while its recovery is still on the way recovers
\* again, and the later time replaces the earlier one.
NoUpdateLostUnnoticed ==
    store.pc # "failed" =>
        Cardinality({u \in produced.updates : ~Stored(u) /\ u \notin OnTheWay})
            <= shared.droppedUpdates

Kept(s) ==
    \/ s \in samples
    \/ s = taken
    \/ \E n \in DOMAIN queue : queue[n].sample = s
    \/ store.pc = "busy" /\ store.item.sample = s

\* The same of the samples, each counted when the queue is full.
NoSampleLostUnnoticed ==
    store.pc # "failed" =>
        Cardinality({s \in produced.samples : ~Kept(s)}) <= shared.droppedSamples

\* When nothing is on its way and nothing was dropped, the open incidents of
\* the table are those the engine holds open: what a restart would restore is
\* what is live. It is of one power supply: one that comes back after another is
\* restored from the table while its own last updates may still be queued. And it
\* needs that no update was dropped since the table began, not only since the
\* counter did: a recovery that was dropped leaves its row open after a restart.
TableMatchesEngine ==
    /\ OnTheWay = {} /\ store.pc = "idle"
    /\ current # None /\ shared.droppedUpdates = 0
    => \A k \in Kinds :
        {r.at : r \in {r \in OpenRows : r.kind = k /\ r.device = current}}
            = IF engine[k] = None THEN {} ELSE {engine[k].at}

\* Every open incident of the device is with the engine again before its first
\* sample is taken: the daemon restores active incidents and reconciles them
\* using fresh readings (installation.md:66).
OpenIncidentsAreRestored ==
    mon = "opened" /\ produced = NothingProduced =>
        \A r \in OpenRows : r.device = current =>
            engine[r.kind] # None /\ Same(engine[r.kind], r)

\* The engine never holds a condition of a device other than the one it reads,
\* so that no reading of one device ends an incident of another (start, the new
\* engine for a changed identity and the device it restores for). The incident
\* that reports a loss is left out: it names the device of the last sample,
\* which is not yet the current one when the first sample of a device fails.
EngineIsOfDevice ==
    \A k \in Open(engine) \ {Monitoring} : engine[k].device = current

\* An acknowledged incident is not offered for notification again: the snapshot,
\* which the notifier reads, shows it acknowledged (README.md:78).
AcknowledgedIsSuppressed ==
    \A i \in shared.active : (\E j \in acked : Same(i, j)) => i.acked

\* A sample that the queue accepted is committed, unless the disk fails while
\* the daemon stops (installation.md:58).
AcceptedSampleCommits ==
    \A d \in Devices, n \in 0 .. MaxCycles :
        LET s == [device |-> d, at |-> n] IN
        (\E m \in DOMAIN queue : queue[m].sample = s)
            ~> (s \in samples \/ store.pc = "failed")

\* A stop asked for is carried out: both threads end, whatever the device and
\* the disk do, and main can join them.
StopEnds == stop ~> Stopped

=============================================================================
