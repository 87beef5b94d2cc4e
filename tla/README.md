# Railwatch in TLA+

Railwatch reads an MSI power supply over USB HID once a second, raises incidents
from what it reads, keeps a history in SQLite and serves both over Unix sockets to
a command line, a GUI, a desktop notifier and a Noctalia plugin. This directory
holds TLA+ models of the parts of it that keep state, the TLC runs that check
them on small instances, and proofs, checked by TLAPS, of the results that matter
most. Paths below are relative to the repository.

## Inventory

### Parts, their state and their operations

| Part | State | Operations | What makes it correct |
| --- | --- | --- | --- |
| Alert engine, `src/alerts.rs` | open incidents, two timers per kind, time and session of the last sample | `observe`, `monitoring_lost` | software incidents only for sustained conditions, hardware incidents follow the readings, updates tell the whole story |
| Monitor thread, `src/runtime.rs` | device, engine, pending updates, evidence ring and windows | one cycle: inspect, open, sample, observe, hand over, publish | never waits for storage, loses nothing silently, restores what was open, ends on stop |
| Storage thread, `src/runtime.rs` | one item, the connection | record, upsert, evidence, prune; retry | items are written whole or again, accepted samples commit |
| Shared snapshot | last sample, open incidents, policy, counters, errors | written by both threads and by requests, under one lock | agrees with the engine and with acknowledgements |
| Incidents and evidence, `src/history.rs` | tables `incidents`, `evidence` | `upsert_incident`, `acknowledge`, `incidents`, `record_evidence` | acknowledgements survive updates, open rows are those live |
| Energy ledger, `src/history.rs` | tables `samples`, `energy`, the previous sample | `record`, `prune`, `summary` | every observed span counted once, no span invented |
| Tariffs and policy, `src/history.rs`, `src/ipc.rs` | tables `tariffs`, `meta` | `set_tariff`, `set_policy`, pricing in `summary` | no lost update, one currency, each minute at its own price |
| Service, `src/ipc.rs`, `src/bin/daemon.rs` | client count, command queue | accept, dispatch, Watch, Inspect, stop | bounded clients, answers in time, orderly end |
| Notifier, `src/notify.rs` | deliveries per incident, silence | poll, deliver, save | bounded, spaced repetition; nothing critical goes unnoticed |
| HID transport, `crates/hardware` | one handle | drain, write, wait for the reply | an answer belongs to its request |
| Protocol, `crates/protocol`, `crates/hardware/src/decode.rs`, `crates/core` | none | decoding, number formats, imbalance, prices, calendar | exact over their whole range |
| Clients: `crates/client`, `src/plugin.rs`, `clients/gui`, `clients/noctalia` | last answer, two bounded queues in the GUI | call, stream, worker | staleness shown, closing ends the worker |
| Command line, migration, packaging | none | one request; one transaction | out of scope |

### Interactions

The monitor thread sends items over a channel of 16 to the storage thread and
publishes the snapshot. Client threads read the snapshot, read and write the
database through connections of their own, and send Inspect commands to the
monitor over a channel of 4. An Acknowledge writes the database and then the
snapshot; the monitor copies acknowledgements from the snapshot into its engine
before it observes a sample. The notifier and the plugin poll the snapshot. A
signal sets `STOP`, which every loop polls; `main` then joins both threads.

### What is hard

`PROJECT.json` lists each hazard at its line. In short: the threads meet only in the
snapshot and in the database and each step releases both; the storage thread
repeats half-written items; the process may die between any two statements and
its memory holds updates not stored yet; the queue and the pending list overflow;
samples stop, repeat and jump in time; register groups fail one by one; a signal
may find any of this under way.

## Plan

In this order; all but points 11 and 15 are done.

1. `Incidents`, `IncidentLifecycle`: vocabulary and abstract contract of the
   alert engine.
2. `AlertEngine`: the engine with its timers, refining the contract.
3. `Runtime`: both threads, queue, snapshot, incidents table, Acknowledge, crash,
   stop. It uses the contract of the engine.
4. Proofs about 1-3.
5. `EnergyLedger`: `record` with its minute loop, against the measure of the
   observed spans; duplicates, failures, crashes and clock steps.
6. `Notifier`: the delivery loop with crashes, failed saves and retention.
7. `PolicyRegister`, `Pricing`, `Settings`: the policy, which implements a register
   with a revision, dated prices and their sums, under concurrent requests; proofs
   of the three.
8. `Evidence`: evidence windows, which ride on the runtime's steps; the proof that
   they change nothing of it.
9. `Transport`: the exchange with the device, with late, refused and missing answers.
10. `Service`, `Desktop`: client threads with their limit, Inspect with its deadline,
    the window with its worker and queues; proofs of the safety of both.
11. Open: the pure functions of `crates/protocol`, `decode.rs` and `crates/core`
    against reference definitions; the framing of requests.
12. Further proofs about 2, 3, 5, 6 and 9: every safety property of `AlertEngine`,
    `EnergyLedger`, `Notifier` and `Transport`, and of `Runtime` those of the engine's
    device and of lost samples and updates.
13. Proofs about 8: both safety properties of the evidence.
14. The proof of 7's last property, `SummaryIsRight`.
15. The proofs of `TableMatchesEngine` and `OpenIncidentsAreRestored`.

## Modules and code

| Module | Code | State in the model | Steps |
| --- | --- | --- | --- |
| `Incidents` | `alerts.rs` 54-88, 176-224 | none: incidents, the map of open ones, its updates | operators shared by the next three |
| `IncidentLifecycle` | contract of `observe` and `monitoring_lost` | `active`, `emitted` | `Observe`, `MonitoringLost` |
| `AlertEngine` | `alerts.rs` whole, its caller's sessions | `active`, `pending`, `recovering`, `last` are the fields of the struct | `Monitor`, `MonitoringLost`, `Restart` |
| `Runtime` | `runtime.rs` 59-335, `history.rs` 300-330, `ipc.rs` 157-169 | below | below |
| `Evidence` | `runtime.rs` 89-112, 146-164, 229-310, 320-334, `history.rs` 338-344 | `ring`, `capturing`, `waiting` (`pending_evidence`), the evidence in each item, the table | those of `Runtime`, each with what it does with evidence, and `StorageWritesEvidence` |
| `EnergyLedger` | `history.rs` 71-121, 294-296 under the threads of `runtime.rs` | `previous` of `History`, tables `samples` and `energy`, the queue and the item | `Take`, `Lose`, `ClockSteps`, `StorageReceives`, `Record`, `StatementFails`, `Complete`, `Crash` |
| `Pricing` | `history.rs` 123-142, 209-273 | none: tables of prices and of energy, the answer of `summary` | operators of `Settings`, each with what it has to return |
| `Listing` | `runtime.rs` 243, the order of a query | none: the n-th of a set of numbers | an operator of `Evidence` and `Pricing` |
| `PolicyRegister` | contract of `SetPolicy` | `stored`, `inForce`, `accepted` | `Set`, `Enforce` |
| `Settings` | `ipc.rs` 142-147, 170-185, `history.rs` 32-70, 144-189, 357-377 | tables `tariffs`, `energy`, `meta`, the write lock, the Snapshot's policy and its lock, where each request is | the steps of SetPolicy, SetTariff and Energy, `Storage...`, `Restart` |
| `Transport` | `crates/hardware/src/lib.rs` 117-265, `runtime.rs` 133-173, 306-310 | the descriptor and its buffer, answers in flight, the exchange that is under way, the sample and its `group_errors` | `Send`, `Receive`, `TimesOut`, `Disconnects`; `Arrive`, `Intrude`, `Unplug`, `Plug`, `Tick` are the device and time |
| `Service` | `bin/daemon.rs` 122-183, `ipc.rs` 186-242, `crates/client` | `STOP`, the counter of clients, both ends of each connection, the queue of Inspect commands | `Accept`, `ReadFrame`, `ReadEnds`, `InspectEnds`, `WatchEnds`, `Leave`, `Inspect`, the end of the process |
| `Desktop` | `clients/gui/src/main.rs` 37-75, 334-544 | the window, its timer, the two queues, the worker with its call | `Press`, `TimerFires`, `Close`, `DropTimer`, `JoinWorker`; `Loop`, `Ask`, `Hear`, `Deliver`, `Take` are the worker |
| `Notifier` | `notify.rs` 36-69, 102-238 | `memory` is `state.deliveries`, `file` its saved copy | `Ask`, `Answer`, `NoAnswer`, `Deliver`, `Save`, `SaveFails`, `Crash`, `Start`; `Raise`, `Settle`, `Tick` are the world |

The `MC` modules give TLC its instances, the `Proofs` modules hold the theorems. A
few operators stand beside the one they resemble and are used by no action
(`OpenWindowsEarly`, `UpgradesLate`, `KeepTimer` and the like): they are the changed
forms under which a property must fail, named in `PROJECT.json` as mutants.

`AlertEngine` takes a sample as what the engine distinguishes of it: which register
groups could be read (`group_errors`), which kinds are set in them, and for each
connector the sum, spread and deviation of its six currents. Severity, message and
the reading attached to an incident are left out. `Restart` keeps the open incidents,
as if all of them were stored; what a crash loses is in `Runtime`. One call is one step, since the
engine is owned by the monitor thread alone.

`Runtime` cuts the threads where they release a lock or a transaction. The monitor
thread's cycle is `OpenDevice` or `OpenFails`, then `TakeSample` (read, merge the
acknowledgements of the snapshot under its lock, observe, bound the pending list)
and `Publish` (try to send and replace the snapshot under one lock), or
`SampleFails`; `MonitorExits` is the loop's test of `STOP`. The storage thread
receives, records, upserts one update a step (each is its own transaction),
completes, or fails and starts the item again. Acknowledge is the transaction and
then the snapshot. `Restart` is a crash between any two steps and the next start:
only `rows` and `samples` survive. The engine inside is the contract of
`Incidents`, which `AlertEngine` is proved to implement, so the runtime's results
hold whatever the readings are.

`Evidence` extends `Runtime` and superposes: each of its actions is one of the
runtime's with what it does to the ring, the windows and the readings that wait.
Readings ride where the item of the queue rides: into the queue, back to what is
pending, away, and through the repetition of a failed item, whose statements come
after those of the incidents. Both `crash` and `storage` check the runtime with
evidence; the two violation runs leave it out, to keep their traces short.

`Settings` cuts a request where it waits or lets others run: at the Snapshot's lock,
at `History::open`, at the beginning and the commit of its transaction, between the
two queries of Energy. SQLite is modelled from its use: one writer; a transaction that
began with a read becomes a writer only if nothing was committed since; a wait for
the lock ends with the lock or with an error. The storage thread is a writer that
takes and releases the lock as it likes.

`Transport` knows a report by its command, its age and whether its content is
accepted. Requests have no number in the protocol, so the model keeps with each
report the task that asked for it, which the code cannot see. `n` walks through the
commands of `open`, `diagnostics` and `telemetry` as their code does.

`Service` holds both ends of a connection in one record; requests that only read or
write the database and the snapshot are one kind, since `Settings` and `Runtime` have
their effect. A timeout may pass at any moment. `Desktop` extends it with the window,
each call of whose worker is a connection that may outlive the call in the daemon;
all other clients are `others`.

`EnergyLedger` has a copy of the queue and of the storage thread reduced to what the
ledger sees of them, with each sample's two clocks. The failing cycle that sends the
last sample a second time with the incident updates (runtime.rs:286-296) is part of
`Lose`. The loop over minutes becomes one update of all minutes, each by the part of
the span that lies in it.

`Notifier` keeps times as ages, so that its state space is finite without a bound on
time. A round of the loop is four steps, between which time passes: it begins and takes
the time (`Ask`), the daemon's answer shows what is pending (`Answer`, or `NoAnswer`), the
notification appears or fails (`Deliver`), the memory is saved. An entry has the time of
its round, as the code's `last_at_ms` has; the history `shown` has the time at which a
notification appeared, and how late in its round that was. `Deadline` bounds a round;
a machine that is suspended in the middle of one is outside of it.

## Runs

| Run | Question | Result |
| --- | --- | --- |
| `software_alerts` | do software incidents open and close exactly for sustained conditions, over samples, gaps, losses, restarts and policy changes? | holds |
| `hardware_alerts` | do hardware incidents follow the latest readings, do the updates replay to the open incidents, does the engine implement its contract? | holds |
| `crash` | do answered acknowledgements survive; is the table what is live, and what is restored? | holds while no statement fails and nothing is dropped |
| `storage` | on a slow and failing disk, with two power supplies that are exchanged: is every update, sample and reading of evidence stored, under way or counted; has evidence its incident; does an exchange mix incidents; do accepted samples commit; does a stop end both threads? | holds, the last two under fairness |
| `lost_acknowledgement` | does an acknowledgement suppress delivery? | violated, finding 1 |
| `orphaned_row` | are open incidents restored after failures and a crash? | violated, finding 2 |
| `energy_ledger` | is the ledger the integral of the stored samples, and no more? | holds |
| `notifier` | are repetitions bounded and spaced; is an open incident shown, or are its attempts used up? | holds with two exceptions, below; the last under fairness |
| `shared_notification` | do incidents observed together share one notification? | violated, finding 3 |
| `settings` | is the policy a register that loses no update; do concurrent requests keep the prices in order; are costs right while prices and energy change; is the Snapshot's lock released although the database is locked? | holds, the last under fairness |
| `transport` | is a sample made of recent answers to its own groups; does it say what it lacks; does a cycle end in bounded time, whatever the device does? | holds |
| `desktop` | do client threads keep to their limit and end; does an Inspect get its own answer; is every action of the window answered, and does the window close? | holds, the liveness under fairness |

Every property of a passing run has a mutant in `PROJECT.json`, a change of one
definition as a plausible bug would make it, under which TLC finds the property
violated.

### Findings

1. The monitor thread merges acknowledgements in one critical section
   (runtime.rs:218-226) and replaces the snapshot's incidents with the engine's in a
   later one (runtime.rs:275), or without any merge when a sample fails
   (runtime.rs:305). An acknowledgement in between stays in the database but is gone
   from the snapshot, so that no later merge brings it to the engine: the notifier
   goes on.
2. A repeated item starts from its first update (runtime.rs:86-117), so one that
   closes and raises the same kind opens the closed row again for a while. A crash
   then leaves two open rows of that kind; the restart puts both under one key of
   its map (runtime.rs:153-156), and the row that loses stays open and is listed as
   active, at least until a restart after the other one has ended.
3. The notification has room for four messages (notify.rs:158) but all pending
   incidents are marked delivered (notify.rs:175-180): a fifth warning is never
   shown.

Smaller facts that the properties and models make exceptions for:

- A loss of the device is reported for the device of the last sample, which may be
  another one than the engine's by then (runtime.rs:281).
- When a power supply comes back after another one, its incidents are read from the
  database while their latest updates may still be in the queue (runtime.rs:150), so
  that the engine and the table can disagree. `TableMatchesEngine` and
  `OpenIncidentsAreRestored` are therefore checked and proved for one power supply,
  which is all that the documentation speaks of.
- The counter of dropped updates begins again with the process. If the update that
  was dropped is a recovery (runtime.rs:331), its row stays open; the next incident of
  the kind has a second open row, and a restart restores the older of the two. With
  `MaxPending = 1` and one restart TLC finds `TableMatchesEngine` violated so. The
  run `crash` has a limit that its few cycles do not reach, and the theorem assumes
  that nothing was dropped (`Smooth`).
- The exchange also ends the evidence windows of the power supply before it
  (runtime.rs:157), without counting them as truncated (`forgone` in `Evidence`).
- A window whose time is over may be counted as truncated: the limit is applied before
  windows that have ended are removed (runtime.rs:229-254).
- What is pending is bounded after a successful sample only, so a failing sample may
  exceed the limit by what it adds, until the next one.
- A delivery whose save fails is repeated when the service manager restarts the
  notifier, without the thirty seconds, and does not count towards the three (`lost`
  in `Notifier`); an open incident whose entry is evicted by 4,096 newer ones starts
  over (`forgotten`).
- Repeats of a critical incident can appear less than 30 seconds apart, against
  README.md:78. A round takes the time first (notify.rs:117), then asks the daemon
  (notify.rs:122), which may take ten seconds to answer (`crates/client/src/lib.rs`
  42), and starts `notify-send`, which has five more; it marks the delivery with the time
  it began with (notify.rs:178), and the next repeat is due 30 seconds after that. A
  slow round followed by a quick one shows an incident again after some 15 seconds. TLC
  finds the property that README.md states (`RepeatsAreApart` in `Notifier`) violated
  in the instance of the run `notifier`, in 11 steps and with no round lost. What holds,
  and is checked and proved, is `RepeatsAreSpaced`: the interval counts from the
  beginning of the former's round.
- A clock that is set back over a minute lets it gain more than sixty seconds of
  coverage; the ledger is then still the integral of the samples.
- An Acknowledge of an incident whose row is not written yet is refused as not found.

### Bounds, and why they are enough

- `AlertEngine`: cycles of one or three time units with a gap limit of two, so that a
  sequence of samples is or is not interrupted; five units exceed a trigger and a
  recovery together; loads that assert, clear and do neither; two policies with
  different times and a disabled one. Kinds are independent but for the shared gap
  test, so one of each sort is enough.
- `Runtime`: a queue of one item and, in `storage`, a pending list of one update are
  full after two or three cycles, and the eight updates of the other runs never are;
  one or two failures reach each statement of an item; one crash reaches each point
  of a run. `crash` has no failing statement (`MaxFailures = 0`); that an
  acknowledgement survives the repetition of an item as well is the theorem
  `AcknowledgementsAreDurable`. One client is enough, since acknowledgements of different incidents do
  not meet. Three cycles raise an incident, lose the device and close the incident;
  the counterexamples of findings 1 and 2 have four and five.
- `Runtime` with evidence: readings of one cycle before and one or two after an
  incident, so that a window outlives the item it began in and two windows overlap;
  one window at most, so that the second truncates the first; two readings pending at
  most, so that a full queue drops some. `crash` has three cycles and a restart,
  `storage` three cycles, two failures and two power supplies.
- `Settings`: two clients, since every conflict is between two requests, and three
  requests among them, so that one comes after a conflict; three minutes for prices
  where two prices are allowed, so that the limit can be exceeded; two currencies;
  periods of two minutes, one of which has an input that is known in part; a unit of
  two, so that costs are rounded. One price must do, so that TLC tells a minute with
  a price from one without but not the right price of two from the wrong one: this the
  theorem `SummariesAreRight` covers, for all prices. One commit of the storage thread and one restart
  may fall between any two steps.
- `Transport`: two commands of the handshake and of the diagnostics, the first group
  and two optional ones, one of which the diagnostics ask for too: the only way a
  late answer can be taken for another request's within a cycle. No more reports wait
  than an exchange drains, which is assumed of the device: the kernel's buffer
  holds more than the 32 that the code drains (hardware `lib.rs` 148). An answer takes up
  to three ticks where an exchange waits two, so it can be late by a request; a cycle
  lasts five, shorter than all deadlines together.
- `Desktop`: two connections and a limit of one client thread, so that the limit is
  met; a window alone or two other clients, since the window and the others meet in
  the daemon only; two requests on a connection of the 256, two Inspect requests
  in a queue of two; queues of one update and one action. The user acts once: the action waits behind
  periodic questions, timeouts and a full queue of updates, but several queued actions,
  and one that a full queue refuses, are not part of the run (two actions exceed the
  time of a run).
- `EnergyLedger`: a minute of two ticks is crossed inside and between spans, a gap of
  three exceeds the limit of two, steps of the clock lie within (1) and beyond (2)
  the tolerance, in both directions. Five units of time hold five samples, enough for
  one dropped, one resent, one pruned and a restart.
- `Notifier`: a retention of five ticks holds two attempts two ticks apart, with
  their entries still there when a third would be due; a capacity of one entry makes
  two incidents evict each other; a round lasts up to a tick before its notification
  appears, half the interval, as the code's fifteen seconds are; one crash or one failing save reaches each step of
  a round. The counterexample of finding 3 uses the code's own four lines and three
  attempts.

`CHECK_DEADLOCK FALSE` stands where a run may stop: at its bounds, or because the
daemon has stopped.

### Fairness

`Runtime!FairSpec` has weak fairness of each thread: the operating system runs a
thread that has something to do. That an item ends in a commit needs the disk to fail
finitely often (`MaxFailures`), which the code needs too: it retries for ever. The
device, the clients and the signal are free. `Notifier!FairSpec` has weak fairness of
the steps of the loop, of time and of the restart by the service manager
(`Restart=on-failure`); the daemon is taken to answer in the end if it is asked again
and again (strong fairness of `Answer`), though any single question may fail. Whether a delivery
succeeds is free, and the process ends, killed or unable to save, finitely often.

`Evidence!EvidenceFairSpec` is that of the runtime. `Settings!FairSpec` has weak
fairness of the thread of each connection: its waits for a lock end by SQLite's busy
timeout, which the model has as an error that can always be taken. Nothing is assumed of the
storage thread, which may keep its transaction for ever. `Desktop!FairSpec` has weak
fairness of each connection's thread (accepting included, since the loop of `main`
polls), of the monitor and the end of the process, of the window's timer and its
shutdown, and of the worker. Users, other clients, signals and failures are free, and
the daemon may end at any moment.

## Proofs

TLAPS checks these for all values of the constants that satisfy the named
assumptions (`IncidentsAssumption`, `EngineAssumption`, `RuntimeAssumption`,
`EvidenceAssumption`, `NotifierAssumption`, `LedgerAssumption`, `PricingAssumption`,
`SettingsAssumption`, `TransportAssumption`, `ServiceAssumption`,
`DesktopAssumption`). They say what the constants are and which of their sets are
finite; that `None` is no value of the data it stands for the absence of; and what the
code's own constants satisfy: the notifier's retention is longer than the interval of repeats
and than a round, and the cycle of the transport names no
command twice in a group.

- `LifecycleTypeCorrect`, `UpdatesReplay` (`AlertEngineProofs`): the updates of
  every implementation of the contract replay to its open incidents. The invariant is
  strengthened by the fact that no announced incident lies in the future: `active`
  and `emitted` alone do not exclude that a new incident has the identity of an old
  one.
- `TypeCorrect`, `RefinesLifecycle`, `UpdatesReplayInEngine` (`AlertEngineProofs`):
  each call of the engine is a step of the contract, by `ObserveObeysContract`; the
  replay then follows from the contract's theorem.
- `SoftwareIncidentsAreSustained` (`AlertEngineProofs`): a software incident starts,
  and ends, only at the end of an unbroken run of asserting, or clear, samples of the
  required length. The property speaks of the trace of samples and the engine only
  of timers, so the inductive invariant says that a set timer is a run: there is a
  suffix of the trace, unbroken and asserting (or clear) throughout, that begins at
  the timer's value. `AssertedRunGrows` and `ClearRunGrows` extend it by a sample,
  `RunsStay` carries runs that have ended to a longer trace.
- `SoftwareRecoveries`, `HardwareIsFollowed`, `NoImbalanceIsMissed`
  (`AlertEngineProofs`): the first follows from the same runs, and the second is
  inductive with the types alone. The third is the converse of
  `SoftwareIncidentsAreSustained`, that no imbalance is missed, and needs the converse
  of its invariant, `TimersCoverRuns`: every asserting run of the trace that reaches the
  last sample is covered by a timer no younger than the run.
- `RuntimeTypeCorrect` (`RuntimeProofs`): types, the bound of the queue and of the
  storage position, one lemma for each action.
- `AcknowledgementsAreDurable` (`RuntimeProofs`): an answered acknowledgement is in the
  table whatever is stored again, fails or crashes. Alone it is not inductive, since
  the answer comes a step after the transaction: the invariant adds that the row of
  an acknowledgement not yet answered is in the table and acknowledged.
  `UpsertKeepsAck` is the fact about `upsert_incident` that carries it.
- `EngineFollowsDevice` (`RuntimeProofs`): the engine holds incidents of its own device
  only; `ThreadsAgree`: where each thread is, its item, the queue, the counters of
  the snapshot and the stop agree (`ThreadsInv`), on which the next two rest.
- `NoSampleIsLost` (`RuntimeProofs`): every sample taken is stored, on its way or
  counted. A step makes at most one sample lose its place and counts it then.
- `NoUpdateIsLost` (`RuntimeProofs`): the same of the updates of incidents, which are
  parcels of several and may be repeated. It needs that the rows of the table are of
  updates that were produced (`RowsArePast`), that the parcels on their way follow
  each other in time (`Ordered`), and that some set of updates, no larger than the
  counter, accounts for all that are missing (`UpdatesInv`). The proof changed the
  property: an update is now stored if the row is as young as it *or younger*. The
  first form asked for the very update, and does not hold: an incident restored while
  its recovery is on its way is updated again by the next sample, and the row can
  then end later than the recovery that was taken first.

- `EngineAndTableAgree`, `TableFollowsEngine`, `OpenIncidentsComeBack`
  (`RuntimeProofs`): when nothing is on its way, the open incidents of the table are
  those of the engine, and a device that is opened has its open incidents back before
  its first sample, across any number of restarts. Unlike the other theorems these
  have hypotheses: there is one power supply (`OneSupply`), no update is dropped, and
  no statement fails in a history that also has a restart (`[]Smooth`). Each is
  needed: the first two for the reasons given under the smaller facts above, the
  third because a crash within an item that is half repeated leaves an open row that
  nothing ends, which is the finding of the run `orphaned_row`. Behaviours with
  failures and without restarts, or with restarts and without failures, are covered
  whole. The invariant `TableInv` follows an incident through the parcels between
  engine and table. `Cross` says that the parcels nearer to the table are not
  younger; `Matched` that an open row, or a raise on its way, that the engine does not
  hold has its recovery on its way behind it, and that what the engine holds is or
  will be an open row with nothing on its way that ends it; `OneEach` that a kind has
  at most one open row, and that this one ends before another of its kind is raised.
  `Called` and `Adds` say what a call of the engine changes of what it holds and which
  updates it adds, and are all that the proof uses of the engine; `Sources` that an
  update of the table, or on its way, is one that was produced.

- `EvidenceKeepsRuntime` (`RuntimeProofs`): forgetting the evidence, every step of the
  runtime with evidence is a step of the runtime or a stutter. So what is proved of
  the runtime holds with evidence: `AcknowledgementsAreDurableWithEvidence`,
  `NothingIsLostWithEvidence`, `TableFollowsEngineWithEvidence`.
- `EvidenceTypeCorrect`, `EvidenceBelongs` (`RuntimeProofs`): evidence in the table has
  its incident in the table, or the update that told of it was dropped. The invariant
  follows the way to the table (`Travels`): whatever is on its way, in storage's hand,
  in an item of the queue, waiting or in the future of an open window, has an update
  of its incident in the same parcel or in one before it; and an item comes to its
  evidence only when all of its updates are rows.
- `EvidenceIsCounted` (`RuntimeProofs`): no reading of the past or of the window of an
  incident is missing but those that are counted as dropped, and for each truncated
  window at most as many as a window takes. `RingInv` says that the ring has all the
  samples of the last minute to which no gap leads, so that an incident raised now
  finds its past there; `Explained(X, T)` that some set `X` of readings, no larger
  than the one counter, and some set `T` of incidents, no larger than the other,
  account for all that is due and neither stored nor on its way, and that every window
  that can still take a sample is open or accounted for. Each step extends the two sets
  by what it counts. What a list keeps after `retain` is a fact about the places that
  are kept (`Nth`, `RetainKeeps`), whose number is the length of the new list.
- `NotifierTypeCorrect`, `RepeatsStayBounded`, `RepeatsStaySpaced`,
  `WarningsStayDelivered` (`NotifierProofs`): what was shown, against a memory whose
  file may lag behind by the rounds lost to kills and failed saves. `BatchInv` says
  what a round has selected and not yet shown; `Fine` and `Agrees` compare the
  history of what was shown with an entry of the memory, up to a number of lost
  rounds; `LoopInv` has this of the memory with the rounds `lost`, and of the file
  with one more while a round waits to be saved, since the file lacks what that
  round has shown. The age of an entry is that of the round of the last notification,
  so that one that appears sooner than the interval after that round began implies a
  round that was lost. Nothing is assumed of the length of a round against the interval.
- `LedgerTypeCorrect`, `LedgerMatchesSamples`, `EnergyMatchesSamples`,
  `NothingIsInvented` (`EnergyLedgerProofs`): the time and the energy of each minute are
  the sums, over the consecutive pairs of samples ever stored, of what their spans
  have in common with the minute. `record` reads the newest stored sample before the
  one it adds, so the sums grow by one span only if nothing is ever stored between two
  earlier samples: `Ordered` says that samples reach the database in the order of
  their keys, or are repetitions. The energy of a line adds to that of the span but for
  half a unit, since the factor `Scale` is a multiple of the length of each span
  (`ProductIsMultiple`). For the last theorem the invariant `Watched` states that there
  are functions giving each sample the time for which a device was watched and the
  steps the clock made until it was taken, that these grow with the samples, and that
  they bound what the ledger holds.
- `TransportTypeCorrect`, `SamplesAreTrue`, `MissingGroupsAreReported`,
  `CyclesEndInTime` (`TransportProofs`): whatever is late, refused or unasked, what the
  sample holds of a group are answers to its own command, no older than an answer on
  its way can be (`FreshInv`); each group of the cycle is settled, as a reading or as an error but not
  both, up to the one at hand, and untouched after it (`GroupsInv`); and the time
  spent is bounded by the deadlines of the exchanges begun (`TimeInv`).
- `SettingsTypeCorrect`, `PolicyIsRegister`, `TariffsStaySound` (`SettingsProofs`), for
  any number of connections. Types need that a request that is at a step has the
  fields the step reads (`Fits`). The refinement of the register rests on the
  Snapshot's lock (`Locked`): whoever is between `LockSnapshot` and `PublishPolicy`
  holds it, so nobody else commits a policy while `stored` and `inForce` differ, and
  the revision compared at the beginning of the transaction is still current at its
  commit, since the write lock is held. The prices rest on `Checked`: a request that
  has become a writer did so with the `version` it saw, so that what it checked of
  the table is still true when it writes. That all rows have the currency of the
  first needs that the set of their times has a least element, from the well-founded
  order of the library.
- `SummariesAreRight` (`SettingsProofs`): the answer is right for any ledger and any
  table, so it does not matter that one was read before the other changed; no
  invariant but the types is needed. The work is in the operators. The index that
  `partition_point` finds is the number of prices not later than the minute, and the
  row there is the latest of them (`RateIsInEffect`, from `NthHasRank` and
  `NthIsNotAbove`). The sum of costs is the sum over the minutes that have a price
  (`SumOverSubset`), rounded by at most half a unit (`RoundIsNearest`). A bucket is
  complete when two sums are equal of which one is nowhere above the other
  (`SumsDiffer`); that needs that a row of the ledger has no more time with an
  estimated input than time, which is in the set `Energy` and holds of every row that
  `record` writes (history.rs:113).
- `DesktopTypeCorrect`, `SlotsAreCounted`, `InspectIsAnsweredTruly` (`DesktopProofs`),
  for any number of connections and any limits. The invariant speaks of a connection
  alone (`Serviceable`: an answer carries the number of its request, a query has
  none, a thread serves no more than it may) and of the count of those whose thread
  is counted, to which each step adds or takes at most one.

`TypeCorrect` and `RuntimeTypeCorrect` are proved for every value of the constants and
have no run of their own.

Model-checked only: the liveness properties (`AcceptedSampleCommits`, `StopEnds`,
`OpenIsShownOrExhausted`, `SnapshotLockIsReleased`, `SlotsAreReleased`, `CloseEnds`,
`ActionsAreAnswered`), since TLAPS proves nothing of fairness and ENABLED. Every
invariant of a passing run is stated by a theorem; `TableMatchesEngine` and
`OpenIncidentsAreRestored` under the hypotheses given above.

No module of a proof uses RECURSIVE, and no proof here uses a theorem of induction
that takes an operator as a parameter, which the provers installed cannot instantiate.
What is said of all finite sets (their sums and products, the order of times) is
proved by taking a least set, or a least number, for which it is false
(`SmallestExists`, from the well-founded order of the library), and showing that it
has a smaller one. These facts, and those about the order of sets of numbers, are in
`FiniteLemmas`, which several of the proof modules extend.

## Not modelled

The components with status `not_modelled` in `PROJECT.json`, each with its reason.
Within the others:

- the simulator's branches of the monitor loop (`--simulate`), whose cycle is that of a
  device;
- texts, severities, formats and layout (no property is about them), the decoding of
  register formats, prices as decimal text, and the calendar, which is a function
  from minutes to periods;
- the rounding of floating point in the ledger beyond that of the result; several
  devices in one ledger, since sessions already keep them apart;
- sysfs discovery and the advisory lock of the device; binding and the modes of
  sockets, peer credentials, and the limits of a frame;
- a client thread that panics: it would keep its slot, as `main` counts it down after
  `serve_client` only (daemon.rs:165-168);
- the plugin's translation of the stream and the shell that draws it, the command
  line, migration and packaging;
- a clock that steps back under the notifier.
