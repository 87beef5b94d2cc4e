---------------------------- MODULE EnergyLedger ----------------------------
(***************************************************************************)
(* The energy ledger of src/history.rs, as the two threads of              *)
(* src/runtime.rs use it. Each sample goes through the bounded queue to    *)
(* the storage thread, which inserts it in a table and, in the same        *)
(* transaction, adds the power integrated since the previous sample to     *)
(* the minutes it spans. Transactions fail and are tried again, items are  *)
(* repeated, dropped and sent twice, the daemon restarts, the clock of the *)
(* wall steps in either direction, and old samples are pruned.             *)
(*                                                                         *)
(* A device's table rows carry its id; here there is one device, since     *)
(* each time a device is opened its samples get a session of their own.    *)
(* Powers are per tick, where the code divides milliseconds by 1000.       *)
(***************************************************************************)
EXTENDS Integers, Sequences, FiniteSets, FiniteSetsExt

CONSTANTS
    Minute,         \* 60_000 ms, in ticks
    MaxGap,         \* MAX_GAP_MS
    Skew,           \* 100 ms
    Retention,      \* 48 hours
    Batch,          \* 1000 rows pruned at a time
    PruneEvery,     \* 60
    QueueSize,      \* STORAGE_QUEUE_SIZE
    Readings,       \* the power of a sample and its estimated_input_uw, or None
    None,           \* nothing
    Delays,         \* bound: times between samples
    Jumps,          \* bound: steps of the wall clock
    Horizon,        \* bound: the latest time
    MaxJumps,       \* bound: steps of the wall clock
    MaxFailures,    \* bound: failed statements
    MaxBreaks       \* bound: lost devices and crashes

ASSUME LedgerAssumption ==
    /\ {Minute, MaxGap, Batch, PruneEvery, QueueSize} \subseteq Nat \ {0}
    /\ {Skew, Retention, Horizon, MaxJumps, MaxFailures, MaxBreaks} \subseteq Nat
    /\ Readings \subseteq [power : Nat, input : Nat \cup {None}]
    /\ Delays \subseteq Nat \ {0}
    /\ Jumps \subseteq Int
    /\ None \notin Nat
    /\ None \notin [session : Nat, sequence : Nat, at : Nat, mono : Nat, reading : Readings]

VARIABLES
    now,        \* CLOCK_BOOTTIME
    offset,     \* the wall clock less now
    jumps,      \* steps of the wall clock
    session,    \* of the open device
    sequence,   \* of the cycle
    last,       \* telemetry in the snapshot
    queue,      \* items on the way to the storage thread
    item,       \* the item it works on
    recorded,   \* whether record returned for it
    previous,   \* the sample before
    table,      \* keys and times of the table samples
    energy,     \* the table energy
    failures,   \* failed statements
    breaks,     \* lost devices and crashes
    committed,  \* history: the samples ever inserted
    watched     \* history: the time between samples of an open device

monitorVars == <<now, offset, jumps, session, sequence, last, watched>>
storageVars == <<item, recorded, previous, table, energy, failures, committed>>
vars == <<monitorVars, queue, storageVars, breaks>>

Time == 0 .. Horizon
Minutes == 0 .. Horizon \div Minute
Sample == [session : Nat, sequence : Nat, at : Time, mono : Time,
           reading : Readings]
Row == [session : Nat, sequence : Nat, at : Time]
Cell == [output : Nat, input : Nat, observed : Nat, inputObserved : Nat]

RowOf(s) == [session |-> s.session, sequence |-> s.sequence, at |-> s.at]

TypeOK ==
    /\ now \in Time /\ offset \in Int
    /\ {jumps, session, sequence, failures, breaks, watched} \subseteq Nat
    /\ {last, item, previous} \subseteq Sample \cup {None}
    /\ queue \in Seq(Sample) /\ Len(queue) <= QueueSize
    /\ recorded \in BOOLEAN
    /\ committed \subseteq Sample /\ table \subseteq {RowOf(s) : s \in committed}
    /\ energy \in [Minutes -> Cell]

Init ==
    /\ now = 0 /\ offset = 0 /\ jumps = 0
    /\ session = 0 /\ sequence = 0 /\ watched = 0
    /\ last = None /\ queue = <<>>
    /\ item = None /\ recorded = FALSE /\ previous = None
    /\ table = {} /\ committed = {}
    /\ energy = [m \in Minutes |->
                    [output |-> 0, input |-> 0, observed |-> 0, inputObserved |-> 0]]
    /\ failures = 0 /\ breaks = 0

-----------------------------------------------------------------------------
\* The monitor thread, as far as the ledger sees it.

SentUnbounded(s) == Append(queue, s)
Sent(s) == IF Len(queue) < QueueSize THEN Append(queue, s) ELSE queue

\* A cycle that reads a sample, some time after the one before.
Take(d, reading) ==
    LET s == [session |-> session, sequence |-> sequence, at |-> now + d + offset,
              mono |-> now + d, reading |-> reading]
    IN  /\ now + d \in Time /\ now + d + offset \in Time
        /\ now' = now + d
        /\ sequence' = sequence + 1
        /\ last' = s
        /\ queue' = Sent(s)
        /\ watched' = IF last # None /\ last.session = session /\ s.mono - last.mono <= MaxGap
                      THEN watched + s.mono - last.mono ELSE watched
        /\ UNCHANGED <<offset, jumps, session, storageVars, breaks>>

\* A cycle that fails sends the last sample again, with the incidents, and the
\* device gets a new session when it is opened again.
Lose ==
    /\ breaks < MaxBreaks
    /\ breaks' = breaks + 1
    /\ session' = session + 1
    /\ sequence' = sequence + 1
    /\ queue' = IF last # None THEN Sent(last) ELSE queue
    /\ UNCHANGED <<now, offset, jumps, last, watched, storageVars>>

ClockSteps(j) ==
    /\ jumps < MaxJumps
    /\ now + offset + j \in Time
    /\ offset' = offset + j
    /\ jumps' = jumps + 1
    /\ UNCHANGED <<now, session, sequence, last, watched, queue, storageVars, breaks>>

-----------------------------------------------------------------------------
\* The storage thread.

StorageReceives ==
    /\ item = None /\ queue # <<>>
    /\ item' = Head(queue)
    /\ queue' = Tail(queue)
    /\ recorded' = FALSE
    /\ UNCHANGED <<monitorVars, previous, table, energy, failures, committed, breaks>>

\* Whether the time between two samples was observed.
ContinuousAcrossSessions(p, s) ==
    LET elapsed == s.mono - p.mono
        wall == s.at - p.at
    IN  /\ elapsed > 0 /\ elapsed <= MaxGap
        /\ wall > 0
        /\ wall - elapsed \in -Skew .. Skew
Continuous(p, s) ==
    LET elapsed == s.mono - p.mono
        wall == s.at - p.at
    IN  /\ p.session = s.session
        /\ s.sequence > p.sequence
        /\ elapsed > 0 /\ elapsed <= MaxGap
        /\ wall > 0
        /\ wall - elapsed \in -Skew .. Skew

\* The part of the span of two samples in a minute; empty if from >= to.
Part(p, s, m) ==
    [from |-> IF m * Minute < p.at THEN p.at ELSE m * Minute,
     to |-> IF (m + 1) * Minute > s.at THEN s.at ELSE (m + 1) * Minute]

\* The trapezoid over that part under the line from left to right, rounded to
\* the nearest.
IntegrateWholeSpan(left, right, p, s, from, to) ==
    ((left + right) * (to - from) + 1) \div 2
Integrate(left, right, p, s, from, to) ==
    LET wall == s.at - p.at
        twice == (2 * left * wall + (right - left) * ((from - p.at) + (to - p.at))) * (to - from)
    IN  (twice + wall) \div (2 * wall)

\* The minutes after the span of two samples is added.
Added(p, s) ==
    [m \in Minutes |->
        LET part == Part(p, s, m)
            length == part.to - part.from
            known == p.reading.input # None /\ s.reading.input # None
        IN  IF part.from >= part.to THEN energy[m]
            ELSE [output |-> energy[m].output
                                + Integrate(p.reading.power, s.reading.power, p, s, part.from, part.to),
                  input |-> energy[m].input
                                + (IF known THEN Integrate(p.reading.input, s.reading.input, p, s, part.from, part.to)
                                   ELSE 0),
                  observed |-> energy[m].observed + length,
                  inputObserved |-> energy[m].inputObserved + (IF known THEN length ELSE 0)]]

\* record: a sample that is in the table is left alone; otherwise its row and
\* its energy are one transaction.
Record ==
    /\ item # None /\ ~recorded
    /\ recorded' = TRUE
    /\ IF \E r \in table : r.session = item.session /\ r.sequence = item.sequence
       THEN UNCHANGED <<previous, table, energy, committed>>
       ELSE /\ table' = table \cup {RowOf(item)}
            /\ committed' = committed \cup {item}
            /\ energy' = IF previous # None /\ Continuous(previous, item)
                         THEN Added(previous, item) ELSE energy
            /\ previous' = item
    /\ UNCHANGED <<monitorVars, queue, item, failures, breaks>>

\* A failing statement rolls its transaction back, and the item is repeated from
\* record, whichever statement it was.
AfterFailureMoved == IF recorded THEN previous ELSE item
AfterFailure == previous
StatementFails ==
    /\ item # None /\ failures < MaxFailures
    /\ failures' = failures + 1
    /\ recorded' = FALSE
    /\ previous' = AfterFailure
    /\ UNCHANGED <<monitorVars, queue, item, table, energy, committed, breaks>>

\* The rows that a prune deletes: all that are old, if they are not too many.
PrunedRows ==
    LET old == {r \in table : r.at < item.at - Retention}
        count == IF Cardinality(old) < Batch THEN Cardinality(old) ELSE Batch
    IN  {rows \in SUBSET old : Cardinality(rows) = count}

\* The rest of the item: incidents, evidence and the prune.
Complete ==
    /\ item # None /\ recorded
    /\ IF item.sequence % PruneEvery = 0
       THEN \E rows \in PrunedRows : table' = table \ rows
       ELSE table' = table
    /\ item' = None /\ recorded' = FALSE
    /\ UNCHANGED <<monitorVars, queue, previous, energy, failures, committed, breaks>>

\* The daemon dies and starts again.
Crash ==
    /\ breaks < MaxBreaks
    /\ breaks' = breaks + 1
    /\ session' = session + 1 /\ sequence' = 0
    /\ last' = None /\ queue' = <<>>
    /\ item' = None /\ recorded' = FALSE /\ previous' = None
    /\ UNCHANGED <<now, offset, jumps, watched, table, energy, failures, committed>>

-----------------------------------------------------------------------------
Next ==
    \/ \E d \in Delays, reading \in Readings : Take(d, reading)
    \/ \E j \in Jumps : ClockSteps(j)
    \/ Lose \/ Crash
    \/ StorageReceives \/ Record \/ StatementFails \/ Complete

Spec == Init /\ [][Next]_vars

-----------------------------------------------------------------------------
\* Properties.

\* The spans the table of samples stands for: those between neighbours of one
\* session, without regard to the order and the circumstances of their storage.
Spans ==
    {ps \in committed \X committed :
        /\ Continuous(ps[1], ps[2])
        /\ ~\E q \in committed : /\ q.session = ps[1].session
                                 /\ ps[1].sequence < q.sequence /\ q.sequence < ps[2].sequence}
InputSpansOf(spans) ==
    {ps \in spans : ps[1].reading.input # None /\ ps[2].reading.input # None}

\* The ticks of a minute, and those of them in the span of two samples.
Ticks(m) == m * Minute .. (m + 1) * Minute - 1
TicksIn(ps, m) == {t \in Ticks(m) : ps[1].at <= t /\ t < ps[2].at}

\* The ledger is a function of the samples ever stored, through all failures,
\* repetitions, restarts and prunes: each tick is counted once for each span
\* over it and no other is (installation.md:58).
LedgerIsOfSamples ==
    LET spans == Spans IN
    \A m \in Minutes :
        LET covered == [ps \in spans |-> Cardinality(TicksIn(ps, m))]
        IN  /\ energy[m].observed = SumFunction(covered)
            /\ energy[m].inputObserved = SumFunctionOnSet(covered, InputSpansOf(spans))

\* A multiple of the length of every span.
Scale == ProductSet(1 .. MaxGap + Skew)

\* Twice the energy of a span in a minute, times Scale: the sum of the values in
\* the middle of its ticks.
Energy(ps, left, right, m) ==
    LET wall == ps[2].at - ps[1].at
    IN  SumFunction([t \in TicksIn(ps, m) |->
            (Scale \div wall)
                * (2 * left * wall + (right - left) * (2 * (t - ps[1].at) + 1))])

\* The energy of a minute is the integral over the spans in it, but for half a
\* unit of rounding for each.
EnergyIsIntegral ==
    LET spans == Spans
        inputs == InputSpansOf(spans)
    IN
    \A m \in Minutes :
        LET output == [ps \in spans |->
                        Energy(ps, ps[1].reading.power, ps[2].reading.power, m)]
            input == [ps \in inputs |->
                        Energy(ps, ps[1].reading.input, ps[2].reading.input, m)]
            rounding == Scale * Cardinality({ps \in spans : TicksIn(ps, m) # {}})
        IN  /\ 2 * Scale * energy[m].output - SumFunction(output) \in -rounding .. rounding
            /\ 2 * Scale * energy[m].input - SumFunction(input) \in -rounding .. rounding

\* No observation is invented across a lost device, a restart or a long gap: the
\* ledger holds no more time than the samples were taken over, but for the steps
\* of the clock it tolerates (installation.md:58, PLAN.md:161).
NothingInvented ==
    SumFunction([m \in Minutes |-> energy[m].observed]) <= watched + Skew * jumps

=============================================================================
