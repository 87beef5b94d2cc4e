-------------------------- MODULE EnergyLedgerProofs --------------------------
(***************************************************************************)
(* What is proved of the energy ledger, for any length of a minute, limits,*)
(* readings, delays and failures: its variables keep their types, its time *)
(* and its energy are those of the samples that were ever stored, and it   *)
(* holds no time that was not observed.                                    *)
(***************************************************************************)
EXTENDS EnergyLedger, FiniteLemmas

-----------------------------------------------------------------------------
\* Types.

\* The numbers among the constants.
LEMMA Numbers ==
    /\ Minute \in Nat \ {0} /\ MaxGap \in Nat \ {0} /\ Batch \in Nat \ {0}
    /\ PruneEvery \in Nat \ {0} /\ QueueSize \in Nat \ {0}
    /\ Skew \in Nat /\ Retention \in Nat /\ Horizon \in Nat
    /\ MaxJumps \in Nat /\ MaxFailures \in Nat /\ MaxBreaks \in Nat
  BY LedgerAssumption

\* The parts of a sample, and that nothing is one.
LEMMA SampleType ==
    /\ None \notin Sample
    /\ \A s \in Sample :
          /\ s.session \in Nat /\ s.sequence \in Nat /\ s.at \in Nat /\ s.mono \in Nat
          /\ s.at \in Time /\ s.mono \in Time
          /\ s.reading \in Readings /\ s.reading.power \in Nat
          /\ s.reading.input \in Nat \cup {None}
<1>1. Sample \subseteq [session : Nat, sequence : Nat, at : Nat, mono : Nat, reading : Readings]
  BY Numbers DEF Sample, Time
<1>2. Time \subseteq Nat
  BY Numbers DEF Time
<1> QED BY <1>1, <1>2, LedgerAssumption DEF Sample

\* So is a quotient.
LEMMA DivIsNat == ASSUME NEW n \in Nat, NEW d \in Nat \ {0} PROVE n \div d \in Nat
  OBVIOUS

\* Twice the area of the trapezoid is that of two triangles.
LEMMA TwiceIsNat ==
    ASSUME NEW l \in Nat, NEW r \in Nat, NEW w \in Nat, NEW x \in Nat, x <= 2 * w
    PROVE  2 * l * w + (r - l) * x \in Nat
<1>1. l * (2 * w - x) \in Nat /\ r * x \in Nat
  BY ProductIsNat
<1>2. 2 * l * w + (r - l) * x = l * (2 * w - x) + r * x
  OBVIOUS
<1> QED BY <1>1, <1>2

\* The energy of a part of a span is not negative.
LEMMA IntegrateIsNat ==
    ASSUME NEW l \in Nat, NEW r \in Nat, NEW p \in Sample, NEW s \in Sample,
           NEW from \in Nat, NEW to \in Nat, p.at <= from, from < to, to <= s.at
    PROVE  Integrate(l, r, p, s, from, to) \in Nat
<1> DEFINE w == s.at - p.at
           x == (from - p.at) + (to - p.at)
           n == 2 * l * w + (r - l) * x
<1>1. w \in Nat \ {0} /\ x \in Nat /\ x <= 2 * w /\ to - from \in Nat
  BY SampleType
<1>2. n \in Nat
  <2> HIDE DEF w, x
  <2> QED BY <1>1, TwiceIsNat
<1>3. Integrate(l, r, p, s, from, to) = (n * (to - from) + w) \div (2 * w)
  BY DEF Integrate
<1> HIDE DEF n, w
<1>4. n * (to - from) + w \in Nat /\ 2 * w \in Nat \ {0}
  BY <1>1, <1>2, ProductIsNat
<1> QED BY <1>3, <1>4, DivIsNat

\* The part of a span that lies in a minute.
LEMMA PartType ==
    ASSUME NEW p \in Sample, NEW s \in Sample, NEW m \in Minutes
    PROVE  LET part == Part(p, s, m) IN
           /\ part.from \in Nat /\ part.to \in Nat
           /\ p.at <= part.from /\ part.to <= s.at
<1>1. m \in Nat /\ m * Minute \in Nat /\ (m + 1) * Minute \in Nat
  BY Numbers, DivIsNat, ProductIsNat DEF Minutes
<1> QED BY <1>1, SampleType DEF Part

\* A span leaves the minutes well formed.
LEMMA AddedType ==
    ASSUME energy \in [Minutes -> Cell], NEW p \in Sample, NEW s \in Sample
    PROVE  Added(p, s) \in [Minutes -> Cell]
<1> SUFFICES ASSUME NEW m \in Minutes PROVE Added(p, s)[m] \in Cell
  BY DEF Added
<1> DEFINE part == Part(p, s, m)
<1>1. /\ part.from \in Nat /\ part.to \in Nat
      /\ p.at <= part.from /\ part.to <= s.at
  BY PartType
<1>2. energy[m] \in Cell
  OBVIOUS
<1>3. CASE part.from >= part.to
  BY <1>2, <1>3 DEF Added
<1>4. CASE ~(part.from >= part.to)
  <2> DEFINE known == p.reading.input # None /\ s.reading.input # None
             out == Integrate(p.reading.power, s.reading.power, p, s, part.from, part.to)
             in == Integrate(p.reading.input, s.reading.input, p, s, part.from, part.to)
  <2>1. part.from < part.to /\ part.to - part.from \in Nat
    BY <1>1, <1>4
  <2>2. out \in Nat
    BY <1>1, <2>1, SampleType, IntegrateIsNat
  <2>3. known => in \in Nat
    BY <1>1, <2>1, SampleType, IntegrateIsNat
  <2>4. Added(p, s)[m] =
            [output |-> energy[m].output + out,
             input |-> energy[m].input + (IF known THEN in ELSE 0),
             observed |-> energy[m].observed + (part.to - part.from),
             inputObserved |-> energy[m].inputObserved
                                + (IF known THEN part.to - part.from ELSE 0)]
    BY <1>4 DEF Added
  <2> HIDE DEF known, out, in, part
  <2> QED BY <1>2, <2>1, <2>2, <2>3, <2>4 DEF Cell
<1> QED BY <1>3, <1>4

\* A sample that was taken is not in the future.
Typed ==
    /\ TypeOK
    /\ last # None => last.mono <= now

\* The inductive invariant of the types.
LEMMA TypedIsKept == Spec => []Typed
<1>1. Init => Typed
  <2> SUFFICES ASSUME Init PROVE Typed
    OBVIOUS
  <2>1. now \in Time /\ offset \in Int
    BY Numbers DEF Init, Time
  <2>2. energy \in [Minutes -> Cell]
    BY DEF Init, Cell
  <2>3. queue \in Seq(Sample) /\ Len(queue) <= QueueSize
    BY Numbers DEF Init
  <2>4. {jumps, session, sequence, failures, breaks, watched} \subseteq Nat
    BY DEF Init
  <2>5. /\ {last, item, previous} \subseteq Sample \cup {None} /\ last = None
        /\ recorded \in BOOLEAN
        /\ committed \subseteq Sample /\ table \subseteq {RowOf(s) : s \in committed}
    BY DEF Init
  <2> QED BY <2>1, <2>2, <2>3, <2>4, <2>5 DEF Typed, TypeOK
<1>2. Typed /\ [Next]_vars => Typed'
  <2> SUFFICES ASSUME Typed, [Next]_vars PROVE Typed'
    OBVIOUS
  <2>0. /\ now \in Nat /\ TypeOK
        /\ last # None => last \in Sample /\ last.mono \in Nat /\ last.mono <= now
    BY SampleType, Numbers DEF Typed, TypeOK, Time
  <2>1. ASSUME NEW d \in Delays, NEW reading \in Readings, Take(d, reading)
        PROVE  Typed'
    <3> DEFINE s == [session |-> session, sequence |-> sequence, at |-> now + d + offset,
                     mono |-> now + d, reading |-> reading]
    <3>1. s \in Sample /\ s.mono = now + d /\ d \in Nat
      BY <2>0, <2>1, LedgerAssumption DEF Take, TypeOK, Sample
    <3>2. queue' \in Seq(Sample) /\ Len(queue') <= QueueSize
      <4>1. (queue' = Append(queue, s) /\ Len(queue) < QueueSize) \/ queue' = queue
        BY <2>1 DEF Take, Sent
      <4>2. queue \in Seq(Sample) /\ Len(queue) <= QueueSize
        BY <2>0 DEF TypeOK
      <4> HIDE DEF s
      <4> QED BY <3>1, <4>1, <4>2, Numbers
    <3>3. watched' \in Nat
      <4>1. CASE last # None /\ last.session = session /\ s.mono - last.mono <= MaxGap
        <5>1. watched' = watched + s.mono - last.mono
          BY <2>1, <4>1 DEF Take
        <5>2. watched \in Nat
          BY <2>0 DEF TypeOK
        <5>3. s.mono = now + d /\ d \in Nat /\ last.mono \in Nat /\ last.mono <= now /\ now \in Nat
          BY <2>0, <3>1, <4>1
        <5> HIDE DEF s
        <5> QED BY <5>1, <5>2, <5>3
      <4>2. CASE ~(last # None /\ last.session = session /\ s.mono - last.mono <= MaxGap)
        <5>1. watched' = watched
          BY <2>1, <4>2 DEF Take
        <5> QED BY <2>0, <5>1 DEF TypeOK
      <4> QED BY <4>1, <4>2
    <3>4. /\ last' = s /\ now' = now + d /\ now' \in Time /\ sequence' = sequence + 1
          /\ UNCHANGED <<offset, jumps, session, storageVars, breaks>>
      BY <2>1 DEF Take
    <3> HIDE DEF s
    <3> QED BY <2>0, <3>1, <3>2, <3>3, <3>4 DEF Typed, TypeOK, storageVars
  <2>2. ASSUME NEW j \in Jumps, ClockSteps(j)
        PROVE  Typed'
    <3>1. jumps \in Nat /\ offset \in Int /\ j \in Int
      BY <2>0, LedgerAssumption DEF TypeOK
    <3>2. jumps' \in Nat /\ offset' \in Int
      BY <2>2, <3>1 DEF ClockSteps
    <3>3. UNCHANGED <<now, session, sequence, last, watched, queue, storageVars, breaks>>
      BY <2>2 DEF ClockSteps
    <3> QED BY <2>0, <3>2, <3>3 DEF Typed, TypeOK, storageVars
  <2>3. CASE Lose
    <3>1. queue' \in Seq(Sample) /\ Len(queue') <= QueueSize
      <4>1. \/ last \in Sample /\ queue' = Append(queue, last) /\ Len(queue) < QueueSize
            \/ queue' = queue
        BY <2>0, <2>3 DEF Lose, Sent
      <4>2. queue \in Seq(Sample) /\ Len(queue) <= QueueSize
        BY <2>0 DEF TypeOK
      <4>3. CASE queue' = queue
        BY <4>2, <4>3
      <4>4. CASE last \in Sample /\ queue' = Append(queue, last) /\ Len(queue) < QueueSize
        <5>1. queue' \in Seq(Sample) /\ Len(queue') = Len(queue) + 1 /\ Len(queue) \in Nat
          BY <4>2, <4>4
        <5> QED BY <4>4, <5>1, Numbers
      <4> QED BY <4>1, <4>3, <4>4
    <3> QED BY <2>0, <2>3, <3>1 DEF Lose, Typed, TypeOK, storageVars
  <2>4. CASE Crash
    <3>1. queue' \in Seq(Sample) /\ Len(queue') <= QueueSize
      BY <2>4, Numbers DEF Crash
    <3>2. session' \in Nat /\ sequence' \in Nat /\ breaks' \in Nat
      BY <2>0, <2>4 DEF Crash, TypeOK
    <3> QED BY <2>0, <2>4, <3>1, <3>2 DEF Crash, Typed, TypeOK
  <2>5. CASE StorageReceives
    <3>1. /\ Head(queue) \in Sample /\ Tail(queue) \in Seq(Sample)
          /\ Len(Tail(queue)) <= QueueSize
      <4>1. queue \in Seq(Sample) /\ Len(queue) <= QueueSize /\ queue # <<>>
        BY <2>0, <2>5 DEF StorageReceives, TypeOK
      <4> QED BY <4>1, Numbers
    <3> QED BY <2>0, <2>5, <3>1 DEF StorageReceives, Typed, TypeOK, monitorVars
  <2>6. CASE Record
    <3>1. item \in Sample
      BY <2>0, <2>6 DEF Record, TypeOK
    <3>2. energy' \in [Minutes -> Cell]
      BY <2>0, <2>6, <3>1, AddedType DEF Record, TypeOK
    <3>3. /\ previous' \in Sample \cup {None} /\ committed' \subseteq Sample
          /\ table' \subseteq {RowOf(s) : s \in committed'}
      BY <2>0, <2>6, <3>1 DEF Record, TypeOK
    <3> QED BY <2>0, <2>6, <3>2, <3>3 DEF Record, Typed, TypeOK, monitorVars
  <2>7. CASE StatementFails
    <3>1. failures \in Nat
      BY <2>0 DEF TypeOK
    <3>2. failures' \in Nat /\ recorded' \in BOOLEAN
      <4>1. failures' = failures + 1 /\ recorded' = FALSE
        BY <2>7 DEF StatementFails
      <4>2. failures' \in Nat
        BY <3>1, <4>1
      <4>3. recorded' \in BOOLEAN
        BY <4>1
      <4> QED BY <4>2, <4>3
    <3>3. previous' = previous /\ UNCHANGED <<monitorVars, queue, item, table, energy, committed, breaks>>
      BY <2>7 DEF StatementFails, AfterFailure
    <3> QED BY <2>0, <3>2, <3>3 DEF Typed, TypeOK, monitorVars
  <2>8. CASE Complete
    <3>1. table' \subseteq table
      BY <2>8 DEF Complete
    <3> QED BY <2>0, <2>8, <3>1 DEF Complete, Typed, TypeOK, monitorVars
  <2>9. CASE UNCHANGED vars
    BY <2>0, <2>9 DEF vars, monitorVars, storageVars, Typed, TypeOK
  <2> QED BY <2>1, <2>2, <2>3, <2>4, <2>5, <2>6, <2>7, <2>8, <2>9 DEF Next
<1> QED BY <1>1, <1>2, PTL DEF Spec

\* The tables, the queue and the histories keep their types (record, start).
THEOREM LedgerTypeCorrect == Spec => []TypeOK
<1>1. Typed => TypeOK
  BY DEF Typed
<1> QED BY <1>1, TypedIsKept, PTL

-----------------------------------------------------------------------------
\* The order of the samples. A sample comes to the storage thread after those that
\* were taken before it, or again: then it is followed by no other.

NoLater(a, b) ==
    \/ a.session < b.session
    \/ a.session = b.session /\ a.sequence < b.sequence
    \/ a = b

\* Samples are ordered by their keys.
LEMMA NoLaterIsOrder ==
    ASSUME NEW a \in Sample, NEW b \in Sample, NEW c \in Sample
    PROVE  /\ NoLater(a, b) /\ NoLater(b, c) => NoLater(a, c)
           /\ NoLater(a, b) /\ NoLater(b, a) => a = b
           /\ NoLater(a, a)
<1>1. /\ a.session \in Nat /\ a.sequence \in Nat
      /\ b.session \in Nat /\ b.sequence \in Nat
      /\ c.session \in Nat /\ c.sequence \in Nat
  BY SampleType
<1> QED BY <1>1 DEF NoLater

\* The session and the sequence of the next sample are later.
Issued(a) ==
    \/ a.session < session
    \/ a.session = session /\ a.sequence < sequence

Sorted(q) == \A m, n \in DOMAIN q : m < n => NoLater(q[m], q[n])
Queued == {queue[n] : n \in DOMAIN queue}
\* The samples that may still come to the storage thread, or are with it.
Coming == (Queued \cup {item, last}) \ {None}

\* Two samples with the same key are one, those that come are no earlier than
\* those that came, and previous is the last that came since the start.
Ordered ==
    /\ IsFiniteSet(committed)
    /\ \A a \in committed \cup Coming : Issued(a)
    /\ Sorted(queue)
    /\ item # None => \A a \in Queued : NoLater(item, a)
    /\ last # None => \A a \in Coming : NoLater(a, last)
    /\ last = None => Coming = {} /\ previous = None
    /\ \A a \in committed, b \in Coming : NoLater(a, b)
    /\ previous # None => previous \in committed /\ \A a \in committed : NoLater(a, previous)
    /\ previous = None => /\ \A a \in committed : a.session < session
                          /\ \A a \in committed, b \in Coming : a.session < b.session

\* The samples on their way are samples.
LEMMA OrderTypes ==
    ASSUME TypeOK
    PROVE  /\ Queued \subseteq Sample /\ Coming \subseteq Sample /\ committed \subseteq Sample
           /\ queue \in Seq(Sample) /\ DOMAIN queue = 1 .. Len(queue)
           /\ session \in Nat /\ sequence \in Nat
           /\ item \in Sample \cup {None} /\ last \in Sample \cup {None}
           /\ previous \in Sample \cup {None}
           /\ item # None => item \in Coming
           /\ last # None => last \in Coming
           /\ Queued \subseteq Coming
<1>1. queue \in Seq(Sample) /\ DOMAIN queue = 1 .. Len(queue)
  BY DEF TypeOK
<1>2. \A n \in DOMAIN queue : queue[n] \in Sample
  BY <1>1
<1>3. Queued \subseteq Sample
  BY <1>2 DEF Queued
<1> QED BY <1>1, <1>3, SampleType DEF TypeOK, Coming

\* A sample that is sent is the last of the queue, if it is in it.
LEMMA SentIsLast ==
    ASSUME TypeOK, Sorted(queue), NEW s \in Sample, \A a \in Queued : NoLater(a, s),
           queue' = Sent(s)
    PROVE  Sorted(queue') /\ Queued' \subseteq Queued \cup {s}
<1>1. CASE queue' = queue
  BY <1>1 DEF Sorted, Queued
<1>2. CASE queue' = Append(queue, s)
  <2> DEFINE l == Len(queue)
  <2>1. /\ queue \in Seq(Sample) /\ l \in Nat /\ DOMAIN queue = 1 .. l
    BY DEF TypeOK
  <2>2. /\ DOMAIN queue' = 1 .. l + 1
        /\ queue'[l + 1] = s
        /\ \A n \in 1 .. l : queue'[n] = queue[n]
    BY <1>2, <2>1
  <2> HIDE DEF l
  <2>3. ASSUME NEW m \in DOMAIN queue', NEW n \in DOMAIN queue', m < n
        PROVE  NoLater(queue'[m], queue'[n])
    <3>1. m \in 1 .. l /\ queue'[m] = queue[m] /\ queue[m] \in Queued
      BY <2>1, <2>2, <2>3 DEF Queued
    <3>2. CASE n = l + 1
      BY <2>2, <3>1, <3>2
    <3>3. CASE n # l + 1
      <4>1. n \in 1 .. l
        BY <2>1, <2>2, <3>3
      <4> QED BY <2>1, <2>2, <2>3, <3>1, <4>1 DEF Sorted
    <3> QED BY <3>2, <3>3
  <2>4. \A n \in DOMAIN queue' : queue'[n] \in Queued \cup {s}
    BY <2>1, <2>2 DEF Queued
  <2> QED BY <2>3, <2>4 DEF Sorted, Queued
<1> QED BY <1>1, <1>2 DEF Sent

\* What the storage thread takes from the queue is no later than the rest.
LEMMA HeadIsFirst ==
    ASSUME TypeOK, Sorted(queue), queue # <<>>, queue' = Tail(queue)
    PROVE  /\ Head(queue) \in Queued /\ Sorted(queue') /\ Queued' \subseteq Queued
           /\ \A a \in Queued' : NoLater(Head(queue), a)
<1> DEFINE l == Len(queue)
<1>1. queue \in Seq(Sample) /\ l \in Nat /\ l > 0 /\ DOMAIN queue = 1 .. l
  BY DEF TypeOK
<1>2. /\ Head(queue) = queue[1] /\ DOMAIN queue' = 1 .. l - 1
      /\ \A n \in 1 .. l - 1 : queue'[n] = queue[n + 1]
  BY <1>1
<1> HIDE DEF l
<1>3. ASSUME NEW m \in DOMAIN queue', NEW n \in DOMAIN queue', m < n
      PROVE  NoLater(queue'[m], queue'[n])
  <2>1. m + 1 \in DOMAIN queue /\ n + 1 \in DOMAIN queue /\ m + 1 < n + 1
    BY <1>1, <1>2, <1>3
  <2> QED BY <1>2, <2>1 DEF Sorted
<1>4. ASSUME NEW n \in DOMAIN queue'
      PROVE  queue'[n] \in Queued /\ NoLater(Head(queue), queue'[n])
  <2>1. n + 1 \in DOMAIN queue /\ 1 \in DOMAIN queue /\ 1 < n + 1
    BY <1>1, <1>2
  <2> QED BY <1>2, <2>1 DEF Sorted, Queued
<1>5. Head(queue) \in Queued
  BY <1>1, <1>2 DEF Queued
<1> QED BY <1>3, <1>4, <1>5 DEF Sorted, Queued

\* Nothing comes, or came, that was not coming before: the order stays.
LEMMA OrderStays ==
    ASSUME TypeOK, Ordered, Coming' \subseteq Coming, Sorted(queue'),
           item' # None => \A a \in Queued' : NoLater(item', a),
           UNCHANGED <<session, sequence, last, previous, committed>>
    PROVE  Ordered'
  BY DEF Ordered, Issued

\* A sample that is taken is the latest.
LEMMA OrderTake ==
    ASSUME Typed, Typed', Ordered, NEW d \in Delays, NEW reading \in Readings, Take(d, reading)
    PROVE  Ordered'
<1> DEFINE s == last'
<1>1. /\ s \in Sample /\ s.session = session /\ s.sequence = sequence /\ s # None
  <2>1. s = [session |-> session, sequence |-> sequence, at |-> now + d + offset,
             mono |-> now + d, reading |-> reading]
    BY DEF Take
  <2>2. session \in Nat /\ sequence \in Nat /\ now + d \in Time /\ now + d + offset \in Time
    BY DEF Take, Typed, TypeOK
  <2>3. s \in Sample
    BY <2>1, <2>2 DEF Sample
  <2> QED BY <2>1, <2>3, SampleType
<1>2. /\ UNCHANGED <<session, item, previous, committed>>
      /\ sequence' = sequence + 1 /\ queue' = Sent(s) /\ last' = s
  BY DEF Take, storageVars
<1>3. TypeOK /\ session \in Nat /\ sequence \in Nat
  BY DEF Typed, TypeOK
<1> HIDE DEF s
<1>4. \A a \in committed \cup Coming : NoLater(a, s) /\ a # s
  BY <1>1, <1>3, OrderTypes DEF Ordered, Issued, NoLater
<1>5. Sorted(queue') /\ Queued' \subseteq Queued \cup {s}
  BY <1>1, <1>2, <1>3, <1>4, OrderTypes, SentIsLast DEF Ordered
<1>6. Coming' \subseteq Coming \cup {s} /\ s \in Coming'
  BY <1>1, <1>2, <1>5 DEF Coming
<1>7. \A a \in committed \cup Coming \cup {s} : Issued(a)'
  BY <1>1, <1>2, <1>3, OrderTypes, SampleType DEF Ordered, Issued
<1>8. item # None => \A a \in Queued' : NoLater(item, a)
  BY <1>3, <1>4, <1>5, OrderTypes DEF Ordered
<1>9. \A a \in Coming' : NoLater(a, s)
  BY <1>4, <1>6 DEF NoLater
<1>10. \A a \in committed, b \in Coming' : NoLater(a, b)
  BY <1>4, <1>6 DEF Ordered
<1>11. previous = None => \A a \in committed, b \in Coming' : a.session < b.session
  BY <1>1, <1>6 DEF Ordered
<1> QED BY <1>1, <1>2, <1>5, <1>6, <1>7, <1>8, <1>9, <1>10, <1>11 DEF Ordered

\* A failing cycle sends the last sample again.
LEMMA LoseComing ==
    ASSUME TypeOK, Ordered, Lose
    PROVE  /\ Sorted(queue') /\ Coming' \subseteq Coming
           /\ Queued' \subseteq Queued \cup ({last} \ {None})
<1>1. UNCHANGED <<item, last>> /\ queue' = IF last # None THEN Sent(last) ELSE queue
  BY DEF Lose, storageVars
<1>2. CASE last = None
  BY <1>1, <1>2 DEF Ordered, Coming, Queued, Sorted
<1>3. CASE last # None
  <2>1. last \in Sample /\ \A a \in Queued : NoLater(a, last)
    BY <1>3, OrderTypes DEF Ordered
  <2>2. Sorted(queue') /\ Queued' \subseteq Queued \cup {last}
    BY <1>1, <1>3, <2>1, SentIsLast DEF Ordered
  <2> QED BY <1>1, <1>3, <2>2 DEF Coming
<1> QED BY <1>2, <1>3

\* The last sample, sent again, is still the latest.
LEMMA OrderLose ==
    ASSUME Typed, Ordered, Lose
    PROVE  Ordered'
<1>1. UNCHANGED <<item, last, previous, committed>> /\ session' = session + 1
  BY DEF Lose, storageVars
<1>2. TypeOK /\ session \in Nat /\ sequence \in Nat
  BY DEF Typed, TypeOK
<1>3. /\ Sorted(queue') /\ Coming' \subseteq Coming
      /\ Queued' \subseteq Queued \cup ({last} \ {None})
  BY <1>2, LoseComing
<1>4. \A a \in committed \cup Coming : Issued(a)'
  BY <1>1, <1>2, OrderTypes, SampleType DEF Ordered, Issued
<1>5. item # None => \A a \in Queued' : NoLater(item, a)
  BY <1>2, <1>3, OrderTypes DEF Ordered
<1>6. \A a \in committed : a.session < session => a.session < session'
  BY <1>1, <1>2, OrderTypes, SampleType
<1>7. last = None => Coming' = {} /\ previous = None
  BY <1>3 DEF Ordered
<1> QED BY <1>1, <1>3, <1>4, <1>5, <1>6, <1>7 DEF Ordered

\* After a crash nothing is on its way.
LEMMA OrderCrash ==
    ASSUME Typed, Ordered, Crash
    PROVE  Ordered'
<1>1. /\ committed' = committed /\ session' = session + 1
      /\ last' = None /\ queue' = <<>> /\ item' = None /\ previous' = None
  BY DEF Crash
<1>2. TypeOK /\ session \in Nat /\ sequence \in Nat
  BY DEF Typed, TypeOK
<1>3. Queued' = {} /\ Coming' = {} /\ Sorted(queue')
  BY <1>1 DEF Queued, Coming, Sorted
<1>4. \A a \in committed : a.session < session + 1
  BY <1>2, OrderTypes, SampleType DEF Ordered, Issued
<1> QED BY <1>1, <1>3, <1>4 DEF Ordered, Issued

\* What is stored is no later than what is still to come.
LEMMA OrderRecord ==
    ASSUME Typed, Ordered, Record
    PROVE  Ordered'
<1>1. /\ UNCHANGED <<queue, item, session, sequence, last>>
      /\ item # None /\ TypeOK /\ item \in Sample /\ item \in Coming
      /\ \/ UNCHANGED <<previous, committed>>
         \/ committed' = committed \cup {item} /\ previous' = item
  BY OrderTypes DEF Record, Typed, monitorVars
<1>2. Coming' = Coming /\ Queued' = Queued
  BY <1>1 DEF Coming, Queued
<1>3. CASE UNCHANGED <<previous, committed>>
  BY <1>1, <1>2, <1>3 DEF Ordered, Issued
<1>4. CASE committed' = committed \cup {item} /\ previous' = item
  <2>1. IsFiniteSet(committed')
    BY <1>4, FS_AddElement DEF Ordered
  <2>2. \A a \in committed' \cup Coming : Issued(a)
    BY <1>1, <1>4 DEF Ordered
  <2>3. \A b \in Coming : NoLater(item, b)
    <3>1. last # None /\ NoLater(item, last) /\ NoLater(item, item)
      BY <1>1 DEF Ordered, NoLater
    <3> QED BY <1>1, <3>1 DEF Ordered, Coming
  <2>4. \A a \in committed', b \in Coming : NoLater(a, b)
    BY <1>4, <2>3 DEF Ordered
  <2>5. \A a \in committed' : NoLater(a, item)
    BY <1>1, <2>4
  <2> QED BY <1>1, <1>2, <1>4, <2>1, <2>2, <2>4, <2>5 DEF Ordered, Issued
<1> QED BY <1>1, <1>3, <1>4

\* The inductive invariant of the order.
LEMMA OrderIsKept == Spec => [](Typed /\ Ordered)
<1>1. Init => Ordered
  <2> SUFFICES ASSUME Init PROVE Ordered
    OBVIOUS
  <2>1. Queued = {} /\ Coming = {} /\ Sorted(queue)
    BY DEF Init, Queued, Coming, Sorted
  <2> QED BY <2>1, FS_EmptySet DEF Init, Ordered
<1>2. Typed /\ Typed' /\ Ordered /\ [Next]_vars => Ordered'
  <2> SUFFICES ASSUME Typed, Typed', Ordered, [Next]_vars PROVE Ordered'
    OBVIOUS
  <2>1. ASSUME NEW d \in Delays, NEW reading \in Readings, Take(d, reading)
        PROVE  Ordered'
    BY <2>1, OrderTake
  <2>2. ASSUME NEW j \in Jumps, ClockSteps(j)
        PROVE  Ordered'
    BY <2>2 DEF ClockSteps, storageVars, Ordered, Issued, Coming, Queued
  <2>3. CASE Lose
    BY <2>3, OrderLose
  <2>4. CASE Crash
    BY <2>4, OrderCrash
  <2>5. CASE StorageReceives
    <3>1. /\ item = None /\ queue # <<>> /\ item' = Head(queue) /\ queue' = Tail(queue)
          /\ UNCHANGED <<session, sequence, last, previous, committed>>
          /\ TypeOK /\ Sorted(queue)
      BY <2>5 DEF StorageReceives, monitorVars, Typed, Ordered
    <3>2. /\ Head(queue) \in Queued /\ Sorted(queue') /\ Queued' \subseteq Queued
          /\ \A a \in Queued' : NoLater(Head(queue), a)
      BY <3>1, HeadIsFirst
    <3>3. Coming' \subseteq Coming
      BY <3>1, <3>2 DEF Coming
    <3> QED BY <3>1, <3>2, <3>3, OrderStays
  <2>6. CASE Record
    BY <2>6, OrderRecord
  <2>7. CASE StatementFails
    BY <2>7 DEF StatementFails, AfterFailure, monitorVars, Ordered, Issued, Coming, Queued
  <2>8. CASE Complete
    <3>1. /\ item' = None
          /\ UNCHANGED <<session, sequence, last, queue, previous, committed>>
      BY <2>8 DEF Complete, monitorVars
    <3>2. Coming' \subseteq Coming /\ Sorted(queue')
      BY <3>1 DEF Coming, Queued, Ordered
    <3> QED BY <3>1, <3>2, OrderStays DEF Typed
  <2>9. CASE UNCHANGED vars
    BY <2>9 DEF vars, monitorVars, storageVars, Ordered, Issued, Coming, Queued
  <2> QED BY <2>1, <2>2, <2>3, <2>4, <2>5, <2>6, <2>7, <2>8, <2>9 DEF Next
<1> QED BY <1>1, <1>2, TypedIsKept, PTL DEF Spec

-----------------------------------------------------------------------------
\* The spans of the stored samples, and the time they cover.

\* A sample that is stored ends the span that previous begins, if there is one; it
\* is between no others, since it is the latest.
LEMMA SpansGrow ==
    ASSUME TypeOK, Ordered, item # None, committed' = committed \cup {item}
    PROVE  /\ previous # None /\ Continuous(previous, item)
                => Spans' = Spans \cup {<<previous, item>>} /\ <<previous, item>> \notin Spans
           /\ ~(previous # None /\ Continuous(previous, item)) => Spans' = Spans
<1>1. item \in Sample /\ item \in Coming /\ committed \subseteq Sample
  BY OrderTypes
<1> DEFINE Between(p, q, s) == /\ q.session = p.session
                               /\ p.sequence < q.sequence /\ q.sequence < s.sequence
           Is(p, s) == Continuous(p, s) /\ ~\E q \in committed : Between(p, q, s)
           Will(p, s) == Continuous(p, s) /\ ~\E q \in committed' : Between(p, q, s)
<1>2. /\ \A p, s \in committed : <<p, s>> \in Spans <=> Is(p, s)
      /\ \A p, s \in committed' : <<p, s>> \in Spans' <=> Will(p, s)
      /\ \A ps \in Spans : ps = <<ps[1], ps[2]>> /\ ps[1] \in committed /\ ps[2] \in committed
      /\ \A ps \in Spans' : ps = <<ps[1], ps[2]>> /\ ps[1] \in committed' /\ ps[2] \in committed'
  BY DEF Spans
<1>3. CASE item \in committed
  <2>1. committed' = committed
    BY <1>3
  <2>2. Spans' = Spans
    BY <2>1 DEF Spans
  <2>3. ASSUME previous # None
        PROVE  previous = item
    <3>1. previous \in Sample /\ NoLater(previous, item) /\ NoLater(item, previous)
      BY <1>1, <1>3, <2>3 DEF Ordered
    <3> QED BY <1>1, <3>1, NoLaterIsOrder
  <2>4. ~Continuous(item, item)
    BY <1>1, SampleType DEF Continuous
  <2> QED BY <2>2, <2>3, <2>4
<1>4. CASE item \notin committed
  <2>1. ASSUME NEW a \in committed
        PROVE  /\ a \in Sample /\ NoLater(a, item) /\ a # item
               /\ a.session = item.session => a.sequence < item.sequence
    BY <1>1, <1>4, SampleType DEF Ordered, NoLater
  <2>2. ASSUME NEW p \in committed, NEW s \in committed
        PROVE  Will(p, s) <=> Is(p, s)
    <3>1. ~(Continuous(p, s) /\ Between(p, item, s))
      BY <1>1, <2>1, SampleType DEF Continuous
    <3> QED BY <3>1
  <2>3. ASSUME NEW p \in committed'
        PROVE  ~Will(item, p)
    <3>1. ~Continuous(item, p)
      BY <1>1, <2>1, SampleType DEF Continuous
    <3> QED BY <3>1
  <2>4. ASSUME NEW p \in committed, p # previous
        PROVE  ~Will(p, item)
    <3> SUFFICES ASSUME Continuous(p, item) PROVE \E q \in committed' : Between(p, q, item)
      OBVIOUS
    <3>1. p.session = item.session
      BY DEF Continuous
    <3>2. previous # None
      BY <1>1, <2>1, <3>1, SampleType DEF Ordered
    <3>3. previous \in committed /\ NoLater(p, previous) /\ NoLater(previous, item)
      BY <1>1, <3>2 DEF Ordered
    <3>4. Between(p, previous, item)
      BY <1>1, <2>1, <2>4, <3>1, <3>3, SampleType DEF NoLater
    <3> QED BY <3>3, <3>4
  <2>5. ASSUME previous # None
        PROVE  previous \in committed /\ (Will(previous, item) <=> Continuous(previous, item))
    <3>1. previous \in committed /\ previous \in Sample
      BY <1>1, <2>5 DEF Ordered
    <3>2. ASSUME NEW q \in committed
          PROVE  ~Between(previous, q, item)
      <4>1. NoLater(q, previous) /\ q \in Sample
        BY <1>1, <2>5 DEF Ordered
      <4> QED BY <3>1, <4>1, SampleType DEF NoLater
    <3>3. ~Between(previous, item, item)
      BY <1>1, SampleType
    <3> QED BY <3>1, <3>2, <3>3
  <2> HIDE DEF Will, Is, Between
  <2>6. ASSUME previous # None, Continuous(previous, item)
        PROVE  Spans' = Spans \cup {<<previous, item>>} /\ <<previous, item>> \notin Spans
    <3>1. <<previous, item>> \in Spans' /\ <<previous, item>> \notin Spans
      BY <1>2, <1>4, <2>5, <2>6
    <3>2. ASSUME NEW ps \in Spans'
          PROVE  ps \in Spans \/ ps = <<previous, item>>
      BY <1>2, <2>2, <2>3, <2>4, <3>2
    <3>3. ASSUME NEW ps \in Spans
          PROVE  ps \in Spans'
      BY <1>2, <2>2, <3>3
    <3> QED BY <3>1, <3>2, <3>3
  <2>7. ASSUME ~(previous # None /\ Continuous(previous, item))
        PROVE  Spans' = Spans
    <3>1. ASSUME NEW ps \in Spans'
          PROVE  ps \in Spans
      <4>1. ~Will(previous, item) \/ previous = None
        BY <2>5, <2>7
      <4>2. None \notin committed
        BY <1>1, SampleType
      <4> QED BY <1>2, <2>2, <2>3, <2>4, <3>1, <4>1, <4>2
    <3>2. ASSUME NEW ps \in Spans
          PROVE  ps \in Spans'
      BY <1>2, <2>2, <3>2
    <3> QED BY <3>1, <3>2
  <2> QED BY <2>6, <2>7
<1> QED BY <1>3, <1>4

\* The spans are finitely many pairs of samples.
LEMMA SpansAreFinite ==
    ASSUME TypeOK, Ordered
    PROVE  /\ IsFiniteSet(Spans) /\ IsFiniteSet(InputSpansOf(Spans))
           /\ InputSpansOf(Spans) \subseteq Spans
           /\ \A ps \in Spans : /\ ps = <<ps[1], ps[2]>> /\ ps[1] \in Sample /\ ps[2] \in Sample
                                /\ Continuous(ps[1], ps[2])
<1>1. IsFiniteSet(committed \X committed)
  BY FS_Product DEF Ordered
<1>2. Spans \subseteq committed \X committed /\ InputSpansOf(Spans) \subseteq committed \X committed
  BY DEF Spans, InputSpansOf
<1>3. IsFiniteSet(Spans) /\ IsFiniteSet(InputSpansOf(Spans))
  BY <1>1, <1>2, FS_Subset
<1> QED BY <1>3, OrderTypes DEF Spans, InputSpansOf

\* The ticks of a minute in a span are those of its part.
LEMMA TicksOfPart ==
    ASSUME NEW p \in Sample, NEW s \in Sample, NEW m \in Minutes
    PROVE  LET part == Part(p, s, m) IN
           /\ TicksIn(<<p, s>>, m) = part.from .. part.to - 1
           /\ IsFiniteSet(TicksIn(<<p, s>>, m))
           /\ Cardinality(TicksIn(<<p, s>>, m)) =
                IF part.from >= part.to THEN 0 ELSE part.to - part.from
           /\ part.from >= part.to <=> TicksIn(<<p, s>>, m) = {}
<1> DEFINE a == m * Minute
           b == (m + 1) * Minute
           part == Part(p, s, m)
           ticks == TicksIn(<<p, s>>, m)
<1>1. a \in Nat /\ b \in Nat
  BY Numbers, DivIsNat, ProductIsNat DEF Minutes
<1>2. p.at \in Nat /\ s.at \in Nat
  BY SampleType
<1>3. /\ part.from = IF a < p.at THEN p.at ELSE a
      /\ part.to = IF b > s.at THEN s.at ELSE b
  BY DEF Part
<1>4. ticks = {t \in a .. b - 1 : p.at <= t /\ t < s.at}
  BY DEF TicksIn, Ticks
<1> DEFINE from == part.from
           to == part.to
           end == part.to - 1
<1> HIDE DEF a, b, part, ticks
<1>5. from \in Nat /\ to \in Nat /\ end \in Int /\ end = to - 1
  BY <1>1, <1>2, <1>3
<1>6. ASSUME NEW t
      PROVE  t \in ticks <=> t \in from .. end
  <2>1. t \in ticks <=> t \in Int /\ a <= t /\ t <= b - 1 /\ p.at <= t /\ t < s.at
    BY <1>1, <1>2, <1>4
  <2>2. t \in from .. end <=> t \in Int /\ from <= t /\ t <= end
    BY <1>5
  <2> QED BY <1>1, <1>2, <1>3, <2>1, <2>2
<1>7. ticks = from .. end
  BY <1>6
<1> HIDE DEF from, to, end
<1>8. /\ IsFiniteSet(from .. end)
      /\ Cardinality(from .. end) = IF from > end THEN 0 ELSE end - from + 1
  BY <1>5, FS_Interval
<1>9. Cardinality(ticks) = IF from >= to THEN 0 ELSE to - from
  BY <1>5, <1>7, <1>8
<1>10. from >= to <=> ticks = {}
  BY <1>5, <1>7
<1> QED BY <1>7, <1>8, <1>9, <1>10 DEF part, ticks, from, to, end

\* The sum of another function that agrees but for a new member.
LEMMA SumGrows ==
    ASSUME NEW S, IsFiniteSet(S), NEW x, x \notin S, NEW f, NEW g,
           \A y \in S : f[y] = g[y] /\ g[y] \in Int, f[x] \in Int
    PROVE  SumFunctionOnSet(f, S \cup {x}) = SumFunctionOnSet(g, S) + f[x]
<1>1. SumFunctionOnSet(f, S \cup {x}) = SumFunctionOnSet(f, S) + f[x]
  BY SumWith
<1>2. SumFunctionOnSet(f, S) = SumFunctionOnSet(g, S)
  BY SumsOfEquals
<1> QED BY <1>1, <1>2

\* The time that a span adds to a minute.
LEMMA AddedTime ==
    ASSUME energy \in [Minutes -> Cell], NEW p \in Sample, NEW s \in Sample, NEW m \in Minutes
    PROVE  LET ticks == Cardinality(TicksIn(<<p, s>>, m))
               known == p.reading.input # None /\ s.reading.input # None
           IN  /\ ticks \in Nat
               /\ Added(p, s)[m].observed = energy[m].observed + ticks
               /\ Added(p, s)[m].inputObserved
                    = energy[m].inputObserved + (IF known THEN ticks ELSE 0)
<1> DEFINE part == Part(p, s, m)
           ticks == Cardinality(TicksIn(<<p, s>>, m))
           known == p.reading.input # None /\ s.reading.input # None
<1>1. /\ ticks = IF part.from >= part.to THEN 0 ELSE part.to - part.from
      /\ part.from \in Nat /\ part.to \in Nat
  BY TicksOfPart, PartType
<1>2. /\ energy[m].observed \in Nat /\ energy[m].inputObserved \in Nat
  BY DEF Cell
<1>3. CASE part.from >= part.to
  <2>1. Added(p, s)[m] = energy[m]
    BY <1>3 DEF Added
  <2> HIDE DEF known, part, ticks
  <2>2. ticks = 0
    BY <1>1, <1>3
  <2>3. /\ Added(p, s)[m].observed = energy[m].observed + ticks
        /\ Added(p, s)[m].inputObserved = energy[m].inputObserved + (IF known THEN ticks ELSE 0)
    BY <1>2, <2>1, <2>2
  <2> QED BY <2>2, <2>3 DEF known, part, ticks
<1>4. CASE ~(part.from >= part.to)
  <2>1. /\ Added(p, s)[m].observed = energy[m].observed + (part.to - part.from)
        /\ Added(p, s)[m].inputObserved
            = energy[m].inputObserved + (IF known THEN part.to - part.from ELSE 0)
    BY <1>4 DEF Added
  <2> HIDE DEF known, part, ticks
  <2>2. ticks = part.to - part.from /\ ticks \in Nat
    BY <1>1, <1>4
  <2>3. /\ Added(p, s)[m].observed = energy[m].observed + ticks
        /\ Added(p, s)[m].inputObserved = energy[m].inputObserved + (IF known THEN ticks ELSE 0)
    BY <2>1, <2>2
  <2> QED BY <2>2, <2>3 DEF known, part, ticks
<1> QED BY <1>3, <1>4

\* The ticks of the spans in a minute.
CoveredIn(spans, m) == [ps \in spans |-> Cardinality(TicksIn(ps, m))]

\* The property, with its functions named.
LEMMA LedgerSums ==
    LedgerIsOfSamples <=>
        \A m \in Minutes :
            /\ energy[m].observed = SumFunctionOnSet(CoveredIn(Spans, m), Spans)
            /\ energy[m].inputObserved
                = SumFunctionOnSet(CoveredIn(Spans, m), InputSpansOf(Spans))
  BY DEF LedgerIsOfSamples, SumFunction, CoveredIn

\* A step that changes neither the samples nor the minutes.
LEMMA LedgerStays ==
    ASSUME LedgerIsOfSamples, UNCHANGED <<energy, committed>>
    PROVE  LedgerIsOfSamples'
<1>1. Spans' = Spans
  BY DEF Spans
<1> QED BY <1>1 DEF LedgerIsOfSamples

\* A sample that is stored adds the ticks of the span it ends.
LEMMA LedgerRecord ==
    ASSUME TypeOK, TypeOK', Ordered, Ordered', LedgerIsOfSamples, Record
    PROVE  LedgerIsOfSamples'
<1>1. CASE UNCHANGED <<energy, committed>>
  BY <1>1, LedgerStays
<1>2. CASE ~UNCHANGED <<energy, committed>>
  <2> DEFINE x == <<previous, item>>
             continuous == previous # None /\ Continuous(previous, item)
             known == previous.reading.input # None /\ item.reading.input # None
  <2>1. /\ item # None /\ item \in Sample /\ committed' = committed \cup {item}
        /\ energy' = IF continuous THEN Added(previous, item) ELSE energy
    BY <1>2, OrderTypes DEF Record
  <2>2. CASE ~continuous
    <3>1. Spans' = Spans /\ energy' = energy
      BY <2>1, <2>2, SpansGrow
    <3> QED BY <3>1 DEF LedgerIsOfSamples
  <2>3. CASE continuous
    <3>1. Spans' = Spans \cup {x} /\ x \notin Spans
      BY <2>1, <2>3, SpansGrow
    <3>2. previous \in Sample /\ energy \in [Minutes -> Cell] /\ energy' = Added(previous, item)
      BY <2>1, <2>3, OrderTypes DEF TypeOK
    <3>3. /\ IsFiniteSet(Spans) /\ IsFiniteSet(InputSpansOf(Spans))
          /\ InputSpansOf(Spans) \subseteq Spans
          /\ \A ps \in Spans : ps = <<ps[1], ps[2]>> /\ ps[1] \in Sample /\ ps[2] \in Sample
      BY SpansAreFinite
    <3>4. InputSpansOf(Spans') = IF known THEN InputSpansOf(Spans) \cup {x} ELSE InputSpansOf(Spans)
      BY <3>1 DEF InputSpansOf
    <3> SUFFICES ASSUME NEW m \in Minutes
                 PROVE  /\ energy'[m].observed = SumFunctionOnSet(CoveredIn(Spans', m), Spans')
                        /\ energy'[m].inputObserved
                            = SumFunctionOnSet(CoveredIn(Spans', m), InputSpansOf(Spans'))
      BY DEF LedgerIsOfSamples, SumFunction, CoveredIn
    <3> DEFINE f == CoveredIn(Spans', m)
               g == CoveredIn(Spans, m)
               ticks == Cardinality(TicksIn(x, m))
               inputs == InputSpansOf(Spans)
    <3>5. /\ energy'[m].observed = energy[m].observed + ticks
          /\ energy'[m].inputObserved = energy[m].inputObserved + (IF known THEN ticks ELSE 0)
          /\ ticks \in Nat
      BY <2>1, <3>2, AddedTime
    <3>6. \A y \in Spans : f[y] = g[y] /\ g[y] \in Int
      BY <3>1, <3>2, <3>3, AddedTime DEF CoveredIn
    <3>7. f[x] = ticks
      BY <3>1 DEF CoveredIn
    <3>8. /\ energy[m].observed = SumFunctionOnSet(g, Spans)
          /\ energy[m].inputObserved = SumFunctionOnSet(g, inputs)
      BY LedgerSums
    <3> HIDE DEF f, g, ticks, inputs, x, known
    <3>9. SumFunctionOnSet(f, Spans \cup {x}) = SumFunctionOnSet(g, Spans) + ticks
      <4>1. f[x] \in Int /\ f[x] = ticks
        BY <3>5, <3>7
      <4>2. IsFiniteSet(Spans) /\ x \notin Spans
        BY <3>1, <3>3
      <4>3. SumFunctionOnSet(f, Spans \cup {x}) = SumFunctionOnSet(g, Spans) + f[x]
        BY <3>6, <4>1, <4>2, SumGrows
      <4> QED BY <4>1, <4>3
    <3>10. CASE known
      <4>1. SumFunctionOnSet(f, inputs \cup {x}) = SumFunctionOnSet(g, inputs) + ticks
        <5>1. IsFiniteSet(inputs) /\ x \notin inputs /\ \A y \in inputs : f[y] = g[y] /\ g[y] \in Int
          BY <3>1, <3>3, <3>6 DEF inputs
        <5> QED BY <3>5, <3>7, <5>1, SumGrows
      <4> QED BY <3>1, <3>4, <3>5, <3>8, <3>9, <3>10, <4>1 DEF f, inputs
    <3>11. CASE ~known
      <4>1. SumFunctionOnSet(f, inputs) = SumFunctionOnSet(g, inputs)
        <5>1. IsFiniteSet(inputs) /\ \A y \in inputs : f[y] = g[y]
          BY <3>3, <3>6 DEF inputs
        <5> QED BY <5>1, SumsOfEquals
      <4>2. energy'[m].inputObserved = energy[m].inputObserved
        <5>1. energy[m].inputObserved \in Nat
          BY <3>2 DEF Cell
        <5> QED BY <3>5, <3>11, <5>1
      <4> QED BY <3>1, <3>4, <3>5, <3>8, <3>9, <3>11, <4>1, <4>2 DEF f, inputs
    <3> QED BY <3>10, <3>11
  <2> QED BY <2>2, <2>3
<1> QED BY <1>1, <1>2

\* Through failures, repetitions, restarts, prunes and steps of the clock the
\* observed time of each minute is that of the spans of the samples that were ever
\* stored, each counted once (record, start).
THEOREM LedgerMatchesSamples == Spec => []LedgerIsOfSamples
<1>1. Init => LedgerIsOfSamples
  <2> SUFFICES ASSUME Init PROVE LedgerIsOfSamples
    OBVIOUS
  <2>1. Spans = {} /\ InputSpansOf({}) = {}
    BY DEF Init, Spans, InputSpansOf
  <2>2. \A m \in Minutes : energy[m].observed = 0 /\ energy[m].inputObserved = 0
    BY DEF Init
  <2> QED BY <2>1, <2>2, LedgerSums, SumOfNone
<1>2. /\ Typed /\ Typed' /\ Ordered /\ Ordered' /\ LedgerIsOfSamples /\ [Next]_vars
      => LedgerIsOfSamples'
  <2> SUFFICES ASSUME Typed, Typed', Ordered, Ordered', LedgerIsOfSamples, [Next]_vars
               PROVE  LedgerIsOfSamples'
    OBVIOUS
  <2>1. CASE Record
    BY <2>1, LedgerRecord DEF Typed
  <2>2. CASE ~Record
    <3>1. UNCHANGED <<energy, committed>>
      BY <2>2 DEF Next, Take, ClockSteps, Lose, Crash, StorageReceives, StatementFails,
                  Complete, vars, storageVars
    <3> QED BY <3>1, LedgerStays
  <2> QED BY <2>1, <2>2
<1> QED BY <1>1, <1>2, OrderIsKept, PTL DEF Spec

-----------------------------------------------------------------------------
\* No time is invented.

\* Each tick is in one minute at most, so that the parts of a span are no longer
\* than the span.
LEMMA TicksAreApart ==
    ASSUME NEW m \in Nat, NEW n \in Nat, NEW t \in Int, t \in Ticks(m), t \in Ticks(n)
    PROVE  m = n
<1>1. ASSUME NEW a \in Nat, NEW b \in Nat, a < b, t \in Ticks(a), t \in Ticks(b)
      PROVE  FALSE
  <2> DEFINE e == (a + 1) * Minute
             f == (b - (a + 1)) * Minute
  <2>1. e \in Nat /\ f \in Nat /\ a * Minute \in Nat /\ b * Minute \in Nat /\ b * Minute = e + f
    BY <1>1, Numbers, ProductIsNat
  <2>2. t <= e - 1 /\ b * Minute <= t
    BY <1>1, <2>1, Numbers DEF Ticks
  <2> HIDE DEF e, f
  <2> QED BY <2>1, <2>2
<1> QED BY <1>1

\* The parts of a span are no longer than it.
LEMMA PartsOfSpan ==
    ASSUME NEW p \in Sample, NEW s \in Sample, p.at <= s.at
    PROVE  SumFunctionOnSet([m \in Minutes |-> Cardinality(TicksIn(<<p, s>>, m))], Minutes)
                <= s.at - p.at
<1> DEFINE f == [m \in Minutes |-> Cardinality(TicksIn(<<p, s>>, m))]
           end == s.at - 1
           A == p.at .. end
           In(T) == {t \in A : \E m \in T : t \in Ticks(m)}
           Bad == {T \in SUBSET Minutes : ~(SumFunctionOnSet(f, T) <= Cardinality(In(T)))}
<1>1. /\ IsFiniteSet(A) /\ Cardinality(A) = s.at - p.at
      /\ p.at \in Nat /\ s.at \in Nat /\ end \in Int
  <2> DEFINE start == p.at
             stop == s.at
  <2>1. start \in Nat /\ stop \in Nat /\ end \in Int /\ end = stop - 1 /\ start <= stop
    BY SampleType
  <2> HIDE DEF start, stop, end
  <2>2. /\ IsFiniteSet(start .. end)
        /\ Cardinality(start .. end) = IF start > end THEN 0 ELSE end - start + 1
    BY <2>1, FS_Interval
  <2>3. Cardinality(start .. end) = stop - start
    BY <2>1, <2>2
  <2> QED BY <2>1, <2>2, <2>3 DEF start, stop
<1>2. Minutes \subseteq Nat /\ IsFiniteSet(Minutes)
  <2> DEFINE top == Horizon \div Minute
  <2>1. top \in Nat
    BY Numbers, DivIsNat
  <2>2. IsFiniteSet(0 .. top) /\ 0 .. top \subseteq Nat
    BY <2>1, FS_Interval
  <2> QED BY <2>2 DEF Minutes
<1>3. ASSUME NEW T \in SUBSET Minutes
      PROVE  IsFiniteSet(In(T)) /\ Cardinality(In(T)) <= Cardinality(A) /\ Cardinality(In(T)) \in Nat
  BY <1>1, FS_Subset, FS_CardinalityType
<1>4. \A m \in Minutes : f[m] \in Int /\ f[m] = Cardinality(TicksIn(<<p, s>>, m))
                         /\ IsFiniteSet(TicksIn(<<p, s>>, m))
  <2>1. ASSUME NEW m \in Minutes
        PROVE  IsFiniteSet(TicksIn(<<p, s>>, m)) /\ Cardinality(TicksIn(<<p, s>>, m)) \in Int
    BY TicksOfPart, FS_CardinalityType
  <2> QED BY <2>1
<1>5. Bad = {}
  <2>1. SUFFICES ASSUME Bad # {} PROVE FALSE
    OBVIOUS
  <2>2. PICK T \in Bad : \A t \in Bad : t \subseteq T => t = T
    <3>1. Bad \in SUBSET (SUBSET Minutes) /\ Bad # {}
      BY <2>1
    <3>2. IsFiniteSet(Minutes)
      BY <1>2
    <3> HIDE DEF Bad
    <3> QED BY <3>1, <3>2, SmallestExists
  <2>3. /\ T \in SUBSET Minutes /\ ~(SumFunctionOnSet(f, T) <= Cardinality(In(T)))
        /\ \A R \in SUBSET T : R # T => SumFunctionOnSet(f, R) <= Cardinality(In(R))
    BY <2>2
  <2> HIDE DEF Bad
  <2>4. IsFiniteSet(T)
    BY <1>2, <2>3, FS_Subset
  <2>5. T # {}
    <3>1. SumFunctionOnSet(f, {}) = 0
      BY SumOfNone
    <3>2. {} \in SUBSET Minutes
      OBVIOUS
    <3> HIDE DEF f, In
    <3>3. Cardinality(In({})) \in Nat
      BY <1>3, <3>2
    <3>4. ASSUME T = {}
          PROVE  FALSE
      <4>1. SumFunctionOnSet(f, T) = 0 /\ Cardinality(In(T)) \in Nat
        BY <3>1, <3>3, <3>4
      <4>2. ~(SumFunctionOnSet(f, T) <= Cardinality(In(T)))
        BY <2>3
      <4> QED BY <4>1, <4>2
    <3> QED BY <3>4
  <2> DEFINE c == Chosen(T)
             R == T \ {c}
             C == TicksIn(<<p, s>>, c)
  <2>6. c \in T /\ c \in Minutes /\ c \in Nat /\ R \in SUBSET T /\ R # T /\ R \in SUBSET Minutes
    BY <1>2, <2>3, <2>5 DEF Chosen
  <2>7. SumFunctionOnSet(f, T) = f[c] + SumFunctionOnSet(f, R)
    BY <2>4, <2>5, SumStep
  <2>8. C = {t \in A : t \in Ticks(c)} /\ IsFiniteSet(C) /\ f[c] = Cardinality(C)
    <3>1. C = {t \in Ticks(c) : p.at <= t /\ t < s.at}
      BY DEF TicksIn
    <3>2. Ticks(c) \subseteq Int
      BY DEF Ticks
    <3>3. ASSUME NEW t \in Ticks(c)
          PROVE  t \in A <=> p.at <= t /\ t < s.at
      BY <1>1, <3>2, <3>3
    <3>4. C = {t \in A : t \in Ticks(c)}
      BY <3>1, <3>3
    <3> QED BY <1>4, <2>6, <3>4
  <2>9. In(T) = In(R) \cup C /\ In(R) \cap C = {}
    <3>1. In(T) = In(R) \cup C
      BY <2>6, <2>8
    <3>2. ASSUME NEW t \in In(R), t \in C
          PROVE  FALSE
      <4>1. PICK m \in R : t \in Ticks(m)
        BY <3>2
      <4>2. t \in Ticks(c) /\ m \in Nat
        BY <1>2, <2>6, <2>8, <3>2, <4>1
      <4>3. t \in Int
        BY <4>1 DEF Ticks
      <4> QED BY <2>6, <4>1, <4>2, <4>3, TicksAreApart
    <3> QED BY <3>1, <3>2
  <2> HIDE DEF c, C, In
  <2>10. Cardinality(In(T)) = Cardinality(In(R)) + Cardinality(C)
    <3>1. /\ IsFiniteSet(In(R)) /\ Cardinality(In(R)) \in Nat /\ Cardinality({}) = 0
          /\ Cardinality(C) \in Nat
      BY <1>3, <2>6, <2>8, FS_CardinalityType, FS_EmptySet
    <3> DEFINE U == In(R)
    <3>2. IsFiniteSet(U) /\ IsFiniteSet(C) /\ U \cap C = {} /\ In(T) = U \cup C
      BY <2>8, <2>9, <3>1
    <3>3. Cardinality(U) \in Nat /\ Cardinality(C) \in Nat /\ Cardinality(U \cap C) = 0
      BY <3>1, <3>2
    <3> HIDE DEF U
    <3>4. Cardinality(U \cup C) = Cardinality(U) + Cardinality(C) - Cardinality(U \cap C)
      BY <3>2, FS_Union
    <3>5. Cardinality(In(T)) = Cardinality(U) + Cardinality(C)
      BY <3>2, <3>3, <3>4
    <3> QED BY <3>5 DEF U
  <2>11. SumFunctionOnSet(f, R) \in Int
    <3>1. IsFiniteSet(R) /\ \A m \in R : f[m] \in Int
      BY <1>4, <2>4, <2>6, FS_Subset
    <3> HIDE DEF f, R
    <3> QED BY <3>1, SumIsInt
  <2>12. SumFunctionOnSet(f, R) <= Cardinality(In(R)) /\ Cardinality(In(R)) \in Nat
    BY <1>3, <2>3, <2>6
  <2>13. f[c] \in Int
    BY <1>4, <2>6
  <2> HIDE DEF f, R
  <2> QED BY <2>3, <2>7, <2>8, <2>10, <2>11, <2>12, <2>13
<1>6. SumFunctionOnSet(f, Minutes) <= Cardinality(In(Minutes))
  BY <1>5
<1>7. /\ Cardinality(In(Minutes)) \in Nat /\ Cardinality(In(Minutes)) <= Cardinality(A)
      /\ SumFunctionOnSet(f, Minutes) \in Int
  <2>1. \A m \in Minutes : f[m] \in Int
    BY <1>4
  <2>2. Minutes \in SUBSET Minutes
    OBVIOUS
  <2> HIDE DEF f, In
  <2> QED BY <1>2, <1>3, <2>1, <2>2, SumIsInt
<1> HIDE DEF In, A
<1> QED BY <1>1, <1>6, <1>7

\* The observed time of all minutes.
Observed == SumFunctionOnSet([m \in Minutes |-> energy[m].observed], Minutes)

\* The ledger has finitely many minutes.
LEMMA MinutesAreFinite == IsFiniteSet(Minutes)
<1> DEFINE top == Horizon \div Minute
<1>1. top \in Nat
  BY Numbers, DivIsNat
<1>2. IsFiniteSet(0 .. top)
  BY <1>1, FS_Interval
<1> QED BY <1>2 DEF Minutes

\* The observed time is a number.
LEMMA ObservedIsInt ==
    ASSUME energy \in [Minutes -> Cell]
    PROVE  Observed \in Int
<1> DEFINE f == [m \in Minutes |-> energy[m].observed]
<1>1. \A m \in Minutes : f[m] \in Int
  BY DEF Cell
<1> HIDE DEF f
<1>2. SumFunctionOnSet(f, Minutes) \in Int
  BY <1>1, MinutesAreFinite, SumIsInt
<1> QED BY <1>2 DEF Observed, f

\* A span adds no more than its length.
LEMMA ObservedGrows ==
    ASSUME energy \in [Minutes -> Cell], NEW p \in Sample, NEW s \in Sample, p.at <= s.at,
           energy' = Added(p, s)
    PROVE  Observed' <= Observed + (s.at - p.at)
<1> DEFINE f == [m \in Minutes |-> energy[m].observed]
           g == [m \in Minutes |-> Cardinality(TicksIn(<<p, s>>, m))]
           h == [m \in Minutes |-> Added(p, s)[m].observed]
<1>1. \A m \in Minutes : f[m] \in Int /\ g[m] \in Int /\ h[m] = f[m] + g[m]
  <2>1. ASSUME NEW m \in Minutes
        PROVE  /\ energy[m].observed \in Int /\ Cardinality(TicksIn(<<p, s>>, m)) \in Int
               /\ Added(p, s)[m].observed
                    = energy[m].observed + Cardinality(TicksIn(<<p, s>>, m))
    BY AddedTime DEF Cell
  <2> QED BY <2>1
<1>2. Observed' = SumFunctionOnSet(h, Minutes) /\ Observed = SumFunctionOnSet(f, Minutes)
  BY DEF Observed
<1>3. SumFunctionOnSet(g, Minutes) <= s.at - p.at
  BY PartsOfSpan
<1> HIDE DEF f, g, h
<1>4. SumFunctionOnSet(h, Minutes) = SumFunctionOnSet(f, Minutes) + SumFunctionOnSet(g, Minutes)
  BY <1>1, MinutesAreFinite, SumOfSums
<1>5. SumFunctionOnSet(f, Minutes) \in Int
  BY <1>1, MinutesAreFinite, SumIsInt
<1>6. SumFunctionOnSet(g, Minutes) \in Int
  BY <1>1, MinutesAreFinite, SumIsInt
<1>7. s.at - p.at \in Int
  BY SampleType
<1> QED BY <1>2, <1>3, <1>4, <1>5, <1>6, <1>7

\* What may be observed after so long a watch and so many steps of the clock.
Credit(watch, steps) == watch + Skew * steps

\* The credit grows with the watch, and by Skew with each step of the clock.
LEMMA CreditGrows ==
    ASSUME NEW v \in Nat, NEW w \in Nat, NEW j \in Nat, NEW k \in Nat, NEW e \in Nat,
           v + e <= w, j <= k
    PROVE  /\ Credit(v, j) \in Int
           /\ Credit(v, j) + e <= Credit(w, k)
           /\ j < k => Credit(v, j) + e + Skew <= Credit(w, k)
<1> DEFINE n == k - j
           a == Skew * j
           b == Skew * n
<1>1. n \in Nat /\ Skew \in Nat /\ a \in Nat /\ b \in Nat
  BY Numbers, ProductIsNat
<1>2. Skew * k = a + b
  BY Numbers
<1>3. j < k => b >= Skew
  <2>1. ASSUME j < k
        PROVE  b >= Skew
    <3> DEFINE c == Skew * (n - 1)
    <3>1. n - 1 \in Nat /\ c \in Nat
      BY <1>1, <2>1, ProductIsNat
    <3>2. b = c + Skew
      BY <1>1
    <3> HIDE DEF b, c
    <3> QED BY <1>1, <3>1, <3>2
  <2> QED BY <2>1
<1>4. Credit(v, j) = v + a /\ Credit(w, k) = w + (a + b)
  BY <1>2 DEF Credit
<1> HIDE DEF a, b, n
<1> QED BY <1>1, <1>3, <1>4

\* The samples that are with the threads, and the one before them.
Seen == (Coming \cup {previous}) \ {None}

\* What watched and jumps were when a sample was taken, for some W and J: between
\* two samples of one session that are no further apart than a span may be, the
\* device was watched all the time, and when their clocks differ, it was set.
Watch(W, J) ==
    /\ W \in [Sample -> Nat] /\ J \in [Sample -> Nat]
    /\ Observed <= Credit(watched, jumps)
    /\ \A a \in Seen :
          /\ W[a] <= watched /\ J[a] <= jumps
          /\ a.mono <= now
          /\ a.at - a.mono # offset => J[a] < jumps
          /\ Observed <= Credit(W[a], J[a])
    /\ \A a, b \in Seen :
          NoLater(a, b) =>
            /\ W[a] <= W[b] /\ J[a] <= J[b]
            /\ a.mono <= b.mono
            /\ a.at - a.mono # b.at - b.mono => J[a] < J[b]
            /\ a.session = b.session /\ b.mono - a.mono <= MaxGap
                => W[a] + (b.mono - a.mono) <= W[b]

Watched == \E W, J : Watch(W, J)

\* What is seen was issued, and nothing seen is later than the last sample.
LEMMA SeenType ==
    ASSUME TypeOK, Ordered
    PROVE  /\ Seen \subseteq Sample
           /\ \A a \in Seen : Issued(a)
           /\ last = None => Seen = {}
           /\ last # None => last \in Seen /\ \A a \in Seen : NoLater(a, last)
           /\ previous # None => previous \in Seen
           /\ item # None => item \in Seen /\ item \in Coming
  BY OrderTypes DEF Ordered, Seen

\* Nothing new is seen, or observed.
LEMMA WatchStays ==
    ASSUME Watched, Seen' \subseteq Seen, UNCHANGED <<now, offset, jumps, watched, energy>>
    PROVE  Watched'
<1>1. PICK W, J : Watch(W, J)
  BY DEF Watched
<1>2. Observed' = Observed
  BY DEF Observed
<1>3. Watch(W, J)'
  BY <1>1, <1>2 DEF Watch
<1> QED BY <1>3 DEF Watched

\* What Watched says of the next state.
LEMMA WatchIs ==
    ASSUME NEW V \in [Sample -> Nat], NEW K \in [Sample -> Nat],
           Observed' <= Credit(watched', jumps'),
           \A a \in Seen' :
              /\ V[a] <= watched' /\ K[a] <= jumps'
              /\ a.mono <= now'
              /\ a.at - a.mono # offset' => K[a] < jumps'
              /\ Observed' <= Credit(V[a], K[a]),
           \A a, b \in Seen' :
              NoLater(a, b) =>
                /\ V[a] <= V[b] /\ K[a] <= K[b]
                /\ a.mono <= b.mono
                /\ a.at - a.mono # b.at - b.mono => K[a] < K[b]
                /\ a.session = b.session /\ b.mono - a.mono <= MaxGap
                    => V[a] + (b.mono - a.mono) <= V[b]
    PROVE  Watched'
<1>1. Watch(V, K)'
  BY DEF Watch
<1> QED BY <1>1 DEF Watched

\* A new sample gets what watched and jumps are.
LEMMA WatchTake ==
    ASSUME Typed, Typed', Ordered, Watched,
           NEW d \in Delays, NEW reading \in Readings, Take(d, reading)
    PROVE  Watched'
<1> DEFINE s == last'
<1>1. PICK W, J : Watch(W, J)
  BY DEF Watched
<1>2. /\ s.session = session /\ s.sequence = sequence
      /\ s.at = now + d + offset /\ s.mono = now + d /\ now' = now + d
      /\ UNCHANGED <<session, item, previous, offset, jumps, energy>> /\ queue' = Sent(s)
      /\ watched' = IF last # None /\ last.session = session /\ s.mono - last.mono <= MaxGap
                    THEN watched + s.mono - last.mono ELSE watched
  BY DEF Take, storageVars
<1>3. /\ TypeOK /\ session \in Nat /\ sequence \in Nat /\ now \in Nat /\ offset \in Int
      /\ watched \in Nat /\ jumps \in Nat /\ watched' \in Nat /\ d \in Nat /\ MaxGap \in Nat
      /\ energy \in [Minutes -> Cell]
      /\ last # None => last.mono <= now
  <2>1. TypeOK /\ session \in Nat /\ sequence \in Nat /\ watched \in Nat /\ jumps \in Nat
    BY DEF Typed, TypeOK
  <2>2. watched' \in Nat
    BY DEF Typed, TypeOK
  <2>3. now \in Nat /\ offset \in Int /\ energy \in [Minutes -> Cell]
    BY DEF Typed, TypeOK, Time
  <2>4. d \in Nat /\ MaxGap \in Nat
    BY LedgerAssumption
  <2>5. last # None => last.mono <= now
    BY DEF Typed
  <2> QED BY <2>1, <2>2, <2>3, <2>4, <2>5
<1>4. s \in Sample /\ s # None
  <2>1. s \in Sample \cup {None}
    BY DEF Typed, TypeOK
  <2>2. s = [session |-> session, sequence |-> sequence, at |-> now + d + offset,
             mono |-> now + d, reading |-> reading]
    BY DEF Take
  <2>3. now + d \in Time /\ now + d + offset \in Time
    BY DEF Take
  <2>4. s \in Sample
    BY <1>3, <2>2, <2>3 DEF Sample
  <2> QED BY <2>4, SampleType
<1> HIDE DEF s
<1>5. Seen' \subseteq Seen \cup {s}
  <2>1. \A a \in Queued : NoLater(a, s)
    BY <1>2, <1>3, <1>4, OrderTypes DEF Ordered, Issued, NoLater
  <2>2. Queued' \subseteq Queued \cup {s}
    BY <1>2, <1>3, <1>4, <2>1, SentIsLast DEF Ordered
  <2>3. last' = s
    BY DEF s
  <2> QED BY <1>2, <1>4, <2>2, <2>3 DEF Seen, Coming
<1>6. ASSUME NEW a \in Seen
      PROVE  /\ a \in Sample /\ a.session \in Nat /\ a.sequence \in Nat
             /\ a.at \in Nat /\ a.mono \in Nat
             /\ Issued(a) /\ a # s /\ ~NoLater(s, a)
  <2>1. /\ a \in Sample /\ Issued(a) /\ a.session \in Nat /\ a.sequence \in Nat
        /\ a.at \in Nat /\ a.mono \in Nat
    BY <1>3, SeenType, SampleType
  <2> QED BY <1>2, <1>3, <2>1 DEF Issued, NoLater
<1>7. watched <= watched'
  <2>1. last # None => last.mono \in Nat
    BY <1>3, OrderTypes, SampleType
  <2> QED BY <1>2, <1>3, <2>1
<1>8. ASSUME NEW a \in Seen, a.session = s.session, s.mono - a.mono <= MaxGap
      PROVE  W[a] + (s.mono - a.mono) <= watched'
  <2>1. last # None /\ last \in Seen /\ NoLater(a, last)
    BY <1>3, SeenType
  <2>2. last.session = session
    BY <1>2, <1>3, <1>6, <1>8, <2>1 DEF NoLater, Issued
  <2>3. a.mono <= last.mono /\ last.mono <= now /\ last.mono \in Nat /\ a.mono \in Nat
    BY <1>1, <1>3, <1>6, <2>1 DEF Watch
  <2>4. last.mono - a.mono <= MaxGap /\ s.mono - last.mono <= MaxGap
    BY <1>2, <1>3, <1>8, <2>3
  <2>5. W[a] + (last.mono - a.mono) <= W[last] /\ W[last] <= watched
    BY <1>1, <1>2, <1>8, <2>1, <2>2, <2>4 DEF Watch
  <2>6. watched' = watched + s.mono - last.mono
    BY <1>2, <2>1, <2>2, <2>4
  <2>7. W[a] \in Nat /\ W[last] \in Nat
    BY <1>1, <1>6, <2>1 DEF Watch
  <2> QED BY <1>2, <1>3, <2>3, <2>5, <2>6, <2>7
<1> DEFINE V == [W EXCEPT ![s] = watched']
           K == [J EXCEPT ![s] = jumps']
<1>9. /\ V \in [Sample -> Nat] /\ K \in [Sample -> Nat] /\ V[s] = watched' /\ K[s] = jumps'
      /\ \A a \in Seen : V[a] = W[a] /\ K[a] = J[a] /\ W[a] \in Nat /\ J[a] \in Nat
  BY <1>1, <1>2, <1>3, <1>4, <1>6 DEF Watch
<1>10. Observed' = Observed /\ Observed \in Int
  BY <1>2, <1>3, ObservedIsInt DEF Observed
<1>11. Observed' <= Credit(watched', jumps')
  <2>1. Observed <= Credit(watched, jumps)
    BY <1>1 DEF Watch
  <2>2. /\ Credit(watched, jumps) \in Int
        /\ Credit(watched, jumps) + 0 <= Credit(watched', jumps)
    BY <1>3, <1>7, CreditGrows
  <2>3. Credit(watched', jumps) \in Int
    BY <1>3, CreditGrows
  <2> QED BY <1>2, <1>10, <2>1, <2>2, <2>3
<1> HIDE DEF V, K
<1>12. ASSUME NEW a \in Seen'
       PROVE  /\ V[a] <= watched' /\ K[a] <= jumps'
              /\ a.mono <= now'
              /\ a.at - a.mono # offset' => K[a] < jumps'
              /\ Observed' <= Credit(V[a], K[a])
  <2>1. CASE a = s
    BY <1>2, <1>3, <1>9, <1>11, <2>1
  <2>2. CASE a \in Seen
    <3>1. /\ W[a] <= watched /\ J[a] <= jumps /\ a.mono <= now
          /\ a.at - a.mono # offset => J[a] < jumps
          /\ Observed <= Credit(W[a], J[a])
      BY <1>1, <2>2 DEF Watch
    <3>2. V[a] = W[a] /\ K[a] = J[a] /\ W[a] \in Nat /\ J[a] \in Nat /\ a.mono \in Nat
      BY <1>6, <1>9, <2>2
    <3> QED BY <1>2, <1>3, <1>7, <1>10, <3>1, <3>2
  <2> QED BY <1>5, <2>1, <2>2
<1>13. ASSUME NEW a \in Seen', NEW b \in Seen', NoLater(a, b)
       PROVE  /\ V[a] <= V[b] /\ K[a] <= K[b]
              /\ a.mono <= b.mono
              /\ a.at - a.mono # b.at - b.mono => K[a] < K[b]
              /\ a.session = b.session /\ b.mono - a.mono <= MaxGap
                    => V[a] + (b.mono - a.mono) <= V[b]
  <2>1. CASE a = s /\ b = s
    BY <1>2, <1>3, <1>9, <2>1
  <2>2. CASE a = s /\ b \in Seen
    BY <1>6, <1>13, <2>2
  <2>3. CASE a \in Seen /\ b = s
    <3>1. /\ V[a] = W[a] /\ K[a] = J[a] /\ W[a] \in Nat /\ J[a] \in Nat
          /\ V[b] = watched' /\ K[b] = jumps /\ a.mono \in Nat
      BY <1>2, <1>6, <1>9, <2>3
    <3>2. /\ W[a] <= watched /\ J[a] <= jumps /\ a.mono <= now
          /\ a.at - a.mono # offset => J[a] < jumps
      BY <1>1, <2>3 DEF Watch
    <3>3. b.at - b.mono = offset /\ a.mono <= b.mono
      BY <1>2, <1>3, <2>3, <3>1, <3>2
    <3>4. W[a] <= watched'
      BY <1>3, <1>7, <3>1, <3>2
    <3> QED BY <1>8, <2>3, <3>1, <3>2, <3>3, <3>4
  <2>4. CASE a \in Seen /\ b \in Seen
    BY <1>1, <1>9, <1>13, <2>4 DEF Watch
  <2> QED BY <1>5, <2>1, <2>2, <2>3, <2>4
<1> QED BY <1>9, <1>11, <1>12, <1>13, WatchIs

\* A step of the clock is after all samples taken before it.
LEMMA WatchClock ==
    ASSUME Typed, Ordered, Watched, NEW j \in Jumps, ClockSteps(j)
    PROVE  Watched'
<1>1. PICK W, J : Watch(W, J)
  BY DEF Watched
<1>2. /\ jumps' = jumps + 1 /\ jumps \in Nat /\ watched \in Nat
      /\ UNCHANGED <<now, watched, energy, item, queue, last, previous>>
      /\ TypeOK /\ energy \in [Minutes -> Cell]
  BY DEF ClockSteps, storageVars, Typed, TypeOK
<1>3. Seen' = Seen /\ Observed' = Observed /\ Observed \in Int
  BY <1>2, ObservedIsInt DEF Seen, Coming, Queued, Observed
<1>4. Observed <= Credit(watched, jumps')
  <2>1. /\ Credit(watched, jumps) \in Int /\ Credit(watched, jumps') \in Int
        /\ Credit(watched, jumps) + 0 <= Credit(watched, jumps')
    <3>1. jumps + 1 \in Nat /\ jumps <= jumps + 1 /\ watched + 0 <= watched
      BY <1>2
    <3>2. /\ Credit(watched, jumps) \in Int
          /\ Credit(watched, jumps) + 0 <= Credit(watched, jumps + 1)
      BY <1>2, <3>1, CreditGrows
    <3>3. Credit(watched, jumps + 1) \in Int
      BY <1>2, <3>1, CreditGrows
    <3> QED BY <1>2, <3>2, <3>3
  <2>2. Observed <= Credit(watched, jumps)
    BY <1>1 DEF Watch
  <2> QED BY <1>3, <2>1, <2>2
<1>5. \A a \in Seen : J[a] < jumps'
  <2>1. \A a \in Seen : J[a] \in Nat /\ J[a] <= jumps
    BY <1>1, <1>2, SeenType DEF Watch
  <2> QED BY <1>2, <2>1
<1>6. \A a \in Seen : J[a] <= jumps'
  <2>1. \A a \in Seen : J[a] \in Nat
    BY <1>1, <1>2, SeenType DEF Watch
  <2> QED BY <1>2, <1>5, <2>1
<1>7. Watch(W, J)'
  BY <1>1, <1>2, <1>3, <1>4, <1>5, <1>6 DEF Watch
<1> QED BY <1>7 DEF Watched
\* What is recorded ends the span of the sample before, which was watched but for
\* the steps of the clock between the two.
LEMMA WatchRecord ==
    ASSUME Typed, Typed', Ordered, Watched, Record
    PROVE  Watched'
<1>1. /\ UNCHANGED <<now, offset, jumps, watched, queue, item, last>>
      /\ item # None /\ TypeOK /\ item \in Sample /\ item \in Coming
      /\ previous \in Sample \cup {None}
      /\ previous' \in {previous, item}
  BY OrderTypes DEF Record, Typed, monitorVars
<1>2. Coming' = Coming
  BY <1>1 DEF Coming, Queued
<1>3. Seen' \subseteq Seen
  BY <1>1, <1>2 DEF Seen
<1>4. CASE energy' = energy
  BY <1>1, <1>3, <1>4, WatchStays
<1>5. CASE energy' # energy
  <2> DEFINE p == previous
             s == item
             e == s.mono - p.mono
             wall == s.at - p.at
  <2>1. p # None /\ Continuous(p, s) /\ energy' = Added(p, s) /\ previous' = s
    BY <1>5 DEF Record
  <2>2. p \in Sample /\ s \in Sample /\ p \in Seen /\ s \in Seen /\ NoLater(p, s)
    BY <1>1, <2>1, SeenType DEF Ordered
  <2>3. /\ p.at \in Nat /\ p.mono \in Nat /\ s.at \in Nat /\ s.mono \in Nat
        /\ p.session = s.session /\ e \in Nat /\ e <= MaxGap
        /\ wall \in Nat /\ wall <= e + Skew
    BY <2>1, <2>2, SampleType, Numbers DEF Continuous
  <2>4. PICK W, J : Watch(W, J)
    BY DEF Watched
  <2>5. Seen' \subseteq Coming /\ \A b \in Coming : NoLater(s, b)
    <3>1. Seen' \subseteq Coming
      BY <1>1, <1>2, <2>1 DEF Seen
    <3>2. last # None /\ NoLater(s, last) /\ NoLater(s, s)
      BY <1>1 DEF Ordered, NoLater
    <3>3. \A a \in Queued : NoLater(s, a)
      BY <1>1 DEF Ordered
    <3> QED BY <3>1, <3>2, <3>3 DEF Coming
  <2>6. /\ W[p] \in Nat /\ J[p] \in Nat /\ W[s] \in Nat /\ J[s] \in Nat
        /\ W[p] + e <= W[s] /\ J[p] <= J[s]
        /\ wall # e => J[p] < J[s]
        /\ Observed <= Credit(W[p], J[p])
        /\ W[s] <= watched /\ J[s] <= jumps
    <3>1. W[p] \in Nat /\ J[p] \in Nat /\ W[s] \in Nat /\ J[s] \in Nat
      BY <2>2, <2>4 DEF Watch
    <3>2. /\ W[p] + e <= W[s] /\ J[p] <= J[s]
          /\ p.at - p.mono # s.at - s.mono => J[p] < J[s]
      BY <2>2, <2>3, <2>4 DEF Watch
    <3>3. wall # e => p.at - p.mono # s.at - s.mono
      BY <2>3
    <3>4. /\ Observed <= Credit(W[p], J[p])
          /\ W[s] <= watched /\ J[s] <= jumps
      BY <2>2, <2>4 DEF Watch
    <3> QED BY <3>1, <3>2, <3>3, <3>4
  <2>7. Observed' <= Observed + wall /\ Observed \in Int /\ Observed' \in Int
    <3>1. energy \in [Minutes -> Cell]
      BY <1>1 DEF TypeOK
    <3>2. Observed' <= Observed + wall
      BY <2>1, <2>2, <2>3, <3>1, ObservedGrows
    <3>3. Observed \in Int
      BY <3>1, ObservedIsInt
    <3>4. Observed' \in Int
      <4> DEFINE f == [m \in Minutes |-> energy'[m].observed]
      <4>1. energy' \in [Minutes -> Cell]
        BY DEF Typed, TypeOK
      <4>2. \A m \in Minutes : f[m] \in Int
        BY <4>1 DEF Cell
      <4> HIDE DEF f
      <4>3. SumFunctionOnSet(f, Minutes) \in Int
        BY <4>2, MinutesAreFinite, SumIsInt
      <4> QED BY <4>3 DEF Observed, f
    <3> QED BY <3>2, <3>3, <3>4
  <2> HIDE DEF p, s, e, wall
  <2>8. ASSUME NEW w \in Nat, NEW j \in Nat, W[s] <= w, J[s] <= j
        PROVE  Observed' <= Credit(w, j)
    <3>1. /\ W[p] + e <= w /\ J[p] <= j
          /\ wall # e => J[p] < j
      BY <2>3, <2>6, <2>8
    <3>2. /\ Credit(W[p], J[p]) \in Int
          /\ Credit(W[p], J[p]) + e <= Credit(w, j)
          /\ J[p] < j => Credit(W[p], J[p]) + e + Skew <= Credit(w, j)
      BY <2>3, <2>6, <2>8, <3>1, CreditGrows
    <3>3. Credit(w, j) \in Int /\ Skew \in Nat
      BY <2>8, CreditGrows, Numbers
    <3> QED BY <2>3, <2>6, <2>7, <3>1, <3>2, <3>3
  <2>9. W \in [Sample -> Nat] /\ J \in [Sample -> Nat]
    BY <2>4 DEF Watch
  <2>10. Observed' <= Credit(watched', jumps')
    <3>1. watched \in Nat /\ jumps \in Nat
      BY <1>1 DEF TypeOK
    <3> QED BY <1>1, <2>6, <2>8, <3>1
  <2>11. ASSUME NEW a \in Seen'
         PROVE  Observed' <= Credit(W[a], J[a])
    <3>1. a \in Sample /\ a \in Seen /\ NoLater(s, a) /\ s \in Seen
      BY <1>1, <1>3, <2>2, <2>5, OrderTypes
    <3>2. W[a] \in Nat /\ J[a] \in Nat
      BY <2>9, <3>1
    <3>3. W[s] <= W[a] /\ J[s] <= J[a]
      BY <2>4, <3>1 DEF Watch
    <3> QED BY <2>8, <3>2, <3>3
  <2>12. \A a \in Seen' :
            /\ W[a] <= watched' /\ J[a] <= jumps'
            /\ a.mono <= now'
            /\ a.at - a.mono # offset' => J[a] < jumps'
            /\ Observed' <= Credit(W[a], J[a])
    BY <1>1, <1>3, <2>4, <2>11 DEF Watch
  <2>13. \A a, b \in Seen' :
            NoLater(a, b) =>
              /\ W[a] <= W[b] /\ J[a] <= J[b]
              /\ a.mono <= b.mono
              /\ a.at - a.mono # b.at - b.mono => J[a] < J[b]
              /\ a.session = b.session /\ b.mono - a.mono <= MaxGap
                  => W[a] + (b.mono - a.mono) <= W[b]
    BY <1>3, <2>4 DEF Watch
  <2> QED BY <2>9, <2>10, <2>12, <2>13, WatchIs
<1> QED BY <1>4, <1>5

\* At the start nothing is seen and nothing observed.
LEMMA WatchInit ==
    ASSUME Init
    PROVE  Watched
<1>1. Seen = {}
  BY DEF Init, Seen, Coming, Queued
<1>2. Observed = 0
  <2> DEFINE f == [m \in Minutes |-> energy[m].observed]
  <2>1. \A m \in Minutes : f[m] = 0
    BY DEF Init
  <2> HIDE DEF f
  <2>2. SumFunctionOnSet(f, Minutes) = 0
    BY <2>1, MinutesAreFinite, SumOfZeros
  <2> QED BY <2>2 DEF Observed, f
<1>3. Observed <= Credit(watched, jumps)
  <2>1. Skew * 0 = 0
    BY Numbers
  <2> QED BY <1>2, <2>1 DEF Init, Credit
<1>4. Watch([a \in Sample |-> 0], [a \in Sample |-> 0])
  BY <1>1, <1>3 DEF Watch
<1> QED BY <1>4 DEF Watched

\* The inductive invariant of the watch.
LEMMA WatchedIsKept == Spec => [](Ordered /\ Watched)
<1>1. Init => Watched
  BY WatchInit
<1>2. Typed /\ Typed' /\ Ordered /\ Watched /\ [Next]_vars => Watched'
  <2> SUFFICES ASSUME Typed, Typed', Ordered, Watched, [Next]_vars PROVE Watched'
    OBVIOUS
  <2>1. ASSUME NEW d \in Delays, NEW reading \in Readings, Take(d, reading)
        PROVE  Watched'
    BY <2>1, WatchTake
  <2>2. ASSUME NEW j \in Jumps, ClockSteps(j)
        PROVE  Watched'
    BY <2>2, WatchClock
  <2>3. CASE Lose
    <3>1. /\ UNCHANGED <<now, offset, jumps, watched, energy, previous>>
          /\ TypeOK
      BY <2>3 DEF Lose, storageVars, Typed
    <3>2. Coming' \subseteq Coming
      BY <2>3, <3>1, LoseComing
    <3>3. Seen' \subseteq Seen
      BY <3>1, <3>2 DEF Seen
    <3> QED BY <3>1, <3>3, WatchStays
  <2>4. CASE Crash
    <3>1. /\ UNCHANGED <<now, offset, jumps, watched, energy>>
          /\ last' = None /\ queue' = <<>> /\ item' = None /\ previous' = None
      BY <2>4 DEF Crash
    <3>2. Seen' = {}
      BY <3>1 DEF Seen, Coming, Queued
    <3> QED BY <3>1, <3>2, WatchStays
  <2>5. CASE StorageReceives
    <3>1. /\ item' = Head(queue) /\ queue # <<>> /\ queue' = Tail(queue)
          /\ UNCHANGED <<now, offset, jumps, watched, energy, last, previous>>
          /\ TypeOK /\ Sorted(queue)
      BY <2>5 DEF StorageReceives, monitorVars, Typed, Ordered
    <3>2. Head(queue) \in Queued /\ Queued' \subseteq Queued
      BY <3>1, HeadIsFirst
    <3>3. Seen' \subseteq Seen
      BY <3>1, <3>2 DEF Seen, Coming
    <3> QED BY <3>1, <3>3, WatchStays
  <2>6. CASE Record
    BY <2>6, WatchRecord
  <2>7. CASE StatementFails
    <3>1. /\ UNCHANGED <<now, offset, jumps, watched, energy, last, previous, item, queue>>
      BY <2>7 DEF StatementFails, AfterFailure, monitorVars
    <3>2. Seen' \subseteq Seen
      BY <3>1 DEF Seen, Coming, Queued
    <3> QED BY <3>1, <3>2, WatchStays
  <2>8. CASE Complete
    <3>1. /\ UNCHANGED <<now, offset, jumps, watched, energy, last, previous, queue>>
          /\ item' = None
      BY <2>8 DEF Complete, monitorVars
    <3>2. Seen' \subseteq Seen
      BY <3>1 DEF Seen, Coming, Queued
    <3> QED BY <3>1, <3>2, WatchStays
  <2>9. CASE UNCHANGED vars
    <3>1. /\ UNCHANGED <<now, offset, jumps, watched, energy, last, previous, item, queue>>
      BY <2>9 DEF vars, monitorVars, storageVars
    <3>2. Seen' \subseteq Seen
      BY <3>1 DEF Seen, Coming, Queued
    <3> QED BY <3>1, <3>2, WatchStays
  <2> QED BY <2>1, <2>2, <2>3, <2>4, <2>5, <2>6, <2>7, <2>8, <2>9 DEF Next
<1> QED BY <1>1, <1>2, TypedIsKept, OrderIsKept, PTL DEF Spec

\* The ledger holds no more time than an open device was watched, but for Skew
\* with each step of the clock: the last sample stored, and every one on its way,
\* bounds what is in the ledger by what was watched when it was taken.
THEOREM NothingIsInvented == Spec => []NothingInvented
<1>1. Watched => NothingInvented
  <2>1. Watched => Observed <= Credit(watched, jumps)
    BY DEF Watched, Watch
  <2>2. SumFunction([m \in Minutes |-> energy[m].observed]) = Observed
    BY DEF SumFunction, Observed
  <2> QED BY <2>1, <2>2 DEF NothingInvented, Credit
<1> QED BY <1>1, WatchedIsKept, PTL

-----------------------------------------------------------------------------
\* The energy is the integral of the power, but for the rounding.

\* A product is a multiple of each of its factors.
LEMMA ProductIsMultiple ==
    ASSUME NEW S, IsFiniteSet(S), \A x \in S : x \in Nat
    PROVE  ProductSet(S) \in Nat /\ \A n \in S : \E k \in Nat : ProductSet(S) = n * k
<1> DEFINE Fine(T) == /\ ProductSet(T) \in Nat
                      /\ \A n \in T : \E k \in Nat : ProductSet(T) = n * k
           Bad == {T \in SUBSET S : ~Fine(T)}
<1>1. SUFFICES ASSUME Bad # {} PROVE FALSE
  OBVIOUS
<1>2. PICK T \in Bad : \A t \in Bad : t \subseteq T => t = T
  <2>1. Bad \in SUBSET (SUBSET S) /\ Bad # {}
    BY <1>1
  <2> HIDE DEF Bad
  <2> QED BY <1>1, <2>1, SmallestExists
<1>3. T \in SUBSET S /\ ~Fine(T) /\ \A t \in SUBSET S : t \subseteq T /\ t # T => Fine(t)
  BY <1>2
<1>4. T # {} /\ IsFiniteSet(T)
  <2>1. Fine({})
    BY ProductOfNone
  <2> HIDE DEF Fine
  <2> QED BY <1>3, <2>1, FS_Subset
<1> DEFINE c == Chosen(T)
           R == T \ {c}
           P == ProductSet(R)
<1>5. c \in T /\ c \in Nat /\ R \in SUBSET S /\ R \subseteq T /\ R # T
  BY <1>3, <1>4 DEF Chosen
<1>6. P \in Nat /\ \A n \in R : \E k \in Nat : P = n * k
  <2>1. Fine(R)
    <3> HIDE DEF Fine, Bad, R
    <3> QED BY <1>3, <1>5
  <2> QED BY <2>1
<1>7. ProductSet(T) = c * P
  BY <1>4, ProductStep
<1> HIDE DEF P, c, Bad
<1>8. ProductSet(T) \in Nat
  BY <1>5, <1>6, <1>7, ProductIsNat
<1>9. ASSUME NEW n \in T
      PROVE  \E k \in Nat : ProductSet(T) = n * k
  <2>1. CASE n = c
    BY <1>6, <1>7, <2>1
  <2>2. CASE n # c
    <3>1. PICK k \in Nat : P = n * k
      BY <1>6, <2>2
    <3>2. n \in Nat /\ c * k \in Nat
      BY <1>3, <1>5, ProductIsNat
    <3>3. c * (n * k) = n * (c * k)
      BY <1>5, <3>2
    <3> QED BY <1>7, <3>1, <3>2, <3>3
  <2> QED BY <2>1, <2>2
<1> QED BY <1>3, <1>8, <1>9

\* Every span divides Scale.
LEMMA ScaleIsMultiple ==
    ASSUME NEW w \in 1 .. MaxGap + Skew
    PROVE  Scale \in Nat /\ Scale \div w \in Nat /\ Scale = w * (Scale \div w)
<1> DEFINE top == MaxGap + Skew
<1>1. top \in Nat
  BY Numbers
<1> HIDE DEF top
<1>2. IsFiniteSet(1 .. top) /\ \A x \in 1 .. top : x \in Nat
  BY <1>1, FS_Interval
<1>3. /\ ProductSet(1 .. top) \in Nat
      /\ \A n \in 1 .. top : \E k \in Nat : ProductSet(1 .. top) = n * k
  BY <1>2, ProductIsMultiple
<1>4. w \in 1 .. top /\ w \in Nat \ {0} /\ Scale = ProductSet(1 .. top)
  BY <1>1 DEF top, Scale
<1>5. PICK k \in Nat : Scale = w * k
  BY <1>3, <1>4
<1>6. (w * k) \div w = k
  BY <1>4
<1> QED BY <1>3, <1>4, <1>5, <1>6

\* What is lost by rounding n over twice w to the nearest, times w * k.
LEMMA Rounding ==
    ASSUME NEW k \in Nat, NEW w \in Nat \ {0}, NEW n \in Int
    PROVE  LET q == (n + w) \div (2 * w)
               scale == w * k
           IN  q \in Int /\ 2 * scale * q - k * n \in -scale .. scale
<1> DEFINE q == (n + w) \div (2 * w)
           scale == w * k
           d == 2 * w * q - n
<1>1. n + w \in Int /\ 2 * w \in Nat \ {0}
  OBVIOUS
<1>2. q \in Int /\ (2 * w) * q <= n + w /\ n + w < (2 * w) * q + 2 * w
  BY <1>1, DivBounds
<1> HIDE DEF q
<1>3. d \in Int /\ d <= w /\ -w <= d
  BY <1>2
<1>4. 2 * scale * q - k * n = k * d
  BY <1>2
<1> HIDE DEF d
<1>5. k * (w - d) \in Nat /\ k * (w + d) \in Nat
  BY <1>3, ProductIsNat
<1>6. k * (w - d) = k * w - k * d /\ k * (w + d) = k * w + k * d /\ w * k = k * w
  BY <1>3
<1>7. k * d \in Int /\ k * w \in Int
  BY <1>3
<1>8. k * d \in -(k * w) .. k * w
  BY <1>5, <1>6, <1>7
<1> QED BY <1>2, <1>4, <1>6, <1>8 DEF q

\* The area under a line grows by the value in the middle of the next tick.
LEMMA AreaStep ==
    ASSUME NEW A \in Int, NEW D \in Int, NEW x \in Int, NEW y \in Int
    PROVE  (A + D * (2 * y + (x + 1))) * (x + 1)
                = (A + D * (2 * y + x)) * x + (A + D * (2 * (x + y) + 1))
<1>1. (A + D * (2 * y + (x + 1))) * (x + 1) = A * (x + 1) + D * ((2 * y + (x + 1)) * (x + 1))
  OBVIOUS
<1>2. (A + D * (2 * y + x)) * x = A * x + D * ((2 * y + x) * x)
  OBVIOUS
<1>3. (2 * y + (x + 1)) * (x + 1) = (2 * y + x) * x + (2 * (x + y) + 1)
  OBVIOUS
<1>4. D * ((2 * y + x) * x + (2 * (x + y) + 1)) = D * ((2 * y + x) * x) + D * (2 * (x + y) + 1)
  OBVIOUS
<1>5. A * (x + 1) = A * x + A
  OBVIOUS
<1> QED BY <1>1, <1>2, <1>3, <1>4, <1>5

\* Multiplication distributes over addition.
LEMMA Distributes ==
    ASSUME NEW a \in Int, NEW b \in Int, NEW c \in Int
    PROVE  a * (b + c) = a * c + a * b
  OBVIOUS

\* Twice the area under a line through so many ticks: the sum of its values in
\* the middle of each.
Area(A, D, a, from, u) == (A + D * ((from - a) + (u - a))) * (u - from)

\* These values, times k.
Line(k, A, D, a, from, to) == [t \in from .. to - 1 |-> k * (A + D * (2 * (t - a) + 1))]

\* The sum of a line's values over its ticks is the area under it.
LEMMA LinearSum ==
    ASSUME NEW from \in Int, NEW to \in Int, NEW k \in Int,
           NEW A \in Int, NEW D \in Int, NEW a \in Int, from <= to
    PROVE  SumFunction(Line(k, A, D, a, from, to)) = k * Area(A, D, a, from, to)
<1> DEFINE f == Line(k, A, D, a, from, to)
<1>0. /\ DOMAIN f = from .. to - 1
      /\ \A t \in from .. to - 1 : f[t] = k * (A + D * (2 * (t - a) + 1))
  BY DEF Line
<1> HIDE DEF f
<1> DEFINE S == from .. to - 1
           Sum(T) == SumFunctionOnSet(f, T)
           Up(u) == from .. u - 1
           Value(u) == k * Area(A, D, a, from, u)
           Bad == {T \in SUBSET S : \E u \in from .. to : T = Up(u) /\ Sum(T) # Value(u)}
<1>1. SUFFICES ASSUME Bad # {} PROVE FALSE
  <2>1. to \in from .. to /\ S = Up(to) /\ S \in SUBSET S
    OBVIOUS
  <2> HIDE DEF Sum, Value, Up, S
  <2>2. Bad = {} => Sum(S) = Value(to)
    BY <2>1
  <2> QED BY <1>0, <2>2 DEF Sum, Value, S, f, SumFunction
<1>2. IsFiniteSet(S)
  <2> DEFINE end == to - 1
  <2>1. end \in Int
    OBVIOUS
  <2> HIDE DEF end
  <2> QED BY <2>1, FS_Interval DEF end
<1>3. PICK T \in Bad : \A t \in Bad : t \subseteq T => t = T
  <2>1. Bad \in SUBSET (SUBSET S)
    OBVIOUS
  <2> HIDE DEF Bad, S
  <2> QED BY <1>1, <1>2, <2>1, SmallestExists
<1>4. PICK u \in from .. to : T = Up(u) /\ Sum(T) # Value(u)
  BY <1>3
<1>5. \A v \in from .. to : Up(v) \in SUBSET S
  OBVIOUS
<1>6. u # from
  <2>1. ASSUME u = from
        PROVE  FALSE
    <3>1. Up(from) = {}
      OBVIOUS
    <3>2. Sum({}) = 0
      BY SumOfNone
    <3>3. Value(from) = 0
      BY DEF Area
    <3> HIDE DEF Sum, Value, Up
    <3> QED BY <1>4, <2>1, <3>1, <3>2, <3>3
  <2> QED BY <2>1
<1> DEFINE v == u - 1
<1>7. v \in from .. to /\ v \in S /\ v \in Int /\ u \in Int /\ u = v + 1 /\ v \in from .. to - 1
  BY <1>4, <1>6
<1> HIDE DEF v
<1>8. v \in Up(u) /\ Up(u) \ {v} = Up(v) /\ v \notin Up(v) /\ Up(v) \subseteq Up(u)
  BY <1>7
<1>9. Sum(Up(v)) = Value(v)
  <2>1. Up(v) # T /\ Up(v) \subseteq T /\ Up(v) \in SUBSET S
    BY <1>4, <1>5, <1>7, <1>8
  <2>2. Up(v) \notin Bad
    <3> HIDE DEF Bad, Up
    <3> QED BY <1>3, <2>1
  <2> HIDE DEF Sum, Value, Up, S
  <2> QED BY <1>7, <2>1, <2>2
<1>10. \A t \in S : f[t] \in Int
  <2>1. ASSUME NEW t \in Int
        PROVE  k * (A + D * (2 * (t - a) + 1)) \in Int
    OBVIOUS
  <2> QED BY <1>0, <2>1
<1>11. Sum(Up(u)) = f[v] + Sum(Up(v))
  <2>1. IsFiniteSet(Up(u)) /\ \A t \in Up(u) : f[t] \in Int
    <3>1. Up(u) \in SUBSET S
      BY <1>4, <1>5
    <3> HIDE DEF Up, S
    <3> QED BY <1>2, <1>10, <3>1, FS_Subset
  <2> HIDE DEF Up
  <2>2. SumFunctionOnSet(f, Up(u)) = f[v] + SumFunctionOnSet(f, Up(u) \ {v})
    BY <1>8, <2>1, SumWithout
  <2> QED BY <1>8, <2>2
<1>12. Value(u) = f[v] + Value(v)
  <2> DEFINE x == v - from
             y == from - a
             z == A + D * (2 * (v - a) + 1)
  <2>1. x \in Int /\ y \in Int /\ x + y = v - a /\ u - from = x + 1
        /\ (from - a) + (u - a) = 2 * y + (x + 1) /\ (from - a) + (v - a) = 2 * y + x
    BY <1>7
  <2>2. f[v] = k * z
    BY <1>0, <1>7
  <2> HIDE DEF x, y
  <2>3. Area(A, D, a, from, u) = (A + D * (2 * y + (x + 1))) * (x + 1)
    BY <2>1 DEF Area
  <2>4. Area(A, D, a, from, v) = (A + D * (2 * y + x)) * x
    BY <2>1 DEF Area, x
  <2>5. z = A + D * (2 * (x + y) + 1)
    BY <2>1
  <2>6. Area(A, D, a, from, u) = Area(A, D, a, from, v) + z
    BY <2>1, <2>3, <2>4, <2>5, AreaStep
  <2>7. Area(A, D, a, from, v) \in Int /\ z \in Int
    BY <2>1, <2>4, <2>5
  <2>8. k * (Area(A, D, a, from, v) + z) = k * z + k * Area(A, D, a, from, v)
    BY <2>7, Distributes
  <2> QED BY <2>2, <2>6, <2>8
<1> HIDE DEF Sum, Value, Up
<1> QED BY <1>4, <1>9, <1>11, <1>12

\* The energy a span adds to a minute is its energy, but for half a unit.
LEMMA SpanEnergy ==
    ASSUME NEW p \in Sample, NEW s \in Sample, NEW m \in Minutes, Continuous(p, s),
           NEW l \in Nat, NEW r \in Nat
    PROVE  LET part == Part(p, s, m)
               e == Energy(<<p, s>>, l, r, m)
           IN  /\ e \in Int
               /\ part.from >= part.to => e = 0
               /\ part.from < part.to
                    => 2 * Scale * Integrate(l, r, p, s, part.from, part.to) - e \in -Scale .. Scale
<1> DEFINE w == s.at - p.at
           k == Scale \div w
           part == Part(p, s, m)
           from == part.from
           to == part.to
           a == p.at
           ticks == TicksIn(<<p, s>>, m)
           f == [t \in ticks |-> k * (2 * l * w + (r - l) * (2 * (t - a) + 1))]
           e == Energy(<<p, s>>, l, r, m)
<1>1. w \in 1 .. MaxGap + Skew /\ w \in Nat \ {0}
  BY SampleType, Numbers DEF Continuous
<1>2. Scale \in Nat /\ k \in Nat /\ Scale = w * k
  <2> HIDE DEF w
  <2> QED BY <1>1, ScaleIsMultiple
<1>3. from \in Int /\ to \in Int /\ a \in Int
  BY PartType, SampleType
<1>4. e = SumFunction(f) /\ DOMAIN f = ticks
  BY DEF Energy
<1>5. ticks = from .. to - 1 /\ (from >= to <=> ticks = {})
  BY TicksOfPart
<1>6. f = Line(k, 2 * l * w, r - l, a, from, to)
  BY <1>5 DEF Line
<1>7. Integrate(l, r, p, s, from, to) = (Area(2 * l * w, r - l, a, from, to) + w) \div (2 * w)
  BY DEF Integrate, Area
<1> HIDE DEF w, k, part, from, to, a, ticks, f, e
<1>8. CASE from >= to
  <2>1. e = 0
    BY <1>4, <1>5, <1>8, SumOfNone DEF SumFunction
  <2> QED BY <1>3, <1>8, <2>1 DEF e, from, to, part
<1>9. CASE from < to
  <2> DEFINE A == 2 * l * w
             D == r - l
             n == Area(A, D, a, from, to)
  <2>1. A \in Int /\ D \in Int /\ from <= to /\ k \in Int
    BY <1>1, <1>2, <1>3, <1>9
  <2>2. n \in Int
    BY <1>3, <2>1 DEF Area
  <2>3. f = Line(k, A, D, a, from, to)
    BY <1>6
  <2>4. Integrate(l, r, p, s, from, to) = (n + w) \div (2 * w)
    BY <1>7
  <2> HIDE DEF A, D
  <2>5. SumFunction(f) = k * n
    BY <1>3, <2>1, <2>3, LinearSum
  <2> HIDE DEF n
  <2>6. e = k * n
    BY <1>4, <1>5, <2>5
  <2>7. 2 * Scale * Integrate(l, r, p, s, from, to) - e \in -Scale .. Scale
    BY <1>1, <1>2, <2>2, <2>4, <2>6, Rounding
  <2>8. e \in Int
    BY <1>2, <2>2, <2>6
  <2> QED BY <1>3, <1>9, <2>7, <2>8 DEF e, from, to, part
<1> QED BY <1>3, <1>8, <1>9

\* A sum that is an integral but for some roundings gets one more term.
LEMMA IntegralGrows ==
    ASSUME NEW S, IsFiniteSet(S), NEW x, x \notin S, NEW f, NEW g,
           \A y \in S : f[y] = g[y] /\ g[y] \in Int, f[x] \in Int,
           NEW scale \in Nat, NEW n \in Nat, NEW e \in Nat, NEW q \in Nat,
           2 * scale * e - SumFunctionOnSet(g, S) \in -(scale * n) .. scale * n,
           2 * scale * q - f[x] \in -scale .. scale
    PROVE  2 * scale * (e + q) - SumFunctionOnSet(f, S \cup {x})
                \in -(scale * (n + 1)) .. scale * (n + 1)
<1> DEFINE sum == SumFunctionOnSet(g, S)
           y == f[x]
           d == 2 * scale * e
           c == 2 * scale * q
           b == scale * n
<1>1. SumFunctionOnSet(f, S \cup {x}) = sum + y
  BY SumGrows
<1>2. sum \in Int
  BY SumIsInt
<1>3. d \in Int /\ c \in Int /\ b \in Int /\ y \in Int
  OBVIOUS
<1>4. 2 * scale * (e + q) = d + c /\ scale * (n + 1) = b + scale
  OBVIOUS
<1>5. d - sum \in -b .. b /\ c - y \in -scale .. scale
  OBVIOUS
<1> HIDE DEF sum, y, d, c, b
<1>6. (d + c) - (sum + y) \in -(b + scale) .. b + scale
  BY <1>2, <1>3, <1>5
<1> QED BY <1>1, <1>4, <1>6

\* A number within a bound is within a larger one.
LEMMA BoundGrows ==
    ASSUME NEW scale \in Nat, NEW n \in Nat, NEW z \in Int, z \in -(scale * n) .. scale * n
    PROVE  z \in -(scale * (n + 1)) .. scale * (n + 1)
<1> DEFINE b == scale * n
<1>1. b \in Int /\ scale * (n + 1) = b + scale /\ z \in -b .. b
  OBVIOUS
<1> HIDE DEF b
<1> QED BY <1>1

\* The energies of the spans in a minute, and the number of them that are rounded.
OutputIn(spans, m) ==
    [ps \in spans |-> Energy(ps, ps[1].reading.power, ps[2].reading.power, m)]
InputIn(spans, m) ==
    [ps \in spans |-> Energy(ps, ps[1].reading.input, ps[2].reading.input, m)]
RoundedIn(spans, m) == Cardinality({ps \in spans : TicksIn(ps, m) # {}})

Integral(e, f, spans, n) ==
    2 * Scale * e - SumFunctionOnSet(f, spans) \in -(Scale * n) .. Scale * n

\* The property, with its functions named.
LEMMA IntegralSums ==
    EnergyIsIntegral <=>
        \A m \in Minutes :
            /\ Integral(energy[m].output, OutputIn(Spans, m), Spans, RoundedIn(Spans, m))
            /\ Integral(energy[m].input, InputIn(InputSpansOf(Spans), m), InputSpansOf(Spans),
                        RoundedIn(Spans, m))
  BY DEF EnergyIsIntegral, SumFunction, Integral, OutputIn, InputIn, RoundedIn

\* What a span adds to the energy of a minute.
LEMMA AddedEnergy ==
    ASSUME energy \in [Minutes -> Cell], NEW p \in Sample, NEW s \in Sample, NEW m \in Minutes,
           Continuous(p, s)
    PROVE  LET x == <<p, s>>
               out == Energy(x, p.reading.power, s.reading.power, m)
               in == Energy(x, p.reading.input, s.reading.input, m)
               known == p.reading.input # None /\ s.reading.input # None
               rest == TicksIn(x, m) = {}
           IN  /\ out \in Int
               /\ \E q \in Nat :
                    /\ Added(p, s)[m].output = energy[m].output + q
                    /\ rest => q = 0 /\ out = 0
                    /\ 2 * Scale * q - out \in -Scale .. Scale
               /\ known =>
                    /\ in \in Int
                    /\ \E q \in Nat :
                        /\ Added(p, s)[m].input = energy[m].input + q
                        /\ rest => q = 0 /\ in = 0
                        /\ 2 * Scale * q - in \in -Scale .. Scale
               /\ ~known => Added(p, s)[m].input = energy[m].input
<1> DEFINE x == <<p, s>>
           part == Part(p, s, m)
           out == Energy(x, p.reading.power, s.reading.power, m)
           in == Energy(x, p.reading.input, s.reading.input, m)
           known == p.reading.input # None /\ s.reading.input # None
           rest == TicksIn(x, m) = {}
           outUnits == Integrate(p.reading.power, s.reading.power, p, s, part.from, part.to)
           inUnits == Integrate(p.reading.input, s.reading.input, p, s, part.from, part.to)
<1>1. /\ part.from \in Nat /\ part.to \in Nat /\ p.at <= part.from /\ part.to <= s.at
      /\ part.from >= part.to <=> rest
  BY PartType, TicksOfPart
<1>2. /\ p.reading.power \in Nat /\ s.reading.power \in Nat
      /\ known => p.reading.input \in Nat /\ s.reading.input \in Nat
  BY SampleType
<1>3. /\ out \in Int
      /\ part.from >= part.to => out = 0
      /\ part.from < part.to => 2 * Scale * outUnits - out \in -Scale .. Scale
  BY <1>2, SpanEnergy
<1>4. known =>
      /\ in \in Int
      /\ part.from >= part.to => in = 0
      /\ part.from < part.to => 2 * Scale * inUnits - in \in -Scale .. Scale
  BY <1>2, SpanEnergy
<1>5. energy[m].output \in Nat /\ energy[m].input \in Nat /\ Scale \in Nat
  <2>1. energy[m] \in Cell
    OBVIOUS
  <2>2. 1 \in 1 .. MaxGap + Skew
    BY Numbers
  <2> QED BY <2>1, <2>2, ScaleIsMultiple DEF Cell
<1>6. CASE part.from >= part.to
  <2>1. Added(p, s)[m] = energy[m]
    BY <1>6 DEF Added
  <2> HIDE DEF part, out, in, known, rest, outUnits, inUnits, x
  <2>2. energy[m].output = energy[m].output + 0 /\ energy[m].input = energy[m].input + 0
    BY <1>5
  <2>3. out = 0 /\ (known => in = 0)
    BY <1>3, <1>4, <1>6
  <2>4. 2 * Scale * 0 - 0 \in -Scale .. Scale
    BY <1>5
  <2>5. \E q \in Nat :
            /\ Added(p, s)[m].output = energy[m].output + q
            /\ rest => q = 0 /\ out = 0
            /\ 2 * Scale * q - out \in -Scale .. Scale
    BY <2>1, <2>2, <2>3, <2>4
  <2>6. known => \E q \in Nat :
            /\ Added(p, s)[m].input = energy[m].input + q
            /\ rest => q = 0 /\ in = 0
            /\ 2 * Scale * q - in \in -Scale .. Scale
    BY <2>1, <2>2, <2>3, <2>4
  <2> QED BY <1>3, <1>4, <2>1, <2>5, <2>6 DEF part, out, in, known, rest, x
<1>7. CASE ~(part.from >= part.to)
  <2>1. part.from < part.to
    BY <1>1, <1>7
  <2>2. outUnits \in Nat
    BY <1>1, <1>2, <2>1, IntegrateIsNat
  <2>3. known => inUnits \in Nat
    BY <1>1, <1>2, <2>1, IntegrateIsNat
  <2>4. /\ Added(p, s)[m].output = energy[m].output + outUnits
        /\ Added(p, s)[m].input = energy[m].input + (IF known THEN inUnits ELSE 0)
    BY <1>7 DEF Added
  <2> HIDE DEF part, out, in, known, rest, outUnits, inUnits, x
  <2>5. \E q \in Nat :
            /\ Added(p, s)[m].output = energy[m].output + q
            /\ rest => q = 0 /\ out = 0
            /\ 2 * Scale * q - out \in -Scale .. Scale
    BY <1>1, <1>3, <1>7, <2>1, <2>2, <2>4
  <2>6. known => \E q \in Nat :
            /\ Added(p, s)[m].input = energy[m].input + q
            /\ rest => q = 0 /\ in = 0
            /\ 2 * Scale * q - in \in -Scale .. Scale
    BY <1>1, <1>4, <1>7, <2>1, <2>3, <2>4
  <2>7. ~known => Added(p, s)[m].input = energy[m].input
    BY <1>5, <2>4
  <2> QED BY <1>3, <1>4, <2>5, <2>6, <2>7 DEF part, out, in, known, rest, x
<1> QED BY <1>6, <1>7

\* A minute gets the energy q of one more span.
OneMore(S, x, f, g, n, k, e, q) ==
    /\ IsFiniteSet(S) /\ x \notin S
    /\ \A y \in S : f[y] = g[y] /\ g[y] \in Int
    /\ f[x] \in Int /\ n \in Nat /\ k \in {n, n + 1} /\ e \in Nat /\ q \in Nat
    /\ k = n => q = 0 /\ f[x] = 0
    /\ 2 * Scale * q - f[x] \in -Scale .. Scale
    /\ Integral(e, g, S, n)

\* Then the energy is that of the spans with the new one.
LEMMA MinuteGrows ==
    ASSUME Scale \in Nat, NEW S, NEW x, NEW f, NEW g, NEW n, NEW k, NEW e, NEW q,
           OneMore(S, x, f, g, n, k, e, q)
    PROVE  Integral(e + q, f, S \cup {x}, k)
<1>1. /\ IsFiniteSet(S) /\ x \notin S /\ \A y \in S : f[y] = g[y] /\ g[y] \in Int
      /\ f[x] \in Int /\ n \in Nat /\ e \in Nat /\ q \in Nat
      /\ 2 * Scale * q - f[x] \in -Scale .. Scale
      /\ 2 * Scale * e - SumFunctionOnSet(g, S) \in -(Scale * n) .. Scale * n
  BY DEF OneMore, Integral
<1>2. CASE k = n
  <2>1. SumFunctionOnSet(f, S \cup {x}) = SumFunctionOnSet(g, S) + f[x]
    BY <1>1, SumGrows
  <2>2. SumFunctionOnSet(g, S) \in Int
    BY <1>1, SumIsInt
  <2>3. q = 0 /\ f[x] = 0
    BY <1>2 DEF OneMore
  <2>4. SumFunctionOnSet(f, S \cup {x}) = SumFunctionOnSet(g, S) /\ e + q = e
    BY <1>1, <2>1, <2>2, <2>3
  <2> QED BY <1>1, <1>2, <2>4 DEF Integral
<1>3. CASE k = n + 1
  <2>1. 2 * Scale * (e + q) - SumFunctionOnSet(f, S \cup {x})
            \in -(Scale * (n + 1)) .. Scale * (n + 1)
    BY <1>1, IntegralGrows
  <2> QED BY <1>3, <2>1 DEF Integral
<1> QED BY <1>2, <1>3 DEF OneMore

\* What is not known of a span adds nothing to the input.
LEMMA MinuteStays ==
    ASSUME NEW S, IsFiniteSet(S), NEW f, NEW g, \A y \in S : f[y] = g[y] /\ g[y] \in Int,
           NEW n \in Nat, NEW k \in {n, n + 1}, NEW e \in Nat,
           Scale \in Nat, Integral(e, g, S, n)
    PROVE  Integral(e, f, S, k)
<1> DEFINE z == 2 * Scale * e - SumFunctionOnSet(g, S)
<1>1. SumFunctionOnSet(f, S) = SumFunctionOnSet(g, S)
  BY SumsOfEquals
<1>2. z \in Int /\ z \in -(Scale * n) .. Scale * n
  <2>1. SumFunctionOnSet(g, S) \in Int
    BY SumIsInt
  <2> QED BY <2>1 DEF Integral
<1> HIDE DEF z
<1>3. z \in -(Scale * k) .. Scale * k
  <2>1. z \in -(Scale * (n + 1)) .. Scale * (n + 1)
    BY <1>2, BoundGrows
  <2> QED BY <1>2, <2>1
<1> QED BY <1>1, <1>3 DEF Integral, z

\* The new span is rounded if it has a tick in the minute.
LEMMA RoundedGrows ==
    ASSUME NEW S, IsFiniteSet(S), NEW x, x \notin S, NEW m
    PROVE  /\ RoundedIn(S, m) \in Nat
           /\ RoundedIn(S \cup {x}, m)
                = IF TicksIn(x, m) = {} THEN RoundedIn(S, m) ELSE RoundedIn(S, m) + 1
<1> DEFINE R(T) == {ps \in T : TicksIn(ps, m) # {}}
<1>1. IsFiniteSet(R(S)) /\ Cardinality(R(S)) \in Nat /\ x \notin R(S)
  BY FS_Subset, FS_CardinalityType
<1>2. TicksIn(x, m) = {} => R(S \cup {x}) = R(S)
  OBVIOUS
<1>3. TicksIn(x, m) # {} => R(S \cup {x}) = R(S) \cup {x}
  OBVIOUS
<1> HIDE DEF R
<1>4. Cardinality(R(S) \cup {x}) = Cardinality(R(S)) + 1
  BY <1>1, FS_AddElement
<1>5. RoundedIn(S, m) = Cardinality(R(S)) /\ RoundedIn(S \cup {x}, m) = Cardinality(R(S \cup {x}))
  BY DEF RoundedIn, R
<1> QED BY <1>1, <1>2, <1>3, <1>4, <1>5

\* A step that changes neither the minutes nor the spans.
LEMMA EnergyStays ==
    ASSUME EnergyIsIntegral, UNCHANGED <<energy, Spans>>
    PROVE  EnergyIsIntegral'
  BY DEF EnergyIsIntegral, InputSpansOf

\* A sample that is stored adds the energy of the span it ends.
LEMMA EnergyRecord ==
    ASSUME TypeOK, Ordered, EnergyIsIntegral, Record
    PROVE  EnergyIsIntegral'
<1> DEFINE x == <<previous, item>>
           continuous == previous # None /\ Continuous(previous, item)
           known == previous.reading.input # None /\ item.reading.input # None
<1>1. CASE UNCHANGED <<energy, committed>>
  <2>1. Spans' = Spans
    BY <1>1 DEF Spans
  <2> QED BY <1>1, <2>1, EnergyStays
<1>2. CASE ~UNCHANGED <<energy, committed>>
  <2>1. /\ item # None /\ item \in Sample /\ committed' = committed \cup {item}
        /\ energy' = IF continuous THEN Added(previous, item) ELSE energy
    BY <1>2, OrderTypes DEF Record
  <2>2. CASE ~continuous
    <3>1. Spans' = Spans /\ energy' = energy
      BY <2>1, <2>2, SpansGrow
    <3> QED BY <3>1, EnergyStays
  <2>3. CASE continuous
    <3>1. Spans' = Spans \cup {x} /\ x \notin Spans
      BY <2>1, <2>3, SpansGrow
    <3>2. /\ previous \in Sample /\ energy \in [Minutes -> Cell]
          /\ energy' = Added(previous, item) /\ Continuous(previous, item)
      BY <2>1, <2>3, OrderTypes DEF TypeOK
    <3>3. /\ IsFiniteSet(Spans) /\ IsFiniteSet(InputSpansOf(Spans))
          /\ InputSpansOf(Spans) \subseteq Spans
          /\ \A ps \in Spans : /\ ps = <<ps[1], ps[2]>> /\ ps[1] \in Sample /\ ps[2] \in Sample
                               /\ Continuous(ps[1], ps[2])
      BY SpansAreFinite
    <3>4. InputSpansOf(Spans') = IF known THEN InputSpansOf(Spans) \cup {x} ELSE InputSpansOf(Spans)
      BY <3>1 DEF InputSpansOf
    <3>5. Scale \in Nat
      <4>1. 1 \in 1 .. MaxGap + Skew
        BY Numbers
      <4> QED BY <4>1, ScaleIsMultiple
    <3> SUFFICES ASSUME NEW m \in Minutes
                 PROVE  /\ Integral(energy'[m].output, OutputIn(Spans', m), Spans',
                                    RoundedIn(Spans', m))
                        /\ Integral(energy'[m].input, InputIn(InputSpansOf(Spans'), m),
                                    InputSpansOf(Spans'), RoundedIn(Spans', m))
      BY DEF EnergyIsIntegral, SumFunction, Integral, OutputIn, InputIn, RoundedIn
    <3> DEFINE inputs == InputSpansOf(Spans)
               f == OutputIn(Spans', m)
               g == OutputIn(Spans, m)
               fi == InputIn(InputSpansOf(Spans'), m)
               gi == InputIn(inputs, m)
               n == RoundedIn(Spans, m)
               k == RoundedIn(Spans', m)
               out == Energy(x, previous.reading.power, item.reading.power, m)
               in == Energy(x, previous.reading.input, item.reading.input, m)
               rest == TicksIn(x, m) = {}
               cell == energy[m]
    <3>6. /\ n \in Nat /\ k \in {n, n + 1} /\ (rest <=> k = n)
      <4>1. n \in Nat /\ k = IF rest THEN n ELSE n + 1
        BY <3>1, <3>3, RoundedGrows
      <4> HIDE DEF n, k
      <4> QED BY <4>1
    <3>7. cell.output \in Nat /\ cell.input \in Nat
      <4>1. energy[m] \in Cell
        BY <3>2
      <4> QED BY <4>1 DEF Cell
    <3>8. /\ Integral(cell.output, g, Spans, n)
          /\ Integral(cell.input, gi, inputs, n)
      BY IntegralSums
    <3>9. \A y \in Spans : f[y] = g[y] /\ g[y] \in Int
      <4>1. ASSUME NEW y \in Spans
            PROVE  Energy(y, y[1].reading.power, y[2].reading.power, m) \in Int
        <5>1. /\ y = <<y[1], y[2]>> /\ y[1] \in Sample /\ y[2] \in Sample
              /\ Continuous(y[1], y[2])
          BY <3>3
        <5>2. Energy(<<y[1], y[2]>>, y[1].reading.power, y[2].reading.power, m) \in Int
          BY <3>2, <5>1, AddedEnergy
        <5> QED BY <5>1, <5>2
      <4> QED BY <3>1, <4>1 DEF OutputIn
    <3>10. \A y \in inputs : fi[y] = gi[y] /\ gi[y] \in Int
      <4>1. ASSUME NEW y \in inputs
            PROVE  Energy(y, y[1].reading.input, y[2].reading.input, m) \in Int
        <5>1. /\ y = <<y[1], y[2]>> /\ y[1] \in Sample /\ y[2] \in Sample
              /\ Continuous(y[1], y[2])
              /\ y[1].reading.input # None /\ y[2].reading.input # None
          BY <3>3 DEF InputSpansOf
        <5>2. Energy(<<y[1], y[2]>>, y[1].reading.input, y[2].reading.input, m) \in Int
          BY <3>2, <5>1, AddedEnergy
        <5> QED BY <5>1, <5>2
      <4>2. inputs \subseteq InputSpansOf(Spans')
        BY <3>4
      <4> QED BY <4>1, <4>2 DEF InputIn
    <3>11. f[x] = out
      BY <3>1 DEF OutputIn
    <3>12. known => fi[x] = in
      BY <3>4 DEF InputIn
    <3>13. /\ out \in Int
           /\ \E q \in Nat :
                /\ energy'[m].output = cell.output + q
                /\ rest => q = 0 /\ out = 0
                /\ 2 * Scale * q - out \in -Scale .. Scale
           /\ known =>
                /\ in \in Int
                /\ \E q \in Nat :
                    /\ energy'[m].input = cell.input + q
                    /\ rest => q = 0 /\ in = 0
                    /\ 2 * Scale * q - in \in -Scale .. Scale
           /\ ~known => energy'[m].input = cell.input
      BY <2>1, <3>2, AddedEnergy
    <3>14. x \notin inputs /\ IsFiniteSet(inputs)
      BY <3>1, <3>3
    <3> HIDE DEF inputs, f, g, fi, gi, n, k, out, in, rest, cell, x, known
    <3>15. Integral(energy'[m].output, f, Spans \cup {x}, k)
      <4>1. PICK q \in Nat : /\ energy'[m].output = cell.output + q
                             /\ rest => q = 0 /\ out = 0
                             /\ 2 * Scale * q - out \in -Scale .. Scale
        BY <3>13
      <4>2. /\ f[x] \in Int
            /\ k = n => q = 0 /\ f[x] = 0
            /\ 2 * Scale * q - f[x] \in -Scale .. Scale
        BY <3>6, <3>11, <3>13, <4>1
      <4>3. OneMore(Spans, x, f, g, n, k, cell.output, q)
        BY <3>1, <3>3, <3>6, <3>7, <3>8, <3>9, <4>2 DEF OneMore
      <4>4. Integral(cell.output + q, f, Spans \cup {x}, k)
        BY <3>5, <4>3, MinuteGrows
      <4> QED BY <4>1, <4>4
    <3>16. CASE known
      <4>1. PICK q \in Nat : /\ energy'[m].input = cell.input + q
                             /\ rest => q = 0 /\ in = 0
                             /\ 2 * Scale * q - in \in -Scale .. Scale
        BY <3>13, <3>16
      <4>2. /\ fi[x] \in Int
            /\ k = n => q = 0 /\ fi[x] = 0
            /\ 2 * Scale * q - fi[x] \in -Scale .. Scale
        BY <3>6, <3>12, <3>13, <3>16, <4>1
      <4>3. OneMore(inputs, x, fi, gi, n, k, cell.input, q)
        BY <3>6, <3>7, <3>8, <3>10, <3>14, <4>2 DEF OneMore
      <4>4. Integral(cell.input + q, fi, inputs \cup {x}, k)
        BY <3>5, <4>3, MinuteGrows
      <4> QED BY <3>1, <3>4, <3>15, <3>16, <4>1, <4>4 DEF inputs, f, fi, k
    <3>17. CASE ~known
      <4>1. Integral(cell.input, fi, inputs, k)
        BY <3>5, <3>6, <3>7, <3>8, <3>10, <3>14, MinuteStays
      <4> QED BY <3>1, <3>4, <3>13, <3>15, <3>17, <4>1 DEF inputs, f, fi, k
    <3> QED BY <3>16, <3>17
  <2> QED BY <2>2, <2>3
<1> QED BY <1>1, <1>2

\* The energy of each minute is the integral of the power over the spans of the
\* samples that were ever stored, but for half a unit for each of them (integrate,
\* record).
THEOREM EnergyMatchesSamples == Spec => []EnergyIsIntegral
<1>1. Init => EnergyIsIntegral
  <2> SUFFICES ASSUME Init PROVE EnergyIsIntegral
    OBVIOUS
  <2>1. Spans = {} /\ InputSpansOf({}) = {}
    BY DEF Init, Spans, InputSpansOf
  <2>2. \A m \in Minutes : energy[m].output = 0 /\ energy[m].input = 0
    BY DEF Init
  <2>3. Scale \in Nat
    <3>1. 1 \in 1 .. MaxGap + Skew
      BY Numbers
    <3> QED BY <3>1, ScaleIsMultiple
  <2>4. ASSUME NEW m \in Minutes, NEW f
        PROVE  Integral(0, f, {}, RoundedIn({}, m))
    <3>1. RoundedIn({}, m) = 0
      <4>1. {ps \in {} : TicksIn(ps, m) # {}} = {}
        OBVIOUS
      <4> QED BY <4>1, FS_EmptySet DEF RoundedIn
    <3>2. SumFunctionOnSet(f, {}) = 0
      BY SumOfNone
    <3>3. 2 * Scale * 0 - 0 \in -(Scale * 0) .. Scale * 0
      BY <2>3
    <3> QED BY <3>1, <3>2, <3>3 DEF Integral
  <2> QED BY <2>1, <2>2, <2>4, IntegralSums
<1>2. Typed /\ Ordered /\ EnergyIsIntegral /\ [Next]_vars => EnergyIsIntegral'
  <2> SUFFICES ASSUME Typed, Ordered, EnergyIsIntegral, [Next]_vars PROVE EnergyIsIntegral'
    OBVIOUS
  <2>1. CASE Record
    BY <2>1, EnergyRecord DEF Typed
  <2>2. CASE ~Record
    <3>1. UNCHANGED <<energy, committed>>
      BY <2>2 DEF Next, Take, ClockSteps, Lose, Crash, StorageReceives, StatementFails,
                  Complete, vars, storageVars
    <3>2. Spans' = Spans
      BY <3>1 DEF Spans
    <3> QED BY <3>1, <3>2, EnergyStays
  <2> QED BY <2>1, <2>2
<1> QED BY <1>1, <1>2, OrderIsKept, PTL DEF Spec
=============================================================================
