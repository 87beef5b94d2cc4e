--------------------------- MODULE NotifierProofs ---------------------------
(***************************************************************************)
(* What is proved of the notifier, for any incidents, limits and times,    *)
(* and however often it is killed or cannot save: its variables keep their *)
(* types, its memory keeps its bound, and the notifications of an incident *)
(* are bounded in number and spaced in time, those of a warning that was   *)
(* delivered are over, but for rounds that were lost.                      *)
(***************************************************************************)
EXTENDS Notifier, FiniteSetTheorems, SequenceTheorems, WellFoundedInduction, TLAPS

-----------------------------------------------------------------------------
\* Numbers and sets.

LEMMA Bounds ==
    /\ MaxAttempts \in Nat \ {0} /\ Interval \in Nat \ {0} /\ Capacity \in Nat \ {0}
    /\ Deadline \in Nat /\ Retention \in Nat /\ MaxEnds \in Nat
    /\ Interval < Retention /\ Deadline < Retention
    /\ None \notin Delivery /\ 0 \in 0 .. Deadline
<1>1. Delivery \subseteq [delivered : BOOLEAN, attempts : Nat, age : Nat]
  BY NotifierAssumption DEF Delivery, Age
<1> QED BY <1>1, NotifierAssumption

\* The least of a set of numbers: the shortest of the intervals below them.
LEMMA MinIsLeast ==
    ASSUME NEW S \in SUBSET Nat, S # {}
    PROVE  Min(S) \in S /\ \A n \in S : Min(S) <= n
<1> DEFINE below == {0 .. n : n \in S}
<1>1. below \subseteq FiniteSubsetsOf(Nat) /\ below # {}
  <2>1. ASSUME NEW n \in S
        PROVE  IsFiniteSet(0 .. n) /\ 0 .. n \subseteq Nat
    BY FS_Interval
  <2> QED BY <2>1 DEF FiniteSubsetsOf
<1>2. PICK x \in below : \A y \in below : ~ (<<y, x>> \in StrictSubsetOrdering(Nat))
  BY <1>1, FS_StrictSubsetOrderingWellFounded, WFMin
<1>3. PICK m \in S : x = 0 .. m
  BY <1>2
<1>4. ASSUME NEW n \in S, n < m
      PROVE  FALSE
  <2>1. 0 .. n \subseteq 0 .. m /\ 0 .. n # 0 .. m
    <3>1. m \in 0 .. m /\ m \notin 0 .. n
      BY <1>4
    <3>2. \A k \in 0 .. n : k \in 0 .. m
      BY <1>4
    <3> QED BY <3>1, <3>2
  <2>2. <<0 .. n, 0 .. m>> \in StrictSubsetOrdering(Nat)
    BY <2>1 DEF StrictSubsetOrdering
  <2> QED BY <1>2, <1>3, <2>2
<1>5. \A n \in S : m =< n
  BY <1>4
<1> QED BY <1>5 DEF Min

\* A finite set has as many of its oldest members as are wanted: a least set that
\* no younger member is missing from has no more than that.
LEMMA OldestExist ==
    ASSUME NEW K, IsFiniteSet(K), NEW age, \A i \in K : age[i] \in Nat,
           NEW many \in Nat, many <= Cardinality(K)
    PROVE  \E e \in SUBSET K : /\ Cardinality(e) = many
                               /\ \A i \in e, j \in K \ e : age[i] >= age[j]
<1> DEFINE Upper(e) == \A i \in e, j \in K \ e : age[i] >= age[j]
           C == {e \in SUBSET K : Cardinality(e) >= many /\ Upper(e)}
<1>1. C \subseteq FiniteSubsetsOf(K) /\ K \in C
  BY FS_Subset DEF FiniteSubsetsOf
<1>2. PICK e \in C : \A f \in C : ~ (<<f, e>> \in StrictSubsetOrdering(K))
  BY <1>1, FS_StrictSubsetOrderingWellFounded, WFMin
<1>3. IsFiniteSet(e) /\ Cardinality(e) \in Nat /\ e \subseteq K
  BY <1>1, <1>2, FS_Subset, FS_CardinalityType
<1>4. ASSUME Cardinality(e) > many
      PROVE  FALSE
  <2> DEFINE ages == {age[i] : i \in e}
  <2>1. e # {}
    BY <1>3, <1>4, FS_EmptySet
  <2>2. ages \in SUBSET Nat /\ ages # {}
    BY <1>3, <2>1
  <2>3. Min(ages) \in ages /\ \A a \in ages : Min(ages) <= a
    <3> HIDE DEF ages
    <3> QED BY <2>2, MinIsLeast
  <2>4. PICK x \in e : \A i \in e : age[x] <= age[i]
    <3>1. PICK x \in e : Min(ages) = age[x]
      BY <2>3
    <3>2. \A i \in e : age[i] \in ages
      OBVIOUS
    <3>3. \A i \in e : Min(ages) <= age[i]
      <4> HIDE DEF ages
      <4> QED BY <2>3, <3>2
    <3> QED BY <3>1, <3>3
  <2> DEFINE f == e \ {x}
  <2>5. Cardinality(f) = Cardinality(e) - 1
    BY <1>3, FS_RemoveElement
  <2>6. Cardinality(f) >= many
    BY <1>3, <1>4, <2>5
  <2>7. Upper(f)
    <3>1. ASSUME NEW i \in f, NEW j \in K \ f
          PROVE  age[i] >= age[j]
      <4>1. CASE j = x
        BY <1>3, <2>4, <4>1
      <4>2. CASE j # x
        BY <1>2, <3>1, <4>2
      <4> QED BY <4>1, <4>2
    <3> QED BY <3>1
  <2>8. f \in C
    BY <1>3, <2>6, <2>7
  <2>9. <<f, e>> \in StrictSubsetOrdering(K)
    BY <1>3 DEF StrictSubsetOrdering
  <2> QED BY <1>2, <2>8, <2>9
<1>5. Cardinality(e) = many
  BY <1>2, <1>3, <1>4
<1> QED BY <1>2, <1>5

-----------------------------------------------------------------------------
\* The memory and the history.

Entry == Delivery \cup {None}

LEMMA NotificationType ==
    ASSUME NEW x \in Notification
    PROVE  x.age \in Nat /\ x.late \in Nat /\ Began(x) \in Nat /\ Began(x) >= x.age
  BY Bounds DEF Notification, Age, Began

LEMMA OlderType == ASSUME NEW age \in Age PROVE Older(age) \in Age /\ Older(age) >= age
  BY Bounds DEF Age, Older

AgedEntry(e) == IF e = None THEN None ELSE [e EXCEPT !.age = Older(@)]

LEMMA AgedEntryType ==
    ASSUME NEW e \in Entry
    PROVE  /\ AgedEntry(e) \in Entry
           /\ AgedEntry(e) = None <=> e = None
           /\ e # None => /\ AgedEntry(e).age = Older(e.age)
                          /\ AgedEntry(e).attempts = e.attempts
                          /\ AgedEntry(e).delivered = e.delivered
<1>1. CASE e = None
  BY <1>1 DEF AgedEntry
<1>2. CASE e # None
  <2>1. e \in Delivery /\ Older(e.age) \in Age
    BY <1>2, OlderType DEF Entry, Delivery
  <2>2. AgedEntry(e) = [e EXCEPT !.age = Older(@)]
    BY <1>2 DEF AgedEntry
  <2>3. AgedEntry(e) \in Delivery
    BY <2>1, <2>2 DEF Delivery
  <2>4. /\ AgedEntry(e).age = Older(e.age)
        /\ AgedEntry(e).attempts = e.attempts
        /\ AgedEntry(e).delivered = e.delivered
    BY <2>1, <2>2 DEF Delivery
  <2>5. AgedEntry(e) # None
    BY <2>3, Bounds
  <2> QED BY <1>2, <2>3, <2>4, <2>5 DEF Entry
<1> QED BY <1>1, <1>2

LEMMA AgedType ==
    ASSUME NEW state \in Deliveries
    PROVE  /\ Aged(state) \in Deliveries
           /\ Entries(Aged(state)) = Entries(state)
           /\ \A i \in Ids : Aged(state)[i] = AgedEntry(state[i])
<1>1. \A i \in Ids : state[i] \in Entry
  BY DEF Deliveries, Entry
<1>2. \A i \in Ids : Aged(state)[i] = AgedEntry(state[i])
  BY DEF Aged, AgedEntry
<1>3. Aged(state) \in [Ids -> Entry]
  BY <1>1, <1>2, AgedEntryType DEF Aged
<1> QED BY <1>1, <1>2, <1>3, AgedEntryType DEF Deliveries, Entry, Entries

\* Of the notifications the oldest are dropped and the others are older by a tick.
LEMMA AgedShowsAre ==
    ASSUME NEW S \in Seq(Notification)
    PROVE  /\ AgedShows(S) \in Seq(Notification)
           /\ \E d \in 0 .. Len(S) :
                /\ Len(AgedShows(S)) = Len(S) - d
                /\ \A n \in 1 .. Len(S) - d :
                      /\ AgedShows(S)[n].age = S[n + d].age + 1
                      /\ AgedShows(S)[n].late = S[n + d].late
                      /\ AgedShows(S)[n].ok = S[n + d].ok
                      /\ Began(S[n + d]) + 1 < Retention
<1> DEFINE l == Len(S)
           young == {n \in 1 .. l + 1 : \A m \in n .. l : Began(S[m]) + 1 < Retention}
           first == Min(young)
<1>1. l \in Nat /\ DOMAIN S = 1 .. l /\ \A n \in 1 .. l : S[n] \in Notification
  BY LenProperties, ElementOfSeq
<1>2. l + 1 \in young /\ young \in SUBSET Nat
  BY <1>1
<1>3. first \in young
  <2> HIDE DEF young
  <2> QED BY <1>2, MinIsLeast
<1> SUFFICES ASSUME NEW d, d = first - 1
             PROVE  /\ AgedShows(S) \in Seq(Notification)
                    /\ \E x \in 0 .. Len(S) :
                         /\ Len(AgedShows(S)) = Len(S) - x
                         /\ \A n \in 1 .. Len(S) - x :
                               /\ AgedShows(S)[n].age = S[n + x].age + 1
                               /\ AgedShows(S)[n].late = S[n + x].late
                               /\ AgedShows(S)[n].ok = S[n + x].ok
                               /\ Began(S[n + x]) + 1 < Retention
  OBVIOUS
<1>4. d \in 0 .. l /\ first = d + 1 /\ l - d \in Nat
  BY <1>1, <1>3
<1>5. \A m \in d + 1 .. l : Began(S[m]) + 1 < Retention
  BY <1>3, <1>4
<1> HIDE DEF first, young
<1>6. AgedShows(S) = [n \in 1 .. l + 1 - first |-> [S[n + first - 1] EXCEPT !.age = Older(@)]]
  BY DEF AgedShows, first, young
<1>7. l + 1 - first = l - d /\ \A n \in 1 .. l - d : n + first - 1 = n + d
  BY <1>1, <1>4
<1>8. AgedShows(S) = [n \in 1 .. l - d |-> [S[n + d] EXCEPT !.age = Older(@)]]
  BY <1>6, <1>7
<1>9. ASSUME NEW n \in 1 .. l - d
      PROVE  /\ [S[n + d] EXCEPT !.age = Older(@)] \in Notification
             /\ [S[n + d] EXCEPT !.age = Older(@)].age = S[n + d].age + 1
             /\ [S[n + d] EXCEPT !.age = Older(@)].late = S[n + d].late
             /\ [S[n + d] EXCEPT !.age = Older(@)].ok = S[n + d].ok
             /\ Began(S[n + d]) + 1 < Retention
  <2>1. n + d \in 1 .. l /\ n + d \in d + 1 .. l
    BY <1>1, <1>4
  <2>2. S[n + d] \in Notification /\ Older(S[n + d].age) \in Age
    BY <1>1, <2>1, OlderType DEF Notification
  <2>3. Began(S[n + d]) + 1 < Retention
    BY <1>5, <2>1
  <2>4. Older(S[n + d].age) = S[n + d].age + 1
    BY <2>2, <2>3, NotificationType, Bounds DEF Older
  <2> QED BY <2>2, <2>3, <2>4 DEF Notification
<1>10. AgedShows(S) \in Seq(Notification) /\ Len(AgedShows(S)) = l - d
  <2> DEFINE k == l - d
             next(n) == [S[n + d] EXCEPT !.age = Older(@)]
  <2>1. AgedShows(S) = [n \in 1 .. k |-> next(n)] /\ k \in Nat /\ \A n \in 1 .. k : next(n) \in Notification
    BY <1>4, <1>8, <1>9
  <2> HIDE DEF k, next
  <2>2. AgedShows(S) \in [1 .. k -> Notification]
    BY <2>1
  <2>3. AgedShows(S) \in Seq(Notification) /\ Len(AgedShows(S)) = k
    BY <2>1, <2>2
  <2> QED BY <2>3 DEF k
<1>11. \A n \in 1 .. l - d : AgedShows(S)[n] = [S[n + d] EXCEPT !.age = Older(@)]
  BY <1>8
<1>12. \A n \in 1 .. l - d : /\ AgedShows(S)[n].age = S[n + d].age + 1
                            /\ AgedShows(S)[n].late = S[n + d].late
                            /\ AgedShows(S)[n].ok = S[n + d].ok
                            /\ Began(S[n + d]) + 1 < Retention
  BY <1>9, <1>11
<1> QED BY <1>4, <1>10, <1>12

\* What is retained is young, unchanged and not too much.
LEMMA RetainedIs ==
    ASSUME NEW state \in Deliveries
    PROVE  /\ Retained(state) \in Deliveries
           /\ Cardinality(Entries(Retained(state))) <= Capacity
           /\ \A i \in Ids : Retained(state)[i] \in {state[i], None}
<1> DEFINE kept == Fresh(state)
           count == Cardinality(kept)
           excess == IF count > Capacity THEN count - Capacity ELSE 0
           Oldest(e) == /\ Cardinality(e) = excess
                        /\ \A i \in e, j \in kept \ e : state[i].age >= state[j].age
           evicted == CHOOSE e \in SUBSET kept : Oldest(e)
<1>1. \A i \in Ids : state[i] \in Delivery \cup {None}
  BY DEF Deliveries
<1>2. kept \subseteq Ids /\ IsFiniteSet(kept) /\ count \in Nat /\ Capacity \in Nat
  BY NotifierAssumption, Bounds, FS_Subset, FS_CardinalityType DEF Fresh, Entries
<1>3. \A i \in kept : state[i] \in Delivery /\ state[i].age \in Nat
  BY <1>1 DEF Fresh, Entries, Delivery, Age
<1>4. excess \in Nat /\ excess <= count
  <2> HIDE DEF count
  <2> QED BY <1>2
<1>5. \E e \in SUBSET kept : Oldest(e)
  <2> DEFINE age == [i \in kept |-> state[i].age]
  <2>1. \A i \in kept : age[i] \in Nat
    BY <1>3
  <2>2. \E e \in SUBSET kept : /\ Cardinality(e) = excess
                               /\ \A i \in e, j \in kept \ e : age[i] >= age[j]
    <3> HIDE DEF age, kept, excess
    <3> QED BY <1>2, <1>4, <2>1, OldestExist DEF count
  <2> QED BY <2>2
<1>6. evicted \in SUBSET kept /\ Cardinality(evicted) = excess
  BY <1>5
<1>7. Retained(state) = [i \in Ids |-> IF i \in kept \ evicted THEN state[i] ELSE None]
  BY DEF Retained
<1> HIDE DEF evicted
<1>8. \A i \in Ids : Retained(state)[i] = IF i \in kept \ evicted THEN state[i] ELSE None
  BY <1>7
<1>9. Retained(state) \in Deliveries
  BY <1>1, <1>7 DEF Deliveries
<1>10. Entries(Retained(state)) = kept \ evicted
  BY <1>2, <1>8 DEF Fresh, Entries
<1>11. Cardinality(kept \ evicted) <= Capacity
  <2>1. Cardinality(kept \ evicted) = count - excess
    <3> HIDE DEF kept, excess
    <3>1. kept \cap evicted = evicted
      BY <1>6
    <3> QED BY <1>2, <1>6, <3>1, FS_Difference DEF count
  <2> HIDE DEF kept, count
  <2> QED BY <1>2, <2>1
<1>12. \A i \in Ids : Retained(state)[i] \in {state[i], None}
  <2> HIDE DEF kept
  <2> QED BY <1>8
<1> QED BY <1>9, <1>10, <1>11, <1>12

-----------------------------------------------------------------------------
\* Types.

\* What made an incident due remains until the round has marked it.
DueStill(i) ==
    \/ memory[i] = None
    \/ /\ i \in Critical \/ ~memory[i].delivered
       /\ memory[i].attempts < MaxAttempts
       /\ Rested(i)

BatchInv ==
    /\ pc \in {"idle", "asking", "down"} => batch = {}
    /\ pc = "delivering" => \A i \in batch : DueStill(i)

LEMMA MarkedType ==
    ASSUME TypeOK, BatchInv, pc = "delivering", NEW ok \in BOOLEAN
    PROVE  /\ Marked(ok) \in Deliveries
           /\ \A i \in Ids \ batch : Marked(ok)[i] = memory[i]
           /\ \A i \in batch : /\ Marked(ok)[i] \in Delivery
                               /\ Marked(ok)[i].delivered = ok
                               /\ Marked(ok)[i].age = since
                               /\ Marked(ok)[i].attempts =
                                    IF memory[i] = None THEN 1 ELSE memory[i].attempts + 1
<1> DEFINE attempts(i) == IF memory[i] = None THEN 1 ELSE memory[i].attempts + 1
           mark(i) == [delivered |-> ok, age |-> since, attempts |-> attempts(i)]
<1>1. \A i \in Ids : memory[i] \in Delivery \cup {None}
  BY DEF TypeOK, Deliveries
<1>2. ASSUME NEW i \in batch
      PROVE  mark(i) \in Delivery
  <2>1. i \in Ids /\ DueStill(i)
    BY DEF TypeOK, BatchInv
  <2>2. attempts(i) \in 0 .. MaxAttempts
    BY <1>1, <2>1, Bounds DEF DueStill, Delivery
  <2>3. since \in Age
    BY Bounds DEF TypeOK, Age
  <2> QED BY <2>2, <2>3 DEF Delivery
<1>3. Marked(ok) = [i \in Ids |-> IF i \notin batch THEN memory[i] ELSE mark(i)]
  BY DEF Marked
<1>4. \A i \in Ids : Marked(ok)[i] = IF i \notin batch THEN memory[i] ELSE mark(i)
  BY <1>3
<1>5. Marked(ok) \in Deliveries
  BY <1>1, <1>2, <1>3 DEF Deliveries
<1>6. batch \subseteq Ids
  BY DEF TypeOK
<1>7. ASSUME NEW i \in batch
      PROVE  /\ Marked(ok)[i] = mark(i) /\ mark(i).delivered = ok /\ mark(i).age = since
             /\ mark(i).attempts = IF memory[i] = None THEN 1 ELSE memory[i].attempts + 1
  BY <1>4, <1>6
<1>8. \A i \in Ids \ batch : Marked(ok)[i] = memory[i]
  BY <1>4
<1> HIDE DEF mark
<1> QED BY <1>2, <1>5, <1>7, <1>8

LEMMA TickType == ASSUME TypeOK, BatchInv, Tick PROVE TypeOK' /\ BatchInv'
<1>1. /\ memory' \in Deliveries /\ Cardinality(Entries(memory')) <= Capacity
      /\ file' \in Deliveries /\ Cardinality(Entries(file')) <= Capacity
      /\ \A i \in Ids : memory'[i] = AgedEntry(memory[i])
  BY AgedType DEF Tick, TypeOK
<1>2. shown' \in [Ids -> Seq(Notification)]
  BY AgedShowsAre DEF Tick, TypeOK
<1>3. since' \in 0 .. Deadline
  BY Bounds DEF Tick, InRound, TypeOK
<1>4. UNCHANGED <<status, pc, batch, ends, lost, forgotten>>
  BY DEF Tick
<1>5. TypeOK'
  BY <1>1, <1>2, <1>3, <1>4 DEF TypeOK
<1>6. ASSUME pc = "delivering", NEW i \in batch
      PROVE  DueStill(i)'
  <2>1. i \in Ids /\ DueStill(i) /\ memory[i] \in Entry /\ since' = since + 1
    BY <1>6 DEF TypeOK, BatchInv, Deliveries, Entry, Tick, InRound
  <2>2. CASE memory[i] = None
    BY <1>1, <2>1, <2>2 DEF AgedEntry, DueStill
  <2>3. CASE memory[i] # None
    <3>1. /\ memory'[i].age = Older(memory[i].age)
          /\ memory'[i].attempts = memory[i].attempts
          /\ memory'[i].delivered = memory[i].delivered
      BY <1>1, <2>1, <2>3, AgedEntryType
    <3>2. memory[i].age \in Age /\ since \in Nat /\ since' \in 0 .. Deadline
      BY <1>3, <2>1, <2>3, Bounds DEF Entry, Delivery, TypeOK
    <3>3. memory[i].age >= Interval + since
      BY <2>1, <2>3 DEF DueStill, Rested
    <3>4. memory'[i].age >= Interval + since'
      BY <2>1, <3>1, <3>2, <3>3, Bounds DEF Older, Age
    <3> QED BY <2>1, <2>3, <3>1, <3>4 DEF DueStill, Rested
  <2> QED BY <2>2, <2>3
<1> QED BY <1>4, <1>5, <1>6 DEF BatchInv

LEMMA DeliverType == ASSUME TypeOK, BatchInv, Deliver PROVE TypeOK' /\ BatchInv'
<1>1. PICK ok \in BOOLEAN, text \in Displayed(batch) \cup {{}} :
         /\ memory' = Retained(Marked(ok))
         /\ forgotten' = forgotten \cup
               {i \in Fresh(Marked(ok)) : memory'[i] = None /\ status[i] = "open"}
         /\ shown' = [i \in Ids |->
                         IF i \in forgotten' THEN <<>>
                         ELSE IF i \in text THEN Append(shown[i], [age |-> 0, late |-> since, ok |-> ok])
                         ELSE shown[i]]
  BY DEF Deliver
<1>2. pc = "delivering" /\ pc' = "saving" /\ UNCHANGED <<status, file, batch, since, ends, lost>>
  BY DEF Deliver
<1>3. memory' \in Deliveries /\ Cardinality(Entries(memory')) <= Capacity
  BY <1>1, <1>2, MarkedType, RetainedIs
<1>4. [age |-> 0, late |-> since, ok |-> ok] \in Notification
  BY Bounds DEF TypeOK, Notification, Age
<1>5. shown' \in [Ids -> Seq(Notification)]
  <2>1. ASSUME NEW i \in Ids
        PROVE  /\ Append(shown[i], [age |-> 0, late |-> since, ok |-> ok]) \in Seq(Notification)
               /\ shown[i] \in Seq(Notification) /\ <<>> \in Seq(Notification)
    <3>1. shown[i] \in Seq(Notification)
      BY DEF TypeOK
    <3> QED BY <1>4, <3>1, AppendProperties, EmptySeq
  <2> QED BY <1>1, <2>1
<1>6. forgotten' \subseteq Ids
  BY <1>1 DEF TypeOK, Fresh, Entries
<1> QED BY <1>2, <1>3, <1>5, <1>6 DEF TypeOK, BatchInv, Notification

\* The notifier keeps its types, its memory never holds more than its capacity,
\* and no entry more attempts than are allowed (load, save, run).
LEMMA TypeAndBatch == Spec => [](TypeOK /\ BatchInv)
<1>1. Init => TypeOK /\ BatchInv
  <2> SUFFICES ASSUME Init PROVE TypeOK /\ BatchInv
    OBVIOUS
  <2>1. memory \in Deliveries /\ file \in Deliveries
    BY DEF Init, Deliveries
  <2>2. Entries(memory) = {} /\ Entries(file) = {}
    BY DEF Init, Entries
  <2>3. Cardinality(Entries(memory)) <= Capacity /\ Cardinality(Entries(file)) <= Capacity
    BY <2>2, FS_EmptySet, Bounds
  <2>4. shown \in [Ids -> Seq(Notification)]
    BY EmptySeq DEF Init
  <2>5. /\ status \in [Ids -> {"absent", "open", "settled"}] /\ pc = "idle" /\ batch = {}
        /\ since = 0 /\ ends = 0 /\ lost = 0 /\ forgotten = {}
    BY DEF Init
  <2> QED BY <2>1, <2>3, <2>4, <2>5, Bounds DEF TypeOK, BatchInv
<1>2. TypeOK /\ BatchInv /\ [Next]_vars => TypeOK' /\ BatchInv'
  <2> SUFFICES ASSUME TypeOK, BatchInv, [Next]_vars PROVE TypeOK' /\ BatchInv'
    OBVIOUS
  <2>1. ASSUME NEW i \in Ids, Raise(i) \/ Settle(i)
        PROVE  TypeOK' /\ BatchInv'
    BY <2>1 DEF Raise, Settle, Change, TypeOK, BatchInv, DueStill, Rested
  <2>2. CASE Tick
    BY <2>2, TickType
  <2>3. CASE Ask \/ NoAnswer
    BY <2>3, Bounds DEF Ask, NoAnswer, TypeOK, BatchInv
  <2>10. CASE Answer
    <3>1. ASSUME NEW i \in Pending
          PROVE  i \in Ids /\ DueStill(i)
      BY DEF Pending, Due, DueStill
    <3>2. /\ batch' = Pending /\ UNCHANGED <<status, memory, file, ends, lost, forgotten, shown>>
          /\ \/ pc' = "idle" /\ Pending = {} /\ since' = 0
             \/ pc' = "delivering" /\ since' = since
      BY <2>10, Zenon DEF Answer
    <3>3. TypeOK'
      BY <3>1, <3>2, Bounds DEF TypeOK
    <3>4. BatchInv'
      BY <3>1, <3>2 DEF BatchInv, DueStill, Rested
    <3> QED BY <3>3, <3>4
  <2>4. CASE Deliver
    BY <2>4, DeliverType
  <2>5. CASE Save
    BY <2>5, Bounds DEF Save, TypeOK, BatchInv
  <2>6. CASE SaveFails
    <3>1. ends' \in Nat /\ lost' \in Nat
      BY <2>6 DEF SaveFails, TypeOK
    <3>2. /\ pc' = "down" /\ batch' = {} /\ since' = 0
          /\ UNCHANGED <<status, memory, file, forgotten, shown>>
      BY <2>6 DEF SaveFails
    <3> QED BY <3>1, <3>2, Bounds DEF TypeOK, BatchInv
  <2>7. CASE Crash
    <3>1. ends' \in Nat /\ lost' \in Nat
      BY <2>7 DEF Crash, TypeOK
    <3>2. /\ pc' = "down" /\ batch' = {} /\ since' = 0
          /\ UNCHANGED <<status, memory, file, forgotten, shown>>
      BY <2>7 DEF Crash
    <3> QED BY <3>1, <3>2, Bounds DEF TypeOK, BatchInv
  <2>8. CASE Start
    BY <2>8 DEF Start, TypeOK, BatchInv
  <2>9. CASE UNCHANGED vars
    BY <2>9 DEF vars, TypeOK, BatchInv, DueStill, Rested
  <2> QED BY <2>1, <2>2, <2>3, <2>4, <2>5, <2>6, <2>7, <2>8, <2>9, <2>10 DEF Next
<1> QED BY <1>1, <1>2, PTL DEF Spec

\* The memory and the file of the notifier are within their bound and a round is
\* within its deadline (run, save).
THEOREM NotifierTypeCorrect == Spec => []TypeOK
  BY TypeAndBatch, PTL

-----------------------------------------------------------------------------
\* An entry and the notifications of its incident.

\* The entry e knows of the notification x: it was marked then or later.
Covers(e, x) == e # None /\ Began(x) >= e.age

\* The notifications that the next one followed too soon, and those that the
\* desktop took.
Close(S) == {n \in 1 .. Len(S) - 1 : Began(S[n]) < Interval + S[n + 1].age}
Ok(S) == {n \in DOMAIN S : S[n].ok}

Young(S) == \A n \in DOMAIN S : Began(S[n]) < Retention

\* What the three properties say of an incident with L lost rounds.
Fine(i, L, S) ==
    /\ Len(S) <= MaxAttempts + L
    /\ Cardinality(Close(S)) <= L
    /\ i \notin Critical => Cardinality(Ok(S)) <= 1 + L

\* All notifications but the L last ones are known and were counted.
Counted(e, L, S) ==
    Len(S) > L => /\ e # None /\ Len(S) <= e.attempts + L
                  /\ \A n \in 1 .. Len(S) - L : Covers(e, S[n])

\* No more than L came too soon; fewer if the last one is not known, because the
\* next may come too soon after it.
Spaced(e, L, S) ==
    /\ Cardinality(Close(S)) <= L
    /\ S # <<>> /\ ~Covers(e, S[Len(S)]) => Cardinality(Close(S)) < L

\* Of the notifications of a warning that the desktop took, no more than L are
\* unknown, and one that is known is the only one.
Once(e, L, S) ==
    Cardinality(Ok(S)) > L => /\ e # None /\ e.delivered /\ Cardinality(Ok(S)) <= 1 + L
                              /\ \E n \in Ok(S) : Covers(e, S[n])

Agrees(i, e, L, S) ==
    /\ Counted(e, L, S)
    /\ Spaced(e, L, S)
    /\ i \notin Critical => Once(e, L, S)

LEMMA ShowsType ==
    ASSUME NEW S \in Seq(Notification)
    PROVE  /\ Len(S) \in Nat /\ DOMAIN S = 1 .. Len(S)
           /\ \A n \in 1 .. Len(S) : /\ S[n] \in Notification /\ S[n].age \in Nat
                                     /\ S[n].late \in Nat /\ Began(S[n]) \in Nat
           /\ IsFiniteSet(Close(S)) /\ Cardinality(Close(S)) \in Nat
           /\ IsFiniteSet(Ok(S)) /\ Cardinality(Ok(S)) \in Nat
<1>1. Len(S) \in Nat /\ DOMAIN S = 1 .. Len(S)
  BY LenProperties
<1>2. \A n \in 1 .. Len(S) : /\ S[n] \in Notification /\ S[n].age \in Nat
                             /\ S[n].late \in Nat /\ Began(S[n]) \in Nat
  <2>1. \A n \in 1 .. Len(S) : S[n] \in Notification
    BY <1>1, ElementOfSeq
  <2> QED BY <2>1, NotificationType
<1>3. IsFiniteSet(1 .. Len(S))
  BY <1>1, FS_Interval
<1>4. Close(S) \subseteq 1 .. Len(S) /\ Ok(S) \subseteq 1 .. Len(S)
  BY <1>1 DEF Close, Ok
<1>5. IsFiniteSet(Close(S)) /\ IsFiniteSet(Ok(S))
  BY <1>3, <1>4, FS_Subset
<1> QED BY <1>1, <1>2, <1>5, FS_CardinalityType

LEMMA EntryType ==
    ASSUME NEW e \in Entry, e # None
    PROVE  e \in Delivery /\ e.attempts \in 0 .. MaxAttempts /\ e.attempts \in Nat /\ e.age \in Nat
  BY Bounds DEF Entry, Delivery, Age

LEMMA AgreesIsFine ==
    ASSUME NEW i, NEW e \in Entry, NEW L \in Nat, NEW S \in Seq(Notification), Agrees(i, e, L, S)
    PROVE  Fine(i, L, S)
<1>1. Len(S) <= MaxAttempts + L
  BY ShowsType, EntryType, Bounds DEF Agrees, Counted
<1>2. Cardinality(Close(S)) <= L
  BY DEF Agrees, Spaced
<1>3. i \notin Critical => Cardinality(Ok(S)) <= 1 + L
  BY ShowsType DEF Agrees, Once
<1> QED BY <1>1, <1>2, <1>3 DEF Fine

\* A round more that is lost leaves room for more.
LEMMA LosesMore ==
    ASSUME NEW i, NEW e \in Entry, NEW L \in Nat, NEW S \in Seq(Notification)
    PROVE  /\ Agrees(i, e, L, S) => Agrees(i, e, L + 1, S)
           /\ Fine(i, L, S) => Fine(i, L + 1, S)
<1>1. Fine(i, L, S) => Fine(i, L + 1, S)
  BY ShowsType, Bounds DEF Fine
<1>2. ASSUME Counted(e, L, S)
      PROVE  Counted(e, L + 1, S)
  <2> SUFFICES ASSUME Len(S) > L + 1
               PROVE  /\ e # None /\ Len(S) <= e.attempts + (L + 1)
                      /\ \A n \in 1 .. Len(S) - (L + 1) : Covers(e, S[n])
    BY DEF Counted
  <2>1. e # None /\ Len(S) <= e.attempts + L /\ \A n \in 1 .. Len(S) - L : Covers(e, S[n])
    BY <1>2, ShowsType DEF Counted
  <2>2. \A n \in 1 .. Len(S) - (L + 1) : n \in 1 .. Len(S) - L
    BY ShowsType
  <2> QED BY <2>1, <2>2, ShowsType, EntryType
<1>3. Spaced(e, L, S) => Spaced(e, L + 1, S)
  BY ShowsType DEF Spaced
<1>4. Once(e, L, S) => Once(e, L + 1, S)
  BY ShowsType DEF Once
<1> QED BY <1>1, <1>2, <1>3, <1>4 DEF Agrees

LEMMA NoneShown ==
    ASSUME NEW i, NEW e, NEW L \in Nat
    PROVE  Agrees(i, e, L, <<>>) /\ Fine(i, L, <<>>)
<1>1. Len(<<>>) = 0 /\ Close(<<>>) = {} /\ Ok(<<>>) = {}
  BY DEF Close, Ok
<1>2. Cardinality(Close(<<>>)) = 0 /\ Cardinality(Ok(<<>>)) = 0
  BY <1>1, FS_EmptySet
<1> DEFINE none == <<>>
<1> HIDE DEF none
<1>3. Len(none) = 0 /\ Cardinality(Close(none)) = 0 /\ Cardinality(Ok(none)) = 0
  BY <1>1, <1>2 DEF none
<1>4. none = <<>>
  BY DEF none
<1>5. Fine(i, L, none)
  BY <1>3, Bounds DEF Fine
<1>6. Agrees(i, e, L, none)
  BY <1>3, <1>4 DEF Agrees, Counted, Spaced, Once
<1> QED BY <1>5, <1>6 DEF none

\* An entry as old as Retention knows of no notification younger than that, and
\* is as good as none.
LEMMA RetentionEnds ==
    ASSUME NEW i, NEW e \in Entry, NEW L \in Nat, NEW S \in Seq(Notification), Young(S),
           e # None, e.age >= Retention, Agrees(i, e, L, S)
    PROVE  Agrees(i, None, L, S)
<1>1. \A n \in 1 .. Len(S) : ~Covers(e, S[n])
  BY ShowsType, EntryType, Bounds DEF Covers, Young
<1>2. ~(Len(S) > L)
  <2> SUFFICES ASSUME Len(S) > L PROVE FALSE
    OBVIOUS
  <2>1. 1 \in 1 .. Len(S) - L /\ 1 \in 1 .. Len(S)
    BY ShowsType
  <2> QED BY <1>1, <2>1 DEF Agrees, Counted
<1>3. Spaced(None, L, S)
  <2>1. S # <<>> => Len(S) \in 1 .. Len(S)
    BY ShowsType, EmptySeq
  <2> QED BY <1>1, <2>1 DEF Agrees, Spaced
<1>4. i \notin Critical => ~(Cardinality(Ok(S)) > L)
  <2>1. Ok(S) \subseteq 1 .. Len(S)
    BY ShowsType DEF Ok
  <2> QED BY <1>1, <2>1 DEF Agrees, Once
<1> QED BY <1>2, <1>3, <1>4 DEF Agrees, Counted, Once

\* A notification more.
LEMMA ShownOnce ==
    ASSUME NEW S \in Seq(Notification), NEW x \in Notification
    PROVE  LET T == Append(S, x)  l == Len(S) IN
           /\ T \in Seq(Notification) /\ Len(T) = l + 1 /\ T[l + 1] = x
           /\ \A n \in 1 .. l : T[n] = S[n]
           /\ Cardinality(Close(T)) <= Cardinality(Close(S)) + 1
           /\ l = 0 \/ Began(S[l]) >= Interval + x.age => Close(T) = Close(S)
           /\ x.ok => Cardinality(Ok(T)) = Cardinality(Ok(S)) + 1
           /\ ~x.ok => Ok(T) = Ok(S)
           /\ Ok(S) \subseteq Ok(T) /\ (x.ok => l + 1 \in Ok(T))
<1> DEFINE T == Append(S, x)
           l == Len(S)
<1>1. l \in Nat /\ DOMAIN S = 1 .. l /\ T \in Seq(Notification) /\ Len(T) = l + 1 /\ T[l + 1] = x
      /\ \A n \in 1 .. l : T[n] = S[n]
  BY ShowsType, AppendProperties
<1>2. DOMAIN T = 1 .. l + 1
  BY <1>1, ShowsType
<1> HIDE DEF T, l
<1>3. Close(T) \subseteq Close(S) \cup {l} /\ Close(S) \subseteq Close(T)
  <2>1. ASSUME NEW n \in Close(T), n # l
        PROVE  n \in Close(S)
    <3>1. n \in 1 .. (l + 1) - 1 /\ Began(T[n]) < Interval + T[n + 1].age
      BY <1>1 DEF Close
    <3>2. n \in 1 .. l - 1 /\ n \in 1 .. l /\ n + 1 \in 1 .. l
      BY <1>1, <2>1, <3>1
    <3>3. T[n] = S[n] /\ T[n + 1] = S[n + 1]
      BY <1>1, <3>2
    <3> QED BY <3>1, <3>2, <3>3 DEF Close, l
  <2>2. ASSUME NEW n \in Close(S)
        PROVE  n \in Close(T)
    <3>1. n \in 1 .. l - 1 /\ Began(S[n]) < Interval + S[n + 1].age
      BY DEF Close, l
    <3>2. n \in 1 .. l /\ n + 1 \in 1 .. l /\ n \in 1 .. Len(T) - 1
      BY <1>1, <3>1
    <3> QED BY <1>1, <3>1, <3>2 DEF Close
  <2> QED BY <2>1, <2>2
<1>4. Cardinality(Close(T)) <= Cardinality(Close(S)) + 1
  <2>1. IsFiniteSet(Close(S) \cup {l}) /\ Cardinality(Close(S) \cup {l}) <= Cardinality(Close(S)) + 1
    <3>1. IsFiniteSet(Close(S)) /\ Cardinality(Close(S)) \in Nat
      BY ShowsType
    <3>2. /\ IsFiniteSet(Close(S) \cup {l})
          /\ Cardinality(Close(S) \cup {l}) =
                IF l \in Close(S) THEN Cardinality(Close(S)) ELSE Cardinality(Close(S)) + 1
      BY <3>1, FS_AddElement
    <3> DEFINE c == Cardinality(Close(S))
    <3> HIDE DEF c
    <3>3. c \in Nat /\ Cardinality(Close(S) \cup {l}) \in {c, c + 1}
      BY <3>1, <3>2 DEF c
    <3>4. Cardinality(Close(S) \cup {l}) <= c + 1
      BY <3>3
    <3> QED BY <3>2, <3>4 DEF c
  <2>2. Cardinality(Close(T)) <= Cardinality(Close(S) \cup {l})
    BY <1>3, <2>1, FS_Subset
  <2> QED BY <1>1, <2>1, <2>2, ShowsType, FS_CardinalityType
<1>5. ASSUME l = 0 \/ Began(S[l]) >= Interval + x.age
      PROVE  Close(T) = Close(S)
  <2>1. l \notin Close(T)
    <3>1. CASE l = 0
      BY <3>1 DEF Close
    <3>2. CASE l # 0 /\ Began(S[l]) >= Interval + x.age
      <4>1. T[l] = S[l] /\ Began(S[l]) \in Nat /\ x.age \in Nat
        <5>1. l \in 1 .. l
          BY <1>1, <3>2
        <5>2. T[l] = S[l] /\ Began(S[l]) \in Nat
          BY <1>1, <5>1, ShowsType DEF l
        <5>3. x.age \in Nat
          BY NotificationType
        <5> QED BY <5>2, <5>3
      <4> QED BY <1>1, <3>2, <4>1, Bounds DEF Close
    <3> QED BY <1>5, <3>1, <3>2
  <2> QED BY <1>3, <2>1
<1>6. Ok(T) = Ok(S) \cup (IF x.ok THEN {l + 1} ELSE {})
  <2>1. \A n \in 1 .. l + 1 : n \in 1 .. l \/ n = l + 1
    BY <1>1
  <2>2. \A n \in 1 .. l : n \in 1 .. l + 1
    BY <1>1
  <2>3. l + 1 \in 1 .. l + 1
    BY <1>1
  <2> QED BY <1>1, <1>2, <2>1, <2>2, <2>3 DEF Ok
<1>7. l + 1 \notin Ok(S)
  BY <1>1 DEF Ok
<1>8. x.ok => Cardinality(Ok(T)) = Cardinality(Ok(S)) + 1
  BY <1>6, <1>7, ShowsType, FS_AddElement
<1>9. ~x.ok => Ok(T) = Ok(S)
  BY <1>6
<1>10. Ok(S) \subseteq Ok(T) /\ (x.ok => l + 1 \in Ok(T))
  BY <1>6
<1> QED BY <1>1, <1>4, <1>5, <1>8, <1>9, <1>10 DEF T, l

\* A tick drops the oldest notifications and leaves the others as far apart as
\* they were.
LEMMA AgedAgrees ==
    ASSUME NEW i, NEW e \in Entry, NEW L \in Nat, NEW S \in Seq(Notification), Young(S)
    PROVE  LET T == AgedShows(S)  f == AgedEntry(e) IN
           /\ T \in Seq(Notification)
           /\ Young(T)
           /\ Fine(i, L, S) => Fine(i, L, T)
           /\ Agrees(i, e, L, S) => Agrees(i, f, L, T)
<1> DEFINE T == AgedShows(S)
           f == AgedEntry(e)
           l == Len(S)
<1>1. T \in Seq(Notification)
  BY AgedShowsAre
<1>2. PICK d \in 0 .. l : /\ Len(T) = l - d
                          /\ \A n \in 1 .. l - d : /\ T[n].age = S[n + d].age + 1
                                                   /\ T[n].late = S[n + d].late
                                                   /\ T[n].ok = S[n + d].ok
                                                   /\ Began(S[n + d]) + 1 < Retention
  BY AgedShowsAre
<1>3. /\ f \in Entry /\ (f = None <=> e = None)
      /\ e # None => /\ f.age = Older(e.age) /\ f.attempts = e.attempts
                     /\ f.delivered = e.delivered
  BY AgedEntryType
<1>4. /\ l \in Nat /\ d \in Nat /\ l - d \in Nat
      /\ DOMAIN S = 1 .. l /\ DOMAIN T = 1 .. l - d
      /\ \A n \in 1 .. l : /\ S[n].age \in Nat /\ S[n].late \in Nat
                         /\ Began(S[n]) \in Nat /\ Began(S[n]) < Retention
  BY <1>1, <1>2, ShowsType DEF Young
<1>5. ASSUME NEW n \in 1 .. l - d
      PROVE  /\ n + d \in 1 .. l /\ T[n].age = S[n + d].age + 1 /\ T[n].ok = S[n + d].ok
             /\ Began(T[n]) = Began(S[n + d]) + 1 /\ Began(T[n]) < Retention
             /\ Covers(e, S[n + d]) => Covers(f, T[n])
  <2>1. n + d \in 1 .. l
    BY <1>4
  <2>4. /\ T[n].age = S[n + d].age + 1 /\ T[n].late = S[n + d].late /\ T[n].ok = S[n + d].ok
        /\ Began(S[n + d]) + 1 < Retention
    BY <1>2
  <2>2. Began(T[n]) = Began(S[n + d]) + 1 /\ Began(T[n]) < Retention
    BY <1>4, <2>1, <2>4 DEF Began
  <2>3. ASSUME Covers(e, S[n + d])
        PROVE  Covers(f, T[n])
    <3>1. e # None /\ Began(S[n + d]) >= e.age /\ e.age \in Nat /\ Began(S[n + d]) \in Nat
      BY <1>4, <2>1, <2>3, EntryType DEF Covers
    <3>2. Older(e.age) <= e.age + 1
      BY <3>1, Bounds DEF Older
    <3>3. Older(e.age) \in Nat
      BY <3>1 DEF Older
    <3> QED BY <1>3, <2>2, <3>1, <3>2, <3>3 DEF Covers
  <2> QED BY <2>1, <2>2, <2>3, <2>4
<1> HIDE DEF T, f, l
<1>6. Young(T)
  BY <1>4, <1>5 DEF Young
<1>7. Cardinality(Close(T)) <= Cardinality(Close(S))
  <2> DEFINE g == [n \in Close(T) |-> n + d]
  <2>1. ASSUME NEW n \in Close(T)
        PROVE  n \in Nat /\ n + d \in Close(S)
    <3>1. n \in 1 .. (l - d) - 1 /\ Began(T[n]) < Interval + T[n + 1].age
      BY <1>2 DEF Close
    <3>2. n \in 1 .. l - d /\ n + 1 \in 1 .. l - d /\ n + d \in 1 .. l - 1
          /\ (n + 1) + d = (n + d) + 1
      <4>1. n \in Nat /\ n >= 1 /\ n <= (l - d) - 1
        BY <1>4, <3>1
      <4> QED BY <1>4, <4>1
    <3>3. Began(T[n]) = Began(S[n + d]) + 1 /\ T[n + 1].age = S[(n + d) + 1].age + 1
      BY <1>5, <3>2
    <3>4. Began(S[n + d]) \in Nat /\ S[(n + d) + 1].age \in Nat
      BY <1>4, <1>5, <3>2
    <3>6. Began(S[n + d]) < Interval + S[(n + d) + 1].age
      <4>1. \A a, b \in Nat : a + 1 < Interval + (b + 1) => a < Interval + b
        BY Bounds
      <4> QED BY <3>1, <3>3, <3>4, <4>1
    <3> QED BY <3>1, <3>2, <3>6 DEF Close, l
  <2>2. g \in Injection(Close(T), Close(S))
    BY <1>4, <2>1 DEF Injection, IsInjective
  <2> HIDE DEF g
  <2> QED BY <2>2, ShowsType, FS_Injection
<1>8. ASSUME NEW gone, gone \in SUBSET Ok(S), \A m \in gone : m <= d
      PROVE  Cardinality(Ok(T)) <= Cardinality(Ok(S) \ gone)
  <2> DEFINE g == [n \in Ok(T) |-> n + d]
  <2>1. ASSUME NEW n \in Ok(T)
        PROVE  n \in Nat /\ n + d \in Ok(S) \ gone
    <3>1. n \in 1 .. l - d /\ T[n].ok
      BY <1>4 DEF Ok
    <3>2. n + d \in 1 .. l /\ S[n + d].ok /\ ~(n + d <= d)
      BY <1>4, <1>5, <3>1
    <3> QED BY <1>4, <1>8, <3>1, <3>2 DEF Ok
  <2>2. g \in Injection(Ok(T), Ok(S) \ gone)
    BY <1>4, <2>1 DEF Injection, IsInjective
  <2>3. IsFiniteSet(Ok(S) \ gone)
    BY ShowsType, FS_Subset
  <2> HIDE DEF g
  <2> QED BY <2>2, <2>3, FS_Injection
<1>9. Cardinality(Ok(T)) <= Cardinality(Ok(S))
  <2>1. Ok(S) \ {} = Ok(S)
    OBVIOUS
  <2>2. Cardinality(Ok(T)) <= Cardinality(Ok(S) \ {})
    BY <1>8
  <2> QED BY <2>1, <2>2
<1>10. /\ Cardinality(Close(T)) \in Nat /\ Cardinality(Ok(T)) \in Nat
       /\ Cardinality(Close(S)) \in Nat /\ Cardinality(Ok(S)) \in Nat
  BY <1>1, ShowsType
<1>11. Fine(i, L, S) => Fine(i, L, T)
  BY <1>2, <1>4, <1>7, <1>9, <1>10, Bounds DEF Fine, l
<1>12. ASSUME Counted(e, L, S)
       PROVE  Counted(f, L, T)
  <2> SUFFICES ASSUME l - d > L
               PROVE  /\ f # None /\ l - d <= f.attempts + L
                      /\ \A n \in 1 .. (l - d) - L : Covers(f, T[n])
    BY <1>2 DEF Counted
  <2>1. e # None /\ l <= e.attempts + L /\ \A n \in 1 .. l - L : Covers(e, S[n])
    BY <1>4, <1>12 DEF Counted, l
  <2>2. \A n \in 1 .. (l - d) - L : n \in 1 .. l - d /\ n + d \in 1 .. l - L
    BY <1>4
  <2> QED BY <1>3, <1>4, <1>5, <2>1, <2>2, EntryType
<1>13. ASSUME Spaced(e, L, S)
       PROVE  Spaced(f, L, T)
  <2>1. Cardinality(Close(T)) <= L
    BY <1>7, <1>10, <1>13 DEF Spaced
  <2>2. ASSUME T # <<>>, ~Covers(f, T[l - d])
        PROVE  Cardinality(Close(T)) < L
    <3>1. l - d \in 1 .. l - d /\ (l - d) + d = l
      BY <1>1, <1>2, <1>4, <2>2, EmptySeq
    <3>2. ~Covers(e, S[l]) /\ l # 0
      BY <1>4, <1>5, <2>2, <3>1
    <3>3. S # <<>>
      BY <3>2, EmptySeq DEF l
    <3> QED BY <1>7, <1>10, <1>13, <3>2, <3>3 DEF Spaced, l
  <2> QED BY <1>2, <2>1, <2>2 DEF Spaced
<1>14. ASSUME Once(e, L, S)
       PROVE  Once(f, L, T)
  <2> SUFFICES ASSUME Cardinality(Ok(T)) > L
               PROVE  /\ f # None /\ f.delivered /\ Cardinality(Ok(T)) <= 1 + L
                      /\ \E n \in Ok(T) : Covers(f, T[n])
    BY DEF Once
  <2>1. Cardinality(Ok(S)) > L
    BY <1>9, <1>10
  <2>2. e # None /\ e.delivered /\ Cardinality(Ok(S)) <= 1 + L
    BY <1>14, <2>1 DEF Once
  <2>3. PICK m \in Ok(S) : Covers(e, S[m])
    BY <1>14, <2>1 DEF Once
  <2>4. m \in 1 .. l /\ S[m].ok
    BY <1>4 DEF Ok
  <2>5. ~(m <= d)
    <3> SUFFICES ASSUME m <= d PROVE FALSE
      OBVIOUS
    <3>1. Cardinality(Ok(T)) <= Cardinality(Ok(S) \ {m})
      BY <1>8
    <3>2. Cardinality(Ok(S) \ {m}) = Cardinality(Ok(S)) - 1
      BY ShowsType, FS_RemoveElement
    <3> QED BY <1>10, <2>2, <3>1, <3>2
  <2>6. m - d \in 1 .. l - d /\ (m - d) + d = m
    BY <1>4, <2>4, <2>5
  <2>7. Covers(f, T[m - d]) /\ T[m - d].ok
    BY <1>5, <2>3, <2>4, <2>6
  <2>8. m - d \in Ok(T)
    BY <1>4, <2>6, <2>7 DEF Ok
  <2>9. Cardinality(Ok(T)) <= 1 + L
    BY <1>9, <1>10, <2>2
  <2>10. f # None /\ f.delivered
    BY <1>3, <2>2
  <2> QED BY <2>7, <2>8, <2>9, <2>10
<1>15. Agrees(i, e, L, S) => Agrees(i, f, L, T)
  BY <1>12, <1>13, <1>14 DEF Agrees
<1> QED BY <1>1, <1>6, <1>11, <1>15 DEF T, f

\* A round shows an incident that is due, or does not, and marks its entry: the
\* entry knows of all that was shown up to now.
LEMMA MarkedAgrees ==
    ASSUME NEW i, NEW e \in Entry, NEW L \in Nat, NEW S \in Seq(Notification), Young(S), Agrees(i, e, L, S),
           NEW now \in Nat, \A n \in DOMAIN S : Began(S[n]) >= now,
           \/ e = None
           \/ /\ i \in Critical \/ ~e.delivered
              /\ e.attempts < MaxAttempts
              /\ e.age >= Interval + now,
           NEW ok \in BOOLEAN, NEW x \in Notification, x.age = 0, x.late = now, x.ok = ok,
           NEW f \in Delivery, f.age = now, f.delivered = ok,
           f.attempts = IF e = None THEN 1 ELSE e.attempts + 1,
           NEW T, T = Append(S, x) \/ T = S
    PROVE  Agrees(i, f, L, T)
<1> DEFINE l == Len(S)
<1>1. /\ l \in Nat /\ DOMAIN S = 1 .. l
      /\ \A n \in 1 .. l : Began(S[n]) \in Nat /\ Began(S[n]) < Retention /\ Began(S[n]) >= now
  BY ShowsType DEF Young
<1>2. /\ Cardinality(Close(S)) \in Nat /\ Cardinality(Close(S)) <= L
      /\ Cardinality(Ok(S)) \in Nat
  BY ShowsType DEF Agrees, Spaced
<1>3. f # None /\ f.attempts \in Nat /\ f.attempts >= 1 /\ Covers(f, x)
  BY Bounds, EntryType DEF Covers, Began
<1>4. \A n \in 1 .. l : Covers(f, S[n])
  BY <1>1, <1>3 DEF Covers
<1>5. /\ T \in Seq(Notification) /\ Len(T) \in {l, l + 1}
      /\ \A n \in 1 .. Len(T) : Covers(f, T[n])
  <2>1. CASE T = S
    BY <1>4, <2>1
  <2>2. CASE T = Append(S, x)
    <3>1. /\ T \in Seq(Notification) /\ Len(T) = l + 1 /\ T[l + 1] = x
          /\ \A n \in 1 .. l : T[n] = S[n]
      BY <2>2, ShownOnce
    <3>2. \A n \in 1 .. l + 1 : n \in 1 .. l \/ n = l + 1
      BY <1>1
    <3> QED BY <1>3, <1>4, <3>1, <3>2
  <2> QED BY <2>1, <2>2
<1>6. Counted(f, L, T)
  <2> SUFFICES ASSUME Len(T) > L
               PROVE  Len(T) <= f.attempts + L /\ \A n \in 1 .. Len(T) - L : n \in 1 .. Len(T)
    BY <1>3, <1>5 DEF Counted
  <2>1. \A n \in 1 .. Len(T) - L : n \in 1 .. Len(T)
    BY <1>1, <1>5
  <2>2. CASE l > L
    <3>1. e # None /\ l <= e.attempts + L
      BY <2>2 DEF Agrees, Counted
    <3> QED BY <1>1, <1>5, <2>1, <3>1, EntryType
  <2>3. CASE ~(l > L)
    BY <1>1, <1>3, <1>5, <2>1, <2>3
  <2> QED BY <2>2, <2>3
<1>7. Cardinality(Close(T)) <= L
  <2>1. CASE T = S
    BY <1>2, <2>1
  <2>2. CASE T = Append(S, x) /\ (l = 0 \/ Began(S[l]) >= Interval + x.age)
    BY <1>2, <2>2, ShownOnce
  <2>3. CASE T = Append(S, x) /\ ~(l = 0 \/ Began(S[l]) >= Interval + x.age)
    <3>1. l \in 1 .. l /\ S # <<>>
      BY <1>1, <2>3, EmptySeq
    <3>2. ~Covers(e, S[l])
      <4> SUFFICES ASSUME Covers(e, S[l]) PROVE FALSE
        OBVIOUS
      <4>1. e # None /\ Began(S[l]) >= e.age /\ e.age \in Nat
        BY EntryType DEF Covers
      <4>2. Began(S[l]) \in Nat
        BY <1>1, <3>1
      <4>3. e.age >= Interval + now
        BY <4>1
      <4> QED BY <2>3, <4>1, <4>2, <4>3, Bounds
    <3>3. Cardinality(Close(S)) < L
      BY <3>1, <3>2 DEF Agrees, Spaced
    <3>4. Cardinality(Close(T)) <= Cardinality(Close(S)) + 1
      BY <2>3, ShownOnce
    <3> QED BY <1>2, <1>5, <3>3, <3>4, ShowsType
  <2> QED BY <2>1, <2>2, <2>3
<1>8. Spaced(f, L, T)
  <2>1. T # <<>> => Len(T) \in 1 .. Len(T)
    BY <1>5, ShowsType, EmptySeq
  <2> QED BY <1>5, <1>7, <2>1 DEF Spaced
<1>9. ASSUME i \notin Critical
      PROVE  Once(f, L, T)
  <2>1. Cardinality(Ok(S)) <= L
    BY <1>2, <1>9 DEF Agrees, Once
  <2>2. CASE T = S \/ ~ok
    <3>1. Ok(T) = Ok(S)
      <4>1. CASE T = S
        BY <4>1
      <4>2. CASE T = Append(S, x) /\ ~ok
        BY <4>2, ShownOnce
      <4> QED BY <2>2, <4>1, <4>2
    <3> QED BY <1>2, <2>1, <3>1 DEF Once
  <2>3. CASE T = Append(S, x) /\ ok
    <3>1. Cardinality(Ok(T)) = Cardinality(Ok(S)) + 1 /\ l + 1 \in Ok(T) /\ T[l + 1] = x
      BY <2>3, ShownOnce
    <3> QED BY <1>2, <1>3, <2>1, <2>3, <3>1 DEF Once
  <2> QED BY <2>2, <2>3
<1> QED BY <1>6, <1>8, <1>9 DEF Agrees

\* The saved entry knows nothing of the round that is not saved yet.
LEMMA UnsavedAgrees ==
    ASSUME NEW i, NEW e \in Entry, NEW L \in Nat, NEW S \in Seq(Notification), Agrees(i, e, L, S),
           NEW x \in Notification, NEW T, T = Append(S, x) \/ T = S, Fine(i, L, T)
    PROVE  Agrees(i, e, L + 1, T)
<1> DEFINE l == Len(S)
<1>1. CASE T = S
  BY <1>1, LosesMore
<1>2. CASE T = Append(S, x)
  <2>1. /\ l \in Nat /\ T \in Seq(Notification) /\ Len(T) = l + 1 /\ \A n \in 1 .. l : T[n] = S[n]
        /\ x.ok => Cardinality(Ok(T)) = Cardinality(Ok(S)) + 1
        /\ ~x.ok => Ok(T) = Ok(S)
        /\ Ok(S) \subseteq Ok(T)
    BY <1>2, ShownOnce, ShowsType
  <2>2. Counted(e, L + 1, T)
    <3> SUFFICES ASSUME l + 1 > L + 1
                 PROVE  /\ e # None /\ l + 1 <= e.attempts + (L + 1)
                        /\ \A n \in 1 .. (l + 1) - (L + 1) : Covers(e, T[n])
      BY <2>1 DEF Counted
    <3>1. e # None /\ l <= e.attempts + L /\ \A n \in 1 .. l - L : Covers(e, S[n])
      BY <2>1 DEF Agrees, Counted
    <3>2. \A n \in 1 .. (l + 1) - (L + 1) : n \in 1 .. l - L /\ n \in 1 .. l
      BY <2>1
    <3> QED BY <2>1, <3>1, <3>2, EntryType
  <2>3. Spaced(e, L + 1, T)
    BY <2>1, ShowsType DEF Fine, Spaced
  <2>4. ASSUME i \notin Critical
        PROVE  Once(e, L + 1, T)
    <3> SUFFICES ASSUME Cardinality(Ok(T)) > L + 1
                 PROVE  /\ e # None /\ e.delivered /\ Cardinality(Ok(T)) <= 1 + (L + 1)
                        /\ \E n \in Ok(T) : Covers(e, T[n])
      BY DEF Once
    <3>1. /\ Cardinality(Ok(T)) \in Nat /\ Cardinality(Ok(S)) \in Nat
          /\ Cardinality(Ok(T)) <= Cardinality(Ok(S)) + 1
      BY <2>1, ShowsType
    <3>2. Cardinality(Ok(S)) > L
      BY <3>1
    <3>3. e # None /\ e.delivered /\ Cardinality(Ok(S)) <= 1 + L
      BY <2>4, <3>2 DEF Agrees, Once
    <3>4. PICK n \in Ok(S) : Covers(e, S[n])
      BY <2>4, <3>2 DEF Agrees, Once
    <3>5. n \in 1 .. l
      BY ShowsType DEF Ok
    <3> QED BY <2>1, <3>1, <3>3, <3>4, <3>5
  <2> QED BY <2>2, <2>3, <2>4 DEF Agrees
<1> QED BY <1>1, <1>2

-----------------------------------------------------------------------------
\* The loop.

\* The history holds what began less than Retention ago, and in a round that has
\* shown nothing yet only what began before it.
ShownInv ==
    /\ \A i \in Ids : Young(shown[i])
    /\ pc \in {"asking", "delivering"} =>
         \A i \in Ids : \A n \in DOMAIN shown[i] : Began(shown[i][n]) >= since
    /\ \A i \in Ids : status[i] = "absent" => shown[i] = <<>> /\ i \notin batch

\* An incident that is not shown any more, so that its entry may go.
Over(i) == status[i] = "settled" /\ ~(pc = "delivering" /\ i \in batch)

\* The file lacks the round that is about to be saved.
FileLost == IF pc = "saving" THEN lost + 1 ELSE lost

\* The memory, and the file from which it is restored, account for all
\* notifications of an incident but those of the lost rounds.
LoopInv ==
    \A i \in Ids \ forgotten :
        /\ Fine(i, lost, shown[i])
        /\ ~Over(i) => /\ Agrees(i, memory[i], lost, shown[i])
                       /\ Agrees(i, file[i], FileLost, shown[i])

LEMMA StateType ==
    ASSUME TypeOK
    PROVE  /\ \A i \in Ids : /\ memory[i] \in Entry /\ file[i] \in Entry
                             /\ shown[i] \in Seq(Notification)
           /\ lost \in Nat /\ FileLost \in Nat /\ since \in Nat /\ since < Retention
<1>1. \A i \in Ids : memory[i] \in Entry /\ file[i] \in Entry
  BY DEF TypeOK, Deliveries, Entry
<1>2. \A i \in Ids : shown[i] \in Seq(Notification)
  BY DEF TypeOK
<1>3. lost \in Nat /\ since \in Nat /\ since < Retention
  BY Bounds DEF TypeOK
<1>4. FileLost \in Nat
  BY <1>3 DEF FileLost
<1> QED BY <1>1, <1>2, <1>3, <1>4

LEMMA ShownTick == ASSUME TypeOK, BatchInv, ShownInv, Tick PROVE ShownInv'
<1>1. \A i \in Ids : shown'[i] = AgedShows(shown[i])
  BY DEF Tick
<1>2. \A i \in Ids : shown[i] \in Seq(Notification) /\ Young(shown[i]) /\ since \in Nat
  BY StateType DEF ShownInv
<1>3. \A i \in Ids : Young(AgedShows(shown[i]))
  <2>1. None \in Entry /\ 0 \in Nat
    BY DEF Entry
  <2> QED BY <1>2, <2>1, AgedAgrees
<1>4. ASSUME pc \in {"asking", "delivering"}, NEW i \in Ids, NEW n \in DOMAIN AgedShows(shown[i])
      PROVE  Began(AgedShows(shown[i])[n]) >= since'
  <2> DEFINE S == shown[i]
             T == AgedShows(S)
  <2>1. S \in Seq(Notification) /\ \A m \in DOMAIN S : Began(S[m]) >= since
    BY <1>2, <1>4 DEF ShownInv
  <2>2. since' = 0 \/ since' = since + 1
    BY DEF Tick
  <2>3. since \in Nat
    BY StateType
  <2>4. n \in DOMAIN T
    BY <1>4
  <2> HIDE DEF S, T
  <2>5. T \in Seq(Notification)
    BY <2>1, AgedShowsAre DEF T
  <2>6. PICK d \in 0 .. Len(S) :
          /\ Len(T) = Len(S) - d
          /\ \A m \in 1 .. Len(S) - d : T[m].age = S[m + d].age + 1 /\ T[m].late = S[m + d].late
    BY <2>1, AgedShowsAre DEF T
  <2>7. Len(S) \in Nat /\ DOMAIN S = 1 .. Len(S) /\ n \in 1 .. Len(S) - d
    BY <2>1, <2>4, <2>5, <2>6, ShowsType
  <2>8. n + d \in 1 .. Len(S)
    BY <2>7
  <2>9. S[n + d].age \in Nat /\ S[n + d].late \in Nat /\ Began(S[n + d]) >= since
    BY <2>1, <2>7, <2>8, ShowsType
  <2>10. Began(T[n]) = Began(S[n + d]) + 1
    <3>1. T[n].age = S[n + d].age + 1 /\ T[n].late = S[n + d].late
      BY <2>6, <2>7
    <3> QED BY <2>9, <3>1 DEF Began
  <2>11. Began(S[n + d]) \in Nat
    BY <2>1, <2>7, <2>8, ShowsType
  <2> QED BY <2>2, <2>3, <2>9, <2>10, <2>11 DEF S, T
<1>5. ASSUME NEW i \in Ids, status[i] = "absent"
      PROVE  AgedShows(shown[i]) = <<>>
  <2>1. shown[i] = <<>> /\ <<>> \in Seq(Notification) /\ Len(<<>>) = 0
    BY <1>5, EmptySeq DEF ShownInv
  <2> DEFINE S == shown[i]
             T == AgedShows(S)
  <2>2. S \in Seq(Notification) /\ Len(S) = 0
    BY <2>1
  <2> HIDE DEF S, T
  <2>3. T \in Seq(Notification) /\ Len(T) = 0
    <3>1. T \in Seq(Notification) /\ \E d \in 0 .. Len(S) : Len(T) = Len(S) - d
      BY <2>2, AgedShowsAre DEF T
    <3>2. PICK d \in 0 .. 0 : Len(T) = 0 - d
      BY <2>2, <3>1
    <3> QED BY <3>1, <3>2
  <2>4. T = <<>>
    BY <2>3, EmptySeq
  <2> QED BY <2>4 DEF S, T
<1>6. UNCHANGED <<status, pc, batch>>
  BY DEF Tick
<1> QED BY <1>1, <1>3, <1>4, <1>5, <1>6 DEF ShownInv

\* What delivering does with the notifications and the entry of an incident.
LEMMA DeliverIs ==
    ASSUME TypeOK, BatchInv, ShownInv, Deliver
    PROVE  \E ok \in BOOLEAN, x \in Notification :
             /\ x = [age |-> 0, late |-> since, ok |-> ok]
             /\ x.age = 0 /\ x.late = since /\ x.ok = ok
             /\ Marked(ok) \in Deliveries /\ memory' = Retained(Marked(ok))
             /\ \A i \in Ids \ forgotten' :
                  /\ memory'[i] \in {Marked(ok)[i], None}
                  /\ memory'[i] = None /\ i \in Fresh(Marked(ok)) => status[i] # "open"
                  /\ i \in batch => shown'[i] = Append(shown[i], x) \/ shown'[i] = shown[i]
                  /\ i \notin batch => shown'[i] = shown[i]
             /\ \A i \in forgotten' : shown'[i] = <<>>
<1>1. PICK ok \in BOOLEAN, text \in Displayed(batch) \cup {{}} :
         /\ memory' = Retained(Marked(ok))
         /\ forgotten' = forgotten \cup
               {i \in Fresh(Marked(ok)) : memory'[i] = None /\ status[i] = "open"}
         /\ shown' = [i \in Ids |->
                         IF i \in forgotten' THEN <<>>
                         ELSE IF i \in text THEN Append(shown[i], [age |-> 0, late |-> since, ok |-> ok])
                         ELSE shown[i]]
  BY DEF Deliver
<1>2. Marked(ok) \in Deliveries
  BY MarkedType DEF Deliver
<1>3. [age |-> 0, late |-> since, ok |-> ok] \in Notification
  BY Bounds DEF TypeOK, Notification, Age
<1>4. \A i \in Ids : memory'[i] \in {Marked(ok)[i], None}
  BY <1>1, <1>2, RetainedIs
<1>5. text \subseteq batch
  BY <1>1 DEF Displayed
<1>6. forgotten' \subseteq Ids
  BY <1>1 DEF TypeOK, Fresh, Entries
<1>7. ASSUME NEW i \in Ids \ forgotten', memory'[i] = None, i \in Fresh(Marked(ok))
      PROVE  status[i] # "open"
  BY <1>1, <1>7
<1>8. PICK x : x = [age |-> 0, late |-> since, ok |-> ok]
  OBVIOUS
<1>9. x \in Notification /\ x.age = 0 /\ x.late = since /\ x.ok = ok
  BY <1>3, <1>8
<1>10. ASSUME NEW i \in Ids \ forgotten'
       PROVE  /\ i \in batch => shown'[i] = Append(shown[i], x) \/ shown'[i] = shown[i]
              /\ i \notin batch => shown'[i] = shown[i]
  BY <1>1, <1>5, <1>8
<1>11. \A i \in forgotten' : shown'[i] = <<>>
  BY <1>1, <1>6
<1>12. memory' = Retained(Marked(ok))
  BY <1>1
<1>13. \A i \in Ids \ forgotten' :
          /\ memory'[i] \in {Marked(ok)[i], None}
          /\ memory'[i] = None /\ i \in Fresh(Marked(ok)) => status[i] # "open"
          /\ i \in batch => shown'[i] = Append(shown[i], x) \/ shown'[i] = shown[i]
          /\ i \notin batch => shown'[i] = shown[i]
  BY <1>4, <1>7, <1>10
<1> QED BY <1>2, <1>8, <1>9, <1>11, <1>12, <1>13

LEMMA ShownDeliver == ASSUME TypeOK, TypeOK', BatchInv, ShownInv, Deliver PROVE ShownInv'
<1>1. PICK ok \in BOOLEAN, x \in Notification :
             /\ x.age = 0 /\ x.late = since
             /\ \A i \in Ids \ forgotten' :
                  /\ i \in batch => shown'[i] = Append(shown[i], x) \/ shown'[i] = shown[i]
                  /\ i \notin batch => shown'[i] = shown[i]
             /\ \A i \in forgotten' : shown'[i] = <<>>
  BY DeliverIs
<1>2. pc' = "saving" /\ UNCHANGED <<status, batch>>
  BY DEF Deliver
<1>3. ASSUME NEW i \in Ids
      PROVE  Young(shown'[i])
  <2>1. CASE shown'[i] = <<>>
    BY <2>1 DEF Young
  <2>2. CASE shown'[i] = shown[i]
    BY <2>2 DEF ShownInv
  <2>3. CASE shown'[i] = Append(shown[i], x)
    <3>1. shown[i] \in Seq(Notification) /\ Young(shown[i]) /\ since < Retention
      BY StateType DEF ShownInv
    <3>2. /\ shown'[i] \in Seq(Notification) /\ Len(shown'[i]) = Len(shown[i]) + 1
          /\ shown'[i][Len(shown[i]) + 1] = x
          /\ \A n \in 1 .. Len(shown[i]) : shown'[i][n] = shown[i][n]
      BY <2>3, <3>1, ShownOnce
    <3>3. /\ DOMAIN shown'[i] = 1 .. Len(shown[i]) + 1 /\ DOMAIN shown[i] = 1 .. Len(shown[i])
          /\ Len(shown[i]) \in Nat
      BY <3>1, <3>2, ShowsType
    <3>4. \A n \in 1 .. Len(shown[i]) + 1 : n \in 1 .. Len(shown[i]) \/ n = Len(shown[i]) + 1
      BY <3>3
    <3>5. Began(x) < Retention
      BY <1>1, <3>1, StateType DEF Began
    <3> QED BY <3>1, <3>2, <3>3, <3>4, <3>5 DEF Young
  <2> QED BY <1>1, <2>1, <2>2, <2>3
<1>4. ASSUME NEW i \in Ids, status[i] = "absent"
      PROVE  shown'[i] = <<>> /\ i \notin batch
  BY <1>1, <1>4 DEF ShownInv
<1> QED BY <1>2, <1>3, <1>4 DEF ShownInv

LEMMA TypeAndShown == Spec => [](TypeOK /\ BatchInv /\ ShownInv)
<1>1. Init => ShownInv
  <2> SUFFICES ASSUME Init PROVE ShownInv
    OBVIOUS
  <2>1. Young(<<>>)
    BY DEF Young
  <2> QED BY <2>1 DEF Init, ShownInv
<1>2. TypeOK /\ TypeOK' /\ BatchInv /\ ShownInv /\ [Next]_vars => ShownInv'
  <2> SUFFICES ASSUME TypeOK, TypeOK', BatchInv, ShownInv, [Next]_vars PROVE ShownInv'
    OBVIOUS
  <2>1. ASSUME NEW i \in Ids, Raise(i) \/ Settle(i)
        PROVE  ShownInv'
    BY <2>1 DEF Raise, Settle, Change, TypeOK, ShownInv
  <2>2. CASE Tick
    BY <2>2, ShownTick
  <2>3. CASE Ask
    <3>1. \A i \in Ids : \A n \in DOMAIN shown[i] : Began(shown[i][n]) >= 0
      BY StateType, ShowsType
    <3> QED BY <2>3, <3>1 DEF Ask, ShownInv
  <2>10. CASE Answer
    BY <2>10 DEF Answer, Pending, ShownInv
  <2>11. CASE NoAnswer
    BY <2>11 DEF NoAnswer, ShownInv
  <2>4. CASE Deliver
    BY <2>4, ShownDeliver
  <2>5. CASE Save
    BY <2>5 DEF Save, ShownInv
  <2>6. CASE SaveFails
    BY <2>6 DEF SaveFails, ShownInv
  <2>7. CASE Crash
    BY <2>7 DEF Crash, ShownInv
  <2>8. CASE Start
    BY <2>8 DEF Start, ShownInv
  <2>9. CASE UNCHANGED vars
    BY <2>9 DEF vars, ShownInv
  <2> QED BY <2>1, <2>2, <2>3, <2>4, <2>5, <2>6, <2>7, <2>8, <2>9, <2>10, <2>11 DEF Next
<1> QED BY <1>1, <1>2, TypeAndBatch, PTL DEF Spec

LEMMA LoopTick == ASSUME TypeOK, ShownInv, LoopInv, Tick PROVE LoopInv'
<1>1. UNCHANGED <<status, pc, batch, lost, forgotten>>
  BY DEF Tick
<1>2. ASSUME NEW i \in Ids
      PROVE  /\ shown'[i] = AgedShows(shown[i])
             /\ memory'[i] = AgedEntry(memory[i]) /\ file'[i] = AgedEntry(file[i])
  BY AgedType DEF Tick, TypeOK
<1>3. ASSUME NEW i \in Ids \ forgotten
      PROVE  /\ Fine(i, lost, shown'[i])
             /\ ~Over(i) => /\ Agrees(i, memory'[i], lost, shown'[i])
                            /\ Agrees(i, file'[i], FileLost, shown'[i])
  <2>1. /\ shown[i] \in Seq(Notification) /\ Young(shown[i]) /\ memory[i] \in Entry /\ file[i] \in Entry
        /\ lost \in Nat /\ FileLost \in Nat
    BY StateType DEF ShownInv
  <2>2. Fine(i, lost, shown[i]) => Fine(i, lost, AgedShows(shown[i]))
    BY <2>1, AgedAgrees
  <2>3. Agrees(i, memory[i], lost, shown[i])
          => Agrees(i, AgedEntry(memory[i]), lost, AgedShows(shown[i]))
    BY <2>1, AgedAgrees
  <2>4. Agrees(i, file[i], FileLost, shown[i])
          => Agrees(i, AgedEntry(file[i]), FileLost, AgedShows(shown[i]))
    BY <2>1, AgedAgrees
  <2> QED BY <1>2, <2>2, <2>3, <2>4 DEF LoopInv
<1> QED BY <1>1, <1>3 DEF LoopInv, Over, FileLost

\* The round is shown and marked. An entry that is dropped was too old to matter,
\* or its incident is forgotten or over.
LEMMA LoopDeliver ==
    ASSUME TypeOK, TypeOK', BatchInv, ShownInv, LoopInv, Deliver
    PROVE  LoopInv'
<1>1. PICK ok \in BOOLEAN, x \in Notification :
             /\ x.age = 0 /\ x.late = since /\ x.ok = ok
             /\ Marked(ok) \in Deliveries /\ memory' = Retained(Marked(ok))
             /\ \A i \in Ids \ forgotten' :
                  /\ memory'[i] \in {Marked(ok)[i], None}
                  /\ memory'[i] = None /\ i \in Fresh(Marked(ok)) => status[i] # "open"
                  /\ i \in batch => shown'[i] = Append(shown[i], x) \/ shown'[i] = shown[i]
                  /\ i \notin batch => shown'[i] = shown[i]
  BY DeliverIs
<1>2. /\ pc = "delivering" /\ pc' = "saving" /\ forgotten \subseteq forgotten'
      /\ UNCHANGED <<status, file, batch, since, lost>>
  BY DEF Deliver
<1>3. ASSUME NEW i \in Ids \ forgotten'
      PROVE  /\ Fine(i, lost, shown'[i])
             /\ ~(status[i] = "settled") =>
                  /\ Agrees(i, memory'[i], lost, shown'[i])
                  /\ Agrees(i, file[i], lost + 1, shown'[i])
  <2>1. /\ memory[i] \in Entry /\ file[i] \in Entry /\ lost \in Nat /\ since \in Nat
        /\ shown[i] \in Seq(Notification) /\ Young(shown[i])
        /\ \A n \in DOMAIN shown[i] : Began(shown[i][n]) >= since
        /\ status[i] \in {"absent", "open", "settled"}
    BY <1>2, StateType DEF ShownInv, TypeOK
  <2>2. /\ Fine(i, lost, shown[i])
        /\ ~Over(i) => /\ Agrees(i, memory[i], lost, shown[i])
                       /\ Agrees(i, file[i], lost, shown[i])
    BY <1>2 DEF LoopInv, FileLost
  <2>3. CASE i \in batch
    <3>1. Agrees(i, memory[i], lost, shown[i]) /\ Agrees(i, file[i], lost, shown[i])
      BY <1>2, <2>2, <2>3 DEF Over
    <3> DEFINE f == Marked(ok)[i]
               T == shown'[i]
    <3>2. /\ f \in Delivery /\ f.delivered = ok /\ f.age = since
          /\ f.attempts = IF memory[i] = None THEN 1 ELSE memory[i].attempts + 1
      BY <1>2, <2>3, MarkedType
    <3>3. /\ memory[i] = None
             \/ /\ i \in Critical \/ ~memory[i].delivered
                /\ memory[i].attempts < MaxAttempts
                /\ memory[i].age >= Interval + since
      BY <1>2, <2>3 DEF BatchInv, DueStill, Rested
    <3>4. T = Append(shown[i], x) \/ T = shown[i]
      BY <1>1, <2>3
    <3> HIDE DEF f, T
    <3>5. Agrees(i, f, lost, T)
      <4> DEFINE e == memory[i]
                 S == shown[i]
      <4>1. /\ e \in Entry /\ S \in Seq(Notification) /\ Young(S) /\ Agrees(i, e, lost, S)
            /\ lost \in Nat /\ since \in Nat
        BY <2>1, <3>1
      <4>2. \A n \in DOMAIN S : Began(S[n]) >= since
        BY <2>1
      <4>3. \/ e = None
            \/ /\ i \in Critical \/ ~e.delivered
               /\ e.attempts < MaxAttempts
               /\ e.age >= Interval + since
        BY <3>3
      <4>4. f.attempts = IF e = None THEN 1 ELSE e.attempts + 1
        BY <3>2
      <4>5. T = Append(S, x) \/ T = S
        BY <3>4
      <4>6. ok \in BOOLEAN /\ x \in Notification /\ x.age = 0 /\ x.late = since /\ x.ok = ok
        BY <1>1
      <4>7. f \in Delivery /\ f.age = since /\ f.delivered = ok
        BY <3>2
      <4> HIDE DEF e, S
      <4> QED BY <4>1, <4>2, <4>3, <4>4, <4>5, <4>6, <4>7, MarkedAgrees
    <3>6. f \in Entry /\ f # None /\ f.age < Retention /\ T \in Seq(Notification)
      <4>1. T \in Seq(Notification)
        <5>1. x \in Notification /\ shown[i] \in Seq(Notification)
          BY <1>1, <2>1
        <5>2. CASE T = Append(shown[i], x)
          BY <5>1, <5>2, AppendProperties
        <5>3. CASE T = shown[i]
          BY <5>1, <5>3
        <5> QED BY <3>4, <5>2, <5>3
      <4> QED BY <3>2, <4>1, Bounds, StateType DEF Entry
    <3>7. Fine(i, lost, T)
      BY <2>1, <3>5, <3>6, AgreesIsFine
    <3>8. Agrees(i, file[i], lost + 1, T)
      BY <1>1, <2>1, <3>1, <3>4, <3>7, UnsavedAgrees
    <3>9. ASSUME ~(status[i] = "settled")
          PROVE  memory'[i] = f
      <4>1. status[i] = "open"
        BY <2>1, <2>3, <3>9 DEF ShownInv
      <4>2. i \in Fresh(Marked(ok))
        <5>1. Marked(ok)[i] # None /\ Marked(ok)[i].age = since /\ i \in Ids
          BY <3>2, <3>6 DEF f
        <5>2. Marked(ok)[i].age < Retention + since
          BY <5>1, StateType, Bounds
        <5> QED BY <5>1, <5>2 DEF Fresh, Entries
      <4> QED BY <1>1, <4>1, <4>2 DEF f
    <3> QED BY <3>5, <3>7, <3>8, <3>9 DEF f, T
  <2>4. CASE i \notin batch
    <3>1. shown'[i] = shown[i] /\ Marked(ok)[i] = memory[i]
      BY <1>1, <1>2, <2>4, MarkedType
    <3>2. ASSUME ~(status[i] = "settled")
          PROVE  /\ Agrees(i, memory'[i], lost, shown[i])
                 /\ Agrees(i, file[i], lost + 1, shown[i])
      <4>1. Agrees(i, memory[i], lost, shown[i]) /\ Agrees(i, file[i], lost, shown[i])
        BY <2>2, <3>2 DEF Over
      <4>2. Agrees(i, file[i], lost + 1, shown[i])
        BY <2>1, <4>1, LosesMore
      <4>3. CASE memory'[i] = memory[i]
        BY <4>1, <4>2, <4>3
      <4>4. CASE memory'[i] # memory[i]
        <5>1. memory'[i] = None /\ memory[i] # None
          BY <1>1, <3>1, <4>4
        <5>2. CASE memory[i].age < Retention + since
          <6>2. i \in Fresh(Marked(ok))
            BY <3>1, <5>1, <5>2 DEF Fresh, Entries
          <6>1. status[i] = "absent"
            BY <1>1, <2>1, <3>2, <5>1, <6>2
          <6> QED BY <2>1, <4>2, <5>1, <6>1, NoneShown DEF ShownInv
        <5>3. CASE ~(memory[i].age < Retention + since)
          <6>1. memory[i].age >= Retention
            BY <2>1, <5>1, <5>3, EntryType, Bounds
          <6> QED BY <2>1, <4>1, <4>2, <5>1, <6>1, RetentionEnds
        <5> QED BY <5>2, <5>3
      <4> QED BY <4>3, <4>4
    <3> QED BY <2>2, <3>1, <3>2
  <2> QED BY <2>3, <2>4
<1> QED BY <1>2, <1>3 DEF LoopInv, Over, FileLost

\* Saving, losing and restoring the memory.
LEMMA LoopEnds ==
    ASSUME TypeOK, LoopInv, SaveFails \/ Crash
    PROVE  LoopInv'
<1>1. /\ UNCHANGED <<status, memory, file, forgotten, shown>> /\ pc' = "down"
      /\ lost' = FileLost
  BY DEF SaveFails, Crash, FileLost
<1>2. ASSUME NEW i \in Ids \ forgotten
      PROVE  /\ Fine(i, FileLost, shown[i])
             /\ ~Over(i) => /\ Agrees(i, memory[i], FileLost, shown[i])
                            /\ Agrees(i, file[i], FileLost, shown[i])
  <2>1. memory[i] \in Entry /\ shown[i] \in Seq(Notification) /\ lost \in Nat
    BY StateType
  <2> QED BY <2>1, LosesMore DEF LoopInv, FileLost
<1>3. FileLost' = FileLost
  BY <1>1 DEF FileLost
<1> QED BY <1>1, <1>2, <1>3 DEF LoopInv, Over

LEMMA LoopStep ==
    ASSUME TypeOK, TypeOK', BatchInv, ShownInv, LoopInv, [Next]_vars
    PROVE  LoopInv'
<1>1. ASSUME NEW j \in Ids, Raise(j) \/ Settle(j)
      PROVE  LoopInv'
  <2>1. UNCHANGED <<memory, file, pc, batch, lost, forgotten, shown>>
    BY <1>1 DEF Raise, Settle, Change
  <2>2. \A i \in Ids : Over(i) => Over(i)'
    BY <1>1, <2>1 DEF Raise, Settle, Change, Over, TypeOK
  <2> QED BY <2>1, <2>2 DEF LoopInv, FileLost
<1>2. CASE Tick
  BY <1>2, LoopTick
<1>3. CASE Ask \/ Answer \/ NoAnswer
  <2>1. UNCHANGED <<status, memory, file, lost, forgotten, shown>> /\ FileLost' = FileLost
    BY <1>3 DEF Ask, Answer, NoAnswer, FileLost
  <2>2. \A i \in Ids : Over(i) => Over(i)'
    BY <1>3 DEF Ask, Answer, NoAnswer, Pending, Over
  <2> QED BY <2>1, <2>2 DEF LoopInv
<1>4. CASE Deliver
  BY <1>4, LoopDeliver
<1>5. CASE Save
  <2>1. /\ pc = "saving" /\ pc' = "idle" /\ file' = memory
        /\ UNCHANGED <<status, memory, lost, forgotten, shown>>
    BY <1>5 DEF Save
  <2> QED BY <2>1 DEF LoopInv, FileLost, Over
<1>6. CASE SaveFails \/ Crash
  BY <1>6, LoopEnds
<1>7. CASE Start
  <2>1. /\ pc = "down" /\ pc' = "idle" /\ memory' = file
        /\ UNCHANGED <<status, file, lost, forgotten, shown>>
    BY <1>7 DEF Start
  <2> QED BY <2>1 DEF LoopInv, FileLost, Over
<1>8. CASE UNCHANGED vars
  BY <1>8 DEF vars, LoopInv, FileLost, Over
<1> QED BY <1>1, <1>2, <1>3, <1>4, <1>5, <1>6, <1>7, <1>8 DEF Next

LEMMA LoopIsAccounted == Spec => []LoopInv
<1>1. Init => LoopInv
  <2> SUFFICES ASSUME Init PROVE LoopInv
    OBVIOUS
  <2>1. \A i \in Ids : shown[i] = <<>> /\ lost = 0 /\ FileLost = 0
    BY DEF Init, FileLost
  <2>2. 0 \in Nat
    OBVIOUS
  <2> QED BY <2>1, <2>2, NoneShown DEF LoopInv
<1> QED BY <1>1, LoopStep, TypeAndShown, PTL DEF Spec

\* Whatever fails and however often the notifier is killed, an incident is shown
\* no more often than is allowed and once more for each lost round, unless its
\* entry was evicted while it was open (run, save).
THEOREM RepeatsStayBounded == Spec => []RepeatsAreBounded
<1>1. LoopInv => RepeatsAreBounded
  BY DEF LoopInv, Fine, RepeatsAreBounded
<1> QED BY <1>1, LoopIsAccounted, PTL

\* A notification that appeared sooner than the interval after the round of the
\* one before it began, of the same incident, is due to a round that was lost
\* (run, save).
THEOREM RepeatsStaySpaced == Spec => []RepeatsAreSpaced
<1>1. LoopInv => RepeatsAreSpaced
  BY DEF LoopInv, Fine, Close, RepeatsAreSpaced
<1> QED BY <1>1, LoopIsAccounted, PTL

\* A warning that the desktop took is not delivered again but for rounds that
\* were lost (run, save).
THEOREM WarningsStayDelivered == Spec => []WarningsAreDeliveredOnce
<1>1. LoopInv => WarningsAreDeliveredOnce
  BY DEF LoopInv, Fine, Ok, WarningsAreDeliveredOnce
<1> QED BY <1>1, LoopIsAccounted, PTL

=============================================================================
