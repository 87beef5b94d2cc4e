------------------------------ MODULE Notifier ------------------------------
(***************************************************************************)
(* The desktop notifier's loop (src/notify.rs, NotifyCommand::Run). Every  *)
(* two seconds a round begins: it takes the time, asks the daemon for the  *)
(* open incidents, shows those that are due in one notification, marks     *)
(* them in its memory with the time it took, and saves that memory. It may *)
(* be killed at any moment, it ends when it cannot save, and the service   *)
(* manager starts it again from the last saved file.                       *)
(*                                                                         *)
(* Times are kept as ages, the ticks since a time, which stop when nothing *)
(* depends on them any more. A clock that steps forward is several ticks;  *)
(* one that steps backward is left out. Sound is left out too, but for a   *)
(* failing player, which makes a delivery fail that was shown.             *)
(***************************************************************************)
EXTENDS Naturals, Sequences, FiniteSets, FiniteSetsExt

CONSTANTS
    Ids,            \* incidents, each open once
    Critical,       \* those of severity "critical"
    None,           \* no entry
    MaxAttempts,    \* maximum
    Interval,       \* 30 s, in ticks
    Deadline,       \* 20 s, the longest round: ten seconds to be answered, five
                    \* for notify-send and five for the player
    Retention,      \* 30 days, in ticks
    Capacity,       \* 4096 deliveries
    Lines,          \* 4 messages in one notification
    MaxEnds         \* bound: times the process is killed, or cannot save and ends

ASSUME NotifierAssumption ==
    /\ IsFiniteSet(Ids)
    /\ None \notin [delivered : BOOLEAN, attempts : Nat, age : Nat]
    /\ Critical \subseteq Ids
    /\ {MaxAttempts, Interval, Capacity, Lines} \subseteq Nat \ {0}
    /\ Deadline \in Nat /\ Retention \in Nat
    /\ Interval < Retention /\ Deadline < Retention
    /\ MaxEnds \in Nat

VARIABLES
    status,     \* the incident, as the daemon's snapshot shows it
    memory,     \* state.deliveries
    file,       \* notifications.json
    pc,         \* where the loop is
    batch,      \* pending: the incidents being delivered
    since,      \* the age of `now', the time at which the round began
    ends,       \* times the process was killed or could not save
    lost,       \* history: rounds that were delivered and not saved
    forgotten,  \* history: open incidents whose entry gave way to newer ones
    shown       \* history: the notifications of each incident not forgotten, of
                \* the rounds that began less than Retention ago: how long ago
                \* it appeared, how late in its round, and whether it succeeded

vars == <<status, memory, file, pc, batch, since, ends, lost, forgotten, shown>>

Age == 0 .. Retention + Deadline
Delivery == [delivered : BOOLEAN, attempts : 0 .. MaxAttempts, age : Age]
Deliveries == [Ids -> Delivery \cup {None}]
Entries(state) == {i \in Ids : state[i] # None}
Notification == [age : Age, late : 0 .. Deadline, ok : BOOLEAN]

\* The age of the round of a notification.
Began(x) == x.age + x.late

TypeOK ==
    /\ status \in [Ids -> {"absent", "open", "settled"}]
    /\ memory \in Deliveries /\ Cardinality(Entries(memory)) <= Capacity
    /\ file \in Deliveries /\ Cardinality(Entries(file)) <= Capacity
    /\ pc \in {"idle", "asking", "delivering", "saving", "down"}
    /\ batch \subseteq Ids
    /\ since \in 0 .. Deadline
    /\ ends \in Nat /\ lost \in Nat
    /\ forgotten \subseteq Ids
    /\ shown \in [Ids -> Seq(Notification)]

Init ==
    /\ status = [i \in Ids |-> "absent"]
    /\ memory = [i \in Ids |-> None]
    /\ file = memory
    /\ pc = "idle"
    /\ batch = {}
    /\ since = 0
    /\ ends = 0
    /\ lost = 0
    /\ forgotten = {}
    /\ shown = [i \in Ids |-> <<>>]

-----------------------------------------------------------------------------
\* The daemon's snapshot and time.

Change(i, from, to) ==
    /\ status[i] = from
    /\ status' = [status EXCEPT ![i] = to]
    /\ UNCHANGED <<memory, file, pc, batch, since, ends, lost, forgotten, shown>>

Raise(i) == Change(i, "absent", "open")
\* Acknowledged or gone: the loop skips it either way.
Settle(i) == Change(i, "open", "settled")

Older(age) == IF age < Retention + Deadline THEN age + 1 ELSE age
Aged(state) ==
    [i \in Ids |-> IF state[i] = None THEN None ELSE [state[i] EXCEPT !.age = Older(@)]]
AgedShows(s) ==
    LET first == Min({n \in 1 .. Len(s) + 1 :
                        \A m \in n .. Len(s) : Began(s[m]) + 1 < Retention})
    IN  [n \in 1 .. Len(s) + 1 - first |-> [s[n + first - 1] EXCEPT !.age = Older(@)]]

InRound == pc \in {"asking", "delivering", "saving"}

Tick ==
    /\ InRound => since < Deadline
    /\ memory' = Aged(memory)
    /\ file' = Aged(file)
    /\ since' = IF InRound THEN since + 1 ELSE 0
    /\ shown' = [i \in Ids |-> AgedShows(shown[i])]
    /\ UNCHANGED <<status, pc, batch, ends, lost, forgotten>>

-----------------------------------------------------------------------------
\* The loop.

\* The entry was marked in a round that began long enough before this one.
Rested(i) == memory[i].age >= Interval + since

\* An incident without an entry gets one that is due.
DueWhenDelivered(i) ==
    \/ memory[i] = None
    \/ memory[i].attempts < MaxAttempts /\ Rested(i)
DueWithoutLimit(i) ==
    \/ memory[i] = None
    \/ (i \in Critical \/ ~memory[i].delivered) /\ Rested(i)
DueAtOnce(i) ==
    \/ memory[i] = None
    \/ (i \in Critical \/ ~memory[i].delivered) /\ memory[i].attempts < MaxAttempts
DueOnce(i) == memory[i] = None
Due(i) ==
    \/ memory[i] = None
    \/ /\ i \in Critical \/ ~memory[i].delivered
       /\ memory[i].attempts < MaxAttempts
       /\ Rested(i)

Pending == {i \in Ids : status[i] = "open" /\ Due(i)}

\* The round begins: it takes the time before it asks.
Ask ==
    /\ pc = "idle"
    /\ pc' = "asking"
    /\ since' = 0
    /\ UNCHANGED <<status, memory, file, batch, ends, lost, forgotten, shown>>

Answer ==
    /\ pc = "asking"
    /\ batch' = Pending
    /\ pc' = IF Pending = {} THEN "idle" ELSE "delivering"
    /\ since' = IF Pending = {} THEN 0 ELSE since
    /\ UNCHANGED <<status, memory, file, ends, lost, forgotten, shown>>

\* The daemon is not there, or too slow.
NoAnswer ==
    /\ pc = "asking"
    /\ pc' = "idle"
    /\ since' = 0
    /\ UNCHANGED <<status, memory, file, batch, ends, lost, forgotten, shown>>

\* Every incident of the batch counts the attempt, shown or not.
Marked(ok) ==
    [i \in Ids |->
        IF i \notin batch THEN memory[i]
        ELSE [delivered |-> ok, age |-> since,
              attempts |-> IF memory[i] = None THEN 1 ELSE memory[i].attempts + 1]]

\* Entries that were too old when the round began go, then the oldest of those
\* that are too many.
Fresh(state) == {i \in Entries(state) : state[i].age < Retention + since}
RetainedAll(state) == [i \in Ids |-> IF i \in Fresh(state) THEN state[i] ELSE None]
Retained(state) ==
    LET kept == Fresh(state)
        excess == IF Cardinality(kept) > Capacity THEN Cardinality(kept) - Capacity ELSE 0
        evicted == CHOOSE e \in SUBSET kept :
                      /\ Cardinality(e) = excess
                      /\ \A i \in e, j \in kept \ e : state[i].age >= state[j].age
    IN  [i \in Ids |-> IF i \in kept \ evicted THEN state[i] ELSE None]

\* The notification has room for the first Lines messages, in the order of the
\* snapshot.
Displayed(b) ==
    {s \in SUBSET b :
        Cardinality(s) = IF Cardinality(b) < Lines THEN Cardinality(b) ELSE Lines}

\* The notification appears, or does not. deliver may fail before that, after it,
\* or not at all: its outcome, which is known when its programs have ended, is
\* chosen here, and the memory, which nobody reads before, is marked with it.
Deliver ==
    /\ pc = "delivering"
    /\ \E ok \in BOOLEAN, text \in Displayed(batch) \cup {{}} :
        /\ ok => text # {}
        /\ memory' = Retained(Marked(ok))
        /\ forgotten' = forgotten \cup
              {i \in Fresh(Marked(ok)) : memory'[i] = None /\ status[i] = "open"}
        /\ shown' = [i \in Ids |->
                        IF i \in forgotten' THEN <<>>
                        ELSE IF i \in text THEN Append(shown[i], [age |-> 0, late |-> since, ok |-> ok])
                        ELSE shown[i]]
    /\ pc' = "saving"
    /\ UNCHANGED <<status, file, batch, since, ends, lost>>

Save ==
    /\ pc = "saving"
    /\ file' = memory
    /\ batch' = {} /\ since' = 0
    /\ pc' = "idle"
    /\ UNCHANGED <<status, memory, ends, lost, forgotten, shown>>

\* The loop ends with the error; a temporary file keeps the saved one whole.
SaveFails ==
    /\ pc = "saving" /\ ends < MaxEnds
    /\ pc' = "down"
    /\ batch' = {} /\ since' = 0
    /\ ends' = ends + 1
    /\ lost' = lost + 1
    /\ UNCHANGED <<status, memory, file, forgotten, shown>>

Crash ==
    /\ pc # "down" /\ ends < MaxEnds
    /\ pc' = "down"
    /\ batch' = {} /\ since' = 0
    /\ ends' = ends + 1
    /\ lost' = IF pc = "saving" THEN lost + 1 ELSE lost
    /\ UNCHANGED <<status, memory, file, forgotten, shown>>

Start ==
    /\ pc = "down"
    /\ memory' = file
    /\ pc' = "idle"
    /\ UNCHANGED <<status, file, batch, since, ends, lost, forgotten, shown>>

-----------------------------------------------------------------------------
Next ==
    \/ \E i \in Ids : Raise(i) \/ Settle(i)
    \/ Tick \/ Ask \/ Answer \/ NoAnswer \/ Deliver \/ Save \/ SaveFails \/ Crash \/ Start

Spec == Init /\ [][Next]_vars

\* Time passes, the loop goes on, the daemon answers now and then if it is asked
\* again and again, and the service manager restarts the notifier. Nothing is
\* assumed about the outcome of a delivery.
FairSpec ==
    /\ Spec
    /\ WF_vars(Tick)
    /\ WF_vars(Ask) /\ SF_vars(Answer) /\ WF_vars(Deliver) /\ WF_vars(Save) /\ WF_vars(Start)

-----------------------------------------------------------------------------
\* Properties.

\* An open incident is shown at most three times in the time its entry is
\* kept, and once more for each round that ended before it was saved
\* (README.md:78). An open incident whose entry is evicted for newer ones is the
\* other exception.
RepeatsAreBounded ==
    \A i \in Ids \ forgotten : Len(shown[i]) <= MaxAttempts + lost

\* A notification of an incident appears no sooner than 30 seconds after the
\* round of the one before began, with the same exceptions. This is less than
\* "at least 30 seconds apart" (README.md:78): the loop takes the time before it
\* asks the daemon and starts notify-send, so that two notifications can be
\* closer by as much as the first one was late.
RepeatsAreSpaced ==
    \A i \in Ids \ forgotten :
        Cardinality({n \in 1 .. Len(shown[i]) - 1 :
                        Began(shown[i][n]) < Interval + shown[i][n + 1].age}) <= lost

\* What README.md:78 says, "at least 30 seconds apart". It does not hold of the
\* code, since the time that a delivery is marked with (notify.rs:117) is older
\* than the display: no run has it, and TLC finds it violated in the instance of
\* MCNotifier.cfg without any round lost.
RepeatsAreApart ==
    \A i \in Ids \ forgotten :
        Cardinality({n \in 1 .. Len(shown[i]) - 1 :
                        shown[i][n].age < Interval + shown[i][n + 1].age}) <= lost

\* A warning that was delivered is not delivered again, with the same
\* exceptions.
WarningsAreDeliveredOnce ==
    \A i \in Ids \ (Critical \cup forgotten) :
        Cardinality({n \in DOMAIN shown[i] : shown[i][n].ok}) <= 1 + lost

\* An incident marked delivered was shown: incidents observed together share
\* one notification (installation.md:60).
DeliveredWasShown ==
    \A i \in Ids :
        memory[i] # None /\ memory[i].delivered /\ memory[i].age < Retention =>
            \E n \in DOMAIN shown[i] : Began(shown[i][n]) = memory[i].age

\* No open incident goes unnoticed while attempts are left: failed deliveries
\* are tried again, by the process started next if need be, unless the memory is
\* full of newer ones.
OpenIsShownOrExhausted ==
    \A i \in Ids :
        status[i] = "open" ~>
            \/ status[i] # "open"
            \/ i \in forgotten
            \/ shown[i] # <<>>
            \/ memory[i] # None /\ (memory[i].delivered \/ memory[i].attempts = MaxAttempts)

=============================================================================
