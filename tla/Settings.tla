------------------------------ MODULE Settings ------------------------------
(***************************************************************************)
(* What users set and ask of the database through the daemon: the alert    *)
(* policy, dated prices, and the cost of energy (src/ipc.rs, SetPolicy,    *)
(* SetTariff and Energy, with src/history.rs). Every request runs in the   *)
(* thread of its connection with a database connection of its own, beside  *)
(* the storage thread.                                                     *)
(*                                                                         *)
(* SQLite in WAL mode is modelled from its use: one writer at a time;      *)
(* `version' counts the commits. A transaction that begins with a read     *)
(* (set_tariff) sees the state of that moment and can only turn into a     *)
(* writer if nobody else is one and nothing was committed since. One that  *)
(* begins as a writer (set_policy), and the single statement that open     *)
(* runs, wait for the other writer up to the busy timeout. A request that  *)
(* gets no lock is answered with an error.                                 *)
(***************************************************************************)
EXTENDS Pricing

CONSTANTS
    Clients,
    Valid, Invalid, \* policies that validate accepts, and others
    Default,        \* Policy::default()
    Storage,        \* the storage thread, as a writer of the database
    Times,          \* bound: minutes at which prices are set and queries begin
    Observed,       \* bound: the energy that each minute is recorded with
    Recorded,       \* the minutes recorded in the beginning
    MaxRequests,    \* bound: requests of all clients
    MaxCommits,     \* bound: commits after which the storage thread rests
    MaxRestarts     \* bound: restarts of the daemon

ASSUME SettingsAssumption ==
    /\ Default \in Valid
    /\ None \notin Clients \cup {Storage} /\ Storage \notin Clients
    /\ Times \subseteq Minutes /\ Recorded \subseteq Minutes /\ Observed \in [Minutes -> Energy]
    /\ {MaxRequests, MaxCommits, MaxRestarts} \subseteq Nat

VARIABLES
    tariffs,    \* table tariffs
    ledger,     \* table energy, of one device
    meta,       \* table meta, the row `policy'
    version,    \* commits to the database
    writer,     \* who holds the write lock
    snapshot,   \* policy and policy_revision of the shared Snapshot
    mutex,      \* who holds the Snapshot's lock across steps
    client,     \* per connection: where its request is
    asked,      \* requests so far
    restarts,
    accepted    \* history: the policies set

database == <<tariffs, ledger, meta, version>>
vars == <<database, writer, snapshot, mutex, client, asked, restarts, accepted>>

Versioned(policies) == [revision : Nat, policy : policies]
SetTariff == [method : {"SetTariff"}, at : Times, tariff : Tariff, replace : BOOLEAN]
SetPolicy == [method : {"SetPolicy"}, expected : 0 .. MaxRequests, policy : Valid \cup Invalid]
EnergyQuery == [method : {"Energy"}, from : Times]
Requests == SetTariff \cup SetPolicy \cup EnergyQuery
Queried(request) == {m \in Minutes : m >= request.from}

Steps == {"idle", "lock", "open", "read", "write", "begin", "commit", "publish", "sum"}
ClientState == [pc : Steps, request : Requests \cup {None}, seen : Nat, table : Tariffs]
Empty == [m \in Minutes |-> None]
Idle == [pc |-> "idle", request |-> None, seen |-> 0, table |-> Empty]

TypeOK ==
    /\ tariffs \in Tariffs
    /\ ledger \in Ledger
    /\ meta \in Versioned(Valid)
    /\ version \in Nat
    /\ writer \in Clients \cup {Storage, None}
    /\ snapshot \in Versioned(Valid)
    /\ mutex \in Clients \cup {None}
    /\ client \in [Clients -> ClientState]
    /\ asked \in 0 .. MaxRequests
    /\ restarts \in 0 .. MaxRestarts
    /\ accepted \in Seq(Valid)

Init ==
    /\ tariffs = Empty
    /\ ledger = [m \in Minutes |-> IF m \in Recorded THEN Observed[m] ELSE None]
    /\ meta = [revision |-> 0, policy |-> Default]
    /\ version = 0
    /\ writer = None
    /\ snapshot = meta
    /\ mutex = None
    /\ client = [c \in Clients |-> Idle]
    /\ asked = 0
    /\ restarts = 0
    /\ accepted = <<>>

-----------------------------------------------------------------------------
At(c, pc) == client[c].pc = pc
Request(c) == client[c].request
Goto(c, pc) == client' = [client EXCEPT ![c].pc = pc]

Release(holder, c) == IF holder = c THEN None ELSE holder

\* The request ends without effect, with an answer or an error: guards are
\* dropped and an open transaction is rolled back.
End(c) ==
    /\ client' = [client EXCEPT ![c] = Idle]
    /\ writer' = Release(writer, c)
    /\ mutex' = Release(mutex, c)
Leave(c) == End(c) /\ UNCHANGED <<database, snapshot, asked, restarts, accepted>>

FirstStep(method) ==
    CASE method = "SetPolicy" -> "lock" [] method = "SetTariff" -> "open" [] OTHER -> "read"

\* SetPolicy names a revision that a client can have read (Policy).
Ask(c) ==
    /\ At(c, "idle") /\ asked < MaxRequests
    /\ \E request \in {r \in Requests : r.method = "SetPolicy" => r.expected <= meta.revision} :
        client' = [client EXCEPT ![c] =
                      [Idle EXCEPT !.pc = FirstStep(request.method), !.request = request]]
    /\ asked' = asked + 1
    /\ UNCHANGED <<database, writer, snapshot, mutex, restarts, accepted>>

\* History::open ends with a statement that takes the write lock for a moment.
OpenDatabase(c) ==
    /\ At(c, "open")
    /\ \/ /\ writer = None
          /\ Goto(c, IF Request(c).method = "SetPolicy" THEN "begin" ELSE "read")
          /\ UNCHANGED <<database, writer, snapshot, mutex, asked, restarts, accepted>>
       \/ writer # None /\ Leave(c)

-----------------------------------------------------------------------------
\* SetPolicy: the whole of it under the lock of the snapshot.

LockSnapshotLater(c) ==
    /\ At(c, "lock")
    /\ Goto(c, "open")
    /\ UNCHANGED <<database, writer, snapshot, mutex, asked, restarts, accepted>>
LockSnapshot(c) ==
    /\ At(c, "lock") /\ mutex = None
    /\ mutex' = c
    /\ Goto(c, "open")
    /\ UNCHANGED <<database, writer, snapshot, asked, restarts, accepted>>

ValidatedByClient(policy) == TRUE
Validated(policy) == policy \in Valid

\* The transaction begins as a writer, or the writer there is stays too long.
BeginPolicyIfFree(c) ==
    /\ At(c, "begin")
    /\ LET request == Request(c) IN
       \/ ~Validated(request.policy) /\ Leave(c)
       \/ /\ Validated(request.policy) /\ writer = None
          /\ IF request.expected # meta.revision THEN Leave(c)
             ELSE /\ writer' = c
                  /\ Goto(c, "commit")
                  /\ UNCHANGED <<database, snapshot, mutex, asked, restarts, accepted>>
BeginPolicy(c) ==
    \/ BeginPolicyIfFree(c)
    \/ At(c, "begin") /\ writer # None /\ Leave(c)

CommitPolicy(c) ==
    /\ At(c, "commit") /\ Request(c).method = "SetPolicy"
    /\ meta' = [revision |-> Request(c).expected + 1, policy |-> Request(c).policy]
    /\ version' = version + 1
    /\ accepted' = Append(accepted, Request(c).policy)
    /\ writer' = None
    /\ Goto(c, "publish")
    /\ UNCHANGED <<tariffs, ledger, snapshot, mutex, asked, restarts>>

PublishPolicy(c) ==
    /\ At(c, "publish")
    /\ snapshot' = [revision |-> Request(c).expected + 1, policy |-> Request(c).policy]
    /\ End(c)
    /\ UNCHANGED <<database, asked, restarts, accepted>>

-----------------------------------------------------------------------------
\* SetTariff: checks in a transaction that reads, then the write.

\* The currency is that of the first row.
SameCurrency(tariff) ==
    Present(tariffs) = {} \/ tariffs[Min(Present(tariffs))].currency = tariff.currency
HasRoom(request) ==
    \/ Cardinality(Present(tariffs)) < MaxTariffs
    \/ request.replace /\ request.at \in Present(tariffs)

CheckTariff(c) ==
    /\ At(c, "read") /\ Request(c).method = "SetTariff"
    /\ IF HasRoom(Request(c)) /\ SameCurrency(Request(c).tariff)
       THEN /\ client' = [client EXCEPT ![c].pc = "write", ![c].seen = version]
            /\ UNCHANGED <<database, writer, snapshot, mutex, asked, restarts, accepted>>
       ELSE Leave(c)

\* The transaction may go on as a writer.
UpgradesLate(c) == writer = None
Upgrades(c) == writer = None /\ version = client[c].seen

WriteTariff(c) ==
    /\ At(c, "write")
    /\ LET request == Request(c) IN
       IF Upgrades(c) /\ (request.replace \/ request.at \notin Present(tariffs))
       THEN /\ writer' = c
            /\ Goto(c, "commit")
            /\ UNCHANGED <<database, snapshot, mutex, asked, restarts, accepted>>
       ELSE Leave(c)

CommitTariff(c) ==
    /\ At(c, "commit") /\ Request(c).method = "SetTariff"
    /\ tariffs' = [tariffs EXCEPT ![Request(c).at] = Request(c).tariff]
    /\ version' = version + 1
    /\ End(c)
    /\ UNCHANGED <<ledger, meta, snapshot, asked, restarts, accepted>>

\* The disk refuses the commit of either.
CommitFails(c) == At(c, "commit") /\ Leave(c)

-----------------------------------------------------------------------------
\* Energy: the prices and the energy are read one after the other.

ReadTariffs(c) ==
    /\ At(c, "read") /\ Request(c).method = "Energy"
    /\ IF Cardinality(Present(tariffs)) > MaxTariffs THEN Leave(c)
       ELSE /\ client' = [client EXCEPT ![c].pc = "sum", ![c].table = tariffs]
            /\ UNCHANGED <<database, writer, snapshot, mutex, asked, restarts, accepted>>

Answer(c) == Summary(Queried(Request(c)), ledger, Dated(client[c].table))
SumEnergy(c) == At(c, "sum") /\ Leave(c)

-----------------------------------------------------------------------------
\* The storage thread writes: the energy of a minute, or something else.
StorageBegins ==
    /\ writer = None /\ version < MaxCommits
    /\ writer' = Storage
    /\ UNCHANGED <<database, snapshot, mutex, client, asked, restarts, accepted>>

StorageCommits ==
    /\ writer = Storage
    /\ writer' = None
    /\ \/ \E m \in Minutes \ Present(ledger) : ledger' = [ledger EXCEPT ![m] = Observed[m]]
       \/ UNCHANGED ledger
    /\ version' = version + 1
    /\ UNCHANGED <<tariffs, meta, snapshot, mutex, client, asked, restarts, accepted>>

StorageFails ==
    /\ writer = Storage
    /\ writer' = None
    /\ UNCHANGED <<database, snapshot, mutex, client, asked, restarts, accepted>>

\* The daemon ends at any moment and starts again with the stored policy.
Restart ==
    /\ restarts < MaxRestarts
    /\ restarts' = restarts + 1
    /\ client' = [c \in Clients |-> Idle]
    /\ writer' = None /\ mutex' = None
    /\ snapshot' = meta
    /\ UNCHANGED <<database, asked, accepted>>

-----------------------------------------------------------------------------
Serve(c) ==
    \/ OpenDatabase(c)
    \/ LockSnapshot(c)
    \/ BeginPolicy(c)
    \/ CommitPolicy(c)
    \/ PublishPolicy(c)
    \/ CheckTariff(c)
    \/ WriteTariff(c)
    \/ CommitTariff(c)
    \/ CommitFails(c)
    \/ ReadTariffs(c)
    \/ SumEnergy(c)

Next ==
    \/ \E c \in Clients : Ask(c) \/ Serve(c)
    \/ StorageBegins
    \/ StorageCommits
    \/ StorageFails
    \/ Restart

Spec == Init /\ [][Next]_vars

\* The thread of a connection goes on while it can. Nothing is assumed about the
\* storage thread: its transaction may take for ever.
FairSpec == Spec /\ \A c \in Clients : WF_vars(Serve(c))

-----------------------------------------------------------------------------
\* Properties.

\* Requests that run at the same time, each of which found the table in order,
\* leave it in order: with one currency (README.md:56) and no more rates than
\* tariffs() will read again (set_tariff's checks and its write).
TariffsAreSound ==
    /\ Cardinality({tariffs[m].currency : m \in Present(tariffs)}) <= 1
    /\ Cardinality(Present(tariffs)) <= MaxTariffs

\* Whatever runs, fails and crashes at the same time, the policy is a register
\* with a revision: no update is lost, and the monitor never observes with a
\* version older than one that a later request was told of (SetPolicy).
Register == INSTANCE PolicyRegister
    WITH stored <- meta, inForce <- snapshot, accepted <- accepted,
         Valid <- Valid, Default <- Default
ImplementsRegister == Register!Spec

\* The cost of an answer is that of its energy at the prices in effect, rounded
\* once, and a bucket is called complete only when all observed time is priced,
\* although prices and energy change while they are read (summary).
SummaryIsRight ==
    \A c \in Clients : At(c, "sum") =>
        LET range == Queried(Request(c))
        IN  /\ PricedAtRateInEffect(range, ledger, client[c].table, Answer(c))
            /\ CompleteIsComplete(range, ledger, client[c].table, Answer(c))

\* The Snapshot's lock, for which the monitor waits, is not held for ever, even
\* if another connection keeps the database locked (SetPolicy).
SnapshotLockIsReleased ==
    \A c \in Clients : mutex = c ~> mutex # c

=============================================================================
