--------------------------- MODULE SettingsProofs ---------------------------
(***************************************************************************)
(* Proofs about Settings, for any number of connections, any policies,     *)
(* prices and minutes: its types, that its policy is the register of       *)
(* PolicyRegister, that concurrent requests leave the prices in order, and *)
(* that the summary of energy prices each minute at the rate in effect.    *)
(***************************************************************************)
EXTENDS Settings, FiniteLemmas

-----------------------------------------------------------------------------
\* Types. A step that follows from a request knows what it asked for.

Fits(s) ==
    /\ s.pc \in {"lock", "begin", "publish"} => s.request \in SetPolicy
    /\ s.pc = "open" => s.request \in SetPolicy \cup SetTariff
    /\ s.pc = "read" => s.request \in SetTariff \cup EnergyQuery
    /\ s.pc = "write" => s.request \in SetTariff
    /\ s.pc = "commit" => s.request \in SetPolicy \cup SetTariff
    /\ s.pc \in {"commit", "publish"} /\ s.request \in SetPolicy => s.request.policy \in Valid
    /\ s.pc = "sum" => s.request \in EnergyQuery

Typed == TypeOK /\ \A c \in Clients : Fits(client[c])

\* The methods tell the requests apart.
LEMMA RequestsDiffer ==
    ASSUME NEW r \in Requests
    PROVE  /\ r \in SetTariff <=> r.method = "SetTariff"
           /\ r \in SetPolicy <=> r.method = "SetPolicy"
           /\ r \in EnergyQuery <=> r.method = "Energy"
  BY DEF Requests, SetTariff, SetPolicy, EnergyQuery

\* An empty table, and a connection without a request, are well formed.
LEMMA IdleType == Empty \in Tariffs /\ Idle \in ClientState /\ Fits(Idle)
  BY DEF Empty, Tariffs, Idle, ClientState, Steps, Fits

\* One connection moves on to a state that is well formed.
LEMMA ClientMoves ==
    ASSUME Typed, NEW c \in Clients, NEW s \in ClientState, Fits(s),
           client' = [client EXCEPT ![c] = s]
    PROVE  client' \in [Clients -> ClientState] /\ \A d \in Clients : Fits(client'[d])
  BY DEF Typed, TypeOK

\* The step Goto, for a place where the request is one that fits.
LEMMA GotoType ==
    ASSUME Typed, NEW c \in Clients, NEW pc \in Steps, Goto(c, pc),
           Fits([client[c] EXCEPT !.pc = pc])
    PROVE  client' \in [Clients -> ClientState] /\ \A d \in Clients : Fits(client'[d])
<1>1. [client[c] EXCEPT !.pc = pc] \in ClientState
  BY DEF Typed, TypeOK, ClientState
<1>2. client' = [client EXCEPT ![c] = [client[c] EXCEPT !.pc = pc]]
  BY DEF Goto
<1> QED BY <1>1, <1>2, ClientMoves

\* Ending a request keeps the types.
LEMMA EndType ==
    ASSUME Typed, NEW c \in Clients, End(c)
    PROVE  /\ client' \in [Clients -> ClientState] /\ \A d \in Clients : Fits(client'[d])
           /\ writer' \in Clients \cup {Storage, None}
           /\ mutex' \in Clients \cup {None}
<1>1. client' = [client EXCEPT ![c] = Idle]
  BY DEF End
<1>2. client' \in [Clients -> ClientState] /\ \A d \in Clients : Fits(client'[d])
  BY <1>1, IdleType, ClientMoves
<1> QED BY <1>2 DEF End, Release, Typed, TypeOK

LEMMA LeaveType ==
    ASSUME Typed, NEW c \in Clients, Leave(c)
    PROVE  Typed'
<1>1. /\ client' \in [Clients -> ClientState] /\ \A d \in Clients : Fits(client'[d])
      /\ writer' \in Clients \cup {Storage, None} /\ mutex' \in Clients \cup {None}
  BY EndType DEF Leave
<1> QED BY <1>1 DEF Leave, Typed, TypeOK, database

LEMMA AskType ==
    ASSUME Typed, NEW c \in Clients, Ask(c)
    PROVE  Typed'
<1>1. PICK r \in Requests :
         client' = [client EXCEPT ![c] = [Idle EXCEPT !.pc = FirstStep(r.method), !.request = r]]
  BY DEF Ask
<1> DEFINE s == [Idle EXCEPT !.pc = FirstStep(r.method), !.request = r]
<1>2. r \in SetTariff \/ r \in SetPolicy \/ r \in EnergyQuery
  BY DEF Requests
<1>3. /\ r \in SetTariff => FirstStep(r.method) = "open"
      /\ r \in SetPolicy => FirstStep(r.method) = "lock"
      /\ r \in EnergyQuery => FirstStep(r.method) = "read"
  BY RequestsDiffer DEF FirstStep
<1>4. s.pc = FirstStep(r.method) /\ s.request = r /\ s \in ClientState
  BY <1>2, <1>3, IdleType DEF Idle, ClientState, Steps
<1>5. Fits(s)
  BY <1>2, <1>3, <1>4 DEF Fits
<1>6. client' \in [Clients -> ClientState] /\ \A d \in Clients : Fits(client'[d])
  BY <1>1, <1>4, <1>5, ClientMoves
<1>7. asked' \in 0 .. MaxRequests
  BY SettingsAssumption DEF Ask, Typed, TypeOK
<1> QED BY <1>6, <1>7 DEF Ask, Typed, TypeOK, database

\* The steps of a request that do not end it and write nothing.
LEMMA OpenDatabaseType ==
    ASSUME Typed, NEW c \in Clients, OpenDatabase(c)
    PROVE  Typed'
<1>1. CASE Leave(c)
  BY <1>1, LeaveType
<1>2. CASE ~Leave(c)
  <2> DEFINE pc == IF Request(c).method = "SetPolicy" THEN "begin" ELSE "read"
             s == [client[c] EXCEPT !.pc = pc]
  <2>1. Goto(c, pc) /\ At(c, "open")
    BY <1>2 DEF OpenDatabase
  <2>2. Request(c) \in SetPolicy \cup SetTariff /\ Request(c) \in Requests
    BY <2>1 DEF Typed, Fits, At, Request, Requests
  <2>3. s.pc = pc /\ s.request = Request(c) /\ pc \in Steps
    BY DEF Typed, TypeOK, ClientState, Request, Steps
  <2>4. Fits(s)
    BY <2>2, <2>3, RequestsDiffer DEF Fits
  <2>5. client' \in [Clients -> ClientState] /\ \A d \in Clients : Fits(client'[d])
    BY <2>1, <2>3, <2>4, GotoType
  <2> QED BY <1>2, <2>5 DEF OpenDatabase, Typed, TypeOK, database
<1> QED BY <1>1, <1>2

LEMMA LockSnapshotType ==
    ASSUME Typed, NEW c \in Clients, LockSnapshot(c)
    PROVE  Typed'
<1> DEFINE s == [client[c] EXCEPT !.pc = "open"]
<1>1. s.pc = "open" /\ s.request = client[c].request /\ client[c].request \in SetPolicy
  BY DEF LockSnapshot, At, Typed, TypeOK, ClientState, Fits
<1>2. Fits(s) /\ "open" \in Steps
  BY <1>1 DEF Fits, Steps
<1>3. client' \in [Clients -> ClientState] /\ \A d \in Clients : Fits(client'[d])
  BY <1>2, GotoType DEF LockSnapshot
<1> QED BY <1>3 DEF LockSnapshot, Typed, TypeOK, database

\* BeginPolicy goes on only with a policy that validates.
LEMMA BeginPolicyType ==
    ASSUME Typed, NEW c \in Clients, BeginPolicy(c)
    PROVE  Typed'
<1>1. CASE Leave(c)
  BY <1>1, LeaveType
<1>2. CASE ~Leave(c)
  <2> DEFINE s == [client[c] EXCEPT !.pc = "commit"]
  <2>1. /\ At(c, "begin") /\ Request(c).policy \in Valid /\ Goto(c, "commit")
        /\ writer' = c /\ UNCHANGED <<database, snapshot, mutex, asked, restarts, accepted>>
    BY <1>2 DEF BeginPolicy, BeginPolicyIfFree, Validated
  <2>2. s.pc = "commit" /\ s.request = Request(c) /\ Request(c) \in SetPolicy
    BY <2>1 DEF At, Request, Typed, TypeOK, ClientState, Fits
  <2>3. Fits(s) /\ "commit" \in Steps
    BY <2>1, <2>2 DEF Fits, Steps
  <2>4. client' \in [Clients -> ClientState] /\ \A d \in Clients : Fits(client'[d])
    BY <2>1, <2>3, GotoType
  <2> QED BY <2>1, <2>4 DEF Typed, TypeOK, database
<1> QED BY <1>1, <1>2

LEMMA CheckTariffType ==
    ASSUME Typed, NEW c \in Clients, CheckTariff(c)
    PROVE  Typed'
<1>1. CASE Leave(c)
  BY <1>1, LeaveType
<1>2. CASE ~Leave(c)
  <2> DEFINE s == [client[c] EXCEPT !.pc = "write", !.seen = version]
  <2>1. /\ At(c, "read") /\ Request(c).method = "SetTariff"
        /\ client' = [client EXCEPT ![c].pc = "write", ![c].seen = version]
        /\ UNCHANGED <<database, writer, snapshot, mutex, asked, restarts, accepted>>
    BY <1>2 DEF CheckTariff
  <2>2. client[c] \in ClientState /\ Request(c) \in Requests
    BY <2>1 DEF At, Request, Typed, TypeOK, Fits, Requests
  <2>3. s \in ClientState /\ s.pc = "write" /\ s.request = Request(c)
    BY <2>2 DEF ClientState, Request, Steps, Typed, TypeOK
  <2>4. Fits(s)
    BY <2>1, <2>2, <2>3, RequestsDiffer DEF Fits
  <2>5. client' = [client EXCEPT ![c] = s]
    BY <2>1
  <2>6. client' \in [Clients -> ClientState] /\ \A d \in Clients : Fits(client'[d])
    BY <2>3, <2>4, <2>5, ClientMoves
  <2> QED BY <2>1, <2>6 DEF Typed, TypeOK, database
<1> QED BY <1>1, <1>2

LEMMA WriteTariffType ==
    ASSUME Typed, NEW c \in Clients, WriteTariff(c)
    PROVE  Typed'
<1>1. CASE Leave(c)
  BY <1>1, LeaveType
<1>2. CASE ~Leave(c)
  <2> DEFINE s == [client[c] EXCEPT !.pc = "commit"]
  <2>1. /\ At(c, "write") /\ Goto(c, "commit")
        /\ writer' = c /\ UNCHANGED <<database, snapshot, mutex, asked, restarts, accepted>>
    BY <1>2 DEF WriteTariff
  <2>2. s.pc = "commit" /\ s.request = Request(c) /\ Request(c) \in SetTariff
    BY <2>1 DEF At, Request, Typed, TypeOK, ClientState, Fits
  <2>3. Request(c) \notin SetPolicy
    BY <2>2, RequestsDiffer DEF Requests, SetTariff, SetPolicy
  <2>4. Fits(s) /\ "commit" \in Steps
    BY <2>2, <2>3 DEF Fits, Steps
  <2>5. client' \in [Clients -> ClientState] /\ \A d \in Clients : Fits(client'[d])
    BY <2>1, <2>4, GotoType
  <2> QED BY <2>1, <2>5 DEF Typed, TypeOK, database
<1> QED BY <1>1, <1>2

LEMMA ReadTariffsType ==
    ASSUME Typed, NEW c \in Clients, ReadTariffs(c)
    PROVE  Typed'
<1>1. CASE Leave(c)
  BY <1>1, LeaveType
<1>2. CASE ~Leave(c)
  <2> DEFINE s == [client[c] EXCEPT !.pc = "sum", !.table = tariffs]
  <2>1. /\ At(c, "read") /\ Request(c).method = "Energy"
        /\ client' = [client EXCEPT ![c].pc = "sum", ![c].table = tariffs]
        /\ UNCHANGED <<database, writer, snapshot, mutex, asked, restarts, accepted>>
    BY <1>2 DEF ReadTariffs
  <2>2. client[c] \in ClientState /\ Request(c) \in Requests
    BY <2>1 DEF At, Request, Typed, TypeOK, Fits, Requests
  <2>3. s \in ClientState /\ s.pc = "sum" /\ s.request = Request(c)
    BY <2>2 DEF ClientState, Request, Steps, Typed, TypeOK
  <2>4. Fits(s)
    BY <2>1, <2>2, <2>3, RequestsDiffer DEF Fits
  <2>5. client' = [client EXCEPT ![c] = s]
    BY <2>1
  <2>6. client' \in [Clients -> ClientState] /\ \A d \in Clients : Fits(client'[d])
    BY <2>3, <2>4, <2>5, ClientMoves
  <2> QED BY <2>1, <2>6 DEF Typed, TypeOK, database
<1> QED BY <1>1, <1>2

\* The steps that write.
LEMMA CommitPolicyType ==
    ASSUME Typed, NEW c \in Clients, CommitPolicy(c)
    PROVE  Typed'
<1> DEFINE s == [client[c] EXCEPT !.pc = "publish"]
<1>1. Request(c) \in Requests /\ Request(c).method = "SetPolicy"
  BY DEF CommitPolicy, At, Request, Typed, Fits, Requests
<1>2. Request(c) \in SetPolicy /\ Request(c).policy \in Valid
  BY <1>1, RequestsDiffer DEF CommitPolicy, At, Request, Typed, Fits
<1>3. Request(c).expected \in 0 .. MaxRequests
  BY <1>2 DEF SetPolicy
<1>4. s.pc = "publish" /\ s.request = Request(c) /\ "publish" \in Steps
  BY DEF Typed, TypeOK, ClientState, Request, Steps
<1>5. Fits(s)
  BY <1>2, <1>4 DEF Fits
<1>6. client' \in [Clients -> ClientState] /\ \A d \in Clients : Fits(client'[d])
  BY <1>4, <1>5, GotoType DEF CommitPolicy
<1>7. meta' \in Versioned(Valid)
  BY <1>2, <1>3, SettingsAssumption DEF CommitPolicy, Versioned
<1>8. accepted' \in Seq(Valid)
  BY <1>2 DEF CommitPolicy, Typed, TypeOK
<1> QED BY <1>6, <1>7, <1>8 DEF CommitPolicy, Typed, TypeOK

LEMMA PublishPolicyType ==
    ASSUME Typed, NEW c \in Clients, PublishPolicy(c)
    PROVE  Typed'
<1>1. Request(c) \in SetPolicy /\ Request(c).policy \in Valid
  BY DEF PublishPolicy, At, Request, Typed, Fits
<1>2. snapshot' \in Versioned(Valid)
  BY <1>1, SettingsAssumption DEF PublishPolicy, Versioned, SetPolicy
<1>3. /\ client' \in [Clients -> ClientState] /\ \A d \in Clients : Fits(client'[d])
      /\ writer' \in Clients \cup {Storage, None} /\ mutex' \in Clients \cup {None}
  BY EndType DEF PublishPolicy
<1> QED BY <1>2, <1>3 DEF PublishPolicy, Typed, TypeOK, database

LEMMA CommitTariffType ==
    ASSUME Typed, NEW c \in Clients, CommitTariff(c)
    PROVE  Typed'
<1>1. Request(c) \in Requests /\ Request(c).method = "SetTariff"
  BY DEF CommitTariff, At, Request, Typed, Fits, Requests
<1>2. Request(c).at \in Minutes /\ Request(c).tariff \in Tariff
  BY <1>1, RequestsDiffer, SettingsAssumption DEF SetTariff
<1>3. tariffs' \in Tariffs
  BY <1>2 DEF CommitTariff, Typed, TypeOK, Tariffs
<1>4. /\ client' \in [Clients -> ClientState] /\ \A d \in Clients : Fits(client'[d])
      /\ writer' \in Clients \cup {Storage, None} /\ mutex' \in Clients \cup {None}
  BY EndType DEF CommitTariff
<1> QED BY <1>3, <1>4 DEF CommitTariff, Typed, TypeOK

LEMMA StorageType ==
    ASSUME Typed, StorageBegins \/ StorageCommits \/ StorageFails
    PROVE  Typed'
<1>1. CASE StorageBegins
  BY <1>1 DEF StorageBegins, Typed, TypeOK, database
<1>2. CASE StorageCommits
  <2>1. ledger' \in Ledger
    <3>1. CASE UNCHANGED ledger
      BY <3>1 DEF Typed, TypeOK
    <3>2. CASE ~UNCHANGED ledger
      <4>1. PICK m \in Minutes \ Present(ledger) : ledger' = [ledger EXCEPT ![m] = Observed[m]]
        BY <1>2, <3>2 DEF StorageCommits
      <4>2. Observed[m] \in Energy
        BY <4>1, SettingsAssumption
      <4> QED BY <4>1, <4>2 DEF Typed, TypeOK, Ledger
    <3> QED BY <3>1, <3>2
  <2> QED BY <1>2, <2>1 DEF StorageCommits, Typed, TypeOK
<1>3. CASE StorageFails
  BY <1>3 DEF StorageFails, Typed, TypeOK, database
<1> QED BY <1>1, <1>2, <1>3

LEMMA RestartType ==
    ASSUME Typed, Restart
    PROVE  Typed'
<1>1. client' \in [Clients -> ClientState] /\ \A d \in Clients : Fits(client'[d])
  BY IdleType DEF Restart
<1>2. restarts' \in 0 .. MaxRestarts
  BY SettingsAssumption DEF Restart, Typed, TypeOK
<1> QED BY <1>1, <1>2 DEF Restart, Typed, TypeOK, database

LEMMA TypedStep ==
    ASSUME Typed, [Next]_vars
    PROVE  Typed'
<1>1. ASSUME NEW c \in Clients, Ask(c) \/ Serve(c)
      PROVE  Typed'
  <2>1. CASE CommitFails(c) \/ SumEnergy(c)
    BY <2>1, LeaveType DEF CommitFails, SumEnergy
  <2> QED BY <1>1, <2>1, AskType, OpenDatabaseType, LockSnapshotType, BeginPolicyType,
             CommitPolicyType, PublishPolicyType, CheckTariffType, WriteTariffType,
             CommitTariffType, ReadTariffsType DEF Serve
<1>2. CASE UNCHANGED vars
  BY <1>2 DEF vars, database, Typed, TypeOK
<1> QED BY <1>1, <1>2, StorageType, RestartType DEF Next

LEMMA TypedInit == Init => Typed
<1> SUFFICES ASSUME Init PROVE Typed
  OBVIOUS
<1>1. tariffs \in Tariffs /\ client \in [Clients -> ClientState]
      /\ \A c \in Clients : Fits(client[c])
  BY IdleType DEF Init
<1>2. ledger \in Ledger
  BY SettingsAssumption DEF Init, Ledger
<1>3. meta \in Versioned(Valid) /\ snapshot \in Versioned(Valid)
  BY SettingsAssumption DEF Init, Versioned
<1> QED BY <1>1, <1>2, <1>3, SettingsAssumption DEF Init, Typed, TypeOK

LEMMA AlwaysTyped == Spec => []Typed
  BY TypedInit, TypedStep, PTL DEF Spec

\* The type invariant of the settings: every request that is under way has what
\* its next step needs, also after a failed one (dispatch of src/ipc.rs).
THEOREM SettingsTypeCorrect == Spec => []TypeOK
<1>1. Typed => TypeOK
  BY DEF Typed
<1> QED BY <1>1, AlwaysTyped, PTL

-----------------------------------------------------------------------------
\* The register. A request that sets the policy holds the lock of the snapshot
\* from before it opens the database until it has published, and the write lock
\* from its comparison of the revision to its commit.

Locked(c) ==
    /\ client[c].pc \in {"begin", "publish"} => mutex = c
    /\ client[c].pc \in {"open", "commit"} /\ client[c].request \in SetPolicy => mutex = c
    /\ client[c].pc = "commit" => writer = c
    /\ client[c].pc = "commit" /\ client[c].request \in SetPolicy
            => client[c].request.expected = meta.revision
    /\ client[c].pc = "publish" => /\ meta.revision = client[c].request.expected + 1
                                   /\ meta.policy = client[c].request.policy

RegisterInv ==
    /\ \A c \in Clients : Locked(c)
    /\ meta.revision = Len(accepted)
    /\ snapshot # meta => \E c \in Clients : client[c].pc = "publish"

LEMMA RegisterInit == Init => RegisterInv
  BY SettingsAssumption DEF Init, RegisterInv, Locked, Idle

\* The request that is over held locks at most for itself.
LEMMA LeaveRegister ==
    ASSUME Typed, RegisterInv, NEW c \in Clients, Leave(c), client[c].pc # "publish"
    PROVE  RegisterInv' /\ UNCHANGED <<meta, snapshot, accepted>>
<1>1. UNCHANGED <<meta, snapshot, accepted>> /\ client' = [client EXCEPT ![c] = Idle]
  BY DEF Leave, End, database
<1>2. /\ writer' = IF writer = c THEN None ELSE writer
      /\ mutex' = IF mutex = c THEN None ELSE mutex
  BY DEF Leave, End, Release
<1>3. client'[c] = Idle /\ \A d \in Clients \ {c} : client'[d] = client[d]
  BY <1>1 DEF Typed, TypeOK
<1>4. \A d \in Clients : Locked(d)'
  BY <1>1, <1>2, <1>3 DEF RegisterInv, Locked, Idle
<1> QED BY <1>1, <1>3, <1>4 DEF RegisterInv

\* Every step of a connection, and what it is to the register.
LEMMA AskRegister ==
    ASSUME Typed, RegisterInv, NEW c \in Clients, Ask(c)
    PROVE  RegisterInv' /\ UNCHANGED <<meta, snapshot, accepted>>
<1>1. PICK r \in Requests :
         client' = [client EXCEPT ![c] = [Idle EXCEPT !.pc = FirstStep(r.method), !.request = r]]
  BY DEF Ask
<1>2. /\ client'[c] = [Idle EXCEPT !.pc = FirstStep(r.method), !.request = r]
      /\ \A d \in Clients \ {c} : client'[d] = client[d]
  BY <1>1 DEF Typed, TypeOK
<1>3. /\ FirstStep(r.method) \in {"lock", "open", "read"}
      /\ r \in SetPolicy => FirstStep(r.method) = "lock"
  BY RequestsDiffer DEF FirstStep
<1>4. Locked(c)'
  BY <1>2, <1>3 DEF Locked, Idle
<1>5. UNCHANGED <<meta, snapshot, accepted, writer, mutex>> /\ client[c].pc = "idle"
  BY DEF Ask, At, database
<1>6. \A d \in Clients \ {c} : Locked(d)'
  BY <1>2, <1>5 DEF RegisterInv, Locked
<1> QED BY <1>2, <1>4, <1>5, <1>6 DEF RegisterInv

LEMMA MovesOn ==
    ASSUME Typed, NEW c \in Clients, NEW pc, Goto(c, pc)
    PROVE  /\ client'[c] = [client[c] EXCEPT !.pc = pc]
           /\ client'[c].pc = pc /\ client'[c].request = client[c].request
           /\ client'[c].seen = client[c].seen
           /\ \A d \in Clients \ {c} : client'[d] = client[d]
  BY DEF Typed, TypeOK, ClientState, Goto

LEMMA OpenDatabaseRegister ==
    ASSUME Typed, RegisterInv, NEW c \in Clients, OpenDatabase(c)
    PROVE  RegisterInv' /\ UNCHANGED <<meta, snapshot, accepted>>
<1>1. CASE Leave(c)
  BY <1>1, LeaveRegister DEF OpenDatabase, At
<1>2. CASE ~Leave(c)
  <2> DEFINE pc == IF Request(c).method = "SetPolicy" THEN "begin" ELSE "read"
  <2>1. /\ Goto(c, pc) /\ client[c].pc = "open"
        /\ UNCHANGED <<meta, snapshot, accepted, writer, mutex>>
    BY <1>2 DEF OpenDatabase, At, database
  <2>2. /\ client'[c].pc = pc /\ client'[c].request = client[c].request
        /\ \A d \in Clients \ {c} : client'[d] = client[d]
    BY <2>1, MovesOn
  <2>3. pc = "begin" => Request(c) \in SetPolicy
    <3>1. Request(c) \in Requests
      BY <2>1 DEF Typed, Fits, Request, Requests
    <3> QED BY <3>1, RequestsDiffer
  <2>4. Locked(c)'
    BY <2>1, <2>2, <2>3 DEF RegisterInv, Locked, Request
  <2>5. \A d \in Clients \ {c} : Locked(d)'
    BY <2>1, <2>2 DEF RegisterInv, Locked
  <2> QED BY <2>1, <2>2, <2>4, <2>5 DEF RegisterInv
<1> QED BY <1>1, <1>2

LEMMA LockSnapshotRegister ==
    ASSUME Typed, RegisterInv, NEW c \in Clients, LockSnapshot(c)
    PROVE  RegisterInv' /\ UNCHANGED <<meta, snapshot, accepted>>
<1>1. /\ Goto(c, "open") /\ client[c].pc = "lock" /\ mutex = None /\ mutex' = c
      /\ UNCHANGED <<meta, snapshot, accepted, writer>>
  BY DEF LockSnapshot, At, database
<1>2. /\ client'[c].pc = "open" /\ client'[c].request = client[c].request
      /\ \A d \in Clients \ {c} : client'[d] = client[d]
  BY <1>1, MovesOn
<1>3. Locked(c)'
  BY <1>1, <1>2 DEF Locked
<1>4. \A d \in Clients \ {c} : Locked(d)'
  BY <1>1, <1>2, SettingsAssumption DEF RegisterInv, Locked
<1> QED BY <1>1, <1>2, <1>3, <1>4 DEF RegisterInv

LEMMA BeginPolicyRegister ==
    ASSUME Typed, RegisterInv, NEW c \in Clients, BeginPolicy(c)
    PROVE  RegisterInv' /\ UNCHANGED <<meta, snapshot, accepted>>
<1>1. CASE Leave(c)
  BY <1>1, LeaveRegister DEF BeginPolicy, BeginPolicyIfFree, At
<1>2. CASE ~Leave(c)
  <2>1. /\ Goto(c, "commit") /\ client[c].pc = "begin" /\ writer = None /\ writer' = c
        /\ Request(c).expected = meta.revision
        /\ UNCHANGED <<meta, snapshot, accepted, mutex>>
    BY <1>2 DEF BeginPolicy, BeginPolicyIfFree, At, database
  <2>2. /\ client'[c].pc = "commit" /\ client'[c].request = client[c].request
        /\ \A d \in Clients \ {c} : client'[d] = client[d]
    BY <2>1, MovesOn
  <2>3. Locked(c)'
    BY <2>1, <2>2 DEF RegisterInv, Locked, Request
  <2>4. \A d \in Clients \ {c} : Locked(d)'
    BY <2>1, <2>2, SettingsAssumption DEF RegisterInv, Locked
  <2> QED BY <2>1, <2>2, <2>3, <2>4 DEF RegisterInv
<1> QED BY <1>1, <1>2

\* The commit sets the register: the lock of the snapshot keeps every other
\* request from publishing, so that the version before is in force.
LEMMA CommitPolicyRegister ==
    ASSUME Typed, RegisterInv, NEW c \in Clients, CommitPolicy(c)
    PROVE  RegisterInv' /\ Register!Next
<1> DEFINE r == Request(c)
<1>1. /\ Goto(c, "publish") /\ client[c].pc = "commit" /\ writer' = None
      /\ meta' = [revision |-> r.expected + 1, policy |-> r.policy]
      /\ accepted' = Append(accepted, r.policy)
      /\ UNCHANGED <<snapshot, mutex>>
  BY DEF CommitPolicy, At
<1>2. r \in SetPolicy /\ r.policy \in Valid
  <2>1. r \in Requests /\ r.method = "SetPolicy"
    BY DEF CommitPolicy, At, Request, Typed, Fits, Requests
  <2> QED BY <2>1, RequestsDiffer DEF CommitPolicy, At, Request, Typed, Fits
<1>3. mutex = c /\ writer = c /\ r.expected = meta.revision /\ meta.revision = Len(accepted)
  BY <1>1, <1>2 DEF RegisterInv, Locked, Request
<1>4. \A d \in Clients \ {c} : client[d].pc \notin {"commit", "publish", "begin"}
  BY <1>3 DEF RegisterInv, Locked
<1>5. snapshot = meta
  BY <1>1, <1>4 DEF RegisterInv
<1>6. /\ client'[c].pc = "publish" /\ client'[c].request = r
      /\ \A d \in Clients \ {c} : client'[d] = client[d]
  BY <1>1, MovesOn DEF Request
<1>7. Locked(c)'
  BY <1>1, <1>3, <1>6 DEF Locked
<1>8. \A d \in Clients \ {c} : Locked(d)'
  BY <1>1, <1>4, <1>6 DEF RegisterInv, Locked
<1>9. meta'.revision = Len(accepted')
  BY <1>1, <1>2, <1>3 DEF Typed, TypeOK
<1>10. RegisterInv'
  BY <1>1, <1>7, <1>8, <1>9, <1>6 DEF RegisterInv
<1>11. Register!Set(Len(accepted), r.policy)
  BY <1>1, <1>3, <1>5 DEF Register!Set, Register!Version
<1> QED BY <1>2, <1>10, <1>11 DEF Register!Next

\* The publication puts the stored version in force.
LEMMA PublishPolicyRegister ==
    ASSUME Typed, RegisterInv, NEW c \in Clients, PublishPolicy(c)
    PROVE  RegisterInv' /\ Register!Next
<1>1. /\ client[c].pc = "publish" /\ client' = [client EXCEPT ![c] = Idle]
      /\ snapshot' = [revision |-> Request(c).expected + 1, policy |-> Request(c).policy]
      /\ UNCHANGED <<meta, accepted>>
  BY DEF PublishPolicy, At, End, database
<1>2. snapshot' = meta
  <2>1. meta.revision = Request(c).expected + 1 /\ meta.policy = Request(c).policy
    BY <1>1 DEF RegisterInv, Locked, Request
  <2>2. meta = [revision |-> meta.revision, policy |-> meta.policy]
    BY DEF Typed, TypeOK, Versioned
  <2> QED BY <1>1, <2>1, <2>2
<1>3. /\ writer' = IF writer = c THEN None ELSE writer
      /\ mutex' = IF mutex = c THEN None ELSE mutex
  BY DEF PublishPolicy, End, Release
<1>4. client'[c] = Idle /\ \A d \in Clients \ {c} : client'[d] = client[d]
  BY <1>1 DEF Typed, TypeOK
<1>5. \A d \in Clients : Locked(d)'
  BY <1>1, <1>3, <1>4 DEF RegisterInv, Locked, Idle
<1>6. RegisterInv'
  BY <1>1, <1>2, <1>5 DEF RegisterInv
<1> QED BY <1>1, <1>2, <1>6 DEF Register!Next, Register!Enforce

LEMMA TariffRegister ==
    ASSUME Typed, RegisterInv, NEW c \in Clients, CheckTariff(c) \/ WriteTariff(c) \/ ReadTariffs(c)
    PROVE  RegisterInv' /\ UNCHANGED <<meta, snapshot, accepted>>
<1>1. CASE Leave(c)
  BY <1>1, LeaveRegister DEF CheckTariff, WriteTariff, ReadTariffs, At
<1>2. CASE ~Leave(c) /\ WriteTariff(c)
  <2>1. /\ Goto(c, "commit") /\ client[c].pc = "write" /\ writer = None /\ writer' = c
        /\ UNCHANGED <<meta, snapshot, accepted, mutex>>
    BY <1>2 DEF WriteTariff, Upgrades, At, database
  <2>2. /\ client'[c].pc = "commit" /\ client'[c].request = client[c].request
        /\ \A d \in Clients \ {c} : client'[d] = client[d]
    BY <2>1, MovesOn
  <2>3. client[c].request \notin SetPolicy
    BY <2>1, RequestsDiffer DEF Typed, Fits, Requests, SetTariff, SetPolicy
  <2>4. Locked(c)'
    BY <2>1, <2>2, <2>3 DEF Locked
  <2>5. \A d \in Clients \ {c} : Locked(d)'
    BY <2>1, <2>2, SettingsAssumption DEF RegisterInv, Locked
  <2> QED BY <2>1, <2>2, <2>4, <2>5 DEF RegisterInv
<1>3. CASE ~Leave(c) /\ (CheckTariff(c) \/ ReadTariffs(c))
  <2>1. /\ client[c].pc = "read" /\ client'[c].pc \in {"write", "sum"}
        /\ \A d \in Clients \ {c} : client'[d] = client[d]
        /\ UNCHANGED <<meta, snapshot, accepted, writer, mutex>>
    BY <1>3 DEF CheckTariff, ReadTariffs, At, database, Typed, TypeOK, ClientState
  <2>2. \A d \in Clients : Locked(d)'
    BY <2>1 DEF RegisterInv, Locked
  <2> QED BY <2>1, <2>2 DEF RegisterInv
<1> QED BY <1>1, <1>2, <1>3

LEMMA CommitTariffRegister ==
    ASSUME Typed, RegisterInv, NEW c \in Clients, CommitTariff(c)
    PROVE  RegisterInv' /\ UNCHANGED <<meta, snapshot, accepted>>
<1>1. /\ client[c].pc = "commit" /\ client' = [client EXCEPT ![c] = Idle]
      /\ UNCHANGED <<meta, snapshot, accepted>>
  BY DEF CommitTariff, At, End
<1>2. /\ writer' = IF writer = c THEN None ELSE writer
      /\ mutex' = IF mutex = c THEN None ELSE mutex
  BY DEF CommitTariff, End, Release
<1>3. client'[c] = Idle /\ \A d \in Clients \ {c} : client'[d] = client[d]
  BY <1>1 DEF Typed, TypeOK
<1>4. \A d \in Clients : Locked(d)'
  BY <1>1, <1>2, <1>3 DEF RegisterInv, Locked, Idle
<1> QED BY <1>1, <1>3, <1>4 DEF RegisterInv

\* The storage thread and a restart.
LEMMA StorageRegister ==
    ASSUME Typed, RegisterInv, StorageBegins \/ StorageCommits \/ StorageFails
    PROVE  RegisterInv' /\ UNCHANGED <<meta, snapshot, accepted>>
<1>1. UNCHANGED <<meta, snapshot, accepted, client, mutex>> /\ writer \in {None, Storage}
  BY DEF StorageBegins, StorageCommits, StorageFails, database
<1>2. \A c \in Clients : client[c].pc # "commit"
  BY <1>1, SettingsAssumption DEF RegisterInv, Locked
<1>3. \A c \in Clients : Locked(c)'
  BY <1>1, <1>2 DEF RegisterInv, Locked
<1> QED BY <1>1, <1>3 DEF RegisterInv

LEMMA RestartRegister ==
    ASSUME Typed, RegisterInv, Restart
    PROVE  RegisterInv' /\ Register!Next
<1>1. snapshot' = meta /\ UNCHANGED <<meta, accepted>>
  BY DEF Restart, database
<1>2. \A c \in Clients : Locked(c)'
  BY DEF Restart, Locked, Idle
<1>3. RegisterInv'
  BY <1>1, <1>2 DEF RegisterInv
<1> QED BY <1>1, <1>3 DEF Register!Next, Register!Enforce

LEMMA RegisterStep ==
    ASSUME Typed, RegisterInv, [Next]_vars
    PROVE  RegisterInv' /\ [Register!Next]_(Register!vars)
<1>1. ASSUME NEW c \in Clients, Ask(c) \/ Serve(c)
      PROVE  RegisterInv' /\ (Register!Next \/ UNCHANGED <<meta, snapshot, accepted>>)
  <2>1. CASE CommitFails(c) \/ SumEnergy(c)
    BY <2>1, LeaveRegister DEF CommitFails, SumEnergy, At
  <2> QED BY <1>1, <2>1, AskRegister, OpenDatabaseRegister, LockSnapshotRegister,
             BeginPolicyRegister, CommitPolicyRegister, PublishPolicyRegister,
             TariffRegister, CommitTariffRegister DEF Serve
<1>2. CASE UNCHANGED vars
  BY <1>2 DEF vars, database, RegisterInv, Locked, Register!vars
<1> QED BY <1>1, <1>2, StorageRegister, RestartRegister DEF Next, Register!vars

LEMMA AlwaysRegister == Spec => []RegisterInv
  BY RegisterInit, RegisterStep, AlwaysTyped, PTL DEF Spec

\* Whatever runs, fails and crashes at the same time, the alert policy is a
\* register with a revision: a request sets it only from the version it names,
\* and only when that version is in force (set_policy and SetPolicy).
THEOREM PolicyIsRegister == Spec => ImplementsRegister
<1>1. Init => Register!Init
  BY DEF Init, Register!Init, Register!Version
<1>2. Spec => [][Register!Next]_(Register!vars)
  BY AlwaysRegister, RegisterStep, AlwaysTyped, PTL DEF Spec
<1> QED BY <1>1, <1>2, PTL DEF Spec, ImplementsRegister, Register!Spec

-----------------------------------------------------------------------------
\* The prices. What set_tariff has checked stays true until its commit: as a
\* writer it excludes others, and before that a commit of another makes the
\* transaction fail when it wants to write.

Checked(c) ==
    /\ client[c].pc = "write" => client[c].seen <= version
    /\ \/ client[c].pc = "write" /\ client[c].seen = version
       \/ client[c].pc = "commit" /\ client[c].request \in SetTariff
       => HasRoom(client[c].request) /\ SameCurrency(client[c].request.tariff)

TariffInv ==
    /\ \A m, n \in Present(tariffs) : tariffs[m].currency = tariffs[n].currency
    /\ Cardinality(Present(tariffs)) <= MaxTariffs
    /\ \A c \in Clients : Checked(c)

\* The least of a set of numbers: the shortest of the intervals below them.
LEMMA MinIsMember ==
    ASSUME NEW S \in SUBSET Nat, S # {}
    PROVE  Min(S) \in S
<1> DEFINE below == {0 .. n : n \in S}
<1>1. below \subseteq FiniteSubsetsOf(Nat) /\ below # {}
  <2>1. ASSUME NEW n \in S
        PROVE  IsFiniteSet(0 .. n) /\ 0 .. n \subseteq Nat
    BY FS_Interval
  <2> QED BY <2>1 DEF FiniteSubsetsOf
<1>2. PICK x \in below : \A y \in below : ~ (<<y, x>> \in StrictSubsetOrdering(Nat))
  BY <1>1, FS_StrictSubsetOrderingWellFounded, WFMin
<1>3. PICK m \in S : x = 0 .. m
  BY <1>2
<1>4. ASSUME NEW n \in S, n < m
      PROVE  FALSE
  <2>1. 0 .. n \subseteq 0 .. m /\ 0 .. n # 0 .. m
    <3>1. m \in 0 .. m /\ m \notin 0 .. n
      BY <1>4
    <3>2. \A k \in 0 .. n : k \in 0 .. m
      BY <1>4
    <3> QED BY <3>1, <3>2
  <2>2. <<0 .. n, 0 .. m>> \in StrictSubsetOrdering(Nat)
    BY <2>1 DEF StrictSubsetOrdering
  <2> QED BY <1>2, <1>3, <2>2
<1>5. \A n \in S : m =< n
  BY <1>4
<1> QED BY <1>5 DEF Min

LEMMA PresentIsFinite ==
    ASSUME NEW table \in Tariffs
    PROVE  IsFiniteSet(Present(table)) /\ Present(table) \subseteq Nat
  BY PricingAssumption, FS_Subset DEF Tariffs, Present

\* The commit of a price that was checked leaves the table in order.
LEMMA CommitIsSound ==
    ASSUME Typed, TariffInv, NEW r \in SetTariff, HasRoom(r), SameCurrency(r.tariff),
           tariffs' = [tariffs EXCEPT ![r.at] = r.tariff]
    PROVE  /\ \A m, n \in Present(tariffs') : tariffs'[m].currency = tariffs'[n].currency
           /\ Cardinality(Present(tariffs')) <= MaxTariffs
<1> DEFINE rows == Present(tariffs)
<1>1. r.at \in Minutes /\ r.tariff \in Tariff /\ r.tariff # None
  BY SettingsAssumption, PricingAssumption DEF SetTariff
<1>2. tariffs \in [Minutes -> Tariff \cup {None}] /\ tariffs \in Tariffs
  BY DEF Typed, TypeOK, Tariffs
<1>3. tariffs'[r.at] = r.tariff /\ \A m \in Minutes \ {r.at} : tariffs'[m] = tariffs[m]
  BY <1>1, <1>2
<1>4. Present(tariffs') = rows \cup {r.at}
  BY <1>1, <1>2, <1>3 DEF Present
<1>5. \A m \in rows : tariffs[m].currency = r.tariff.currency
  <2>1. CASE rows = {}
    BY <2>1
  <2>2. CASE rows # {}
    <3>1. Min(rows) \in rows
      BY <1>2, <2>2, PresentIsFinite, MinIsMember
    <3> QED BY <2>2, <3>1 DEF SameCurrency, TariffInv
  <2> QED BY <2>1, <2>2
<1>6. \A m \in Present(tariffs') : tariffs'[m].currency = r.tariff.currency
  BY <1>1, <1>2, <1>3, <1>4, <1>5 DEF Present
<1>7. Cardinality(Present(tariffs')) <= MaxTariffs
  <2>1. IsFiniteSet(rows) /\ Cardinality(rows) \in Nat
    BY <1>2, PresentIsFinite, FS_CardinalityType
  <2>2. Cardinality(rows \cup {r.at}) = IF r.at \in rows THEN Cardinality(rows)
                                        ELSE Cardinality(rows) + 1
    BY <2>1, FS_AddElement
  <2>3. Cardinality(rows) < MaxTariffs \/ r.at \in rows
    BY DEF HasRoom
  <2>4. Cardinality(rows) <= MaxTariffs /\ MaxTariffs \in Nat
    BY PricingAssumption DEF TariffInv
  <2>5. Cardinality(Present(tariffs')) = Cardinality(rows \cup {r.at})
    BY <1>4
  <2>6. Cardinality(rows \cup {r.at}) <= MaxTariffs
    <3> HIDE DEF rows
    <3>1. CASE r.at \in rows
      BY <3>1, <2>2, <2>4
    <3>2. CASE r.at \notin rows
      BY <3>2, <2>1, <2>2, <2>3, <2>4
    <3> QED BY <3>1, <3>2
  <2> QED BY <2>5, <2>6
<1> QED BY <1>6, <1>7

LEMMA TariffInit == Init => TariffInv
<1> SUFFICES ASSUME Init PROVE TariffInv
  OBVIOUS
<1>1. Present(tariffs) = {}
  BY DEF Init, Empty, Present
<1>2. Cardinality(Present(tariffs)) = 0
  BY <1>1, FS_EmptySet
<1> QED BY <1>1, <1>2, PricingAssumption DEF Init, TariffInv, Checked, Idle

\* Steps that leave the prices and the count of commits alone, and put no
\* connection in a place where it has checked something.
LEMMA TariffsStay ==
    ASSUME TariffInv, UNCHANGED <<tariffs, version>>,
           \A c \in Clients : client'[c] = client[c] \/ client'[c].pc \notin {"write", "commit"}
    PROVE  TariffInv'
<1>1. \A c \in Clients : Checked(c)'
  BY DEF TariffInv, Checked, HasRoom, SameCurrency
<1> QED BY <1>1 DEF TariffInv

LEMMA LeaveTariff ==
    ASSUME Typed, TariffInv, NEW c \in Clients, Leave(c)
    PROVE  TariffInv'
<1>1. UNCHANGED <<tariffs, version>> /\ client' = [client EXCEPT ![c] = Idle]
  BY DEF Leave, End, database
<1>2. \A d \in Clients : client'[d] = client[d] \/ client'[d].pc \notin {"write", "commit"}
  BY <1>1 DEF Idle, Typed, TypeOK
<1> QED BY <1>1, <1>2, TariffsStay

\* A step of a connection that moves on and writes nothing.
LEMMA GotoTariff ==
    ASSUME Typed, TariffInv, NEW c \in Clients, NEW pc \in {"begin", "read", "open"}, Goto(c, pc),
           UNCHANGED <<tariffs, version>>
    PROVE  TariffInv'
<1>1. client'[c].pc = pc /\ \A d \in Clients \ {c} : client'[d] = client[d]
  BY MovesOn
<1> QED BY <1>1, TariffsStay

LEMMA AskTariff ==
    ASSUME Typed, TariffInv, NEW c \in Clients, Ask(c)
    PROVE  TariffInv'
<1>1. PICK r \in Requests :
         client' = [client EXCEPT ![c] = [Idle EXCEPT !.pc = FirstStep(r.method), !.request = r]]
  BY DEF Ask
<1>2. client'[c].pc = FirstStep(r.method) /\ \A d \in Clients \ {c} : client'[d] = client[d]
  BY <1>1 DEF Typed, TypeOK, Idle
<1>3. FirstStep(r.method) \in {"lock", "open", "read"}
  BY DEF FirstStep
<1>4. \A d \in Clients : client'[d] = client[d] \/ client'[d].pc \notin {"write", "commit"}
  BY <1>2, <1>3
<1> QED BY <1>4, TariffsStay DEF Ask, database

LEMMA PolicyTariff ==
    ASSUME Typed, RegisterInv, TariffInv, NEW c \in Clients,
           OpenDatabase(c) \/ LockSnapshot(c) \/ PublishPolicy(c)
    PROVE  TariffInv'
<1>1. CASE Leave(c)
  BY <1>1, LeaveTariff
<1>2. CASE ~Leave(c) /\ OpenDatabase(c)
  BY <1>2, GotoTariff DEF OpenDatabase, database
<1>3. CASE LockSnapshot(c)
  BY <1>3, GotoTariff DEF LockSnapshot, database
<1>4. CASE PublishPolicy(c)
  <2>1. UNCHANGED <<tariffs, version>> /\ client' = [client EXCEPT ![c] = Idle]
    BY <1>4 DEF PublishPolicy, End, database
  <2>2. \A d \in Clients : client'[d] = client[d] \/ client'[d].pc \notin {"write", "commit"}
    BY <2>1 DEF Idle, Typed, TypeOK
  <2> QED BY <2>1, <2>2, TariffsStay
<1> QED BY <1>1, <1>2, <1>3, <1>4

LEMMA BeginPolicyTariff ==
    ASSUME Typed, TariffInv, NEW c \in Clients, BeginPolicy(c)
    PROVE  TariffInv'
<1>1. CASE Leave(c)
  BY <1>1, LeaveTariff
<1>2. CASE ~Leave(c)
  <2>1. /\ Goto(c, "commit") /\ client[c].pc = "begin" /\ UNCHANGED <<tariffs, version>>
    BY <1>2 DEF BeginPolicy, BeginPolicyIfFree, At, database
  <2>2. client[c].request \notin SetTariff
    BY <2>1 DEF Typed, Fits, SetPolicy, SetTariff
  <2>3. /\ client'[c].pc = "commit" /\ client'[c].request = client[c].request
        /\ \A d \in Clients \ {c} : client'[d] = client[d]
    BY <2>1, MovesOn
  <2>4. \A d \in Clients : Checked(d)'
    BY <2>1, <2>2, <2>3 DEF TariffInv, Checked, HasRoom, SameCurrency
  <2> QED BY <2>1, <2>4 DEF TariffInv
<1> QED BY <1>1, <1>2

\* The commit of a policy counts, so that every price that is checked is late.
LEMMA CommitPolicyTariff ==
    ASSUME Typed, RegisterInv, TariffInv, NEW c \in Clients, CommitPolicy(c)
    PROVE  TariffInv'
<1>1. /\ Goto(c, "publish") /\ client[c].pc = "commit"
      /\ version' = version + 1 /\ tariffs' = tariffs
  BY DEF CommitPolicy, At
<1>2. client'[c].pc = "publish" /\ \A d \in Clients \ {c} : client'[d] = client[d]
  BY <1>1, MovesOn
<1>3. \A d \in Clients \ {c} : client[d].pc # "commit"
  BY <1>1 DEF RegisterInv, Locked
<1>4. version \in Nat /\ \A d \in Clients : client[d].seen \in Nat
  BY DEF Typed, TypeOK, ClientState
<1>5. \A d \in Clients : Checked(d)'
  BY <1>1, <1>2, <1>3, <1>4 DEF TariffInv, Checked
<1> QED BY <1>1, <1>5 DEF TariffInv

LEMMA CheckTariffTariff ==
    ASSUME Typed, TariffInv, NEW c \in Clients, CheckTariff(c)
    PROVE  TariffInv'
<1>1. CASE Leave(c)
  BY <1>1, LeaveTariff
<1>2. CASE ~Leave(c)
  <2>1. /\ HasRoom(Request(c)) /\ SameCurrency(Request(c).tariff)
        /\ client' = [client EXCEPT ![c].pc = "write", ![c].seen = version]
        /\ UNCHANGED <<tariffs, version>>
    BY <1>2 DEF CheckTariff, database
  <2>2. /\ client'[c].pc = "write" /\ client'[c].seen = version
        /\ client'[c].request = Request(c)
        /\ \A d \in Clients \ {c} : client'[d] = client[d]
    BY <2>1 DEF Typed, TypeOK, ClientState, Request
  <2>3. Checked(c)'
    <3>1. version \in Nat
      BY DEF Typed, TypeOK
    <3>2. client'[c].request = Request(c) /\ tariffs' = tariffs
      BY <2>1, <2>2
    <3>3. HasRoom(client[c].request)' /\ SameCurrency(client[c].request.tariff)'
      BY <2>1, <3>2 DEF HasRoom, SameCurrency
    <3> QED BY <2>1, <2>2, <3>1, <3>3 DEF Checked
  <2>4. ASSUME NEW d \in Clients \ {c}
        PROVE  Checked(d)'
    <3>1. client'[d] = client[d] /\ UNCHANGED <<tariffs, version>>
      BY <2>1, <2>2
    <3>2. Checked(d)
      BY DEF TariffInv
    <3> QED BY <3>1, <3>2 DEF Checked, HasRoom, SameCurrency
  <2> QED BY <2>1, <2>3, <2>4 DEF TariffInv
<1> QED BY <1>1, <1>2

LEMMA WriteTariffTariff ==
    ASSUME Typed, TariffInv, NEW c \in Clients, WriteTariff(c)
    PROVE  TariffInv'
<1>1. CASE Leave(c)
  BY <1>1, LeaveTariff
<1>2. CASE ~Leave(c)
  <2>1. /\ Goto(c, "commit") /\ client[c].pc = "write" /\ client[c].seen = version
        /\ UNCHANGED <<tariffs, version>>
    BY <1>2 DEF WriteTariff, Upgrades, At, database
  <2>2. /\ client'[c].pc = "commit" /\ client'[c].request = client[c].request
        /\ \A d \in Clients \ {c} : client'[d] = client[d]
    BY <2>1, MovesOn
  <2>3. \A d \in Clients : Checked(d)'
    BY <2>1, <2>2 DEF TariffInv, Checked, HasRoom, SameCurrency
  <2> QED BY <2>1, <2>3 DEF TariffInv
<1> QED BY <1>1, <1>2

LEMMA CommitTariffTariff ==
    ASSUME Typed, RegisterInv, TariffInv, NEW c \in Clients, CommitTariff(c)
    PROVE  TariffInv'
<1> DEFINE r == Request(c)
<1>1. /\ client[c].pc = "commit" /\ version' = version + 1
      /\ tariffs' = [tariffs EXCEPT ![r.at] = r.tariff]
      /\ client' = [client EXCEPT ![c] = Idle]
  BY DEF CommitTariff, At, End
<1>2. r \in SetTariff
  <2>1. r \in Requests /\ r.method = "SetTariff"
    BY DEF CommitTariff, At, Request, Typed, Fits, Requests
  <2> QED BY <2>1, RequestsDiffer
<1>3. HasRoom(r) /\ SameCurrency(r.tariff)
  BY <1>1, <1>2 DEF TariffInv, Checked, Request
<1>4. client'[c] = Idle /\ \A d \in Clients \ {c} : client'[d] = client[d]
  BY <1>1 DEF Typed, TypeOK
<1>5. \A d \in Clients \ {c} : client[d].pc # "commit"
  BY <1>1 DEF RegisterInv, Locked
<1>6. version \in Nat /\ \A d \in Clients : client[d].seen \in Nat
  BY DEF Typed, TypeOK, ClientState
<1>7. \A d \in Clients : Checked(d)'
  BY <1>1, <1>4, <1>5, <1>6 DEF TariffInv, Checked, Idle
<1> QED BY <1>1, <1>2, <1>3, <1>7, CommitIsSound DEF TariffInv

LEMMA ReadTariffsTariff ==
    ASSUME Typed, TariffInv, NEW c \in Clients, ReadTariffs(c)
    PROVE  TariffInv'
<1>1. CASE Leave(c)
  BY <1>1, LeaveTariff
<1>2. CASE ~Leave(c)
  <2>1. /\ UNCHANGED <<tariffs, version>>
        /\ client'[c].pc = "sum" /\ \A d \in Clients \ {c} : client'[d] = client[d]
    BY <1>2 DEF ReadTariffs, database, Typed, TypeOK, ClientState
  <2> QED BY <2>1, TariffsStay
<1> QED BY <1>1, <1>2

LEMMA StorageTariff ==
    ASSUME Typed, RegisterInv, TariffInv, StorageBegins \/ StorageCommits \/ StorageFails
    PROVE  TariffInv'
<1>1. CASE StorageCommits
  <2>1. tariffs' = tariffs /\ version' = version + 1 /\ client' = client /\ writer = Storage
    BY <1>1 DEF StorageCommits
  <2>2. \A c \in Clients : client[c].pc # "commit"
    BY <2>1, SettingsAssumption DEF RegisterInv, Locked
  <2>3. version \in Nat /\ \A d \in Clients : client[d].seen \in Nat
    BY DEF Typed, TypeOK, ClientState
  <2>4. \A c \in Clients : Checked(c)'
    BY <2>1, <2>2, <2>3 DEF TariffInv, Checked
  <2> QED BY <2>1, <2>4 DEF TariffInv
<1>2. CASE StorageBegins \/ StorageFails
  <2>1. UNCHANGED <<tariffs, version, client>>
    BY <1>2 DEF StorageBegins, StorageFails, database
  <2> QED BY <2>1, TariffsStay
<1> QED BY <1>1, <1>2

LEMMA TariffStep ==
    ASSUME Typed, RegisterInv, TariffInv, [Next]_vars
    PROVE  TariffInv'
<1>1. ASSUME NEW c \in Clients, Ask(c) \/ Serve(c)
      PROVE  TariffInv'
  <2>1. CASE CommitFails(c) \/ SumEnergy(c)
    BY <2>1, LeaveTariff DEF CommitFails, SumEnergy
  <2> QED BY <1>1, <2>1, AskTariff, PolicyTariff, BeginPolicyTariff, CommitPolicyTariff,
             CheckTariffTariff, WriteTariffTariff, CommitTariffTariff, ReadTariffsTariff
             DEF Serve
<1>2. CASE Restart
  <2>1. UNCHANGED <<tariffs, version>> /\ \A c \in Clients : client'[c].pc = "idle"
    BY <1>2 DEF Restart, database, Idle
  <2> QED BY <2>1, TariffsStay
<1>3. CASE UNCHANGED vars
  BY <1>3, TariffsStay DEF vars, database
<1> QED BY <1>1, <1>2, <1>3, StorageTariff DEF Next

\* However many requests set prices at the same time, the history of prices has
\* one currency and no more rates than can be read again (set_tariff).
THEOREM TariffsStaySound == Spec => []TariffsAreSound
<1>1. Typed /\ TariffInv => TariffsAreSound
  <2> SUFFICES ASSUME Typed, TariffInv PROVE TariffsAreSound
    OBVIOUS
  <2> DEFINE rows == Present(tariffs)
             currencies == {tariffs[m].currency : m \in rows}
  <2>1. Cardinality(currencies) <= 1
    <3>1. CASE rows = {}
      <4>1. currencies = {}
        BY <3>1
      <4> HIDE DEF currencies
      <4> QED BY <4>1, FS_EmptySet
    <3>2. CASE rows # {}
      <4>1. PICK m \in rows : TRUE
        BY <3>2
      <4>2. currencies = {tariffs[m].currency}
        BY <4>1 DEF TariffInv
      <4>3. Cardinality({tariffs[m].currency}) = 1
        BY FS_Singleton
      <4> HIDE DEF currencies
      <4> QED BY <4>2, <4>3
    <3> QED BY <3>1, <3>2
  <2>2. Cardinality(rows) <= MaxTariffs
    BY DEF TariffInv
  <2> QED BY <2>1, <2>2 DEF TariffsAreSound
<1>2. Spec => []TariffInv
  BY AlwaysRegister, TariffInit, TariffStep, AlwaysTyped, PTL DEF Spec
<1> QED BY <1>1, <1>2, AlwaysTyped, PTL

-----------------------------------------------------------------------------
\* The summary. It is right about any ledger and any table, so also about a
\* table that was read before the ledger changed.

LEMMA PresentType ==
    ASSUME NEW table \in Tariffs
    PROVE  /\ Present(table) \in SUBSET Nat /\ IsFiniteSet(Present(table))
           /\ \A m \in Present(table) : table[m] \in Tariff
<1>1. Present(table) \subseteq Minutes
  BY DEF Present, Tariffs
<1>2. IsFiniteSet(Present(table))
  BY <1>1, PricingAssumption, FS_Subset
<1> QED BY <1>1, <1>2, PricingAssumption DEF Present, Tariffs

\* The row that partition_point finds is the price in effect, and it finds none
\* exactly when there is none.
LEMMA RateIsInEffect ==
    ASSUME NEW table \in Tariffs, NEW at \in Minutes
    PROVE  LET r == RateIndex(Dated(table), at)
           IN  /\ r = 0 <=> InEffect(table, at) = None
               /\ r # 0 => /\ InEffect(table, at) \in Tariff
                           /\ Dated(table)[r].tariff = InEffect(table, at)
<1> DEFINE P == Present(table)
           k == Cardinality(P)
           r == Rank(P, at)
           begun == {m \in P : m <= at}
<1>1. P \in SUBSET Nat /\ IsFiniteSet(P) /\ at \in Nat
  BY PresentType, PricingAssumption
<1>2. r \in Nat /\ r <= k /\ k \in Nat /\ (r = 0 <=> begun = {})
  <2>1. begun \subseteq P /\ r = Cardinality(begun)
    BY DEF Rank
  <2> HIDE DEF begun, P, r
  <2> QED BY <1>1, <2>1, FS_Subset, FS_CardinalityType, FS_EmptySet
<1>3. /\ DOMAIN Dated(table) = 1 .. k
      /\ \A n \in 1 .. k : /\ Dated(table)[n].effective = Nth(P, n)
                           /\ Dated(table)[n].tariff = table[Nth(P, n)]
  BY DEF Dated
<1> HIDE DEF P, r, begun
<1>4. \A n \in 1 .. k : Nth(P, n) <= at <=> n <= r
  BY <1>1, NthIsNotAbove DEF r
<1> HIDE DEF k
<1>5. RateIndex(Dated(table), at) = r
  <2> DEFINE S == {n \in DOMAIN Dated(table) : \A m \in 1 .. n : Begun(Dated(table)[m], at)}
  <2>1. ASSUME NEW n \in 1 .. k
        PROVE  (\A m \in 1 .. n : Begun(Dated(table)[m], at)) <=> n <= r
    <3>1. \A m \in 1 .. n : m \in 1 .. k /\ (Begun(Dated(table)[m], at) <=> m <= r)
      <4>1. \A m \in 1 .. n : m \in 1 .. k
        BY <1>2
      <4> QED BY <1>3, <1>4, <4>1 DEF Begun
    <3>2. n \in 1 .. n /\ \A m \in 1 .. n : m <= n
      OBVIOUS
    <3> QED BY <1>2, <3>1, <3>2
  <2>2. S = {n \in 1 .. k : n <= r}
    BY <1>3, <2>1
  <2>3. {n \in 1 .. k : n <= r} = 1 .. r
    BY <1>2
  <2>4. Cardinality(1 .. r) = r
    BY <1>2, FS_Interval
  <2> HIDE DEF S
  <2>5. Cardinality(S) = r
    BY <2>2, <2>3, <2>4
  <2> QED BY <2>5 DEF S, RateIndex
<1>6. CASE r = 0
  <2>1. InEffect(table, at) = None
    BY <1>2, <1>6 DEF InEffect, begun, P
  <2> QED BY <1>5, <1>6, <2>1
<1>7. CASE r # 0
  <2> DEFINE p == Nth(P, r)
  <2>1. r \in 1 .. k
    BY <1>2, <1>7
  <2>2. p \in P /\ Rank(P, p) = r /\ p <= at /\ p \in Nat
    <3>1. p \in P /\ Rank(P, p) = r
      BY <1>1, <2>1, NthHasRank DEF k
    <3>2. p <= at
      BY <1>2, <1>4, <2>1
    <3> QED BY <1>1, <3>1, <3>2
  <2> HIDE DEF p
  <2>3. ASSUME NEW q \in P, q <= at
        PROVE  q <= p
    <3>1. Rank(P, q) \in 1 .. k /\ Nth(P, Rank(P, q)) = q
      BY <1>1, NthHasRank DEF k
    <3>2. Rank(P, q) <= r
      BY <1>4, <2>3, <3>1
    <3>3. Nth(P, Rank(P, q)) <= p <=> Rank(P, q) <= Rank(P, p)
      BY <1>1, <2>2, <3>1, NthIsNotAbove DEF k
    <3> QED BY <2>2, <3>1, <3>2, <3>3
  <2>4. p \in begun /\ \A q \in begun : p >= q
    BY <1>1, <2>2, <2>3 DEF begun
  <2>5. Max(begun) = p
    <3>1. ASSUME NEW x \in begun, \A y \in begun : x >= y
          PROVE  x = p
      <4>1. x \in Nat /\ p \in Nat /\ x >= p /\ p >= x
        BY <1>1, <2>2, <2>4, <3>1 DEF begun
      <4> QED BY <4>1
    <3> QED BY <2>4, <3>1 DEF Max
  <2>6. InEffect(table, at) = table[p]
    BY <2>4, <2>5 DEF InEffect, begun, P
  <2>7. Dated(table)[r].tariff = table[p]
    BY <1>3, <2>1 DEF p
  <2>8. table[p] \in Tariff /\ table[p] # None
    BY <2>2, PresentType, PricingAssumption DEF P
  <2> QED BY <1>5, <1>7, <2>6, <2>7, <2>8
<1> QED BY <1>6, <1>7

\* Rounding a cost moves it by at most half a micro unit.
LEMMA RoundIsNearest ==
    ASSUME NEW n \in Int
    PROVE  /\ Round(n) \in Int
           /\ 2 * Round(n) * Unit <= 2 * n + Unit
           /\ 2 * n < 2 * Round(n) * Unit + Unit
<1> DEFINE h == Unit \div 2
           q == (n + h) \div Unit
<1>1. Unit \in Nat \ {0}
  BY PricingAssumption
<1>2. h \in Int /\ 2 * h <= Unit /\ Unit < 2 * h + 2
  BY <1>1, DivBounds
<1> HIDE DEF h
<1>3. q \in Int /\ Unit * q <= n + h /\ n + h < Unit * q + Unit
  BY <1>1, <1>2, DivBounds
<1> HIDE DEF q
<1> DEFINE x == Unit * q
<1>4. x \in Int /\ 2 * q * Unit = 2 * x
  BY <1>1, <1>3
<1>5. x <= n + h /\ n + h < x + Unit
  BY <1>3
<1> HIDE DEF x
<1>6. 2 * x <= 2 * n + Unit /\ 2 * n < 2 * x + Unit
  BY <1>1, <1>2, <1>4, <1>5
<1>7. Round(n) = q
  BY DEF Round, q, h
<1> QED BY <1>3, <1>4, <1>6, <1>7

\* The values of the rows of a ledger.
LEMMA RowTypes ==
    ASSUME NEW l \in Ledger, NEW m \in Present(l)
    PROVE  /\ m \in Minutes /\ l[m] \in Energy /\ l[m].input \in Nat
           /\ l[m].observed \in Nat /\ l[m].inputObserved \in Nat
           /\ l[m].inputObserved <= l[m].observed
<1>1. m \in Minutes /\ l[m] \in Energy
  BY DEF Present, Ledger
<1> QED BY <1>1 DEF Energy

\* One bucket: its cost is that of the prices in effect, rounded once, and it is
\* complete exactly when all of its time has a price.
LEMMA BucketIsRight ==
    ASSUME NEW l \in Ledger, NEW table \in Tariffs, NEW M \in SUBSET Present(l)
    PROVE  LET bucket == Bucket(M, l, Dated(table))
               priced == {m \in M : InEffect(table, m) # None}
               exact == Total(priced, LAMBDA m : l[m].input * InEffect(table, m).price)
           IN  /\ bucket.cost # None =>
                      /\ 2 * bucket.cost * Unit <= 2 * exact + Unit
                      /\ 2 * exact < 2 * bucket.cost * Unit + Unit
               /\ ~bucket.incomplete <=>
                      \A m \in M : /\ InEffect(table, m) # None \/ l[m].observed = 0
                                   /\ l[m].inputObserved = l[m].observed
<1> DEFINE rows == Dated(table)
           Effective(m) == InEffect(table, m)
           priced == {m \in M : Effective(m) # None}
           cost == [m \in M |-> Cost(l[m], rows, m)]
           exact == [m \in priced |-> l[m].input * Effective(m).price]
           time == [m \in M |-> Priced(l[m], rows, m)]
           observed == [m \in M |-> l[m].observed]
           bucket == Bucket(M, l, rows)
<1>1. IsFiniteSet(M) /\ \A m \in M : m \in Minutes
  <2>1. M \subseteq Minutes
    BY RowTypes
  <2> QED BY <2>1, PricingAssumption, FS_Subset
<1>2. ASSUME NEW m \in M
      PROVE  /\ Effective(m) = None => cost[m] = 0 /\ time[m] = 0
             /\ Effective(m) # None => /\ cost[m] = l[m].input * Effective(m).price
                                       /\ cost[m] \in Nat
                                       /\ time[m] = l[m].inputObserved
  <2> DEFINE r == RateIndex(rows, m)
  <2>1. /\ r = 0 <=> Effective(m) = None
        /\ r # 0 => Effective(m) \in Tariff /\ rows[r].tariff = Effective(m)
    BY <1>1, RateIsInEffect
  <2>2. /\ cost[m] = IF r = 0 THEN 0 ELSE l[m].input * rows[r].tariff.price
        /\ time[m] = IF r = 0 THEN 0 ELSE l[m].inputObserved
    BY DEF Cost, Priced
  <2> HIDE DEF r, rows, cost, time, Effective
  <2>3. CASE r = 0
    BY <2>1, <2>2, <2>3
  <2>4. CASE r # 0
    <3>1. l[m].input \in Nat /\ Effective(m).price \in Nat
      BY <2>1, <2>4, RowTypes, PricingAssumption DEF Tariff
    <3>2. l[m].input * Effective(m).price \in Nat
      BY <3>1, ProductIsNat
    <3> QED BY <2>1, <2>2, <2>4, <3>2
  <2> QED BY <2>3, <2>4
<1>3. \A m \in M : observed[m] = l[m].observed
  OBVIOUS
<1>4. \A m \in priced : exact[m] = l[m].input * Effective(m).price
  OBVIOUS
<1>5. /\ bucket.incomplete <=> SumFunctionOnSet(time, M) < SumFunctionOnSet(observed, M)
      /\ bucket.cost # None => bucket.cost = Round(SumFunctionOnSet(cost, M))
  BY DEF Bucket, Incomplete, Total
<1>6. Total(priced, LAMBDA m : l[m].input * InEffect(table, m).price)
        = SumFunctionOnSet(exact, priced)
  BY DEF Total
<1> HIDE DEF cost, exact, time, observed, bucket, Effective, rows
<1>7. SumFunctionOnSet(cost, M) = SumFunctionOnSet(exact, priced)
  <2>1. \A m \in M : cost[m] \in Int /\ (m \notin priced => cost[m] = 0)
    BY <1>2
  <2>2. \A m \in priced : cost[m] = exact[m]
    BY <1>2, <1>4
  <2>3. priced \in SUBSET M /\ IsFiniteSet(priced)
    BY <1>1, FS_Subset
  <2> HIDE DEF priced
  <2>4. SumFunctionOnSet(cost, M) = SumFunctionOnSet(cost, priced)
    BY <1>1, <2>1, <2>3, SumOverSubset
  <2>5. SumFunctionOnSet(cost, priced) = SumFunctionOnSet(exact, priced)
    BY <2>2, <2>3, SumsOfEquals
  <2> QED BY <2>4, <2>5
<1>8. SumFunctionOnSet(cost, M) \in Int
  <2>1. \A m \in M : cost[m] \in Int
    BY <1>2
  <2> QED BY <1>1, <2>1, SumIsInt
<1>9. bucket.cost # None =>
          /\ 2 * bucket.cost * Unit <= 2 * SumFunctionOnSet(exact, priced) + Unit
          /\ 2 * SumFunctionOnSet(exact, priced) < 2 * bucket.cost * Unit + Unit
  <2> DEFINE n == SumFunctionOnSet(exact, priced)
  <2>1. n \in Int /\ (bucket.cost # None => bucket.cost = Round(n))
    BY <1>5, <1>7, <1>8
  <2> HIDE DEF n
  <2>2. 2 * Round(n) * Unit <= 2 * n + Unit /\ 2 * n < 2 * Round(n) * Unit + Unit
    BY <2>1, RoundIsNearest
  <2>3. bucket.cost # None =>
            2 * bucket.cost * Unit <= 2 * n + Unit /\ 2 * n < 2 * bucket.cost * Unit + Unit
    BY <2>1, <2>2
  <2> QED BY <2>3 DEF n
<1>10. ASSUME NEW m \in M
       PROVE  /\ time[m] \in Int /\ observed[m] \in Int /\ time[m] <= observed[m]
              /\ time[m] = observed[m] <=> /\ Effective(m) # None \/ l[m].observed = 0
                                           /\ l[m].inputObserved = l[m].observed
  <2>1. /\ l[m].observed \in Nat /\ l[m].inputObserved \in Nat
        /\ l[m].inputObserved <= l[m].observed
    BY RowTypes
  <2> QED BY <1>2, <1>3, <2>1
<1>11. ~bucket.incomplete <=> \A m \in M : time[m] = observed[m]
  <2>1. CASE \A m \in M : time[m] = observed[m]
    <3>1. SumFunctionOnSet(time, M) = SumFunctionOnSet(observed, M)
      BY <1>1, <2>1, SumsOfEquals
    <3>2. SumFunctionOnSet(observed, M) \in Int
      BY <1>1, <1>10, SumIsInt
    <3> QED BY <1>5, <2>1, <3>1, <3>2
  <2>2. ASSUME NEW m \in M, time[m] # observed[m]
        PROVE  bucket.incomplete
    <3>1. time[m] < observed[m]
      BY <1>10, <2>2
    <3>2. SumFunctionOnSet(time, M) < SumFunctionOnSet(observed, M)
      BY <1>1, <1>10, <3>1, SumsDiffer
    <3> QED BY <1>5, <3>2
  <2> QED BY <2>1, <2>2
<1> QED BY <1>6, <1>9, <1>10, <1>11 DEF Effective, bucket, rows

\* The whole answer.
LEMMA SummaryOfAny ==
    ASSUME NEW l \in Ledger, NEW table \in Tariffs, NEW range
    PROVE  LET summary == Summary(range, l, Dated(table))
           IN  /\ PricedAtRateInEffect(range, l, table, summary)
               /\ CompleteIsComplete(range, l, table, summary)
<1> DEFINE summary == Summary(range, l, Dated(table))
           Of(p) == {m \in Present(l) \cap range : PeriodOf[m] = p}
<1>1. ASSUME summary # None, NEW p \in DOMAIN summary
      PROVE  summary[p] = Bucket(Of(p), l, Dated(table)) /\ Of(p) \in SUBSET Present(l)
  BY <1>1 DEF Summary
<1> HIDE DEF summary
<1>2. PricedAtRateInEffect(range, l, table, summary)
  <2> SUFFICES ASSUME summary # None, NEW p \in DOMAIN summary, summary[p].cost # None
               PROVE  LET priced == {m \in Of(p) : InEffect(table, m) # None}
                          exact == Total(priced, LAMBDA m : l[m].input * InEffect(table, m).price)
                      IN  /\ 2 * summary[p].cost * Unit <= 2 * exact + Unit
                          /\ 2 * exact < 2 * summary[p].cost * Unit + Unit
    BY DEF PricedAtRateInEffect
  <2>1. summary[p] = Bucket(Of(p), l, Dated(table)) /\ Of(p) \in SUBSET Present(l)
    BY <1>1
  <2> HIDE DEF Of
  <2> QED BY <2>1, BucketIsRight
<1>3. CompleteIsComplete(range, l, table, summary)
  <2> SUFFICES ASSUME summary # None, NEW p \in DOMAIN summary
               PROVE  ~summary[p].incomplete <=>
                        \A m \in Of(p) : /\ InEffect(table, m) # None \/ l[m].observed = 0
                                         /\ l[m].inputObserved = l[m].observed
    BY DEF CompleteIsComplete
  <2>1. summary[p] = Bucket(Of(p), l, Dated(table)) /\ Of(p) \in SUBSET Present(l)
    BY <1>1
  <2> HIDE DEF Of
  <2> QED BY <2>1, BucketIsRight
<1> QED BY <1>2, <1>3 DEF summary

\* Whatever is set, stored and read at the same time, the cost of an answer is
\* that of its energy at the prices in effect, and a bucket is called complete
\* only when all of its time is priced (summary).
THEOREM SummariesAreRight == Spec => []SummaryIsRight
<1>1. TypeOK => SummaryIsRight
  <2> SUFFICES ASSUME TypeOK, NEW c \in Clients
               PROVE  LET range == Queried(Request(c))
                      IN  /\ PricedAtRateInEffect(range, ledger, client[c].table, Answer(c))
                          /\ CompleteIsComplete(range, ledger, client[c].table, Answer(c))
    BY DEF SummaryIsRight
  <2>1. ledger \in Ledger /\ client[c].table \in Tariffs
    BY DEF TypeOK, ClientState
  <2> QED BY <2>1, SummaryOfAny DEF Answer
<1> QED BY <1>1, SettingsTypeCorrect, PTL
=============================================================================
