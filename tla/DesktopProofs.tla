---------------------------- MODULE DesktopProofs ----------------------------
(***************************************************************************)
(* Proofs about the service of the daemon and the window beside it, for    *)
(* any number of connections and any limits: types, the accounting of      *)
(* client threads, and that an Inspect request gets its own answer.        *)
(***************************************************************************)
EXTENDS Desktop, FiniteSetTheorems, TLAPS

\* One connection, by itself: its thread serves no more than it may, a query has
\* no number, and an answer is that of the request.
Serviceable(x) ==
    /\ x \in Connection
    /\ x.thread \in {"backlog", "read", "inspect", "watch"} => x.served < MaxServed
    /\ x.request = "query" => x.id = 0
    /\ x.reply = "answer" => x.answers = x.id

Active(x) == x.thread \in {"read", "inspect", "watch", "leave"}

ServiceInv ==
    /\ TypeOK
    /\ \A c \in Connections : Serviceable(conn[c])
    /\ SlotsMatchThreads

-----------------------------------------------------------------------------
\* The states that a connection goes to.

LEMMA FreeServes == Serviceable(Free) /\ ~Active(Free)
  BY ServiceAssumption DEF Serviceable, Active, Free, Connection, Threads, Replies, Methods

LEMMA DroppedServes ==
    ASSUME ServiceInv, NEW c \in Connections
    PROVE  Serviceable(Dropped(c)) /\ ~Active(Dropped(c))
<1> DEFINE old == conn[c]
           x == [old EXCEPT !.thread = "none", !.request = None, !.served = 0,
                            !.reply = IF @ = "none" THEN "closed" ELSE @]
<1>1. Serviceable(old) /\ 0 \in 0 .. MaxServed
  BY ServiceAssumption DEF ServiceInv
<1> HIDE DEF old
<1>2. x \in Connection
  BY <1>1 DEF Serviceable, Connection, Threads, Replies
<1>3. /\ x.thread = "none" /\ x.request = None /\ x.answers = old.answers /\ x.id = old.id
      /\ x.reply = "answer" => old.reply = "answer"
  BY <1>1 DEF Serviceable, Connection
<1> HIDE DEF x
<1>4. Serviceable(x) /\ ~Active(x)
  BY <1>1, <1>2, <1>3, ServiceAssumption DEF Serviceable, Active
<1>5. Dropped(c) = Free \/ Dropped(c) = x
  BY DEF Dropped, x, old
<1> QED BY <1>4, <1>5, FreeServes

LEMMA ReplyServes ==
    ASSUME ServiceInv, NEW c \in Connections, Thread(c) \in {"read", "inspect"},
           NEW reply \in {"answer", "error"}, NEW answers \in Nat,
           reply = "answer" => answers = conn[c].id
    PROVE  Serviceable(Reply(c, reply, answers)) /\ Active(Reply(c, reply, answers))
<1> DEFINE old == conn[c]
           x == Reply(c, reply, answers)
           next == IF old.open /\ Serves(c) THEN "read" ELSE "leave"
<1>1. Serviceable(old) /\ old.served + 1 \in 0 .. MaxServed /\ next \in {"read", "leave"}
  BY ServiceAssumption DEF ServiceInv, Serviceable, Connection, Thread
<1>2. next = "read" => old.served + 1 < MaxServed
  BY DEF Serves
<1>3. x = [old EXCEPT !.reply = reply, !.answers = answers, !.request = None,
                      !.served = old.served + 1, !.thread = next]
  BY <1>1 DEF Reply, Serviceable, Connection
<1>4. reply = "answer" => answers = old.id
  OBVIOUS
<1> HIDE DEF old, x, next
<1>5. x \in Connection
  BY <1>1, <1>3 DEF Serviceable, Connection, Threads, Replies
<1>6. /\ x.thread = next /\ x.request = None /\ x.answers = answers /\ x.id = old.id
      /\ x.reply = reply /\ x.served = old.served + 1
  BY <1>1, <1>3 DEF Serviceable, Connection
<1>7. Serviceable(x) /\ Active(x)
  BY <1>1, <1>2, <1>4, <1>5, <1>6, ServiceAssumption DEF Serviceable, Active
<1> QED BY <1>7 DEF x

-----------------------------------------------------------------------------
\* One connection moves on, and the threads that are counted are the same.

LEMMA ConnectionMoves ==
    ASSUME ServiceInv, NEW c \in Connections, NEW x, Serviceable(x),
           conn' = [conn EXCEPT ![c] = x]
    PROVE  conn' \in [Connections -> Connection] /\ \A d \in Connections : Serviceable(conn'[d])
  BY DEF ServiceInv, TypeOK, Serviceable

LEMMA SlotsStay ==
    ASSUME ServiceInv, NEW c \in Connections, NEW x, Active(x) <=> Running(c),
           conn' = [conn EXCEPT ![c] = x], UNCHANGED clients
    PROVE  SlotsMatchThreads'
<1>1. {d \in Connections : Running(d)}' = {d \in Connections : Running(d)}
  BY DEF ServiceInv, TypeOK, Running, Thread, Active
<1> QED BY <1>1 DEF ServiceInv, SlotsMatchThreads

\* Both together, for a step that leaves the rest of the service alone.
LEMMA Moves ==
    ASSUME ServiceInv, NEW c \in Connections, NEW x, Serviceable(x), Active(x) <=> Running(c),
           conn' = [conn EXCEPT ![c] = x],
           UNCHANGED <<stop, main, monitor, clients, others>>,
           commands' \in Seq(Nat \X Connections), Len(commands') <= QueueSize, issued' \in Nat
    PROVE  ServiceInv'
<1>1. SlotsMatchThreads'
  BY SlotsStay
<1>2. conn' \in [Connections -> Connection] /\ \A d \in Connections : Serviceable(conn'[d])
  BY ConnectionMoves
<1> QED BY <1>1, <1>2 DEF ServiceInv, TypeOK

\* The number of threads, when one begins or ends.
LEMMA SlotTaken ==
    ASSUME ServiceInv, NEW c \in Connections, NEW x, Active(x), ~Running(c),
           conn' = [conn EXCEPT ![c] = x], clients' = clients + 1, clients < MaxClients
    PROVE  SlotsMatchThreads'
<1> DEFINE S == {d \in Connections : Running(d)}
<1>1. S' = S \cup {c} /\ c \notin S
  BY DEF ServiceInv, TypeOK, Running, Thread, Active
<1>2. IsFiniteSet(S)
  BY FS_Subset, ServiceAssumption
<1>3. clients = Cardinality(S) /\ clients \in Nat
  BY DEF ServiceInv, TypeOK, SlotsMatchThreads
<1> HIDE DEF S
<1>4. Cardinality(S') = Cardinality(S) + 1
  BY <1>1, <1>2, FS_AddElement
<1>5. clients' = Cardinality(S') /\ clients' <= MaxClients
  BY <1>3, <1>4, ServiceAssumption
<1> QED BY <1>5 DEF SlotsMatchThreads, S

LEMMA SlotGiven ==
    ASSUME ServiceInv, NEW c \in Connections, NEW x, ~Active(x), Running(c),
           conn' = [conn EXCEPT ![c] = x], clients' = clients - 1
    PROVE  SlotsMatchThreads' /\ clients' \in Nat
<1> DEFINE S == {d \in Connections : Running(d)}
<1>1. S' = S \ {c} /\ c \in S
  BY DEF ServiceInv, TypeOK, Running, Thread, Active
<1>2. IsFiniteSet(S)
  BY FS_Subset, ServiceAssumption
<1>3. clients = Cardinality(S) /\ clients \in Nat /\ clients <= MaxClients
  BY DEF ServiceInv, TypeOK, SlotsMatchThreads
<1> HIDE DEF S
<1>4. Cardinality(S') = Cardinality(S) - 1 /\ IsFiniteSet(S')
  BY <1>1, <1>2, FS_RemoveElement
<1>5. Cardinality(S') \in Nat
  BY <1>4, FS_CardinalityType
<1>6. clients' = Cardinality(S') /\ clients' <= MaxClients /\ clients' \in Nat
  BY <1>3, <1>4, <1>5, ServiceAssumption
<1> QED BY <1>6 DEF SlotsMatchThreads, S

-----------------------------------------------------------------------------
\* The steps of the service.

LEMMA RestStays ==
    ASSUME ServiceInv, UNCHANGED <<clients, conn, commands, issued, others>>,
           stop' \in BOOLEAN, main' \in {"accept", "join", "ended"}, monitor' \in {"runs", "ended"}
    PROVE  ServiceInv'
  BY DEF ServiceInv, TypeOK, SlotsMatchThreads, Running, Thread

LEMMA ConnectKeeps ==
    ASSUME ServiceInv, NEW c \in Connections, NEW request \in Methods \cup {None},
           Connect(c, request)
    PROVE  ServiceInv'
<1> DEFINE x == [Free EXCEPT !.open = TRUE, !.thread = "backlog", !.request = request,
                             !.id = Id(request)]
<1>1. Id(request) \in Nat /\ Issued(request) \in Nat /\ (request = "query" => Id(request) = 0)
  BY DEF Id, Issued, ServiceInv, TypeOK
<1>2. Serviceable(x) /\ ~Active(x)
  <2>1. x \in Connection
    BY <1>1, FreeServes DEF Serviceable, Connection, Threads
  <2>2. /\ x.thread = "backlog" /\ x.request = request /\ x.id = Id(request)
        /\ x.reply = "none" /\ x.served = 0
    BY DEF Free
  <2> QED BY <1>1, <2>1, <2>2, ServiceAssumption DEF Serviceable, Active
<1>3. conn' = [conn EXCEPT ![c] = x] /\ ~Running(c)
  BY DEF Connect, Running
<1> HIDE DEF x
<1> QED BY <1>1, <1>2, <1>3, Moves DEF Connect, ServiceInv, TypeOK

LEMMA HangUpKeeps ==
    ASSUME ServiceInv, NEW c \in Connections, HangUp(c)
    PROVE  ServiceInv'
<1>1. Serviceable(conn[c])
  BY DEF ServiceInv
<1>2. Serviceable(Closed(c)) /\ (Active(Closed(c)) <=> Running(c))
  <2>1. CASE conn[c].thread = "none"
    BY <2>1, FreeServes DEF Closed, Thread, Running
  <2>2. CASE conn[c].thread # "none"
    <3> DEFINE x == [conn[c] EXCEPT !.open = FALSE]
    <3>1. x \in Connection
      BY <1>1 DEF Serviceable, Connection
    <3>2. /\ x.thread = conn[c].thread /\ x.request = conn[c].request /\ x.id = conn[c].id
          /\ x.reply = conn[c].reply /\ x.answers = conn[c].answers /\ x.served = conn[c].served
      BY <1>1 DEF Serviceable, Connection
    <3>3. Serviceable(x) /\ (Active(x) <=> Running(c))
      BY <1>1, <3>1, <3>2 DEF Serviceable, Active, Running, Thread
    <3> QED BY <2>2, <3>3 DEF Closed, Thread
  <2> QED BY <2>1, <2>2
<1>3. conn' = [conn EXCEPT ![c] = Closed(c)]
  BY DEF HangUp
<1> QED BY <1>2, <1>3, Moves DEF HangUp, ServiceInv, TypeOK

LEMMA OtherAsksKeeps ==
    ASSUME ServiceInv, NEW c \in Connections, OtherAsks(c)
    PROVE  ServiceInv'
<1>1. PICK request \in Methods :
         /\ conn' = [conn EXCEPT ![c].request = request, ![c].reply = "none",
                                 ![c].answers = 0, ![c].id = Id(request)]
         /\ issued' = Issued(request)
  BY DEF OtherAsks
<1> DEFINE x == [conn[c] EXCEPT !.request = request, !.reply = "none", !.answers = 0,
                                !.id = Id(request)]
<1>2. Serviceable(conn[c])
  BY DEF ServiceInv
<1>3. Id(request) \in Nat /\ Issued(request) \in Nat /\ (request = "query" => Id(request) = 0)
  BY DEF Id, Issued, ServiceInv, TypeOK
<1>4. x \in Connection
  BY <1>2, <1>3 DEF Serviceable, Connection, Replies
<1>5. /\ x.thread = conn[c].thread /\ x.served = conn[c].served
      /\ x.request = request /\ x.id = Id(request) /\ x.reply = "none"
  BY <1>2 DEF Serviceable, Connection
<1>6. Serviceable(x) /\ (Active(x) <=> Running(c))
  BY <1>2, <1>3, <1>4, <1>5 DEF Serviceable, Active, Running, Thread
<1>7. conn' = [conn EXCEPT ![c] = x]
  BY <1>1 DEF ServiceInv, TypeOK
<1> HIDE DEF x
<1> QED BY <1>1, <1>3, <1>6, <1>7, Moves DEF OtherAsks, ServiceInv, TypeOK

LEMMA AcceptKeeps ==
    ASSUME ServiceInv, NEW c \in Connections, Accept(c)
    PROVE  ServiceInv'
<1> DEFINE x == [conn[c] EXCEPT !.thread = "read"]
<1>1. Serviceable(conn[c]) /\ conn[c].thread = "backlog" /\ ~Running(c)
  BY DEF ServiceInv, Accept, Thread, Running
<1>2. CASE clients >= MaxClients
  <2>1. conn' = [conn EXCEPT ![c] = Dropped(c)] /\ UNCHANGED clients
    BY <1>2 DEF Accept
  <2> QED BY <1>1, <2>1, DroppedServes, Moves DEF Accept, ServiceInv, TypeOK
<1>3. CASE ~(clients >= MaxClients)
  <2>1. conn' = [conn EXCEPT ![c] = x] /\ clients' = clients + 1
    BY <1>3 DEF Accept, ServiceInv, TypeOK
  <2>2. clients \in Nat /\ clients < MaxClients
    BY <1>3, ServiceAssumption DEF ServiceInv, TypeOK
  <2>3. Serviceable(x) /\ Active(x)
    BY <1>1 DEF Serviceable, Active, Connection, Threads
  <2> HIDE DEF x
  <2>4. SlotsMatchThreads'
    BY <1>1, <2>1, <2>2, <2>3, SlotTaken
  <2>5. conn' \in [Connections -> Connection] /\ \A d \in Connections : Serviceable(conn'[d])
    BY <2>1, <2>3, ConnectionMoves
  <2> QED BY <2>1, <2>2, <2>4, <2>5 DEF Accept, ServiceInv, TypeOK
<1> QED BY <1>2, <1>3

\* A step that only moves the thread of a connection among those counted, and may
\* take its request.
LEMMA ThreadMoves ==
    ASSUME ServiceInv, NEW c \in Connections, NEW thread \in {"inspect", "watch", "leave"},
           NEW request \in {None, conn[c].request}, Thread(c) \in {"read", "watch"},
           conn' = [conn EXCEPT ![c] = [conn[c] EXCEPT !.thread = thread, !.request = request]],
           UNCHANGED <<stop, main, monitor, clients, others>>,
           commands' \in Seq(Nat \X Connections), Len(commands') <= QueueSize, issued' \in Nat
    PROVE  ServiceInv'
<1> DEFINE x == [conn[c] EXCEPT !.thread = thread, !.request = request]
<1>1. Serviceable(conn[c]) /\ Running(c) /\ conn[c].served < MaxServed
  BY DEF ServiceInv, Thread, Running, Serviceable
<1>2. x \in Connection
  BY <1>1 DEF Serviceable, Connection, Threads
<1>3. /\ x.thread = thread /\ x.request = request /\ x.served = conn[c].served
      /\ x.id = conn[c].id /\ x.reply = conn[c].reply /\ x.answers = conn[c].answers
  BY <1>1 DEF Serviceable, Connection
<1>4. Serviceable(x) /\ Active(x)
  BY <1>1, <1>2, <1>3, ServiceAssumption DEF Serviceable, Active
<1>5. conn' = [conn EXCEPT ![c] = x]
  OBVIOUS
<1> HIDE DEF x
<1> QED BY <1>1, <1>4, <1>5, Moves

LEMMA ReadFrameKeeps ==
    ASSUME ServiceInv, NEW c \in Connections, ReadFrame(c)
    PROVE  ServiceInv'
<1>1. Serviceable(conn[c]) /\ Thread(c) = "read" /\ Running(c) /\ conn \in [Connections -> Connection]
  BY DEF ServiceInv, TypeOK, ReadFrame, Running
<1>2. conn[c].id \in Nat
  BY <1>1 DEF Connection
<1>3. CASE /\ conn' = [conn EXCEPT ![c] = Reply(c, "answer", 0)] /\ conn[c].request = "query"
           /\ UNCHANGED commands
  <2>1. Serviceable(Reply(c, "answer", 0)) /\ Active(Reply(c, "answer", 0))
    BY <1>1, <1>3, ReplyServes DEF Serviceable
  <2> QED BY <1>1, <1>3, <2>1, Moves DEF ReadFrame, ServiceInv, TypeOK
<1>4. CASE /\ conn' = [conn EXCEPT ![c].thread = "watch", ![c].request = None]
           /\ UNCHANGED commands
  <2>1. conn' = [conn EXCEPT ![c] = [conn[c] EXCEPT !.thread = "watch", !.request = None]]
    BY <1>1, <1>4
  <2> QED BY <1>1, <1>4, <2>1, ThreadMoves DEF ReadFrame, ServiceInv, TypeOK
<1>5. CASE /\ HasRoom /\ commands' = Append(commands, <<conn[c].id, c>>)
           /\ conn' = [conn EXCEPT ![c].thread = "inspect", ![c].request = None]
  <2>1. conn' = [conn EXCEPT ![c] = [conn[c] EXCEPT !.thread = "inspect", !.request = None]]
    BY <1>1, <1>5
  <2>2. commands' \in Seq(Nat \X Connections) /\ Len(commands') <= QueueSize
    BY <1>2, <1>5, ServiceAssumption DEF HasRoom, ServiceInv, TypeOK
  <2> QED BY <1>1, <2>1, <2>2, ThreadMoves DEF ReadFrame, ServiceInv, TypeOK
<1>6. CASE conn' = [conn EXCEPT ![c] = Reply(c, "error", 0)] /\ UNCHANGED commands
  <2>1. Serviceable(Reply(c, "error", 0)) /\ Active(Reply(c, "error", 0))
    BY <1>1, ReplyServes
  <2> QED BY <1>1, <1>6, <2>1, Moves DEF ReadFrame, ServiceInv, TypeOK
<1> QED BY <1>3, <1>4, <1>5, <1>6 DEF ReadFrame

LEMMA ThreadEndsKeeps ==
    ASSUME ServiceInv, NEW c \in Connections, ReadEnds(c) \/ WatchEnds(c)
    PROVE  ServiceInv'
<1>1. conn' = [conn EXCEPT ![c] = [conn[c] EXCEPT !.thread = "leave", !.request = conn[c].request]]
  BY DEF ReadEnds, WatchEnds, ServiceInv, TypeOK, Connection
<1>2. Thread(c) \in {"read", "watch"}
  BY DEF ReadEnds, WatchEnds
<1>3. UNCHANGED <<stop, main, monitor, clients, others, commands, issued>>
  BY DEF ReadEnds, WatchEnds
<1> QED BY <1>1, <1>2, <1>3, ThreadMoves DEF ServiceInv, TypeOK

LEMMA InspectEndsKeeps ==
    ASSUME ServiceInv, NEW c \in Connections, InspectEnds(c)
    PROVE  ServiceInv'
<1>1. Serviceable(Reply(c, "error", 0)) /\ Active(Reply(c, "error", 0)) /\ Running(c)
  BY ReplyServes DEF InspectEnds, Running
<1> QED BY <1>1, Moves DEF InspectEnds, ServiceInv, TypeOK

LEMMA LeaveKeeps ==
    ASSUME ServiceInv, NEW c \in Connections, Leave(c)
    PROVE  ServiceInv'
<1>1. Serviceable(Dropped(c)) /\ ~Active(Dropped(c))
  BY DroppedServes
<1>2. /\ Running(c) /\ conn' = [conn EXCEPT ![c] = Dropped(c)] /\ clients' = clients - 1
  BY DEF Leave, Uncounted, Running
<1>3. SlotsMatchThreads' /\ clients' \in Nat
  BY <1>1, <1>2, SlotGiven
<1>4. conn' \in [Connections -> Connection] /\ \A d \in Connections : Serviceable(conn'[d])
  BY <1>1, <1>2, ConnectionMoves
<1> QED BY <1>3, <1>4 DEF Leave, ServiceInv, TypeOK

LEMMA ExitKeeps ==
    ASSUME ServiceInv, Exit
    PROVE  ServiceInv'
<1>1. conn' \in [Connections -> Connection] /\ \A d \in Connections : Serviceable(conn'[d])
  BY DroppedServes DEF Exit, Serviceable
<1>2. {c \in Connections : Running(c)}' = {}
  BY DroppedServes DEF Exit, Running, Thread, Active
<1>3. clients' = 0 /\ 0 <= MaxClients
  BY ServiceAssumption DEF Exit
<1>4. SlotsMatchThreads'
  BY <1>2, <1>3, FS_EmptySet DEF SlotsMatchThreads
<1>5. commands' \in Seq(Nat \X Connections) /\ Len(commands') <= QueueSize
  BY ServiceAssumption DEF Exit
<1> QED BY <1>1, <1>3, <1>4, <1>5 DEF Exit, ServiceInv, TypeOK

LEMMA InspectKeeps ==
    ASSUME ServiceInv, Inspect
    PROVE  ServiceInv'
<1> DEFINE command == Head(commands)
           c == command[2]
<1>1. command \in Nat \X Connections /\ Tail(commands) \in Seq(Nat \X Connections)
         /\ Len(Tail(commands)) <= QueueSize
  BY ServiceAssumption DEF Inspect, ServiceInv, TypeOK
<1>2. c \in Connections /\ command[1] \in Nat
  BY <1>1
<1>3. CASE Listens(command)
  <2>1. Thread(c) = "inspect" /\ conn[c].id = command[1]
    BY <1>3 DEF Listens
  <2>2. conn' = [conn EXCEPT ![c] = Reply(c, "answer", command[1])] /\ commands' = Tail(commands)
    BY <1>3 DEF Inspect
  <2> HIDE DEF command, c
  <2>3. /\ Serviceable(Reply(c, "answer", command[1])) /\ Active(Reply(c, "answer", command[1]))
        /\ Running(c)
    BY <1>2, <2>1, ReplyServes DEF Running
  <2> QED BY <1>1, <1>2, <2>2, <2>3, Moves DEF Inspect, ServiceInv, TypeOK
<1>4. CASE ~Listens(command)
  <2>1. conn' = conn /\ commands' = Tail(commands)
    BY <1>4 DEF Inspect
  <2> QED BY <1>1, <2>1 DEF Inspect, ServiceInv, TypeOK, SlotsMatchThreads, Running, Thread
<1> QED BY <1>3, <1>4

LEMMA ServeKeeps ==
    ASSUME ServiceInv, NEW c \in Connections, Serve(c) \/ OtherClient(c)
    PROVE  ServiceInv'
<1>1. CASE Serve(c)
  BY <1>1, AcceptKeeps, ReadFrameKeeps, ThreadEndsKeeps, InspectEndsKeeps, LeaveKeeps DEF Serve
<1>2. CASE OtherConnects(c)
  <2>1. PICK request \in Methods \cup {None} : Connect(c, request)
    BY <1>2 DEF OtherConnects
  <2> QED BY <2>1, ConnectKeeps
<1> QED BY <1>1, <1>2, OtherAsksKeeps, HangUpKeeps DEF OtherClient

LEMMA DaemonKeeps ==
    ASSUME ServiceInv, Daemon
    PROVE  ServiceInv'
<1>1. CASE Stop \/ SeeStop \/ MonitorEnds
  BY <1>1, RestStays DEF Stop, SeeStop, MonitorEnds, ServiceInv, TypeOK
<1> QED BY <1>1, ExitKeeps, InspectKeeps DEF Daemon, Join, AcceptFails

-----------------------------------------------------------------------------
\* The window.

WindowTypeOK ==
    /\ window \in {"open", "closing", "joining", "closed"}
    /\ timer \in BOOLEAN /\ running \in BOOLEAN
    /\ actions \in Seq(Job) /\ Len(actions) <= ActionQueue
    /\ updates \in Seq(Job) /\ Len(updates) <= UpdateQueue
    /\ worker \in Worker
    /\ worker.pc = "call" => worker.call \in Connections
    /\ pressed \in 0 .. MaxPresses
    /\ applied \subseteq 1 .. MaxPresses

Inv == ServiceInv /\ WindowTypeOK

LEMMA InvImplies == Inv => DesktopTypeOK /\ SlotsMatchThreads /\ InspectAnswersItsRequest
  BY DEF Inv, ServiceInv, WindowTypeOK, DesktopTypeOK, InspectAnswersItsRequest, Serviceable

LEMMA EmptyQueues ==
    /\ <<>> \in Seq(Job) /\ Len(<<>>) <= UpdateQueue /\ Len(<<>>) <= ActionQueue
    /\ <<>> \in Seq(Nat \X Connections) /\ Len(<<>>) <= QueueSize
<1>1. UpdateQueue \in Nat /\ ActionQueue \in Nat /\ QueueSize \in Nat
  BY DesktopAssumption, ServiceAssumption
<1> QED BY <1>1

LEMMA PeriodicType == \A kind \in Kinds : Periodic(kind) \in Job
  BY DesktopAssumption DEF Periodic, Job

LEMMA ExtrasType == Extras \in Seq(Kinds) /\ <<>> \in Seq(Kinds)
<1>1. {"energy", "tariffs", "incidents"} \subseteq Kinds
  BY DEF Kinds
<1> QED BY <1>1, DesktopAssumption

LEMMA FollowedType ==
    ASSUME WindowTypeOK, worker.pc # "take"
    PROVE  Followed \in Worker /\ Followed.pc # "call"
<1> DEFINE pc == IF worker.pc # "take" /\ worker.job.action # 0 THEN "loop"
                 ELSE IF worker.todo = <<>> THEN "take" ELSE "ask"
           job == IF worker.todo = <<>> THEN Periodic("snapshot") ELSE Periodic(Head(worker.todo))
           todo == IF worker.todo = <<>> THEN worker.todo ELSE Tail(worker.todo)
<1>1. worker \in Worker /\ worker.todo \in Seq(Kinds)
  BY DEF WindowTypeOK, Worker
<1>2. "snapshot" \in Kinds /\ (worker.todo # <<>> => Head(worker.todo) \in Kinds)
  BY <1>1 DEF Kinds
<1>3. job \in Job
  BY <1>2, PeriodicType
<1>4. todo \in Seq(Kinds)
  BY <1>1
<1>5. pc \in {"loop", "take", "ask"}
  OBVIOUS
<1>6. Followed = [worker EXCEPT !.pc = pc, !.job = job, !.todo = todo,
                                !.second = FALSE, !.call = None]
  BY DEF Followed
<1> HIDE DEF pc, job, todo
<1> QED BY <1>1, <1>3, <1>4, <1>5, <1>6 DEF Worker

LEMMA WorkerGoes ==
    ASSUME WindowTypeOK, NEW pc \in {"loop", "ask", "deliver", "take", "ended"}, Goto(pc)
    PROVE  worker' \in Worker /\ worker'.pc # "call"
  BY DEF WindowTypeOK, Worker, Goto

-----------------------------------------------------------------------------
\* The steps of the window and of its worker.

LEMMA PressKeeps ==
    ASSUME Inv, Press
    PROVE  Inv'
<1>1. PICK kind \in {"inspect", "acknowledge", "other"} :
         actions' = Append(actions, [kind |-> kind, action |-> pressed + 1])
  BY DEF Press
<1>2. pressed + 1 \in 0 .. MaxPresses
  BY DesktopAssumption DEF Press, Inv, WindowTypeOK
<1>3. [kind |-> kind, action |-> pressed + 1] \in Job
  BY <1>2 DEF Job, Kinds
<1>4. actions' \in Seq(Job) /\ Len(actions') <= ActionQueue
  BY <1>1, <1>3, DesktopAssumption DEF Press, Inv, WindowTypeOK
<1>5. WindowTypeOK'
  BY <1>2, <1>4 DEF Press, Inv, WindowTypeOK
<1>6. ServiceInv'
  BY RestStays DEF Press, Inv, ServiceInv, TypeOK, service
<1> QED BY <1>5, <1>6 DEF Inv

LEMMA TimerKeeps ==
    ASSUME Inv, TimerFires
    PROVE  Inv'
<1> DEFINE n == Least(Batch, Len(updates))
<1>1. updates \in Seq(Job) /\ Len(updates) <= UpdateQueue /\ Batch \in Nat /\ UpdateQueue \in Nat
  BY DesktopAssumption DEF Inv, WindowTypeOK
<1>2. n \in 0 .. Len(updates)
  BY <1>1 DEF Least
<1>3. /\ updates' = SubSeq(updates, n + 1, Len(updates))
      /\ applied' = applied \cup ({updates[i].action : i \in 1 .. n} \ {0})
  BY DEF TimerFires
<1> HIDE DEF n
<1>4. updates' \in Seq(Job) /\ Len(updates') <= UpdateQueue
  BY <1>1, <1>2, <1>3
<1>5. \A i \in 1 .. n : updates[i] \in Job
  BY <1>1, <1>2
<1>6. \A i \in 1 .. n : updates[i].action \in 0 .. MaxPresses
  BY <1>5 DEF Job
<1>7. applied' \subseteq 1 .. MaxPresses
  <2> DEFINE shown == {updates[i].action : i \in 1 .. n} \ {0}
  <2>1. MaxPresses \in Nat /\ applied \subseteq 1 .. MaxPresses
    BY DesktopAssumption DEF Inv, WindowTypeOK
  <2>2. shown \subseteq 1 .. MaxPresses
    BY <1>6, <2>1
  <2>3. applied' = applied \cup shown
    BY <1>3
  <2> HIDE DEF shown
  <2> QED BY <2>1, <2>2, <2>3
<1>8. WindowTypeOK'
  BY <1>4, <1>7 DEF TimerFires, Inv, WindowTypeOK
<1>9. ServiceInv'
  BY RestStays DEF TimerFires, Inv, ServiceInv, TypeOK, service
<1> QED BY <1>8, <1>9 DEF Inv

LEMMA CloseKeeps ==
    ASSUME Inv, Close \/ DropTimer \/ JoinWorker
    PROVE  Inv'
<1>1. updates' \in Seq(Job) /\ Len(updates') <= UpdateQueue
  BY EmptyQueues DEF Close, DropTimer, JoinWorker, Inv, WindowTypeOK
<1>3. WindowTypeOK'
  BY <1>1 DEF Close, DropTimer, JoinWorker, Inv, WindowTypeOK
<1>2. ServiceInv'
  BY RestStays DEF Close, DropTimer, JoinWorker, Inv, ServiceInv, TypeOK, service
<1> QED BY <1>2, <1>3 DEF Inv

LEMMA LoopKeeps ==
    ASSUME Inv, Loop
    PROVE  Inv'
<1>1. worker' \in Worker /\ worker'.pc # "call"
  <2>1. CASE Goto("ended") \/ Goto("take")
    BY <2>1, WorkerGoes DEF Inv
  <2>2. CASE \E todo \in {<<>>, Extras} :
                worker' = [worker EXCEPT !.pc = "ask", !.todo = todo, !.job = Periodic("snapshot")]
    <3>1. PICK todo \in Seq(Kinds) :
             worker' = [worker EXCEPT !.pc = "ask", !.todo = todo, !.job = Periodic("snapshot")]
      BY <2>2, ExtrasType
    <3>2. Periodic("snapshot") \in Job
      BY PeriodicType DEF Kinds
    <3> QED BY <3>1, <3>2 DEF Inv, WindowTypeOK, Worker
  <2> QED BY <2>1, <2>2 DEF Loop
<1>2. WindowTypeOK'
  BY <1>1 DEF Loop, Inv, WindowTypeOK
<1>3. ServiceInv'
  BY RestStays DEF Loop, Inv, ServiceInv, TypeOK, service
<1> QED BY <1>2, <1>3 DEF Inv

LEMMA AskKeeps ==
    ASSUME Inv, Ask
    PROVE  Inv'
<1>1. CASE \E c \in Connections \ others :
              /\ Connect(c, Method(worker.job.kind))
              /\ worker' = [worker EXCEPT !.pc = "call", !.call = c]
  <2>1. PICK c \in Connections :
           /\ Connect(c, Method(worker.job.kind))
           /\ worker' = [worker EXCEPT !.pc = "call", !.call = c]
    BY <1>1
  <2>2. Method(worker.job.kind) \in Methods \cup {None}
    BY DEF Method, Methods
  <2>3. ServiceInv'
    BY <2>1, <2>2, ConnectKeeps DEF Inv
  <2>4. worker' \in Worker /\ worker'.call = c
    BY <2>1 DEF Inv, WindowTypeOK, Worker
  <2> QED BY <2>3, <2>4 DEF Ask, Inv, WindowTypeOK
<1>2. CASE Goto("deliver") /\ UNCHANGED service
  <2>1. worker' \in Worker /\ worker'.pc # "call"
    BY <1>2, WorkerGoes DEF Inv
  <2>2. WindowTypeOK'
    BY <2>1 DEF Ask, Inv, WindowTypeOK
  <2>3. ServiceInv'
    BY <1>2, RestStays DEF Inv, ServiceInv, TypeOK, service
  <2> QED BY <2>2, <2>3 DEF Inv
<1> QED BY <1>1, <1>2 DEF Ask

LEMMA HearKeeps ==
    ASSUME Inv, Hear
    PROVE  Inv'
<1>1. worker.pc = "call" /\ worker.call \in Connections /\ HangUp(worker.call)
  BY DEF Hear, At, Inv, WindowTypeOK
<1>2. worker' \in Worker /\ worker'.pc # "call"
  <2>1. Followed \in Worker /\ Followed.pc # "call"
    BY <1>1, FollowedType DEF Inv
  <2>2. CASE worker' = [worker EXCEPT !.pc = "ask", !.second = TRUE, !.call = None]
    BY <2>2 DEF Inv, WindowTypeOK, Worker
  <2>3. CASE worker' = [worker EXCEPT !.pc = "deliver", !.call = None]
    BY <2>3 DEF Inv, WindowTypeOK, Worker
  <2> QED BY <2>1, <2>2, <2>3 DEF Hear
<1>3. WindowTypeOK'
  BY <1>2 DEF Hear, Inv, WindowTypeOK
<1>4. ServiceInv'
  BY <1>1, HangUpKeeps DEF Inv
<1> QED BY <1>3, <1>4 DEF Inv

LEMMA DeliverKeeps ==
    ASSUME Inv, Deliver
    PROVE  Inv'
<1>1. worker' \in Worker /\ worker'.pc # "call"
  BY FollowedType DEF Deliver, At, Inv
<1>2. worker.job \in Job
  BY DEF Inv, WindowTypeOK, Worker
<1>3. updates' \in Seq(Job) /\ Len(updates') <= UpdateQueue
  BY <1>2, DesktopAssumption DEF Deliver, Inv, WindowTypeOK
<1>4. WindowTypeOK'
  BY <1>1, <1>3 DEF Deliver, Inv, WindowTypeOK
<1>5. ServiceInv'
  BY RestStays DEF Deliver, Inv, ServiceInv, TypeOK, service
<1> QED BY <1>4, <1>5 DEF Inv

LEMMA TakeKeeps ==
    ASSUME Inv, Take
    PROVE  Inv'
<1>1. ServiceInv'
  BY RestStays DEF Take, Inv, ServiceInv, TypeOK, service
<1>2. CASE actions = <<>>
  <2>1. worker' \in Worker /\ worker'.pc # "call"
    BY <1>2, WorkerGoes DEF Take, Inv
  <2> QED BY <1>1, <1>2, <2>1 DEF Take, Inv, WindowTypeOK
<1>3. CASE actions # <<>>
  <2>1. /\ Head(actions) \in Job /\ Tail(actions) \in Seq(Job)
        /\ Len(Tail(actions)) <= ActionQueue
    BY <1>3, DesktopAssumption DEF Inv, WindowTypeOK
  <2>2. worker' = [worker EXCEPT !.pc = "ask", !.job = Head(actions)] /\ actions' = Tail(actions)
    BY <1>3 DEF Take
  <2>3. worker' \in Worker /\ worker'.pc = "ask"
    BY <2>1, <2>2 DEF Inv, WindowTypeOK, Worker
  <2> QED BY <1>1, <2>1, <2>2, <2>3 DEF Take, Inv, WindowTypeOK
<1> QED BY <1>2, <1>3

-----------------------------------------------------------------------------
LEMMA InvInit == Init => Inv
<1> SUFFICES ASSUME Init PROVE Inv
  OBVIOUS
<1>1. \A c \in Connections : conn[c] = Free
  BY DEF Init, ServiceInit
<1>2. conn \in [Connections -> Connection] /\ \A c \in Connections : Serviceable(conn[c])
  BY <1>1, FreeServes DEF Init, ServiceInit, Serviceable
<1>3. {c \in Connections : Running(c)} = {}
  BY <1>1, FreeServes DEF Running, Thread, Active
<1>4. SlotsMatchThreads
  <2>1. clients = 0 /\ MaxClients \in Nat
    BY ServiceAssumption DEF Init, ServiceInit
  <2> QED BY <1>3, <2>1, FS_EmptySet DEF SlotsMatchThreads
<1>5. ServiceInv
  <2>1. commands \in Seq(Nat \X Connections) /\ Len(commands) <= QueueSize
    BY EmptyQueues DEF Init, ServiceInit
  <2> QED BY <1>2, <1>4, <2>1 DEF Init, ServiceInit, ServiceInv, TypeOK
<1>6. Periodic("snapshot") \in Job
  BY PeriodicType DEF Kinds
<1>7. worker \in Worker /\ worker.pc # "call"
  BY <1>6, ExtrasType DEF Init, Worker
<1>8. /\ actions \in Seq(Job) /\ Len(actions) <= ActionQueue
      /\ updates \in Seq(Job) /\ Len(updates) <= UpdateQueue
  BY EmptyQueues DEF Init
<1>9. WindowTypeOK
  BY <1>7, <1>8, DesktopAssumption DEF Init, WindowTypeOK
<1> QED BY <1>5, <1>9 DEF Inv

LEMMA InvStep == Inv /\ [Next]_vars => Inv'
<1> SUFFICES ASSUME Inv, [Next]_vars PROVE Inv'
  OBVIOUS
<1>1. CASE UNCHANGED desktop /\ (Daemon \/ \E c \in Connections : Serve(c) \/ OtherClient(c))
  <2>1. ServiceInv'
    BY <1>1, ServeKeeps, DaemonKeeps DEF Inv
  <2> QED BY <1>1, <2>1 DEF Inv, WindowTypeOK, desktop
<1>2. CASE Work
  BY <1>2, LoopKeeps, AskKeeps, HearKeeps, DeliverKeeps, TakeKeeps DEF Work
<1>3. CASE UNCHANGED vars
  <2>1. ServiceInv'
    BY <1>3, RestStays DEF Inv, ServiceInv, TypeOK, vars, service
  <2> QED BY <1>3, <2>1 DEF Inv, WindowTypeOK, vars, desktop
<1> QED BY <1>1, <1>2, <1>3, PressKeeps, TimerKeeps, CloseKeeps DEF Next

LEMMA InvHolds == Spec => []Inv
  BY InvInit, InvStep, PTL DEF Spec

\* The service and the window keep their types, and every queue its bound, for
\* any number of clients (main's and the window's queues).
THEOREM DesktopTypeCorrect == Spec => []DesktopTypeOK
  BY InvHolds, InvImplies, PTL

\* However client threads end, the counter that admits clients is the number of
\* their threads, and never above the limit (main's accept loop).
THEOREM SlotsAreCounted == Spec => []SlotsMatchThreads
  BY InvHolds, InvImplies, PTL

\* A late answer of the monitor never reaches a later request of its connection
\* (Inspect, a channel for each request).
THEOREM InspectIsAnsweredTruly == Spec => []InspectAnswersItsRequest
  BY InvHolds, InvImplies, PTL

=============================================================================
