------------------------------- MODULE Service -------------------------------
(***************************************************************************)
(* The daemon's service of its clients (src/src/bin/daemon.rs,             *)
(* src/src/ipc.rs): the main thread accepts connections up to a limit and  *)
(* gives each a thread of its own, which answers requests, streams for     *)
(* Watch, or hands Inspect to the monitor thread and waits for its answer  *)
(* with a deadline. Requests that only read or write the database and the  *)
(* snapshot are one kind, "query". Deadlines may pass at any moment.       *)
(***************************************************************************)
EXTENDS Naturals, Sequences, FiniteSets

CONSTANTS
    Connections,
    None,
    MaxClients,     \* the limit of client threads (32)
    QueueSize,      \* capacity of the queue of commands (4)
    MaxServed,      \* requests served on one connection (256)
    OtherClients,      \* bound: the sets of connections that other clients use
    MaxInspects     \* bound: Inspect requests of the other clients

ASSUME ServiceAssumption ==
    /\ IsFiniteSet(Connections)
    /\ None \notin {"query", "watch", "inspect"}
    /\ {MaxClients, QueueSize, MaxServed} \subseteq Nat \ {0} /\ MaxInspects \in Nat

VARIABLES
    stop,       \* STOP
    main,       \* the main thread: "accept", "join", or "ended" with the process
    monitor,    \* the monitor thread: "runs" or "ended"
    clients,    \* the counter of client threads
    conn,       \* connections, both ends
    commands,   \* the queue of Inspect commands, by their request
    issued,     \* Inspect requests so far
    others     \* the connections that other clients use

service == <<stop, main, monitor, clients, conn, commands, issued, others>>

\* Both ends of a connection: whether its client is there; where its thread is,
\* if it has one; the request written and not yet read; the number of an Inspect
\* request, 0 for others; the reply that was written and the number it answers; and
\* the requests served.
Methods == {"query", "watch", "inspect"}
Threads == {"none", "backlog", "read", "inspect", "watch", "leave"}
Replies == {"none", "answer", "error", "closed"}
Connection == [open : BOOLEAN, thread : Threads, request : Methods \cup {None},
               id : Nat, reply : Replies, answers : Nat, served : 0 .. MaxServed]
Free == [open |-> FALSE, thread |-> "none", request |-> None, id |-> 0, reply |-> "none",
         answers |-> 0, served |-> 0]

TypeOK ==
    /\ stop \in BOOLEAN
    /\ main \in {"accept", "join", "ended"}
    /\ monitor \in {"runs", "ended"}
    /\ clients \in Nat
    /\ conn \in [Connections -> Connection]
    /\ commands \in Seq(Nat \X Connections) /\ Len(commands) <= QueueSize
    /\ issued \in Nat
    /\ others \in OtherClients

ServiceInit ==
    /\ stop = FALSE /\ main = "accept" /\ monitor = "runs"
    /\ clients = 0
    /\ conn = [c \in Connections |-> Free]
    /\ commands = <<>> /\ issued = 0
    /\ others \in OtherClients

Thread(c) == conn[c].thread
Running(c) == Thread(c) \in {"read", "inspect", "watch", "leave"}

-----------------------------------------------------------------------------
\* Clients

\* Inspect requests are numbered.
Id(request) == IF request = "inspect" THEN issued + 1 ELSE 0
Issued(request) == IF request = "inspect" THEN issued + 1 ELSE issued

\* The client connects, and may write a request at once.
Connect(c, request) ==
    /\ main # "ended" /\ Thread(c) = "none" /\ ~conn[c].open
    /\ conn' = [conn EXCEPT ![c] = [Free EXCEPT !.open = TRUE, !.thread = "backlog",
                                    !.request = request, !.id = Id(request)]]
    /\ issued' = Issued(request)
    /\ UNCHANGED <<stop, main, monitor, clients, commands, others>>

\* The client closes its end.
Closed(c) == IF Thread(c) = "none" THEN Free ELSE [conn[c] EXCEPT !.open = FALSE]
HangUp(c) ==
    /\ conn[c].open
    /\ conn' = [conn EXCEPT ![c] = Closed(c)]
    /\ UNCHANGED <<stop, main, monitor, clients, commands, issued, others>>

May(request) == request = "inspect" => issued < MaxInspects
OtherConnects(c) ==
    c \in others /\ \E request \in {r \in Methods : May(r)} \cup {None} : Connect(c, request)

OtherAsks(c) ==
    /\ c \in others /\ conn[c].open
    /\ Thread(c) = "read" /\ conn[c].request = None
    /\ \E request \in {r \in Methods : May(r)} :
          /\ conn' = [conn EXCEPT ![c].request = request, ![c].reply = "none", ![c].answers = 0,
                                 ![c].id = Id(request)]
          /\ issued' = Issued(request)
    /\ UNCHANGED <<stop, main, monitor, clients, commands, others>>

-----------------------------------------------------------------------------
\* The main thread

\* The server drops its end; a client that is still there can read the reply that
\* was written, or finds the connection closed.
Dropped(c) ==
    IF ~conn[c].open THEN Free
    ELSE [conn[c] EXCEPT !.thread = "none", !.request = None, !.served = 0,
                         !.reply = IF @ = "none" THEN "closed" ELSE @]

Accept(c) ==
    /\ main = "accept" /\ Thread(c) = "backlog"
    /\ IF clients >= MaxClients
       THEN /\ conn' = [conn EXCEPT ![c] = Dropped(c)]
            /\ UNCHANGED clients
       ELSE /\ conn' = [conn EXCEPT ![c].thread = "read"]
            /\ clients' = clients + 1
    /\ UNCHANGED <<stop, main, monitor, commands, issued, others>>

\* A signal, or the end of --run-for.
Stop ==
    /\ main = "accept" /\ ~stop
    /\ stop' = TRUE
    /\ UNCHANGED <<main, monitor, clients, conn, commands, issued, others>>

SeeStop ==
    /\ main = "accept" /\ stop
    /\ main' = "join"
    /\ UNCHANGED <<stop, monitor, clients, conn, commands, issued, others>>

\* The process ends with all its threads.
Exit ==
    /\ main' = "ended" /\ monitor' = "ended"
    /\ conn' = [c \in Connections |-> Dropped(c)]
    /\ clients' = 0 /\ commands' = <<>>
    /\ UNCHANGED <<stop, issued, others>>
Join == main = "join" /\ monitor = "ended" /\ Exit
AcceptFails == main = "accept" /\ Exit

-----------------------------------------------------------------------------
\* The thread of a connection (serve_client)

\* One request more is served on the connection, of the 256.
ServesOneMore(c) == conn[c].served < MaxServed
Serves(c) == conn[c].served + 1 < MaxServed

\* The reply is written, if the client is there to read it, and the next request
\* awaited, if there may be one.
Reply(c, reply, answers) ==
    [conn[c] EXCEPT !.reply = reply, !.answers = answers, !.request = None, !.served = @ + 1,
                    !.thread = IF conn[c].open /\ Serves(c)
                               THEN "read" ELSE "leave"]

HasRoom == monitor = "runs" /\ Len(commands) < QueueSize

ReadFrame(c) ==
    /\ Thread(c) = "read"
    /\ \/ /\ conn[c].request = "query"
          /\ conn' = [conn EXCEPT ![c] = Reply(c, "answer", 0)]
          /\ UNCHANGED commands
       \/ /\ conn[c].request = "watch"
          /\ conn' = [conn EXCEPT ![c].thread = "watch", ![c].request = None]
          /\ UNCHANGED commands
       \/ /\ conn[c].request = "inspect"
          /\ IF HasRoom
             THEN /\ commands' = Append(commands, <<conn[c].id, c>>)
                  /\ conn' = [conn EXCEPT ![c].thread = "inspect", ![c].request = None]
             ELSE /\ conn' = [conn EXCEPT ![c] = Reply(c, "error", 0)]
                  /\ UNCHANGED commands
    /\ UNCHANGED <<stop, main, monitor, clients, issued, others>>

\* The client has closed its end, or writes nothing before the timeout.
ReadEndsIfClosed(c) ==
    /\ Thread(c) = "read" /\ conn[c].request = None /\ ~conn[c].open
    /\ conn' = [conn EXCEPT ![c].thread = "leave"]
    /\ UNCHANGED <<stop, main, monitor, clients, commands, issued, others>>
ReadEnds(c) ==
    /\ Thread(c) = "read" /\ conn[c].request = None
    /\ conn' = [conn EXCEPT ![c].thread = "leave"]
    /\ UNCHANGED <<stop, main, monitor, clients, commands, issued, others>>

InspectEnds(c) ==
    /\ Thread(c) = "inspect"
    /\ conn' = [conn EXCEPT ![c] = Reply(c, "error", 0)]
    /\ UNCHANGED <<stop, main, monitor, clients, commands, issued, others>>

WatchEnds(c) ==
    /\ Thread(c) = "watch" /\ (stop \/ ~conn[c].open)
    /\ conn' = [conn EXCEPT ![c].thread = "leave"]
    /\ UNCHANGED <<stop, main, monitor, clients, commands, issued, others>>

StillCounted == clients
Uncounted == clients - 1
Leave(c) ==
    /\ Thread(c) = "leave"
    /\ clients' = Uncounted
    /\ conn' = [conn EXCEPT ![c] = Dropped(c)]
    /\ UNCHANGED <<stop, main, monitor, commands, issued, others>>

-----------------------------------------------------------------------------
\* The monitor thread

\* One command in a cycle. The answer goes to the request that waits for it, if
\* it still does; its channel is of this request alone.
ListensAtAll(command) == Thread(command[2]) = "inspect"
Listens(command) == Thread(command[2]) = "inspect" /\ conn[command[2]].id = command[1]
Inspect ==
    /\ monitor = "runs" /\ ~stop /\ commands # <<>>
    /\ LET command == Head(commands)
           c == command[2]
       IN  conn' = IF Listens(command)
                   THEN [conn EXCEPT ![c] = Reply(c, "answer", command[1])] ELSE conn
    /\ commands' = Tail(commands)
    /\ UNCHANGED <<stop, main, monitor, clients, issued, others>>

MonitorEnds ==
    /\ monitor = "runs" /\ stop
    /\ monitor' = "ended"
    /\ UNCHANGED <<stop, main, clients, conn, commands, issued, others>>

-----------------------------------------------------------------------------
\* What the thread of a connection does without being asked, or will do.
Serve(c) ==
    \/ Accept(c)
    \/ ReadFrame(c)
    \/ ReadEnds(c)
    \/ InspectEnds(c)
    \/ WatchEnds(c)
    \/ Leave(c)

Daemon ==
    \/ Stop
    \/ SeeStop
    \/ Join
    \/ AcceptFails
    \/ Inspect
    \/ MonitorEnds

OtherClient(c) == OtherConnects(c) \/ OtherAsks(c) \/ (c \in others /\ HangUp(c))

-----------------------------------------------------------------------------
\* Properties.

\* The counter that admits clients is the number of their threads, however they
\* end, and stays within the limit (main's accept loop).
SlotsMatchThreads ==
    clients = Cardinality({c \in Connections : Running(c)}) /\ clients <= MaxClients

\* An Inspect request that is answered is answered with what the monitor read for
\* it, although earlier requests of the same connection may have timed out while
\* their commands were still in the queue (Inspect).
InspectAnswersItsRequest ==
    \A c \in Connections : conn[c].reply = "answer" => conn[c].answers = conn[c].id

\* Silent, broken and slow clients do not keep their slot for ever: but for those
\* that Watch, every client thread ends (serve_client).
SlotsAreReleased ==
    \A c \in Connections :
        Running(c) ~> Thread(c) \in {"none", "backlog", "watch"}

=============================================================================
