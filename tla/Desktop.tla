------------------------------- MODULE Desktop -------------------------------
(***************************************************************************)
(* The desktop window beside the daemon (src/clients/gui/src/main.rs): the *)
(* UI thread queues the user's actions, a worker thread asks the daemon    *)
(* about once a second and for every action, through the client library's  *)
(* call, and sends what is to be shown back through a bounded queue that a *)
(* timer of the UI thread empties. Each call is a connection of its own,   *)
(* which may outlive it in the daemon.                                     *)
(***************************************************************************)
EXTENDS Service

CONSTANTS
    ActionQueue,    \* capacity of the queue of actions (16)
    UpdateQueue,    \* capacity of the queue of updates (8)
    Batch,          \* updates applied at a time (8)
    Extras,         \* what is asked after every tenth snapshot, in order
    MaxPresses      \* bound: actions of the user

ASSUME DesktopAssumption ==
    /\ {ActionQueue, UpdateQueue, Batch} \subseteq Nat \ {0} /\ MaxPresses \in Nat
    /\ Extras \in Seq({"energy", "tariffs", "incidents"})

VARIABLES
    window,     \* "open", "closing" until the timer is dropped, "joining", "closed"
    timer,      \* whether the timer, which owns the receiver of updates, is there
    running,    \* the flag the worker loops on
    actions,    \* queue of actions
    updates,    \* queue of updates
    worker,     \* where the worker is, its calls and their outcome
    pressed,    \* actions the queue has taken, by number
    applied     \* history: actions whose outcome was shown

desktop == <<window, timer, running, actions, updates, worker, pressed, applied>>
vars == <<service, desktop>>

\* A job is a periodic question, or an action with its number. An Acknowledge is
\* followed by a second call, for the incidents.
Kinds == {"snapshot", "energy", "tariffs", "incidents"} \cup {"inspect", "acknowledge", "other"}
Job == [kind : Kinds, action : 0 .. MaxPresses]
Periodic(kind) == [kind |-> kind, action |-> 0]

\* The worker: `todo' are the questions left of this second, `call' the connection
\* of the call that is under way.
Worker == [pc : {"loop", "ask", "call", "deliver", "take", "ended"}, todo : Seq(Kinds),
           job : Job, second : BOOLEAN, call : Connections \cup {None}]

DesktopTypeOK ==
    /\ TypeOK
    /\ window \in {"open", "closing", "joining", "closed"}
    /\ timer \in BOOLEAN /\ running \in BOOLEAN
    /\ actions \in Seq(Job) /\ Len(actions) <= ActionQueue
    /\ updates \in Seq(Job) /\ Len(updates) <= UpdateQueue
    /\ worker \in Worker
    /\ pressed \in 0 .. MaxPresses
    /\ applied \subseteq 1 .. MaxPresses

Init ==
    /\ ServiceInit   \* a window is opened if it has connections to use
    /\ window = IF others = Connections THEN "closed" ELSE "open"
    /\ timer = (window = "open") /\ running = (window = "open")
    /\ actions = <<>> /\ updates = <<>>
    /\ worker = [pc |-> IF window = "open" THEN "loop" ELSE "ended", todo |-> <<>>, job |-> Periodic("snapshot"), second |-> FALSE,
                 call |-> None]
    /\ pressed = 0 /\ applied = {}

At(pc) == worker.pc = pc
Goto(pc) == worker' = [worker EXCEPT !.pc = pc]

-----------------------------------------------------------------------------
\* The UI thread

\* queue_action: never waits; a full queue is reported to the user.
Press ==
    /\ window = "open" /\ pressed < MaxPresses /\ Len(actions) < ActionQueue
    /\ \E kind \in {"inspect", "acknowledge", "other"} :
          actions' = Append(actions, [kind |-> kind, action |-> pressed + 1])
    /\ pressed' = pressed + 1
    /\ UNCHANGED <<service, window, timer, running, updates, worker, applied>>

Least(a, b) == IF a < b THEN a ELSE b
TimerFires ==
    /\ window = "open" /\ timer /\ updates # <<>>
    /\ LET n == Least(Batch, Len(updates)) IN
       /\ updates' = SubSeq(updates, n + 1, Len(updates))
       /\ applied' = applied \cup ({updates[i].action : i \in 1 .. n} \ {0})
    /\ UNCHANGED <<service, window, timer, running, actions, worker, pressed>>

Close ==
    /\ window = "open"
    /\ window' = "closing" /\ running' = FALSE
    /\ UNCHANGED <<service, timer, actions, updates, worker, pressed, applied>>

\* The receiver goes with the timer, and what it had not taken.
KeepTimer ==
    /\ window = "closing"
    /\ window' = "joining"
    /\ UNCHANGED <<service, timer, updates, running, actions, worker, pressed, applied>>
DropTimer ==
    /\ window = "closing"
    /\ window' = "joining" /\ timer' = FALSE /\ updates' = <<>>
    /\ UNCHANGED <<service, running, actions, worker, pressed, applied>>

JoinWorker ==
    /\ window = "joining" /\ At("ended")
    /\ window' = "closed"
    /\ UNCHANGED <<service, timer, running, actions, updates, worker, pressed, applied>>

-----------------------------------------------------------------------------
\* The worker thread

\* A second has passed or not, and it is the tenth or not.
Loop ==
    /\ At("loop")
    /\ \/ ~running /\ Goto("ended")
       \/ running /\ Goto("take")
       \/ /\ running
          /\ \E todo \in {<<>>, Extras} :
                worker' = [worker EXCEPT !.pc = "ask", !.todo = todo, !.job = Periodic("snapshot")]
    /\ UNCHANGED <<service, window, timer, running, actions, updates, pressed, applied>>

Method(kind) == IF kind = "inspect" THEN "inspect" ELSE "query"

\* An action that needs no call, as its input is refused, and a call that finds
\* no daemon have failed.
Ask ==
    /\ At("ask")
    /\ \/ \E c \in Connections \ others :
             /\ Connect(c, Method(worker.job.kind))
             /\ worker' = [worker EXCEPT !.pc = "call", !.call = c]
       \/ /\ main = "ended" \/ worker.job.kind = "other"
          /\ Goto("deliver")
          /\ UNCHANGED service
    /\ UNCHANGED <<window, timer, running, actions, updates, pressed, applied>>

\* What follows a job: another question, the action that waits longest, or the
\* next turn of the loop.
Followed ==
    [worker EXCEPT
        !.pc = IF @ # "take" /\ worker.job.action # 0 THEN "loop"
               ELSE IF worker.todo = <<>> THEN "take" ELSE "ask",
        !.job = IF worker.todo = <<>> THEN Periodic("snapshot") ELSE Periodic(Head(worker.todo)),
        !.todo = IF @ = <<>> THEN @ ELSE Tail(@),
        !.second = FALSE, !.call = None]

\* The call ends with a reply, a closed connection, or the library's timeout. A
\* question after the snapshot that has no answer leaves the window as it is.
Answered(c) == conn[c].reply = "answer"
Hear ==
    /\ At("call")
    /\ HangUp(worker.call)
    /\ \E answered \in {Answered(worker.call), FALSE} :
          worker' =
              IF answered /\ worker.job.kind = "acknowledge" /\ ~worker.second
              THEN [worker EXCEPT !.pc = "ask", !.second = TRUE, !.call = None]
              ELSE IF answered \/ worker.job.kind = "snapshot" \/ worker.job.action # 0
              THEN [worker EXCEPT !.pc = "deliver", !.call = None]
              ELSE Followed
    /\ UNCHANGED <<window, timer, running, actions, updates, pressed, applied>>

\* deliver: waits for room; without a receiver the update is dropped.
DeliverIfRoom ==
    /\ At("deliver")
    /\ updates' = IF timer /\ Len(updates) < UpdateQueue THEN Append(updates, worker.job) ELSE updates
    /\ worker' = Followed
    /\ UNCHANGED <<service, window, timer, running, actions, pressed, applied>>
Deliver ==
    /\ At("deliver") /\ (timer => Len(updates) < UpdateQueue)
    /\ updates' = IF timer THEN Append(updates, worker.job) ELSE updates
    /\ worker' = Followed
    /\ UNCHANGED <<service, window, timer, running, actions, pressed, applied>>

Take ==
    /\ At("take")
    /\ IF actions = <<>> THEN Goto("loop") /\ UNCHANGED actions
       ELSE /\ worker' = [worker EXCEPT !.pc = "ask", !.job = Head(actions)]
            /\ actions' = Tail(actions)
    /\ UNCHANGED <<service, window, timer, running, updates, pressed, applied>>

-----------------------------------------------------------------------------
Work == Loop \/ Ask \/ Hear \/ Deliver \/ Take

Next ==
    \/ \E c \in Connections : (Serve(c) \/ OtherClient(c)) /\ UNCHANGED desktop
    \/ Daemon /\ UNCHANGED desktop
    \/ Press
    \/ TimerFires
    \/ Close
    \/ DropTimer
    \/ JoinWorker
    \/ Work

\* The UI thread does not stall for ever and the worker is scheduled. The user
\* need not do anything.
Spec == Init /\ [][Next]_vars
FairSpec ==
    /\ Spec
    /\ \A c \in Connections : WF_vars(Serve(c) /\ UNCHANGED desktop)
    /\ WF_vars((Inspect \/ SeeStop \/ Join \/ MonitorEnds) /\ UNCHANGED desktop)
    /\ WF_vars(TimerFires) /\ WF_vars(DropTimer \/ JoinWorker) /\ WF_vars(Work)

-----------------------------------------------------------------------------
\* Properties.

\* The window closes, although its worker may wait on a full queue of updates or
\* on a daemon that does not answer (main's shutdown).
CloseEnds == window = "closing" ~> window = "closed"

\* An action that was taken from the user has its outcome shown, whatever becomes
\* of the daemon, unless the window is closed (the worker's loop, deliver).
ActionsAreAnswered ==
    \A i \in 1 .. MaxPresses : pressed >= i ~> (i \in applied \/ window # "open")

=============================================================================
