------------------------------ MODULE Transport ------------------------------
(***************************************************************************)
(* The exchange of reports with the power supply over hidraw               *)
(* (src/crates/hardware/src/lib.rs), as the monitor thread drives it       *)
(* cycle by cycle (src/src/runtime.rs): the handshake of open, the groups  *)
(* of telemetry and the reports of diagnostics. Requests have no number: a *)
(* report is the answer to a request if it names its command, so a late    *)
(* one can be taken for the answer to a later request.                     *)
(*                                                                         *)
(* The device and the kernel are external. A request is answered at once,  *)
(* late or never, and reports wait in the buffer of the descriptor. Time   *)
(* is counted in ticks, of which none pass while the thread can go on.     *)
(***************************************************************************)
EXTENDS Naturals, Sequences, SequencesExt

CONSTANTS
    Handshake,      \* commands of open, in order (0xfa, 0x13, 0x12)
    Telemetry,      \* the first group of telemetry, without which there is none (0xe0)
    Optional,       \* its other groups, in order (0xe1, 0xc1, 0x42, 0x41, 0xd0, 0xd1)
    Reports,        \* commands of diagnostics, in order (0x41, 0x42, 0xc0)
    Unsolicited,    \* the command of reports nobody asked for
    Deadline,       \* ticks that exchange waits
    Cycle,          \* ticks between the beginnings of two cycles
    DrainLimit,     \* reports that exchange drains
    MaxDelay        \* bound: ticks after which the device does not answer

Plan == [open |-> Handshake, inspect |-> Reports, telemetry |-> <<Telemetry>> \o Optional]
Tasks == DOMAIN Plan
Commands == UNION {ToSet(Plan[t]) : t \in Tasks}

ASSUME TransportAssumption ==
    /\ \A t \in Tasks : Plan[t] \in Seq(Commands) /\ Plan[t] # <<>>
    /\ Unsolicited \notin Commands
    /\ \A t \in Tasks : IsInjective(Plan[t])
    /\ {Deadline, Cycle, DrainLimit} \subseteq Nat \ {0} /\ MaxDelay \in Nat

VARIABLES
    plugged,    \* whether the device is there
    fd,         \* the descriptor: "closed", "open", or "gone" with its device
    flight,     \* answers on their way from the device
    input,      \* reports in the descriptor's buffer
    pc,         \* "rest" between two cycles, "send" or "poll" in an exchange
    task, n,    \* the command of the exchange is the n-th of the task's
    left,       \* ticks to the deadline of the exchange
    sample,     \* the groups read in the cycle
    errors,     \* group_errors
    connected,  \* whether the cycle has published its sample
    elapsed,    \* ticks of the cycle
    pause       \* ticks to the next cycle

device == <<plugged, flight>>
exchange == <<pc, task, n, left>>
result == <<sample, errors, connected>>
clock == <<elapsed, pause>>
vars == <<device, fd, input, exchange, result, clock>>

\* A report carries its age since the request, which stops counting when it is
\* older than any answer the device still sends, and whether it holds data
\* that decodes, or the busy sentinel or content that is refused.
Age == 0 .. MaxDelay + 1
Report == [command : Commands \cup {Unsolicited}, task : Tasks, age : Age, data : BOOLEAN]
Older(r) == [r EXCEPT !.age = IF @ > MaxDelay THEN @ ELSE @ + 1]

TypeOK ==
    /\ plugged \in BOOLEAN
    /\ fd \in {"closed", "open", "gone"}
    /\ flight \subseteq Report
    /\ input \in Seq(Report) /\ Len(input) <= DrainLimit
    /\ pc \in {"rest", "send", "poll"}
    /\ task \in Tasks /\ n \in DOMAIN Plan[task]
    /\ left \in 0 .. Deadline
    /\ DOMAIN sample \subseteq ToSet(Plan.telemetry) /\ \A c \in DOMAIN sample : sample[c] \in Report
    /\ errors \subseteq ToSet(Optional)
    /\ connected \in BOOLEAN
    /\ elapsed \in Nat
    /\ pause \in 0 .. 2 * Cycle

Empty == [c \in {} |-> {}]

Init ==
    /\ plugged \in BOOLEAN
    /\ fd = "closed"
    /\ flight = {} /\ input = <<>>
    /\ pc = "rest" /\ task = "open" /\ n = 1 /\ left = 0
    /\ sample = Empty /\ errors = {} /\ connected = FALSE
    /\ elapsed = 0 /\ pause = 0

-----------------------------------------------------------------------------
Command == Plan[task][n]

Start(t) == pc' = "send" /\ task' = t /\ n' = 1 /\ left' = 0

\* The cycle ends, or open fails, and the thread pauses.
Rest(ticks) ==
    /\ pc' = "rest" /\ pause' = ticks
    /\ elapsed' = 0
    /\ UNCHANGED <<task, n, left>>
Remaining == IF elapsed < Cycle THEN Cycle - elapsed ELSE 0

Close == fd' = "closed" /\ input' = <<>>

BeginCycle ==
    /\ pc = "rest" /\ pause = 0
    /\ sample' = Empty /\ errors' = {} /\ connected' = FALSE
    /\ \/ fd = "closed" /\ Start("open")
       \/ fd # "closed" /\ (Start("inspect") \/ Start("telemetry"))
    /\ UNCHANGED <<device, fd, input, clock>>

\* The exchange has its answer, or is the last one that failed.
AdvanceBeyond == n < Len(Plan[task]) + 1
Advance == n < Len(Plan[task])

Continue ==
    \/ /\ Advance
       /\ n' = n + 1 /\ pc' = "send" /\ left' = 0
       /\ UNCHANGED <<task, connected, clock>>
    \/ /\ ~Advance /\ task # "telemetry"
       /\ Start("telemetry")
       /\ UNCHANGED <<connected, clock>>
    \/ /\ ~Advance /\ task = "telemetry"
       /\ connected' = TRUE
       /\ Rest(Remaining)

\* The exchange returns an error and leaves the given reports: of an optional
\* group the error is noted; telemetry fails as a whole with its first group, and
\* the device is closed; open fails as a whole; Inspect is answered with it.
NotNoted == errors
Noted == errors \cup {Command}

Fail(reports) ==
    \/ task = "open" /\ Close /\ Rest(2 * Cycle) /\ UNCHANGED result
    \/ task = "telemetry" /\ n = 1 /\ Close /\ Rest(Remaining) /\ UNCHANGED result
    \/ /\ task = "inspect"
       /\ Start("telemetry")
       /\ input' = reports
       /\ UNCHANGED <<fd, result, clock>>
    \/ /\ task = "telemetry" /\ n > 1
       /\ errors' = Noted
       /\ input' = reports
       /\ Continue
       /\ UNCHANGED <<fd, sample>>

-----------------------------------------------------------------------------
\* exchange

Undrained(reports) == reports
Drained(reports) == SubSeq(reports, DrainLimit + 1, Len(reports))

\* Opening the descriptor is part of the first exchange of the handshake.
Send ==
    /\ pc = "send"
    /\ LET opens == fd = "closed"
           reached == plugged /\ fd # "gone"
       IN  \/ /\ reached
              /\ fd' = "open" /\ input' = Drained(input)
              /\ \E data \in BOOLEAN :
                    flight' = flight \cup
                       {[command |-> Command, task |-> task, age |-> 0, data |-> data]}
              /\ pc' = "poll" /\ left' = Deadline
              /\ UNCHANGED <<plugged, task, n, result, clock>>
           \/ ~reached /\ Fail(Drained(input)) /\ UNCHANGED device

Accept(r) ==
    /\ sample' = IF task = "telemetry"
                 THEN [c \in DOMAIN sample \cup {Command} |->
                          IF c = Command THEN r ELSE sample[c]]
                 ELSE sample
    /\ input' = Tail(input)
    /\ Continue
    /\ UNCHANGED <<device, fd, errors>>

IsAnswer(r) == r.command = Command
WaitsAnew == left' = Deadline
WaitsOn == UNCHANGED left

\* One report is read: another command's is skipped, unless its length is refused,
\* a refused answer is an error. The device may be unplugged since poll returned.
Receive ==
    /\ pc = "poll" /\ left > 0 /\ input # <<>>
    /\ LET r == Head(input) IN
       \/ /\ ~IsAnswer(r)
          /\ input' = Tail(input)
          /\ WaitsOn
          /\ UNCHANGED <<device, fd, pc, task, n, result, clock>>
       \/ IsAnswer(r) /\ r.data /\ Accept(r)
       \/ ~r.data /\ Fail(Tail(input)) /\ UNCHANGED device

TimesOut == pc = "poll" /\ left = 0 /\ Fail(input) /\ UNCHANGED device

\* poll tells that the device is gone, whether or not reports still wait.
Disconnects ==
    /\ pc = "poll" /\ left > 0 /\ fd = "gone"
    /\ Fail(input)
    /\ UNCHANGED device

-----------------------------------------------------------------------------
\* The device and the kernel

\* An answer arrives, also in the buffer of a descriptor opened since. That no
\* more reports wait than exchange drains is an assumption about the device, which
\* sends one for each request: the kernel's buffer holds more than 32, and what
\* would be left after the drain could be older than any answer.
Arrive(r) ==
    /\ fd # "gone"
    /\ flight' = flight \ {r}
    /\ IF fd = "closed" THEN UNCHANGED input
       ELSE Len(input) < DrainLimit /\ input' = Append(input, r)
    /\ UNCHANGED <<plugged, fd, exchange, result, clock>>

Intrude ==
    /\ fd = "open" /\ Len(input) < DrainLimit
    /\ input' = Append(input, [command |-> Unsolicited, task |-> task, age |-> 0, data |-> TRUE])
    /\ UNCHANGED <<device, fd, exchange, result, clock>>

Unplug ==
    /\ plugged
    /\ plugged' = FALSE /\ flight' = {}
    /\ fd' = IF fd = "open" THEN "gone" ELSE fd
    /\ UNCHANGED <<input, exchange, result, clock>>

Plug ==
    /\ ~plugged
    /\ plugged' = TRUE
    /\ UNCHANGED <<flight, fd, input, exchange, result, clock>>

\* Answers that do not come in time are lost.
Tick ==
    /\ \/ /\ pc = "rest" /\ pause > 0
          /\ pause' = pause - 1
          /\ UNCHANGED <<elapsed, left>>
       \/ /\ pc = "poll" /\ left > 0 /\ input = <<>> /\ fd = "open"
          /\ left' = left - 1 /\ elapsed' = elapsed + 1
          /\ UNCHANGED pause
    /\ flight' = {Older(r) : r \in {r \in flight : r.age < MaxDelay}}
    /\ input' = [i \in DOMAIN input |-> Older(input[i])]
    /\ UNCHANGED <<plugged, fd, pc, task, n, result>>

-----------------------------------------------------------------------------
Next ==
    \/ BeginCycle
    \/ Send
    \/ Receive
    \/ TimesOut
    \/ Disconnects
    \/ \E r \in flight : Arrive(r)
    \/ Intrude
    \/ Unplug
    \/ Plug
    \/ Tick

Spec == Init /\ [][Next]_vars

-----------------------------------------------------------------------------
\* Properties.

\* What a sample holds is what the device has said of that group, a short while
\* ago: never the busy sentinel, another group's report, or an answer that has
\* waited since an earlier cycle, although late answers, those to Inspect among
\* them, arrive in any order (exchange and its drain).
SampleIsTrue ==
    \A c \in DOMAIN sample :
        sample[c].command = c /\ sample[c].data /\ sample[c].age <= MaxDelay

\* A published sample has each of its groups or says that it lacks it: absence
\* never means normal (the comment in telemetry).
MissingIsReported ==
    connected => \A c \in ToSet(Plan.telemetry) : c \in DOMAIN sample <=> c \notin errors

\* Whatever arrives, the exchanges of a cycle end by their deadlines, so that the
\* monitor returns to its other work (exchange).
Begun ==
    CASE task = "telemetry" -> n + Max({Len(Handshake), Len(Reports)})
      [] OTHER -> n
CycleIsBounded == elapsed + left <= Begun * Deadline

=============================================================================
