--------------------------- MODULE TransportProofs ---------------------------
(***************************************************************************)
(* What is proved of the exchange of reports, for any commands, groups,    *)
(* deadlines and delays, and whatever the device and the kernel do: the    *)
(* variables keep their types, a sample holds only fresh answers to its    *)
(* own requests, a published sample says what it lacks, and the exchanges  *)
(* of a cycle end in time.                                                 *)
(***************************************************************************)
EXTENDS Transport, SequenceTheorems, TLAPS

-----------------------------------------------------------------------------
\* Plans and reports.

LEMMA PlanType ==
    /\ Tasks = {"open", "inspect", "telemetry"}
    /\ \A t \in Tasks : /\ Plan[t] \in Seq(Commands) /\ Len(Plan[t]) \in Nat \ {0}
                        /\ DOMAIN Plan[t] = 1 .. Len(Plan[t])
                        /\ 1 \in DOMAIN Plan[t]
<1>1. Tasks = {"open", "inspect", "telemetry"}
  BY DEF Tasks, Plan
<1>2. ASSUME NEW t \in Tasks
      PROVE  /\ Plan[t] \in Seq(Commands) /\ Len(Plan[t]) \in Nat \ {0}
             /\ DOMAIN Plan[t] = 1 .. Len(Plan[t])
             /\ 1 \in DOMAIN Plan[t]
  <2>1. Plan[t] \in Seq(Commands) /\ Plan[t] # <<>>
    BY TransportAssumption
  <2> HIDE DEF Plan
  <2>2. Len(Plan[t]) \in Nat /\ DOMAIN Plan[t] = 1 .. Len(Plan[t])
    BY <2>1, LenProperties
  <2>3. Len(Plan[t]) # 0
    BY <2>1, EmptySeq
  <2> QED BY <2>1, <2>2, <2>3
<1> QED BY <1>1, <1>2

\* The command of the exchange is one of the plan, and one of the optional
\* groups when it is not the first of telemetry.
LEMMA CommandType ==
    ASSUME TypeOK
    PROVE  /\ Command \in Commands
           /\ task = "telemetry" => Command \in ToSet(Plan.telemetry)
           /\ task = "telemetry" /\ n > 1 => Command \in ToSet(Optional)
<1>1. task \in Tasks /\ n \in 1 .. Len(Plan[task]) /\ n \in DOMAIN Plan[task]
  BY PlanType DEF TypeOK
<1>2. Command \in Commands
  BY <1>1, PlanType, ElementOfSeq DEF Command
<1>3. ASSUME task = "telemetry"
      PROVE  Command \in ToSet(Plan.telemetry)
  BY <1>1, <1>3 DEF ToSet, Command
<1>4. ASSUME task = "telemetry", n > 1
      PROVE  Command \in ToSet(Optional)
  <2>1. Plan.telemetry = <<Telemetry>> \o Optional
    BY DEF Plan
  <2> QED BY <1>1, <1>4, <2>1 DEF ToSet, Command
<1> QED BY <1>2, <1>3, <1>4

LEMMA Bounds ==
    /\ Deadline \in Nat \ {0} /\ Cycle \in Nat \ {0} /\ DrainLimit \in Nat \ {0}
    /\ 0 \in 0 .. Deadline /\ 0 \in 0 .. 2 * Cycle
  BY TransportAssumption

LEMMA OlderType ==
    ASSUME NEW r \in Report
    PROVE  /\ Older(r) \in Report
           /\ Older(r).command = r.command /\ Older(r).data = r.data
           /\ r.age < MaxDelay => Older(r).age <= MaxDelay
  BY TransportAssumption DEF Older, Report, Age

\* No more reports wait than exchange drains.
LEMMA DrainedIsEmpty ==
    ASSUME NEW reports \in Seq(Report), Len(reports) <= DrainLimit
    PROVE  Drained(reports) = <<>>
  BY TransportAssumption, LenProperties DEF Drained

-----------------------------------------------------------------------------
\* Types.

ControlOK ==
    /\ pc \in {"rest", "send", "poll"}
    /\ task \in Tasks /\ n \in DOMAIN Plan[task]
    /\ left \in 0 .. Deadline
    /\ connected \in BOOLEAN
    /\ elapsed \in Nat
    /\ pause \in 0 .. 2 * Cycle

LEMMA ContinueType ==
    ASSUME TypeOK, Continue
    PROVE  ControlOK'
<1>1. CASE Advance /\ n' = n + 1 /\ pc' = "send" /\ left' = 0 /\ UNCHANGED <<task, connected, clock>>
  BY <1>1, PlanType, TransportAssumption DEF TypeOK, ControlOK, Advance, clock
<1>2. CASE Start("telemetry") /\ UNCHANGED <<connected, clock>>
  BY <1>2, PlanType, TransportAssumption DEF TypeOK, ControlOK, Start, clock
<1>3. CASE connected' = TRUE /\ Rest(Remaining)
  BY <1>3, PlanType, TransportAssumption DEF TypeOK, ControlOK, Rest, Remaining
<1> QED BY <1>1, <1>2, <1>3 DEF Continue

LEMMA FailType ==
    ASSUME TypeOK, NEW reports \in Seq(Report), Len(reports) <= DrainLimit,
           Fail(reports), UNCHANGED device
    PROVE  TypeOK'
<1>1. UNCHANGED <<plugged, flight>>
  BY DEF device
<1>2. CASE task = "open" /\ Close /\ Rest(2 * Cycle) /\ UNCHANGED result
  BY <1>1, <1>2, TransportAssumption DEF TypeOK, Close, Rest, result
<1>3. CASE task = "telemetry" /\ n = 1 /\ Close /\ Rest(Remaining) /\ UNCHANGED result
  BY <1>1, <1>3, TransportAssumption DEF TypeOK, Close, Rest, result, Remaining
<1>4. CASE /\ task = "inspect" /\ Start("telemetry") /\ input' = reports
           /\ UNCHANGED <<fd, result, clock>>
  BY <1>1, <1>4, PlanType, TransportAssumption DEF TypeOK, Start, result, clock
<1>5. CASE /\ task = "telemetry" /\ n > 1 /\ errors' = Noted /\ input' = reports /\ Continue
           /\ UNCHANGED <<fd, sample>>
  <2>1. ControlOK'
    BY <1>5, ContinueType
  <2>2. errors' \subseteq ToSet(Optional)
    BY <1>5, CommandType DEF Noted, TypeOK
  <2> QED BY <1>1, <1>5, <2>1, <2>2 DEF TypeOK, ControlOK
<1> QED BY <1>2, <1>3, <1>4, <1>5 DEF Fail

\* An accepted report joins the sample as the group of its command.
LEMMA AcceptedSample ==
    ASSUME TypeOK, NEW r \in Report, Accept(r)
    PROVE  /\ task # "telemetry" => sample' = sample
           /\ task = "telemetry" =>
                /\ DOMAIN sample' = DOMAIN sample \cup {Command}
                /\ \A c \in DOMAIN sample' :
                      sample'[c] = IF c = Command THEN r ELSE sample[c]
  BY DEF Accept

LEMMA AcceptType ==
    ASSUME TypeOK, pc = "poll", input # <<>>, Accept(Head(input))
    PROVE  TypeOK'
<1>1. Head(input) \in Report /\ Tail(input) \in Seq(Report) /\ Len(Tail(input)) = Len(input) - 1
      /\ Len(input) \in Nat
  BY HeadTailProperties, LenProperties DEF TypeOK
<1>2. ControlOK'
  BY ContinueType DEF Accept
<1>3. /\ DOMAIN sample' \subseteq ToSet(Plan.telemetry)
      /\ \A c \in DOMAIN sample' : sample'[c] \in Report
  BY <1>1, AcceptedSample, CommandType DEF TypeOK
<1>4. input' = Tail(input) /\ UNCHANGED <<plugged, flight, fd, errors>>
  BY DEF Accept, device
<1>5. DrainLimit \in Nat
  BY TransportAssumption
<1>6. input' \in Seq(Report) /\ Len(input') <= DrainLimit
  BY <1>1, <1>4, <1>5 DEF TypeOK
<1> QED BY <1>2, <1>3, <1>4, <1>6 DEF TypeOK, ControlOK

LEMMA SendType == ASSUME TypeOK, Send PROVE TypeOK'
<1>1. Drained(input) = <<>>
  BY DrainedIsEmpty DEF TypeOK
<1>2. CASE Fail(Drained(input)) /\ UNCHANGED device
  <2>1. Drained(input) \in Seq(Report) /\ Len(Drained(input)) <= DrainLimit
    BY <1>1, EmptySeq, TransportAssumption
  <2> QED BY <1>2, <2>1, FailType
<1>3. CASE ~(Fail(Drained(input)) /\ UNCHANGED device)
  <2>1. PICK data \in BOOLEAN :
           flight' = flight \cup {[command |-> Command, task |-> task, age |-> 0, data |-> data]}
    BY <1>3 DEF Send
  <2>2. [command |-> Command, task |-> task, age |-> 0, data |-> data] \in Report
    BY CommandType, TransportAssumption DEF TypeOK, Report, Age
  <2>3. flight' \subseteq Report
    BY <2>1, <2>2 DEF TypeOK
  <2>4. /\ fd' = "open" /\ input' = <<>> /\ pc' = "poll" /\ left' = Deadline
        /\ UNCHANGED <<plugged, task, n, sample, errors, connected, elapsed, pause>>
    BY <1>1, <1>3 DEF Send, result, clock
  <2> QED BY <2>3, <2>4, EmptySeq, TransportAssumption DEF TypeOK
<1> QED BY <1>2, <1>3

LEMMA ReceiveType == ASSUME TypeOK, Receive PROVE TypeOK'
<1>1. Tail(input) \in Seq(Report) /\ Len(Tail(input)) = Len(input) - 1 /\ Len(input) \in Nat
  BY HeadTailProperties, LenProperties DEF TypeOK, Receive
<1>2. Len(Tail(input)) <= DrainLimit
  BY <1>1, TransportAssumption DEF TypeOK
<1>3. CASE Accept(Head(input))
  BY <1>3, AcceptType DEF Receive
<1>4. CASE Fail(Tail(input)) /\ UNCHANGED device
  BY <1>1, <1>2, <1>4, FailType
<1>5. CASE input' = Tail(input) /\ WaitsOn /\ UNCHANGED <<device, fd, pc, task, n, result, clock>>
  BY <1>1, <1>2, <1>5 DEF TypeOK, WaitsOn, device, result, clock
<1> QED BY <1>3, <1>4, <1>5 DEF Receive

LEMMA TickType == ASSUME TypeOK, Tick PROVE TypeOK'
<1>1. flight' \subseteq Report
  BY OlderType DEF TypeOK, Tick
<1>2. Len(input) \in Nat /\ DOMAIN input = 1 .. Len(input)
  BY LenProperties DEF TypeOK
<1>3. \A i \in 1 .. Len(input) : Older(input[i]) \in Report
  BY OlderType, ElementOfSeq DEF TypeOK
<1>4. input' = [i \in 1 .. Len(input) |-> Older(input[i])]
  BY <1>2 DEF Tick
<1>5. input' \in Seq(Report) /\ Len(input') = Len(input)
  BY <1>2, <1>3, <1>4
<1>6. left' \in 0 .. Deadline /\ elapsed' \in Nat /\ pause' \in 0 .. 2 * Cycle
  BY TransportAssumption DEF TypeOK, Tick
<1> QED BY <1>1, <1>5, <1>6 DEF TypeOK, Tick, result

\* The exchange and the monitor's cycle keep their types (open, exchange, start).
THEOREM TransportTypeCorrect == Spec => []TypeOK
<1>1. Init => TypeOK
  <2> SUFFICES ASSUME Init PROVE TypeOK
    OBVIOUS
  <2>1. DOMAIN sample = {}
    BY DEF Init, Empty
  <2>2. input \in Seq(Report) /\ Len(input) = 0
    BY EmptySeq DEF Init
  <2>3. task \in Tasks /\ n \in DOMAIN Plan[task]
    BY PlanType DEF Init
  <2>4. Len(input) <= DrainLimit
    BY <2>2, Bounds
  <2>5. /\ plugged \in BOOLEAN /\ fd = "closed" /\ flight = {} /\ pc = "rest"
        /\ left = 0 /\ errors = {} /\ connected = FALSE /\ elapsed = 0 /\ pause = 0
    BY DEF Init
  <2> QED BY <2>1, <2>2, <2>3, <2>4, <2>5, Bounds DEF TypeOK
<1>2. TypeOK /\ [Next]_vars => TypeOK'
  <2> SUFFICES ASSUME TypeOK, [Next]_vars PROVE TypeOK'
    OBVIOUS
  <2>1. CASE BeginCycle
    <3>1. DOMAIN sample' = {}
      BY <2>1 DEF BeginCycle, Empty
    <3>2. task' \in Tasks /\ n' \in DOMAIN Plan[task']
      BY <2>1, PlanType DEF BeginCycle, Start
    <3> QED BY <2>1, <3>1, <3>2, Bounds DEF BeginCycle, Start, TypeOK, device, clock
  <2>2. CASE Send
    BY <2>2, SendType
  <2>3. CASE Receive
    BY <2>3, ReceiveType
  <2>4. CASE TimesOut \/ Disconnects
    <3>1. Fail(input) /\ UNCHANGED device
      BY <2>4 DEF TimesOut, Disconnects
    <3> QED BY <3>1, FailType DEF TypeOK
  <2>5. ASSUME NEW r \in flight, Arrive(r)
        PROVE  TypeOK'
    <3>1. r \in Report
      BY DEF TypeOK
    <3>2. input' \in Seq(Report) /\ Len(input') <= DrainLimit
      <4>1. CASE input' = input
        BY <4>1 DEF TypeOK
      <4>2. CASE Len(input) < DrainLimit /\ input' = Append(input, r)
        <5>1. /\ input' \in Seq(Report) /\ Len(input') = Len(input) + 1
              /\ Len(input) \in Nat /\ DrainLimit \in Nat
          BY <3>1, <4>2, AppendProperties, LenProperties, TransportAssumption DEF TypeOK
        <5> QED BY <4>2, <5>1
      <4> QED BY <2>5, <4>1, <4>2 DEF Arrive
    <3> QED BY <2>5, <3>2 DEF Arrive, TypeOK, exchange, result, clock
  <2>6. CASE Intrude
    <3>1. [command |-> Unsolicited, task |-> task, age |-> 0, data |-> TRUE] \in Report
      BY TransportAssumption DEF TypeOK, Report, Age
    <3>2. input' \in Seq(Report) /\ Len(input') <= DrainLimit
      BY <2>6, <3>1, AppendProperties, LenProperties, TransportAssumption DEF Intrude, TypeOK
    <3> QED BY <2>6, <3>2 DEF Intrude, TypeOK, device, exchange, result, clock
  <2>7. CASE Unplug
    BY <2>7 DEF Unplug, TypeOK, exchange, result, clock
  <2>8. CASE Plug
    BY <2>8 DEF Plug, TypeOK, exchange, result, clock
  <2>9. CASE Tick
    BY <2>9, TickType
  <2>10. CASE UNCHANGED vars
    BY <2>10 DEF vars, TypeOK, device, exchange, result, clock
  <2> QED BY <2>1, <2>2, <2>3, <2>4, <2>5, <2>6, <2>7, <2>8, <2>9, <2>10 DEF Next
<1> QED BY <1>1, <1>2, PTL DEF Spec

-----------------------------------------------------------------------------
\* What a sample holds.

\* Answers are lost before they are older than MaxDelay; those that an exchange
\* reads came after it had drained, and do not age while it has some to read.
FreshInv ==
    /\ \A r \in flight : r.age <= MaxDelay
    /\ pc = "poll" => \A i \in DOMAIN input : input[i].age <= MaxDelay
    /\ SampleIsTrue

\* A step that neither waits nor receives nor accepts anything.
LEMMA FreshStays ==
    ASSUME FreshInv, UNCHANGED <<flight, sample>>, pc' # "poll" \/ UNCHANGED <<pc, input>>
    PROVE  FreshInv'
  BY DEF FreshInv, SampleIsTrue

LEMMA NextStepRests ==
    ASSUME NEW reports, Continue \/ Fail(reports)
    PROVE  pc' # "poll"
  BY DEF Continue, Fail, Start, Rest

LEMMA FailKeepsSample == ASSUME NEW reports, Fail(reports) PROVE sample' = sample
  BY DEF Fail, result

LEMMA FreshSend == ASSUME TypeOK, FreshInv, Send PROVE FreshInv'
<1>1. Drained(input) = <<>>
  BY DrainedIsEmpty DEF TypeOK
<1>2. CASE Fail(Drained(input)) /\ UNCHANGED device
  BY <1>2, NextStepRests, FailKeepsSample, FreshStays DEF device
<1>3. CASE ~(Fail(Drained(input)) /\ UNCHANGED device)
  <2>1. PICK data \in BOOLEAN :
           flight' = flight \cup {[command |-> Command, task |-> task, age |-> 0, data |-> data]}
    BY <1>3 DEF Send
  <2>2. MaxDelay \in Nat
    BY TransportAssumption
  <2>3. \A r \in flight' : r.age <= MaxDelay
    BY <2>1, <2>2 DEF FreshInv
  <2>4. DOMAIN input' = {}
    BY <1>1, <1>3, EmptySeq DEF Send
  <2>5. sample' = sample
    BY <1>3 DEF Send, result
  <2> QED BY <2>3, <2>4, <2>5 DEF FreshInv, SampleIsTrue
<1> QED BY <1>2, <1>3

LEMMA FreshReceive == ASSUME TypeOK, FreshInv, Receive PROVE FreshInv'
<1>1. /\ Head(input) \in Report /\ Head(input) = input[1] /\ 1 \in DOMAIN input
      /\ Len(input) \in Nat /\ Len(Tail(input)) = Len(input) - 1
      /\ DOMAIN Tail(input) = 1 .. Len(Tail(input)) /\ DOMAIN input = 1 .. Len(input)
      /\ \A i \in 1 .. Len(Tail(input)) : Tail(input)[i] = input[i + 1]
  BY HeadTailProperties, LenProperties, EmptySeq DEF TypeOK, Receive
<1>2. CASE Fail(Tail(input)) /\ UNCHANGED device
  BY <1>2, NextStepRests, FailKeepsSample, FreshStays DEF device
<1>3. CASE IsAnswer(Head(input)) /\ Head(input).data /\ Accept(Head(input))
  <2>1. pc' # "poll"
    BY <1>3, NextStepRests DEF Accept
  <2>2. Head(input).age <= MaxDelay /\ Head(input).command = Command
    BY <1>1, <1>3 DEF FreshInv, Receive, IsAnswer
  <2>3. SampleIsTrue'
    <3>1. CASE task # "telemetry"
      <4>1. sample' = sample
        BY <1>1, <1>3, <3>1, AcceptedSample
      <4> QED BY <4>1 DEF FreshInv, SampleIsTrue
    <3>2. CASE task = "telemetry"
      <4>1. /\ DOMAIN sample' = DOMAIN sample \cup {Command}
            /\ \A c \in DOMAIN sample' :
                  sample'[c] = IF c = Command THEN Head(input) ELSE sample[c]
        BY <1>1, <1>3, <3>2, AcceptedSample
      <4> QED BY <1>3, <2>2, <4>1 DEF FreshInv, SampleIsTrue
    <3> QED BY <3>1, <3>2
  <2>4. flight' = flight
    BY <1>3 DEF Accept, device
  <2> QED BY <2>1, <2>3, <2>4 DEF FreshInv
<1>4. CASE input' = Tail(input) /\ UNCHANGED <<device, fd, pc, task, n, result, clock>>
  <2>1. \A i \in DOMAIN input' : i + 1 \in DOMAIN input /\ input'[i] = input[i + 1]
    BY <1>1, <1>4
  <2> QED BY <1>4, <2>1 DEF FreshInv, SampleIsTrue, device, result, Receive
<1> QED BY <1>2, <1>3, <1>4 DEF Receive

LEMMA FreshTick == ASSUME TypeOK, FreshInv, Tick PROVE FreshInv'
<1>1. \A r \in flight' : r.age <= MaxDelay
  BY OlderType DEF Tick, TypeOK
<1>2. pc' = "poll" => DOMAIN input' = {}
  BY EmptySeq DEF Tick
<1> QED BY <1>1, <1>2 DEF FreshInv, SampleIsTrue, Tick, result

\* A report that arrives is added behind the others.
LEMMA FreshAppend ==
    ASSUME TypeOK, FreshInv, NEW r \in Report, r.age <= MaxDelay, input' = Append(input, r),
           UNCHANGED <<pc, sample>>, flight' \subseteq flight
    PROVE  FreshInv'
<1>1. /\ Len(input) \in Nat /\ DOMAIN input = 1 .. Len(input)
      /\ input' \in Seq(Report) /\ Len(input') = Len(input) + 1
      /\ \A i \in 1 .. Len(input) : input'[i] = input[i]
      /\ input'[Len(input) + 1] = r
  BY AppendProperties, LenProperties DEF TypeOK
<1>2. \A i \in DOMAIN input' : i \in DOMAIN input \/ i = Len(input) + 1
  BY <1>1
<1> QED BY <1>1, <1>2 DEF FreshInv, SampleIsTrue

\* Every group of a sample is a fresh answer to a request for that group that
\* holds data: no late answer, to whatever request, gets into a sample of a later
\* cycle, for any delays and any plans (exchange, telemetry).
THEOREM SamplesAreTrue == Spec => []SampleIsTrue
<1>1. Init => FreshInv
  <2> SUFFICES ASSUME Init PROVE FreshInv
    OBVIOUS
  <2>1. DOMAIN sample = {}
    BY DEF Init, Empty
  <2> QED BY <2>1 DEF Init, FreshInv, SampleIsTrue
<1>2. TypeOK /\ FreshInv /\ [Next]_vars => FreshInv'
  <2> SUFFICES ASSUME TypeOK, FreshInv, [Next]_vars PROVE FreshInv'
    OBVIOUS
  <2>1. CASE BeginCycle
    <3>1. DOMAIN sample' = {} /\ flight' = flight /\ pc' # "poll"
      BY <2>1 DEF BeginCycle, Empty, device, Start
    <3> QED BY <3>1 DEF FreshInv, SampleIsTrue
  <2>2. CASE Send
    BY <2>2, FreshSend
  <2>3. CASE Receive
    BY <2>3, FreshReceive
  <2>4. CASE TimesOut \/ Disconnects
    <3>1. Fail(input) /\ UNCHANGED device
      BY <2>4 DEF TimesOut, Disconnects
    <3> QED BY <3>1, NextStepRests, FailKeepsSample, FreshStays DEF device
  <2>5. ASSUME NEW r \in flight, Arrive(r)
        PROVE  FreshInv'
    <3>1. r \in Report /\ r.age <= MaxDelay
      BY DEF TypeOK, FreshInv
    <3>2. UNCHANGED <<pc, sample>> /\ flight' \subseteq flight
      BY <2>5 DEF Arrive, exchange, result
    <3>3. CASE input' = input
      BY <3>2, <3>3 DEF FreshInv, SampleIsTrue
    <3>4. CASE input' = Append(input, r)
      BY <3>1, <3>2, <3>4, FreshAppend
    <3> QED BY <2>5, <3>3, <3>4 DEF Arrive
  <2>6. CASE Intrude
    <3> DEFINE r == [command |-> Unsolicited, task |-> task, age |-> 0, data |-> TRUE]
    <3>1. r \in Report /\ r.age <= MaxDelay
      BY TransportAssumption DEF TypeOK, Report, Age
    <3>2. UNCHANGED <<pc, sample>> /\ flight' \subseteq flight /\ input' = Append(input, r)
      BY <2>6 DEF Intrude, exchange, result, device
    <3> HIDE DEF r
    <3> QED BY <3>1, <3>2, FreshAppend
  <2>7. CASE Unplug
    BY <2>7 DEF Unplug, exchange, result, FreshInv, SampleIsTrue
  <2>8. CASE Plug
    BY <2>8 DEF Plug, exchange, result, FreshInv, SampleIsTrue
  <2>9. CASE Tick
    BY <2>9, FreshTick
  <2>10. CASE UNCHANGED vars
    BY <2>10 DEF vars, device, exchange, result, FreshInv, SampleIsTrue
  <2> QED BY <2>1, <2>2, <2>3, <2>4, <2>5, <2>6, <2>7, <2>8, <2>9, <2>10 DEF Next
<1>3. FreshInv => SampleIsTrue
  BY DEF FreshInv
<1> QED BY <1>1, <1>2, <1>3, TransportTypeCorrect, PTL DEF Spec

-----------------------------------------------------------------------------
\* What a sample lacks.

\* A group is either read or noted as missing.
Settled(c) == c \in DOMAIN sample <=> c \notin errors
Untouched(c) == c \notin DOMAIN sample /\ c \notin errors
Group(m) == Plan.telemetry[m]

\* Of the groups of telemetry, those before the n-th are settled and the others
\* untouched until the cycle has published its sample.
GroupsInv ==
    /\ pc # "rest" =>
         /\ ~connected
         /\ task # "telemetry" => DOMAIN sample = {} /\ errors = {}
         /\ task = "telemetry" =>
              /\ \A m \in DOMAIN Plan.telemetry : m < n => Settled(Group(m))
              /\ \A m \in DOMAIN Plan.telemetry : m >= n => Untouched(Group(m))
    /\ MissingIsReported

LEMMA GroupsAreDistinct ==
    /\ Len(Plan.telemetry) \in Nat /\ DOMAIN Plan.telemetry = 1 .. Len(Plan.telemetry)
    /\ ToSet(Plan.telemetry) = {Group(m) : m \in DOMAIN Plan.telemetry}
    /\ \A m, l \in DOMAIN Plan.telemetry : Group(m) = Group(l) => m = l
<1>1. IsInjective(Plan["telemetry"]) /\ "telemetry" \in Tasks
  BY PlanType, TransportAssumption
<1> QED BY <1>1, PlanType DEF Group, ToSet, IsInjective

\* The command of the exchange gets settled and no other group is touched.
Settles ==
    /\ task # "telemetry" => UNCHANGED <<sample, errors>>
    /\ task = "telemetry" =>
         \/ DOMAIN sample' = DOMAIN sample \cup {Command} /\ errors' = errors
         \/ sample' = sample /\ errors' = errors \cup {Command}

LEMMA GroupsContinue ==
    ASSUME TypeOK, GroupsInv, pc # "rest", Settles, Continue
    PROVE  GroupsInv'
<1>1. n \in 1 .. Len(Plan[task]) /\ ~connected
  BY PlanType DEF TypeOK, GroupsInv
<1>2. CASE task # "telemetry"
  <2>1. DOMAIN sample' = {} /\ errors' = {} /\ connected' = connected
    BY <1>2 DEF Settles, Continue, GroupsInv
  <2>2. task' = "telemetry" => n' = 1
    BY <1>2 DEF Continue, Start
  <2>3. \A m \in DOMAIN Plan.telemetry : m >= 1 /\ ~(m < 1)
    BY GroupsAreDistinct
  <2> QED BY <1>1, <2>1, <2>2, <2>3 DEF GroupsInv, MissingIsReported, Untouched
<1>3. CASE task = "telemetry"
  <2>1. Command = Group(n) /\ n \in DOMAIN Plan.telemetry
    BY <1>1, <1>3, GroupsAreDistinct DEF Command, Group
  <2>2. \A m \in DOMAIN Plan.telemetry : m < n + 1 => Settled(Group(m))'
    <3>1. ASSUME NEW m \in DOMAIN Plan.telemetry, m < n + 1
          PROVE  (Group(m) \in DOMAIN sample') <=> (Group(m) \notin errors')
      <4>1. CASE m = n
        <5>1. Untouched(Group(m))
          BY <1>1, <1>3, <4>1, GroupsAreDistinct DEF GroupsInv
        <5> QED BY <1>3, <2>1, <4>1, <5>1 DEF Settles, Untouched
      <4>2. CASE m # n
        <5>1. Settled(Group(m))
          BY <1>1, <1>3, <3>1, <4>2, GroupsAreDistinct DEF GroupsInv
        <5>2. Group(m) # Command
          BY <2>1, <4>2, GroupsAreDistinct
        <5> QED BY <1>3, <5>1, <5>2 DEF Settles, Settled
      <4> QED BY <4>1, <4>2
    <3> QED BY <3>1 DEF Settled, Group
  <2>3. \A m \in DOMAIN Plan.telemetry : m >= n + 1 => Untouched(Group(m))'
    <3>1. ASSUME NEW m \in DOMAIN Plan.telemetry, m >= n + 1
          PROVE  Group(m) \notin DOMAIN sample' /\ Group(m) \notin errors'
      <4>1. Untouched(Group(m))
        BY <1>1, <1>3, <3>1, GroupsAreDistinct DEF GroupsInv
      <4>2. Group(m) # Command
        BY <1>1, <2>1, <3>1, GroupsAreDistinct
      <4> QED BY <1>3, <4>1, <4>2 DEF Settles, Untouched
    <3> QED BY <3>1 DEF Untouched, Group
  <2>4. CASE Advance
    <3>1. n' = n + 1 /\ task' = "telemetry" /\ connected' = connected
      BY <1>3, <2>4 DEF Continue
    <3> QED BY <1>1, <2>2, <2>3, <3>1 DEF GroupsInv, MissingIsReported, Group
  <2>5. CASE ~Advance
    <3>1. pc' = "rest" /\ n = Len(Plan.telemetry)
      BY <1>1, <1>3, <2>5, GroupsAreDistinct DEF Continue, Advance, Rest
    <3>2. \A m \in DOMAIN Plan.telemetry : Settled(Group(m))'
      BY <2>2, <3>1, GroupsAreDistinct
    <3>3. \A c \in ToSet(Plan.telemetry) : (c \in DOMAIN sample') <=> (c \notin errors')
      BY <3>2, GroupsAreDistinct DEF Settled, Group
    <3> QED BY <3>1, <3>3 DEF GroupsInv, MissingIsReported
  <2> QED BY <2>4, <2>5
<1> QED BY <1>2, <1>3

LEMMA GroupsFail ==
    ASSUME TypeOK, GroupsInv, pc # "rest", NEW reports, Fail(reports)
    PROVE  GroupsInv'
<1>1. CASE Rest(2 * Cycle) /\ UNCHANGED result
  BY <1>1 DEF GroupsInv, MissingIsReported, Rest, result
<1>2. CASE Rest(Remaining) /\ UNCHANGED result
  BY <1>2 DEF GroupsInv, MissingIsReported, Rest, result
<1>3. CASE task = "inspect" /\ Start("telemetry") /\ UNCHANGED <<fd, result, clock>>
  <2>1. DOMAIN sample' = {} /\ errors' = {} /\ ~connected' /\ task' = "telemetry" /\ n' = 1
    BY <1>3 DEF GroupsInv, Start, result
  <2>2. \A m \in DOMAIN Plan.telemetry : m >= 1 /\ ~(m < 1)
    BY GroupsAreDistinct
  <2> QED BY <2>1, <2>2 DEF GroupsInv, MissingIsReported, Untouched
<1>4. CASE task = "telemetry" /\ errors' = Noted /\ Continue /\ UNCHANGED <<fd, sample>>
  BY <1>4, GroupsContinue DEF Settles, Noted
<1> QED BY <1>1, <1>2, <1>3, <1>4 DEF Fail

\* A published sample has each of its groups or notes an error for it, never
\* both and never neither, whatever is refused, late or lost (telemetry).
THEOREM MissingGroupsAreReported == Spec => []MissingIsReported
<1>1. Init => GroupsInv
  BY DEF Init, GroupsInv, MissingIsReported
<1>2. TypeOK /\ GroupsInv /\ [Next]_vars => GroupsInv'
  <2> SUFFICES ASSUME TypeOK, GroupsInv, [Next]_vars PROVE GroupsInv'
    OBVIOUS
  <2>1. CASE BeginCycle
    <3>1. /\ DOMAIN sample' = {} /\ errors' = {} /\ ~connected'
          /\ task' = "telemetry" => n' = 1
      BY <2>1 DEF BeginCycle, Start, Empty
    <3>2. \A m \in DOMAIN Plan.telemetry : m >= 1 /\ ~(m < 1)
      BY GroupsAreDistinct
    <3> QED BY <3>1, <3>2 DEF GroupsInv, MissingIsReported, Untouched
  <2>2. CASE Send
    <3>1. CASE Fail(Drained(input))
      BY <2>2, <3>1, GroupsFail DEF Send
    <3>2. CASE ~Fail(Drained(input))
      BY <2>2, <3>2 DEF Send, result, GroupsInv, MissingIsReported, Settled, Untouched
    <3> QED BY <3>1, <3>2
  <2>3. CASE Receive
    <3>1. CASE Fail(Tail(input))
      BY <2>3, <3>1, GroupsFail DEF Receive
    <3>2. CASE Accept(Head(input))
      <4>1. Head(input) \in Report
        BY <2>3, HeadTailProperties DEF TypeOK, Receive
      <4>2. Settles
        BY <3>2, <4>1, AcceptedSample DEF Settles, Accept
      <4> QED BY <2>3, <3>2, <4>2, GroupsContinue DEF Receive, Accept
    <3>3. CASE UNCHANGED <<pc, task, n, result>>
      BY <3>3 DEF result, GroupsInv, MissingIsReported, Settled, Untouched
    <3> QED BY <2>3, <3>1, <3>2, <3>3 DEF Receive
  <2>4. CASE TimesOut \/ Disconnects
    BY <2>4, GroupsFail DEF TimesOut, Disconnects
  <2>5. CASE \/ \E r \in flight : Arrive(r)
             \/ Intrude \/ Unplug \/ Plug \/ Tick \/ UNCHANGED vars
    <3>1. UNCHANGED <<pc, task, n, sample, errors, connected>>
      BY <2>5 DEF Arrive, Intrude, Unplug, Plug, Tick, vars, exchange, result
    <3> QED BY <3>1 DEF GroupsInv, MissingIsReported, Settled, Untouched
  <2> QED BY <2>1, <2>2, <2>3, <2>4, <2>5 DEF Next
<1>3. GroupsInv => MissingIsReported
  BY DEF GroupsInv
<1> QED BY <1>1, <1>2, <1>3, TransportTypeCorrect, PTL DEF Spec

-----------------------------------------------------------------------------
\* How long a cycle takes.

Longest == Max({Len(Handshake), Len(Reports)})

LEMMA LongestType ==
    /\ Longest \in Nat
    /\ Len(Plan["open"]) <= Longest /\ Len(Plan["inspect"]) <= Longest
<1> DEFINE a == Len(Handshake)  b == Len(Reports)
<1>1. a = Len(Plan["open"]) /\ b = Len(Plan["inspect"])
  BY DEF Plan
<1>2. a \in Nat /\ b \in Nat
  BY <1>1, PlanType
<1> HIDE DEF a, b
<1>3. \E x \in {a, b} : \A y \in {a, b} : x >= y
  <2>1. CASE a >= b
    BY <1>2, <2>1
  <2>2. CASE b >= a
    BY <1>2, <2>2
  <2> QED BY <1>2, <2>1, <2>2
<1>4. Max({a, b}) \in {a, b} /\ \A y \in {a, b} : Max({a, b}) >= y
  BY <1>3 DEF Max
<1>5. Longest = Max({a, b})
  BY DEF Longest, a, b
<1> QED BY <1>1, <1>2, <1>4, <1>5

LEMMA BegunType ==
    ASSUME TypeOK
    PROVE  /\ Begun \in Nat \ {0}
           /\ task # "telemetry" => Begun = n /\ Begun <= Longest
           /\ task = "telemetry" => Begun = n + Longest
<1>1. n \in 1 .. Len(Plan[task]) /\ task \in {"open", "inspect", "telemetry"}
  BY PlanType DEF TypeOK
<1>2. Begun = IF task = "telemetry" THEN n + Longest ELSE n
  BY DEF Begun, Longest
<1>3. task # "telemetry" => n <= Longest
  <2>1. ASSUME NEW t \in {"open", "inspect"}
        PROVE  Len(Plan[t]) \in Nat /\ Len(Plan[t]) <= Longest
    BY <2>1, PlanType, LongestType
  <2> HIDE DEF Plan
  <2> QED BY <1>1, <2>1, LongestType
<1>4. n \in Nat \ {0}
  BY <1>1, PlanType DEF TypeOK
<1> QED BY <1>1, <1>2, <1>3, <1>4, LongestType

LEMMA Times ==
    ASSUME NEW a \in Nat, NEW b \in Nat, NEW d \in Nat
    PROVE  /\ a * d \in Nat /\ (a + 1) * d = a * d + d
           /\ a <= b => a * d <= b * d
<1>1. a * d \in Nat /\ (a + 1) * d = a * d + d
  OBVIOUS
<1>2. a <= b => a * d <= b * d
  <2> SUFFICES ASSUME a <= b PROVE a * d <= b * d
    OBVIOUS
  <2>1. PICK c \in Nat : b = a + c
    <3>1. b - a \in Nat /\ b = a + (b - a)
      OBVIOUS
    <3> QED BY <3>1
  <2>2. b * d = a * d + c * d /\ c * d \in Nat /\ a * d \in Nat
    BY <2>1
  <2> QED BY <2>2
<1> QED BY <1>1, <1>2

\* The exchanges before the one that has begun have taken their time at most.
TimeInv ==
    /\ pc = "rest" => elapsed = 0
    /\ pc = "send" => left = 0 /\ elapsed <= (Begun - 1) * Deadline
    /\ pc = "poll" => elapsed + left <= Begun * Deadline

\* The exchange of the n-th command ends, so that the next one may have its time.
LEMMA TimeContinue ==
    ASSUME TypeOK, TypeOK', elapsed <= Begun * Deadline,
           \/ Continue
           \/ task = "inspect" /\ Start("telemetry") /\ UNCHANGED clock
    PROVE  TimeInv'
<1>1. Begun \in Nat /\ Deadline \in Nat /\ elapsed \in Nat /\ n \in Nat /\ Longest \in Nat
  <2>1. n \in Nat
    <3>1. n \in 1 .. Len(Plan[task])
      BY PlanType DEF TypeOK
    <3> QED BY <3>1
  <2>2. elapsed \in Nat
    BY DEF TypeOK
  <2> QED BY <2>1, <2>2, LongestType, BegunType, Bounds
<1>2. CASE Advance /\ n' = n + 1 /\ pc' = "send" /\ left' = 0 /\ UNCHANGED <<task, connected, clock>>
  <2>1. Begun = IF task = "telemetry" THEN n + Longest ELSE n
    BY DEF Begun, Longest
  <2>2. Begun' = IF task = "telemetry" THEN (n + 1) + Longest ELSE n + 1
    BY <1>2 DEF Begun, Longest
  <2>3. Begun' - 1 = Begun
    <3> SUFFICES ASSUME NEW b, b = Begun'
                 PROVE  b - 1 = Begun
      OBVIOUS
    <3> QED BY <1>1, <2>1, <2>2
  <2> QED BY <1>2, <2>3 DEF TimeInv, clock
<1>3. CASE task # "telemetry" /\ Start("telemetry") /\ UNCHANGED clock
  <2>1. Begun' = 1 + Longest
    BY <1>3 DEF Begun, Longest, Start
  <2>2. Begun' - 1 = Longest /\ Begun <= Longest
    BY <1>1, <1>3, <2>1, BegunType
  <2> DEFINE now == Begun * Deadline
             longest == Longest * Deadline
  <2>3. now <= longest /\ now \in Nat /\ longest \in Nat
    BY <1>1, <2>2, Times
  <2>4. elapsed <= longest
    <3> HIDE DEF longest
    <3>1. elapsed <= now
      OBVIOUS
    <3> HIDE DEF now
    <3> QED BY <1>1, <2>3, <3>1
  <2>5. elapsed <= (Begun' - 1) * Deadline
    BY <2>2, <2>4
  <2> QED BY <1>3, <2>5 DEF TimeInv, Start, clock
<1>4. CASE Rest(Remaining)
  BY <1>4 DEF TimeInv, Rest
<1> QED BY <1>2, <1>3, <1>4 DEF Continue

LEMMA TimeFail ==
    ASSUME TypeOK, TypeOK', elapsed <= Begun * Deadline, NEW reports, Fail(reports)
    PROVE  TimeInv'
<1>1. CASE Rest(2 * Cycle) \/ Rest(Remaining)
  BY <1>1 DEF TimeInv, Rest
<1>2. CASE ~(Rest(2 * Cycle) \/ Rest(Remaining))
  BY <1>2, TimeContinue DEF Fail
<1> QED BY <1>1, <1>2

LEMMA TimeIsBound ==
    ASSUME TypeOK, TimeInv
    PROVE  CycleIsBounded /\ elapsed <= Begun * Deadline
<1>1. /\ Begun \in Nat \ {0} /\ Deadline \in Nat /\ elapsed \in Nat
      /\ Begun - 1 \in Nat /\ left \in 0 .. Deadline /\ Begun = (Begun - 1) + 1
  BY BegunType, Bounds DEF TypeOK
<1>2. /\ (Begun - 1) * Deadline \in Nat
      /\ Begun * Deadline = (Begun - 1) * Deadline + Deadline
  BY <1>1, Times
<1>3. elapsed + left <= Begun * Deadline
  <2> DEFINE before == (Begun - 1) * Deadline
             all == Begun * Deadline
  <2>1. before \in Nat /\ all = before + Deadline
    BY <1>2
  <2>2. \/ elapsed = 0
        \/ left = 0 /\ elapsed <= before
        \/ elapsed + left <= all
    BY DEF TimeInv, TypeOK
  <2> HIDE DEF before, all
  <2>3. elapsed + left <= all
    BY <1>1, <2>1, <2>2
  <2> QED BY <2>3 DEF all
<1>4. Begun * Deadline \in Nat
  BY <1>1, <1>2
<1> QED BY <1>1, <1>3, <1>4 DEF CycleIsBounded

\* Whatever arrives, is late or never comes, each exchange of a cycle ends by its
\* deadline, counted from when it began: the time of a cycle is bounded by the
\* number of its requests (exchange, telemetry).
THEOREM CyclesEndInTime == Spec => []CycleIsBounded
<1>1. Init => TimeInv
  BY DEF Init, TimeInv
<1>2. TypeOK /\ TypeOK' /\ TimeInv /\ [Next]_vars => TimeInv'
  <2> SUFFICES ASSUME TypeOK, TypeOK', TimeInv, [Next]_vars PROVE TimeInv'
    OBVIOUS
  <2>1. elapsed <= Begun * Deadline
    BY TimeIsBound
  <2>2. CASE BeginCycle
    <3>1. elapsed' = 0 /\ left' = 0 /\ pc' = "send" /\ Deadline \in Nat
      BY <2>2, Bounds DEF BeginCycle, Start, clock, TimeInv
    <3>2. Begun' = IF task' = "telemetry" THEN 1 + Longest ELSE 1
      BY <2>2 DEF BeginCycle, Start, Begun, Longest
    <3>3. \E b \in Nat : b = Begun' - 1
      BY <3>2, LongestType
    <3>4. 0 <= (Begun' - 1) * Deadline
      <4>1. PICK b \in Nat : b = Begun' - 1
        BY <3>3
      <4>2. b * Deadline \in Nat
        BY <3>1, Times
      <4>3. 0 <= b * Deadline
        BY <4>2
      <4> QED BY <4>1, <4>3
    <3> QED BY <3>1, <3>4 DEF TimeInv
  <2>3. CASE Send
    <3>1. CASE Fail(Drained(input))
      BY <2>1, <3>1, TimeFail
    <3>2. CASE ~Fail(Drained(input))
      <4>1. pc = "send" /\ pc' = "poll" /\ left' = Deadline /\ elapsed' = elapsed /\ Begun' = Begun
        BY <2>3, <3>2 DEF Send, clock, Begun
      <4>2. /\ Begun \in Nat \ {0} /\ Deadline \in Nat /\ elapsed \in Nat
            /\ Begun - 1 \in Nat /\ Begun = (Begun - 1) + 1
        BY BegunType, Bounds DEF TypeOK
      <4> DEFINE before == (Begun - 1) * Deadline
                 all == Begun * Deadline
      <4>3. before \in Nat /\ all = before + Deadline
        BY <4>2, Times
      <4>4. elapsed <= before
        BY <4>1 DEF TimeInv
      <4> HIDE DEF before, all
      <4>5. elapsed + Deadline <= all
        BY <4>2, <4>3, <4>4
      <4> QED BY <4>1, <4>5 DEF TimeInv, all
    <3> QED BY <3>1, <3>2
  <2>4. CASE Receive
    <3>1. CASE Fail(Tail(input))
      BY <2>1, <3>1, TimeFail
    <3>2. CASE Accept(Head(input))
      BY <2>1, <3>2, TimeContinue DEF Accept
    <3>3. CASE WaitsOn /\ UNCHANGED <<pc, task, n, clock>>
      BY <3>3 DEF WaitsOn, clock, TimeInv, Begun
    <3> QED BY <2>4, <3>1, <3>2, <3>3 DEF Receive
  <2>5. CASE TimesOut \/ Disconnects
    BY <2>1, <2>5, TimeFail DEF TimesOut, Disconnects
  <2>6. CASE \/ \E r \in flight : Arrive(r)
             \/ Intrude \/ Unplug \/ Plug \/ UNCHANGED vars
    <3>1. UNCHANGED <<pc, task, n, left, elapsed>>
      BY <2>6 DEF Arrive, Intrude, Unplug, Plug, vars, exchange, clock
    <3> QED BY <3>1 DEF TimeInv, Begun
  <2>7. CASE Tick
    <3>1. UNCHANGED <<pc, task, n>>
      BY <2>7 DEF Tick
    <3>2. Begun' = Begun
      BY <3>1 DEF Begun
    <3>3. CASE pc = "rest"
      BY <2>7, <3>1, <3>2, <3>3 DEF Tick, TimeInv
    <3>4. CASE pc = "poll" /\ left' = left - 1 /\ elapsed' = elapsed + 1
      <4>1. elapsed' + left' = elapsed + left
        BY <3>4, Bounds DEF TypeOK
      <4> QED BY <3>1, <3>2, <3>4, <4>1 DEF TimeInv
    <3> QED BY <2>7, <3>3, <3>4 DEF Tick
  <2> QED BY <2>2, <2>3, <2>4, <2>5, <2>6, <2>7 DEF Next
<1>3. TypeOK /\ TimeInv => CycleIsBounded
  BY TimeIsBound
<1> QED BY <1>1, <1>2, <1>3, TransportTypeCorrect, PTL DEF Spec

=============================================================================
