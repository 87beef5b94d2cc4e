------------------------------ MODULE Evidence ------------------------------
(***************************************************************************)
(* The evidence of incidents (src/runtime.rs, src/history.rs): the samples *)
(* of the minute before an incident is raised and of the two minutes after *)
(* it are stored with it. They ride in the items of the runtime's queue,   *)
(* so this module adds to each of the runtime's steps what it does with    *)
(* evidence, and the statements of the storage thread that write it. What  *)
(* does not fit is dropped, oldest first, and counted.                     *)
(***************************************************************************)
EXTENDS Runtime, Listing

CONSTANTS
    Before,         \* 60_000 ms, in cycles
    After,          \* 120_000 ms
    MaxWindows,     \* MAX_EVIDENCE_WINDOWS
    MaxEvidence     \* MAX_PENDING_EVIDENCE

ASSUME EvidenceAssumption ==
    /\ Before \in Nat /\ After \in Nat
    /\ MaxWindows \in Nat \ {0} /\ MaxEvidence \in Nat \ {0}

VARIABLES
    ring,       \* the samples of this session from the minute before
    capturing,  \* the incidents whose samples are kept, and until when
    waiting,    \* pending_evidence
    carried,    \* the evidence in each item of the queue
    held,       \* the evidence in the item of the storage thread
    written,    \* how much of that is written
    evidence,   \* table evidence
    counts,     \* dropped_evidence_samples and truncated_evidence_windows
    forgone     \* history: updates that were dropped, windows that another device ended

evidenceVars == <<ring, capturing, waiting, carried, held, written, evidence, counts, forgone>>
allVars == <<vars, evidenceVars>>

Id == [kind : Kinds, at : Nat]
IdOf(i) == [kind |-> i.kind, at |-> i.at]
Reading == [id : Id, sample : Sample]
Of(id, s) == [id |-> id, sample |-> s]
WindowAt(id, until) == [id |-> id, until |-> until]

EvidenceInit ==
    /\ Init
    /\ ring = <<>> /\ capturing = <<>> /\ waiting = <<>> /\ carried = <<>>
    /\ held = <<>> /\ written = 0
    /\ evidence = {}
    /\ counts = [dropped |-> 0, truncated |-> 0]
    /\ forgone = [updates |-> {}, windows |-> {}]

-----------------------------------------------------------------------------
\* The monitor thread.

Newest(s, limit) == SubSeq(s, Len(s) - Min({Len(s), limit}) + 1, Len(s))
Excess(s, limit) == Len(s) - Min({Len(s), limit})

\* Another device ends the windows of the one before; a new session has no past.
EvidenceOpenDevice(d) ==
    /\ OpenDevice(d)
    /\ ring' = <<>>
    /\ capturing' = IF current = d THEN capturing ELSE <<>>
    /\ forgone' = IF current = d THEN forgone
                  ELSE [forgone EXCEPT !.windows = @ \cup {w.id : w \in ToSet(capturing)}]
    /\ UNCHANGED <<waiting, carried, held, written, evidence, counts>>

\* The samples of the ring, for each of these incidents.
Past(ids) == FlattenSeq([n \in DOMAIN ids |-> [m \in DOMAIN ring |-> Of(ids[n], ring[m])]])

\* retain: the elements at these places, in their order.
Retain(s, places) == [n \in 1 .. Cardinality(places) |-> s[Nth(places, n)]]

\* Those that end at this time still take the sample.
OpenWindowsEarly(windows) ==
    Retain(windows, {n \in DOMAIN windows : cycle < windows[n].until})
OpenWindows(windows) ==
    Retain(windows, {n \in DOMAIN windows : cycle <= windows[n].until})

\* The samples of the last minute: what is older leaves the ring.
Recent(s) == Retain(s, {n \in DOMAIN s : cycle - s[n].at <= Before})

\* Every incident that is raised opens a window, in place of the oldest one if
\* there are too many; the sample goes to all windows.
EvidenceTakeSample ==
    /\ TakeSample
    /\ LET updates == produced'.updates \ produced.updates
           ids == SetToSeq({IdOf(u) : u \in {u \in updates : u.until = None}})
           windows == capturing \o [n \in DOMAIN ids |-> WindowAt(ids[n], cycle + After)]
           open == OpenWindows(Newest(windows, MaxWindows))
           all == waiting \o Past(ids) \o [n \in DOMAIN open |-> Of(open[n].id, taken')]
       IN  /\ capturing' = open
           /\ waiting' = Newest(all, MaxEvidence)
           /\ counts' = [dropped |-> counts.dropped + Excess(all, MaxEvidence),
                         truncated |-> counts.truncated + Excess(windows, MaxWindows)]
           /\ forgone' = [forgone EXCEPT !.updates =
                             @ \cup ((ToSet(pending) \cup updates) \ ToSet(pending'))]
    /\ ring' = Recent(Append(ring, taken'))
    /\ UNCHANGED <<carried, held, written, evidence>>

\* The evidence goes where the item goes: into the queue, back, or away with it.
Ride(all) ==
    IF queue' # queue THEN carried' = Append(carried, all) /\ waiting' = <<>>
    ELSE carried' = carried /\ waiting' = IF Receiving THEN all ELSE <<>>

EvidencePublish ==
    /\ Publish
    /\ Ride(waiting)
    /\ UNCHANGED <<ring, capturing, held, written, evidence, counts, forgone>>

\* The incident that says monitoring is lost has a past and no window.
EvidenceSampleFails ==
    /\ SampleFails
    /\ LET raised == {IdOf(u) : u \in produced'.updates \ produced.updates}
       IN  IF shared.telemetry = None THEN UNCHANGED <<waiting, carried>>
           ELSE Ride(waiting \o Past(SetToSeq(raised)))
    /\ UNCHANGED <<ring, capturing, held, written, evidence, counts, forgone>>

-----------------------------------------------------------------------------
\* The storage thread.

EvidenceReceives ==
    /\ StorageReceives
    /\ held' = Head(carried) /\ carried' = Tail(carried)
    /\ written' = 0
    /\ UNCHANGED <<ring, capturing, waiting, evidence, counts, forgone>>

\* record_evidence of the next reading, after the incidents of the item.
AfterRecord == store.pc = "busy" /\ store.done > 0
AfterIncidents == store.pc = "busy" /\ store.done > Len(store.item.events)
StorageWritesEvidence ==
    /\ AfterIncidents /\ written < Len(held)
    /\ evidence' = evidence \cup {held[written + 1]}
    /\ written' = written + 1
    /\ UNCHANGED <<vars, ring, capturing, waiting, carried, held, counts, forgone>>

EvidenceCompletes ==
    /\ StorageCompletes /\ written = Len(held)
    /\ held' = <<>> /\ written' = 0
    /\ UNCHANGED <<ring, capturing, waiting, carried, evidence, counts, forgone>>

\* The whole item again, its evidence too.
EvidenceFails ==
    /\ StorageFails
    /\ written' = 0
    /\ IF stop THEN held' = <<>> /\ carried' = <<>> ELSE UNCHANGED <<held, carried>>
    /\ UNCHANGED <<ring, capturing, waiting, evidence, counts, forgone>>

EvidenceRestart ==
    /\ Restart
    /\ ring' = <<>> /\ capturing' = <<>> /\ waiting' = <<>> /\ carried' = <<>>
    /\ held' = <<>> /\ written' = 0
    /\ counts' = [dropped |-> 0, truncated |-> 0]
    /\ UNCHANGED <<evidence, forgone>>

-----------------------------------------------------------------------------
EvidenceMonitor ==
    \/ \E d \in Devices : EvidenceOpenDevice(d)
    \/ OpenFails /\ UNCHANGED evidenceVars
    \/ EvidenceTakeSample
    \/ EvidencePublish
    \/ EvidenceSampleFails
    \/ MonitorExits /\ UNCHANGED evidenceVars

EvidenceStorage ==
    \/ EvidenceReceives
    \/ StorageRecords /\ UNCHANGED evidenceVars
    \/ StorageUpserts /\ UNCHANGED evidenceVars
    \/ StorageWritesEvidence
    \/ EvidenceCompletes
    \/ EvidenceFails
    \/ StorageExits /\ UNCHANGED evidenceVars

EvidenceNext ==
    \/ EvidenceMonitor
    \/ EvidenceStorage
    \/ (\E c \in Clients : Acknowledge(c)) /\ UNCHANGED evidenceVars
    \/ Signal /\ UNCHANGED evidenceVars
    \/ EvidenceRestart

EvidenceSpec == EvidenceInit /\ [][EvidenceNext]_allVars

\* As in the runtime, both threads run while they can.
EvidenceFairSpec ==
    EvidenceSpec /\ WF_allVars(EvidenceMonitor) /\ WF_allVars(EvidenceStorage)

-----------------------------------------------------------------------------
\* Properties.

\* The cycles from a sample on in which samples were taken without a gap.
Unbroken(from, to) ==
    \A n \in from .. to : \E s \in produced.samples : s.at = n

\* The evidence an incident should have: the samples of its power supply from
\* the window around it, those before it of the same session.
Due(u) ==
    LET before == {s \in produced.samples :
                      /\ s.at < u.at /\ s.device = u.device /\ Unbroken(s.at, u.at - 1)
                      /\ u.at - (IF u.kind = Monitoring THEN 1 ELSE 0) - s.at <= Before}
        after == {s \in produced.samples :
                      u.kind # Monitoring /\ s.device = u.device /\ s.at \in u.at .. u.at + After}
    IN  {Of(IdOf(u), s) : s \in before \cup
                               (IF IdOf(u) \in forgone.windows THEN {} ELSE after)}

EvidenceOnTheWay ==
    ToSet(waiting) \cup ToSet(held) \cup UNION {ToSet(e) : e \in ToSet(carried)}

\* The evidence of every incident is complete but for what is counted: no
\* reading of its window gets lost unnoticed when the queue is full, an item is
\* repeated, windows are too many or the device fails (installation.md:60). An
\* exchange of the power supply does end windows without being counted.
EvidenceIsAccounted ==
    store.pc # "failed" =>
        LET due == UNION {Due(u) : u \in {u \in produced.updates : u.until = None}}
        IN  Cardinality(due \ (evidence \cup EvidenceOnTheWay))
                <= counts.dropped + (After + 1) * counts.truncated

\* A reading in the table of evidence belongs to an incident in the table of
\* incidents, in whatever statement an item fails or the process ends, unless
\* the update that tells of the incident was dropped (the order of a storage
\* item; the Evidence request names incidents of that table).
EvidenceHasIncident ==
    \A e \in evidence :
        \/ \E r \in rows : IdOf(r) = e.id
        \/ \E u \in forgone.updates : IdOf(u) = e.id

=============================================================================
