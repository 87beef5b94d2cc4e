SPECIFICATION EvidenceSpec
CONSTANTS
    Devices = {psu}
    Kinds = {otp, monitoring}
    Monitoring = monitoring
    None = None
    Clients = {c1}
    QueueSize = 1
    MaxPending = 8
    MaxCycles = 3
    MaxFailures = 0
    MaxRestarts = 1
    Before = 1
    After = 1
    MaxWindows = 1
    MaxEvidence = 2
INVARIANTS
    AcknowledgementIsDurable
    TableMatchesEngine
    OpenIncidentsAreRestored
CHECK_DEADLOCK FALSE
