SPECIFICATION EvidenceFairSpec
CONSTANTS
    Devices = {psu1, psu2}
    Kinds = {otp, monitoring}
    Monitoring = monitoring
    None = None
    Clients = {}
    QueueSize = 1
    MaxPending = 1
    MaxCycles = 3
    MaxFailures = 2
    MaxRestarts = 0
    Before = 1
    After = 2
    MaxWindows = 1
    MaxEvidence = 2
INVARIANTS
    EngineIsOfDevice
    NoUpdateLostUnnoticed
    NoSampleLostUnnoticed
    EvidenceIsAccounted
    EvidenceHasIncident
PROPERTIES
    AcceptedSampleCommits
    StopEnds
CHECK_DEADLOCK FALSE
