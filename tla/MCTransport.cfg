SPECIFICATION Spec
CONSTANTS
    Handshake <- MCHandshake
    Telemetry = "e0"
    Optional <- MCOptional
    Reports <- MCReports
    Unsolicited = "unsolicited"
    Deadline = 2
    Cycle = 5
    DrainLimit = 3
    MaxDelay = 3
INVARIANTS
    TypeOK
    SampleIsTrue
    MissingIsReported
    CycleIsBounded
CHECK_DEADLOCK FALSE
