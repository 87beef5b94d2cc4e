SPECIFICATION Spec
CONSTANTS
    Minute = 2
    MaxGap = 2
    Skew = 1
    Retention = 2
    Batch = 1
    PruneEvery = 2
    QueueSize = 1
    Readings <- TwoReadings
    None = None
    Delays = {1, 2}
    Jumps <- Steps
    Horizon = 5
    MaxJumps = 1
    MaxFailures = 1
    MaxBreaks = 1
INVARIANTS
    TypeOK
    LedgerIsOfSamples
    EnergyIsIntegral
    NothingInvented
CHECK_DEADLOCK FALSE
