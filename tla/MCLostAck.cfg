SPECIFICATION Spec
CONSTANTS
    Devices = {psu}
    Kinds = {otp, monitoring}
    Monitoring = monitoring
    None = None
    Clients = {c1}
    QueueSize = 1
    MaxPending = 8
    MaxCycles = 4
    MaxFailures = 0
    MaxRestarts = 0
INVARIANTS
    AcknowledgedIsSuppressed
CHECK_DEADLOCK FALSE
