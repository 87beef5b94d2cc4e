SPECIFICATION Spec
CONSTANTS
    Devices = {psu}
    Kinds = {otp, monitoring}
    Monitoring = monitoring
    None = None
    Clients = {}
    QueueSize = 1
    MaxPending = 8
    MaxCycles = 5
    MaxFailures = 1
    MaxRestarts = 1
INVARIANTS
    OpenIncidentsAreRestored
CHECK_DEADLOCK FALSE
