SPECIFICATION Spec
CONSTANTS
    Devices = {psu}
    Monitoring = monitoring
    None = None
    AlertKinds = {otp}
    SafeguardKinds = {guard}
    SoftwareKinds = {connector1}
    Kinds = {otp, guard, connector1, monitoring}
    Policies <- OnePolicy
    Loads <- TwoLoads
    Steps <- SlowSteps
    MaxGap = 2
    MaxTime = 4
    MaxSession = 1
INVARIANTS
    HardwareFollowsLatestReading
    UpdatesTellActive
PROPERTY ImplementsLifecycle
CHECK_DEADLOCK FALSE
