SPECIFICATION Spec
CONSTANTS
    Devices = {psu}
    Monitoring = monitoring
    None = None
    AlertKinds = {}
    SafeguardKinds = {}
    SoftwareKinds = {connector1}
    Kinds = {connector1, monitoring}
    Policies <- ThreePolicies
    Loads <- ThreeLoads
    Steps <- SlowSteps
    MaxGap = 2
    MaxTime = 5
    MaxSession = 1
INVARIANTS
    SoftwareRaiseIsSustained
    SoftwareRecoveryIsSustained
    SustainedImbalanceIsOpen
CHECK_DEADLOCK FALSE
