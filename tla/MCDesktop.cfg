SPECIFICATION FairSpec
CONSTANTS
    Connections = {c1, c2}
    None = None
    MaxClients = 1
    QueueSize = 2
    MaxServed = 2
    MaxInspects = 2
    OtherClients = {{}, {c1, c2}}
    ActionQueue = 1
    UpdateQueue = 1
    Batch = 1
    Extras <- OneExtra
    MaxPresses = 1
INVARIANTS
    DesktopTypeOK
    SlotsMatchThreads
    InspectAnswersItsRequest
PROPERTIES
    SlotsAreReleased
    CloseEnds
    ActionsAreAnswered
CHECK_DEADLOCK FALSE
