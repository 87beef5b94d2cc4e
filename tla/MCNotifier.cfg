SPECIFICATION FairSpec
CONSTANTS
    Ids = {critical, warning}
    Critical = {critical}
    None = None
    MaxAttempts = 2
    Interval = 2
    Deadline = 1
    Retention = 5
    Capacity = 1
    Lines = 2
    MaxEnds = 1
INVARIANTS
    TypeOK
    RepeatsAreBounded
    RepeatsAreSpaced
    WarningsAreDeliveredOnce
PROPERTIES
    OpenIsShownOrExhausted
