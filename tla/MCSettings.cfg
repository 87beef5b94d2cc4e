SPECIFICATION FairSpec
CONSTANTS
    Minutes = {0, 1, 2}
    PeriodOf <- TwoPeriods
    Prices = {3}
    Currencies = {brl, usd}
    None = None
    MaxTariffs = 2
    MaxBuckets = 2
    Unit = 2
    Clients = {c1, c2}
    Valid = {default, strict}
    Invalid = {invalid}
    Default = default
    Storage = storage
    Times = {0, 1, 2}
    Observed <- SomePartial
    Recorded = {0, 1}
    MaxRequests = 3
    MaxCommits = 1
    MaxRestarts = 1
INVARIANTS
    TypeOK
    TariffsAreSound
    SummaryIsRight
PROPERTIES
    ImplementsRegister
    SnapshotLockIsReleased
CHECK_DEADLOCK FALSE
