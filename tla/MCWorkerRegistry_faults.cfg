SPECIFICATION FairSpec
CONSTANTS
    j1 = j1
    j2 = j2
    Jobs = {j1, j2}
    NoJob = NoJob
    Concurrency = 2
    MaxSent = 3
    MaxFaults <- EveryKind
CHECK_DEADLOCK FALSE
INVARIANTS
    BusyIsHonest
PROPERTIES
    StatusCatchesUp
    QuietDepartureUnlists
    EventuallyUnlisted
