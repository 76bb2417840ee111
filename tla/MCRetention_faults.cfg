SPECIFICATION FairDownloadSpec
CONSTANTS
    j1 = j1
    j2 = j2
    t1 = t1
    t2 = t2
    Jobs = {j1, j2}
    Tokens = {t1, t2}
    NoToken = NoToken
    BatchSize = 1
    MaxRequests = 1
    MaxFaults <- EveryKind
CHECK_DEADLOCK FALSE
INVARIANTS
    TypeOK
    UnexpiredKept
    OnlyLateFilesStay
PROPERTIES
    EventuallyPurged
    GoneForGood
