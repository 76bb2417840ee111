SPECIFICATION FairSpec
CONSTANTS
    r1 = r1
    r2 = r2
    r3 = r3
    k1 = k1
    p1 = p1
    p2 = p2
    Requests = {r1, r2, r3}
    NoRequest = NoRequest
    Keys = {k1}
    NoKey = NoKey
    Prints = {p1, p2}
    MaxFaults <- EveryKind
CHECK_DEADLOCK FALSE
INVARIANTS
    TypeOK
    OneJobPerKey
    OutboxComplete
    UploadKept
    NoOrphanUploads
PROPERTIES
    StoreSpec
    EventuallyAnswered
