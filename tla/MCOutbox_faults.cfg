SPECIFICATION FairSpec
CONSTANTS
    s1 = s1
    Events = {1, 2}
    Sweeps = {s1}
    BatchSize = 2
    MaxFaults <- EveryKind
INVARIANTS
    TypeOK
    NoDoubleClaim
    DuplicatesCostFaults
PROPERTIES
    RelaySpec
    EventuallyPublished
