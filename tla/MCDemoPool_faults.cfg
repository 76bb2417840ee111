SPECIFICATION FairSpec
CONSTANTS
    d1 = d1
    d2 = d2
    d3 = d3
    d4 = d4
    d5 = d5
    Ids = {d1, d2, d3, d4, d5}
    Count = 2
    MaxFaults <- EveryKind
INVARIANTS
    PoolAtStrength
    NoOrphans
PROPERTIES
    EventuallyFull
