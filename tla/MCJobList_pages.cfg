SPECIFICATION Spec
CONSTANTS
    Jobs <- ThreeJobs
    MaxLimit = 2
    MaxMs = 2
    Micros = 2
CHECK_DEADLOCK FALSE
INVARIANTS
    NewestFirst
    NothingSkipped
