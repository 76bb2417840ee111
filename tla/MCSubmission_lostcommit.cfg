SPECIFICATION Spec
CONSTANTS
    r1 = r1
    r2 = r2
    k1 = k1
    k2 = k2
    p1 = p1
    p2 = p2
    Requests = {r1, r2}
    NoRequest = NoRequest
    Keys = {k1, k2}
    NoKey = NoKey
    Prints = {p1, p2}
    MaxFaults <- OnlyCommit
SYMMETRY Symmetry
CHECK_DEADLOCK FALSE
INVARIANTS
    UploadBehindJob
