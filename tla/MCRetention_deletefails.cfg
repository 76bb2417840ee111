SPECIFICATION DownloadSpec
CONSTANTS
    j1 = j1
    t1 = t1
    t2 = t2
    Jobs = {j1}
    Tokens = {t1, t2}
    NoToken = NoToken
    BatchSize = 1
    MaxRequests = 1
    MaxFaults <- OnlyDelete
CHECK_DEADLOCK FALSE
INVARIANTS
    PurgedIsGone
