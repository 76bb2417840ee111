SPECIFICATION FairSpec
CONSTANTS
    a = a
    b = b
    c = c
    d = d
    Tokens = {a, b, c, d}
    NoToken = NoToken
    MaxAttempts = 2
    QueueAttempts = 2
    MaxStalledCount = 1
    MaxFaults <- OnlyCrashes
CHECK_DEADLOCK FALSE
INVARIANTS
    QueueCompletionIsRecorded
    QueueFailureIsRecorded
PROPERTIES
    AttemptsMonotonic
    EventuallyTerminal
