SPECIFICATION Spec
CONSTANTS
    a = a
    b = b
    Tokens = {a, b}
    NoToken = NoToken
    MaxAttempts = 2
    QueueAttempts = 2
    MaxStalledCount = 1
    MaxFaults <- OnePause
SYMMETRY TokenSymmetry
CHECK_DEADLOCK FALSE
INVARIANTS
    QueueCompletionIsRecorded
