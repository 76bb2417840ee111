SPECIFICATION Spec
CONSTANTS
    a = a
    b = b
    c = c
    Tokens = {a, b, c}
    NoToken = NoToken
    MaxAttempts = 2
    QueueAttempts = 2
    MaxStalledCount = 2
    MaxFaults <- EveryKind
SYMMETRY TokenSymmetry
CHECK_DEADLOCK FALSE
INVARIANTS
    TypeOK
    PublishedIntact
    NoPrematureFailure
    LosersCleanUp
PROPERTIES
    TerminalFinal
    DuplicateDeliveryInert
    OwnerDecides
    TicketSpec
