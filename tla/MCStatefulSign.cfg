CONSTANTS
    p1 = p1
    p2 = p2
    Process <- MCProcess
    NoOwner = NoOwner
    Stale = Stale
    None = None
    MaxMessages = 6
    Schemes <- MCSchemes
    U64_MAX = 7
SPECIFICATION Spec
SYMMETRY Processes
INVARIANTS
    OneTimeKeysOnce
    FileIntact
    RemainingExact
CHECK_DEADLOCK FALSE
