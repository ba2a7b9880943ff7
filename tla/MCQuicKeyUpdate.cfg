SPECIFICATION Spec
CONSTANTS
    WINDOW = 3
    USAGE_LIMIT = 4
    MaxPn <- MCMaxPn
    MaxGen = 2
INVARIANTS
    UpdatesLegal
    DispatchedOnce
    NextOpens
CHECK_DEADLOCK FALSE
