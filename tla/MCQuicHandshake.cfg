SPECIFICATION Spec
CONSTANTS
    Configs <- MCConfigs
    K_PACKET_THRESHOLD = 3
    K_PTO_PROBES = 2
    MaxExpiries = 4
INVARIANTS
    InFlightCounted
    NothingLost
    TimerCurrent
    DiscardedIsDelivered
PROPERTIES
    EventuallyDone
CHECK_DEADLOCK FALSE
