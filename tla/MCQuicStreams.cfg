SPECIFICATION Spec
CONSTANTS
    Configs <- MCConfigs
    MIN_LIVE_STREAMS = 3
    RETIRED_FINAL_SIZES = 1
    MAX_PENDING_FRAGMENTS = 2
INVARIANTS
    NoConnectionError
    NothingForgotten
    AckedIsHeld
    BufferWithinWindow
    NoLostWakeup
    StreamsCounted
PROPERTIES
    EventuallySettled
