SPECIFICATION Spec
CONSTANTS
    Configs <- Everyday
    MAX_RETRANSMITS = 1
    STALLED_FIRES_TO_CLEAR = 2
    MAX_AGE_MIN = 1
    MaxMinute = 3
INVARIANTS
    NoFatalError
    MissingIsRetransmitted
PROPERTIES
    CloseAfterFinished
    CloseReleased
CHECK_DEADLOCK FALSE
