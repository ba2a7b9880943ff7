SPECIFICATION Spec
CONSTANTS
    Configs <- ClientSigner
    MAX_RETRANSMITS = 3
    STALLED_FIRES_TO_CLEAR = 2
    MAX_AGE_MIN = 1
    MaxMinute = 1
INVARIANT
    MissingIsRetransmitted
CHECK_DEADLOCK FALSE
