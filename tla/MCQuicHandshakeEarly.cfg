SPECIFICATION Spec
CONSTANTS
    Configs <- EarlyLimited
    K_PACKET_THRESHOLD = 3
    K_PTO_PROBES = 2
    MaxExpiries = 4
INVARIANT
    ClientKeepsProbing
CHECK_DEADLOCK FALSE
