SPECIFICATION Spec
CONSTANTS
  WINDOW_BITS = 3
  SEQ_MODULUS = 8
  SEQ_MASK = 15
INVARIANTS
  AtMostOnce
  InWindowAccepted
  NearbyReconstructs
  WindowMirrorsHistory
CHECK_DEADLOCK FALSE
