SPECIFICATION Spec
CONSTANTS
  MAX_RETRANSMITS = 1
  MAX_SEQ_AHEAD = 8
  Configs <- MCConfigs
INVARIANTS
  WriteEpochReadable
  EpochsBacked
  OneNewConnectionId
PROPERTIES
  UpdateResolves
  EpochsInStep
CHECK_DEADLOCK FALSE
