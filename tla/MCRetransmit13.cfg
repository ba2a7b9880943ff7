SPECIFICATION Spec
CONSTANTS
  hello = hello
  finished = finished
  Records <- MCRecords
  EpochOf <- MCEpochOf
  INITIAL_TIMEOUT = 1
  MAX_TIMEOUT = 6
  MAX_RETRANSMITS = 3
  PREV_EPOCH_GRACE_TIME = 12
  MaxLate = 1
  LastSend = 5
  MaxTime = 23
INVARIANTS
  TimerCoversFlight
  AckReleases
  ScheduleKept
PROPERTIES
  RetransmitsWithinGrace
  FlightResolves
CHECK_DEADLOCK FALSE
