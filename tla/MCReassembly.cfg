SPECIFICATION Spec
CONSTANTS
  LastSeq = 2
  UnitsOf <- MCUnitsOf
  Genuine = 2
  MAX_SEQ_AHEAD = 2
  max_in_progress = 2
  STALLED_FIRES_TO_CLEAR = 2
  SpoofBudget = 3
INVARIANTS
  BudgetKept
  InOrderOnce
PROPERTIES
  ReceivedBytesStay
  FlightDelivered
