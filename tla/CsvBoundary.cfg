SPECIFICATION Spec
CONSTANTS
  Limit = 2
  HighWater = 2
  MaxRows = 11
INVARIANTS
  EveryRowIsSentOnce
CHECK_DEADLOCK FALSE
