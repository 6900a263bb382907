SPECIFICATION Spec
CONSTANTS
  Keys = {k1, k2}
  Requests = {r1, r2}
  TTL = 2
  MaxStates = 3
  MaxTime = 3
SYMMETRY Anonymous
INVARIANTS
  TypeOK
PROPERTIES
  OnlyTheLastPromptMatches
  RefusedOnlyIfUsedOrLost
CHECK_DEADLOCK FALSE
