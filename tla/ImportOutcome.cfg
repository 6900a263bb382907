SPECIFICATION Spec
CONSTANTS
  i1 = i1
  i2 = i2
  alice = alice
  Imports = {i1}
  BatchCount <- OneOfTwo
  Keyed = {}
  User <- OneUser
  Date <- OneDate
  Attempts = 2
  Slots = 2
  MaxStalls = 1
  MaxLost = 0
  MaxCrashes = 0
INVARIANTS
  OneOutcome
CHECK_DEADLOCK FALSE
