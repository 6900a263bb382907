SPECIFICATION FairSpec
CONSTANTS
  i1 = i1
  i2 = i2
  alice = alice
  Imports = {i1}
  BatchCount <- OneOfTwo
  Keyed = {}
  User <- OneUser
  Date <- OneDate
  Attempts = 2
  Slots = 2
  MaxStalls = 1
  MaxLost = 1
  MaxCrashes = 1
INVARIANTS
  CopiesNeedALostAnswer
  ExecutionsAreBounded
  LeftoversNeedALostRollback
PROPERTIES
  UntoldOnlyIfLost
  EveryBatchSettles
  KeepsTheContract
CHECK_DEADLOCK FALSE
