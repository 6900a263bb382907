SPECIFICATION Spec
CONSTANTS
  i1 = i1
  i2 = i2
  alice = alice
  Imports = {i1, i2}
  BatchCount <- TwoBatchCount
  Keyed = {i2}
  User <- TwoUser
  Date <- TwoDate
  Attempts = 2
  Slots = 2
  MaxStalls = 1
  MaxLost = 1
  MaxCrashes = 0
INVARIANTS
  TypeOK
  ReportsAreAboutTheLastJob
  CommittedRowsSurvive
  SuccessCountsTheLastBatch
  BatchesStartInOrder
CHECK_DEADLOCK FALSE
