SPECIFICATION Spec
CONSTANTS
  Users = {u1, u2}
  Ids = {t1, t2, t3}
  Imports = {d1}
  Sizes = {1, 2, 3}
  MaxSize = 2
  MaxPage = 2
SYMMETRY Anonymous
INVARIANTS
  TypeOK
  UndisturbedWalkIsExact
  MissedOnlyByRemovalOrRace
  RepeatedOnlyByInsertionOrMove
  RefusedOnlyBeyondTheLastPage
PROPERTIES
  RowsKeepTheirKey
CHECK_DEADLOCK FALSE
