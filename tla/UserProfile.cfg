SPECIFICATION Spec
CONSTANTS
  Users = {u1, u2}
  Phones = {p1}
  Requests = {r1, r2}
  Concurrency = 2
  Attempts = 2
  MaxPictures = 2
  MaxStalls = 1
  MaxCrashes = 1
SYMMETRY Anonymous
INVARIANTS
  TypeOK
  AvatarIsOnItsWay
  ConflictsTellWhatWasDone
PROPERTIES
  NewerPicturesWin
CHECK_DEADLOCK FALSE
