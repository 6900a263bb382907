SPECIFICATION Spec
CONSTANTS
  Requests = {r1, r2}
  Carriers = {"cookie", "header", "both"}
  RefreshAge = 2
  AccessAge = 1
  MaxPairs = 3
  MaxTime = 2
SYMMETRY Anonymous
INVARIANTS
  TypeOK
  ClientAndServerAgree
  CookiesOutliveTheirTokens
PROPERTIES
  AccessEndsWithItsAge
  TableIsImplemented
CHECK_DEADLOCK FALSE
