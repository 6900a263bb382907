SPECIFICATION Spec
CONSTANTS
  Emails = {e1}
  Providers = {google, github}
  Devices = {d1, d2}
  Requests = {r1, r2}
  RefreshAge = 2
  AccessAge = 1
  MaxTokens = 3
  MaxTime = 2
SYMMETRY Anonymous
INVARIANTS
  TypeOK
  OneAccountPerEmail
  RetiredPairsStayRetired
  ExpiryOnlyDrifts
PROPERTIES
  TableIsImplemented
  OnlyAStaleReadServesInactive
CHECK_DEADLOCK FALSE
