SPECIFICATION Spec
CONSTANTS
  Emails = {e1}
  Providers = {google}
  Devices = {d1}
  Requests = {r1, r2}
  RefreshAge = 2
  AccessAge = 1
  MaxTokens = 3
  MaxTime = 2
INVARIANTS
  SignOutRevokes
CHECK_DEADLOCK FALSE
