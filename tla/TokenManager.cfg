SPECIFICATION Spec
CONSTANTS
  Browsers = {b1, b2}
  Requests = {r1, r2}
  MaxLogins = 1
  EnvConfigured = TRUE
INVARIANTS
  OwnCookie
  ValidTokenIsUsed
  OneRefresh
CHECK_DEADLOCK FALSE
