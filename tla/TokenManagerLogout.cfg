SPECIFICATION Spec
CONSTANTS
  Browsers = {b1}
  Requests = {r1, r2}
  MaxLogins = 1
  EnvConfigured = TRUE
PROPERTIES
  DeadStaysDead
CHECK_DEADLOCK FALSE
