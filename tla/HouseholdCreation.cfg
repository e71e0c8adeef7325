SPECIFICATION FairSpec
CONSTANTS
  Calls = {c1}
  Members = {p1, p2}
  Steps = {s1}
  MaxRetries = 1
INVARIANTS
  SuccessIsReal
  UnforcedRespectsExisting
  DuplicatesExplained
PROPERTIES
  EndsQuietly
CHECK_DEADLOCK FALSE
