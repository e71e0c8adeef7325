SPECIFICATION Spec
CONSTANTS
  Calls = {c1}
  MaxRetries = 2
INVARIANTS
  CopiesExplained
PROPERTIES
  ImplementsContract
CHECK_DEADLOCK FALSE
