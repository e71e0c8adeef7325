SPECIFICATION SetupFairSpec
CONSTANTS
  Orgs = {o1, o2}
  EnvOrg = None
  OtherOrg = o2
  Roles = {advisor, operations}
  DemoRole = operations
  None = None
INVARIANTS
  AloneIsOwn
PROPERTIES
  SetupInOrder
  DiscoveryMovesOn
