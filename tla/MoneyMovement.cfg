SPECIFICATION Spec
CONSTANTS
  Households = {h1, h2}
  Contexts = {None, h1}
  Labels = {l1, l2}
  IraLabels = {l2}
  Offers = {{l1}, {l1, l2}}
  Types = {"wire", "journal", "ach-distribution"}
  None = None
  MaxPicks = 2
  MaxSubmits = 2
  MaxMounts = 1
  MaxAgain = 1
CONSTRAINT
  Uninterrupted
INVARIANTS
  CompleteIsOwn
PROPERTIES
  OwnAccount
CHECK_DEADLOCK FALSE
