SPECIFICATION Spec
CONSTANTS
  Households = {h1, h2}
  MaxDepth = 2
  MaxScans = 2
  MaxRecordings = 1
  None = None
SYMMETRY AnyHousehold
INVARIANTS
  ReviewIsOfOne
  NotesAreOwn
  LoggedOnce
PROPERTY BackPromise
