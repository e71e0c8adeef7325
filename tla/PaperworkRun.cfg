SPECIFICATION Spec
CONSTANTS
  MaxRuns = 3
  Recording <- RecordingSteps
  None = None
  MaxMounts = 2
  MaxOpenings = 2
INVARIANTS
  OwnHousehold
  ScreenIsOwn
  OneHouseholdPerOpening
CHECK_DEADLOCK FALSE
