SPECIFICATION FairSpec
CONSTANTS
  MaxInputs = 4
  ChunkSize = 2
INVARIANTS
  EveryInputReported
  DuplicatesExplained
PROPERTIES
  BatchEnds
CHECK_DEADLOCK FALSE
