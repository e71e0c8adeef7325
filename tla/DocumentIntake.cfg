SPECIFICATION FairSpec
CONSTANTS
  MaxDocs = 3
  MaxTasks = 2
  MaxAtOnce = 2
  InContext = FALSE
INVARIANTS
  SentTwiceExplained
PROPERTIES
  VerdictsKept
  TakenIsSent
CHECK_DEADLOCK FALSE
