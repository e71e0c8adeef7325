SPECIFICATION Spec
CONSTANTS
  P1Names = {Ann}
  P2Names = {Bob}
  Others = {Kid}
  IndivTypes = {IRA}
  JointTypes = {JTWROS}
  Survivorship = {JTWROS}
  Contact = Carl
  None = None
  SampleP1 = Ann
  SampleP2 = Bob
  SampleCouple = Couple
  SampleIndiv = IRA
  SampleJoint = JTWROS
  MaxAccounts = 3
  MaxRuns = 2
  MaxJumps = 1
CONSTRAINT Followed
INVARIANTS
  FundingDecided
  CompleteUnlessResumed
