SPECIFICATION FiguresSpec
INVARIANTS
  PaperworkMeetsRules
  OwnPaperwork
  ScansAgree
  FoundAgain
  OwnBook
  FiguresAddUp
  ScreensAgree
  ReviewsAccount
  ImportIsReported
  RunIsTaken
  ScanFollowsRecords
CHECK_DEADLOCK FALSE
