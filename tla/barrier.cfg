CONSTANTS
  e1 = e1  e2 = e2  j1 = j1
  Entries <- OneEntry
  Ids <- TwoIds
  Jobs <- OneJob
  Keys = {"identifier"}
  EscapeColumn = "escape"
  Verdicts = {"mint", "refused"}
  MaxCycles = 2
  MaxCrashes = 1
SPECIFICATION FairSpec
INVARIANTS TypeOK NoDoubleMint
PROPERTIES AwaitedChildrenDone HeldParentStays BarrierNeverSticks
CHECK_DEADLOCK FALSE
