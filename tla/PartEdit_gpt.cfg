SPECIFICATION FairSpec
CONSTANTS
  PartCnt = 3
  FirstUsable = 1
  LastUsable = 4
  MaxLba = 5
  Align = 3
  IsMbr = FALSE
  Types = {"none", "def"}
  NoType = "none"
  DefType = "def"
  TableChoice = "empty"
  InitTables <- MCInitTables
INVARIANTS TypeOK NoOverlap InBounds DefaultStartFree DefaultEndOvershoot
PROPERTIES FullMeansFull ImplementsTable SearchTerminates
