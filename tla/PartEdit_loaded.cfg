SPECIFICATION Spec
CONSTANTS
  PartCnt = 2
  FirstUsable = 1
  LastUsable = 3
  MaxLba = 5
  Align = 2
  IsMbr = TRUE
  Types = {"none", "def"}
  NoType = "none"
  DefType = "def"
  TableChoice = "bounded"
  InitTables <- MCInitTables
INVARIANTS DefaultStartFree
PROPERTIES NoNewOverlap FullMeansFull ImplementsTable SearchAdvances
