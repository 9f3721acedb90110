SPECIFICATION FairSpec
CONSTANTS
  PartCnt = 2
  FirstUsable = 1
  LastUsable = 4
  MaxLba = 5
  Align = 2
  IsMbr = FALSE
  Types = {"none", "def"}
  NoType = "none"
  DefType = "def"
  TableChoice = "any"
  InitTables <- MCInitTables
PROPERTIES SearchTerminates
