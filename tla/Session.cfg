SPECIFICATION FairSpec
CONSTANTS
  Options <- MCOptions
  FileSizes <- MCFileSizes
  MaxRest = 1
  MaxPrompts = 3
INVARIANTS TypeOK GeometryUsable
PROPERTIES EofAdvances EofEnds
