SPECIFICATION Spec
CONSTANTS
  gpt_max_part_cnt = 2
  mbr_max_part_cnt = 1
  MbrTypes = {"none", "prot"}
  Ids = {"g1"}
  Sizes = {9}
  Ranges <- MCRanges
  InitDisks <- MCInitDisks
  DiskChoice = "short"
  Faults = {"kill"}
PROPERTIES UsableUntouched
