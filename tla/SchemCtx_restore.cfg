SPECIFICATION Spec
CONSTANTS
  gpt_max_part_cnt = 1
  mbr_max_part_cnt = 1
  MbrTypes = {"none", "prot"}
  Ids = {"g1"}
  Sizes = {7}
  Ranges <- MCRanges
  InitDisks <- MCInitDisks
  DiskChoice = "blank"
  Faults = {"kill", "rot"}
PROPERTIES RestoreKeepsGpt
