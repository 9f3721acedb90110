SPECIFICATION Spec
CONSTANTS
  gpt_max_part_cnt = 1
  mbr_max_part_cnt = 1
  MbrTypes = {"none", "prot"}
  Ids = {"g1"}
  Sizes = {7, 8}
  Ranges <- MCRanges
  InitDisks <- MCInitDisks
  DiskChoice = "any"
  Faults = {"rot"}
INVARIANTS MbrInMemory FlagsAccurate WriteReloads BothCopies
PROPERTIES DataSafe
CHECK_DEADLOCK FALSE
