SPECIFICATION Spec
CONSTANTS
  gpt_max_part_cnt = 1
  mbr_max_part_cnt = 1
  MbrTypes = {"none", "prot"}
  Ids = {g1, g2}
  g1 = g1
  g2 = g2
  Sizes = {7}
  Ranges <- MCRanges
  InitDisks <- MCInitDisks
  DiskChoice = "blank"
  Faults = {"power"}
PROPERTIES NoMixture
SYMMETRY MCSymmetry
ACTION_CONSTRAINT WriteWhenSettled
