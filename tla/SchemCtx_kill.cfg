SPECIFICATION Spec
CONSTANTS
  gpt_max_part_cnt = 2
  mbr_max_part_cnt = 2
  MbrTypes = {"none", "prot"}
  Ids = {g1, g2}
  g1 = g1
  g2 = g2
  Sizes = {9}
  Ranges <- MCRanges
  InitDisks <- MCInitDisks
  DiskChoice = "blank"
  Faults = {"kill"}
INVARIANTS TypeOK
PROPERTIES SaveAtomic RemovedBeforeMbr ProtectedFirst ImplementsStore
SYMMETRY MCSymmetry
