SPECIFICATION Spec
CONSTANTS
  Byte = 4
  hpc = 3
  spt = 2
  NameLen = 3
  CharByte = 2
  PlbaLimit = 256
  IntLimit = 128
  Kilo = 4
  BadShift = {0, 1, 4}
  Geometries <- MCGeometries
  ChsLbas <- MCChsLbas
  ImgSecs <- MCImgSecs
  MbrValues <- MCMbrValues
  OldBytes <- MCOldBytes
  GptSig <- MCGptSig
  Headers <- MCHeaders
  Messages <- MCMessages
  PageSizes = {16, 64}
  SectorSizes = {2, 4, 16}
  Offsets <- MCOffsets
  Counts <- MCCounts
  Numbers <- MCNumbers
  Ranges <- MCRanges
INVARIANTS ForeignTableAccepted
