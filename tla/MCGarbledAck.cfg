SPECIFICATION Spec
CONSTANTS
  MSS = 2
  FileSizes = {0}
  INT_MAX = 0
  Slots = 2
  GarbleAcks = TRUE
  AckNos = {1}
  ServerFirst = TRUE
  OpenMayFail = FALSE
  SizeBytes = 2
  NameBytes = 2
  OddSizes = {0}
INVARIANT AckedIsRead
