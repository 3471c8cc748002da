SPECIFICATION FairSpec
CONSTANTS
  MSS = 2
  FileSizes = {0, 1}
  INT_MAX = 1
  Slots = 2
  GarbleAcks = FALSE
  AckNos = {}
  ServerFirst = TRUE
  OpenMayFail = FALSE
  SizeBytes = 2
  NameBytes = 2
  OddSizes = {0}
PROPERTIES
  TransferEnds
  StreamLive
