SPECIFICATION FairSpec
CONSTANTS
  MSS = 2
  FileSizes = {0}
  INT_MAX = 0
  Slots = 2
  GarbleAcks = FALSE
  AckNos = {}
  ServerFirst = FALSE
  OpenMayFail = FALSE
  SizeBytes = 2
  NameBytes = 2
  OddSizes = {0}
PROPERTY ReportedIsReceived
