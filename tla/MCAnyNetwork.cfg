SPECIFICATION Spec
CONSTANTS
  MSS = 2
  FileSizes = {0, 1, 2}
  INT_MAX = 1
  Slots = 2
  GarbleAcks = TRUE
  AckNos = {1, 2}
  ServerFirst = FALSE
  OpenMayFail = TRUE
  SizeBytes = 2
  NameBytes = 2
  OddSizes = {0}
INVARIANTS
  TypeOK
  IInv
  GateInv
  InOrderDelivery
  ListLookupsSucceed
  FileComplete
PROPERTIES
  StreamSafe
