SPECIFICATION Spec
CONSTANTS
  MSS = 2
  FileSizes = {0, 3}
  INT_MAX = 3
  Slots = 2
  GarbleAcks = FALSE
  AckNos = {}
  ServerFirst = TRUE
  OpenMayFail = FALSE
  SizeBytes = 2
  NameBytes = 2
  OddSizes = {0}
INVARIANTS
  WindowInv
  CountersAgree
  StopAndWait
  UnreadIsBuffered
  AckedWasTimed
  WaitInv
  NoneWaitsInVain
PROPERTIES
  ReuseAfterRead
