SPECIFICATION SessionsSpec
CONSTANTS
  MSS = 2
  FileSizes = {0, 1}
  INT_MAX = 1
  Slots = 3
  GarbleAcks = FALSE
  AckNos = {}
  ServerFirst = TRUE
  OpenMayFail = FALSE
  SizeBytes = 2
  NameBytes = 2
  OddSizes = {0}
  Files <- MCEmptyThenShort
  TcpdRestarts = FALSE
INVARIANTS
  SessionsInv
  EachInOrder
  NothingLeftOver
  AckedIsReadEachTime
  NoTransferWaitsInVain
PROPERTIES
  EachStreamSafe
CONSTRAINT
  MCFewDatagrams
