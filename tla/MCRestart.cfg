SPECIFICATION SessionsSpec
CONSTANTS
  MSS = 2
  FileSizes = {0, 3}
  INT_MAX = 3
  Slots = 2
  GarbleAcks = FALSE
  AckNos = {}
  ServerFirst = TRUE
  OpenMayFail = FALSE
  SizeBytes = 2
  NameBytes = 2
  OddSizes = {0, 3}
  Files <- MCEmptyThenTwoBlocks
  TcpdRestarts = TRUE
INVARIANTS
  ListLookupsSucceed
  NothingInvented
  OriginInv
CONSTRAINT
  MCFewDatagrams
