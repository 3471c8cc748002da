SPECIFICATION FairSpec
CONSTANTS
  SeqNos = {0, 1}
  Delays = {1, 2}
  MaxPass = 1
  MaxRequests = 2
  MaxTimers = 3
PROPERTIES
  Rings
