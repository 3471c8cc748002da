SPECIFICATION Spec
CONSTANTS
  SeqNos = {0, 1}
  Delays = {1, 3}
  MaxPass = 2
  MaxRequests = 2
  MaxTimers = 4
INVARIANTS
  TypeOK
  DeltasAgree
  IInv
PROPERTIES
  NeverEarly
  ImplementsAlarms
  ImplementsService
