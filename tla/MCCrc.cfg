SPECIFICATION Spec
CONSTANTS
  POLYNOMIAL <- MCPolynomial
  INITIAL_REMAINDER <- MCInitialRemainder
  ChksumAt = 9
  Deliveries <- MCDeliveries
CHECK_DEADLOCK FALSE
INVARIANTS
  SlowIsFast
  BurstIsDetected
  IInv
  CheckValue
