SPECIFICATION Spec
CONSTANTS
  LocalWait = 1
  AckWait = 6
  Patience = 25
  Second = 20
  FirstTimes = {0, 25}
  LocalTimes = {0, 1}
  TimerTimes = {0, 6}
  NakTimes = {}
  RoundTrips = {2, 4, 9}
INVARIANTS
  EstimateIsRoundTrip
