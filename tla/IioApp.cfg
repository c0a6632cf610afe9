SPECIFICATION IioSpec
CONSTANTS
  USEC = 4
  FACTOR = 1
  WORD = 4
  Level = {0}
  MaxNow = 9
  MaxTurn = 5
CHECK_DEADLOCK FALSE
INVARIANTS
  EndsOnlyFor
  DeviceClosed
PROPERTIES
  ElapsedTrue
  KeepsSampling
  SignalEnds
