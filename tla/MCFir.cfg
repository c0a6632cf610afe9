SPECIFICATION FirSpec
CONSTANTS
  Value <- MCValue
  Sample = {0, 1}
  Zero = 0
  Dot <- MCDot
  MaxTaps = 5
  MaxLen = 3
  Unset = Unset
  NaN = NaN
CHECK_DEADLOCK FALSE
INVARIANTS
  TapsComplete
  Convolves
  Confined
  ScratchFreed
