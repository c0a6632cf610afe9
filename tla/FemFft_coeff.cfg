SPECIFICATION FemSpec
CONSTANTS
  SIN_CNT = 8
  FIR_CNT = 6
  TAPS = 6
  DESIGNS = 3
  FS = 4
  F0 = 2
  MaxCnt = 5
INVARIANT CoeffFreed
