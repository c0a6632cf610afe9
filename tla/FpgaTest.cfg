SPECIFICATION FpgaSpec
CONSTANTS
  GROUP_NUM = 2
  UINT_MAX = 15
  MaxRecv = 3
  NULL = NULL
  SBUF = SBUF
  WILD = WILD
CHECK_DEADLOCK FALSE
INVARIANTS
  FpgaTypeOK
  OwnIovec
  FreedUntouched
  CleanReturn
PROPERTIES
  FailureEnds
  ImplementsPool
