SPECIFICATION Spec
CONSTANTS
  GROUP_NUM = 2
  UINT_MAX = 15
  MaxRecv = 4
  NULL = NULL
CHECK_DEADLOCK FALSE
INVARIANT
  MutualExclusion
