SPECIFICATION Spec
CONSTANTS
  GROUP_NUM = 3
  UINT_MAX = 15
  MaxRecv = 5
  NULL = NULL
CHECK_DEADLOCK FALSE
INVARIANTS
  TypeOK
  UsefulInRange
  LockExact
  ExactCount
  HeldSlotIntact
  PrintIntact
PROPERTIES
  Drained
  ImplementsFifo
