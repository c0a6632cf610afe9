SPECIFICATION FemSpec
CONSTANTS
  Sample = {0, 1}
  Value <- MCValue
  Zero = 0
  Recur <- MCRecur
  MaxLen = 6
  None = None
  TAIL = 2
CHECK_DEADLOCK FALSE
INVARIANTS
  WholeSignal
  NothingSkipped
PROPERTIES
  Finishes
  StrictOneShot
