SPECIFICATION Spec
CONSTANTS
  Sample = {0, 1}
  Value <- MCValue
  Zero = 0
  Recur <- MCRecur
  MaxLen = 4
  None = None
INVARIANTS
  GoertzelTypeOK
  AnswerExact
PROPERTY
  ImplementsOneShot
