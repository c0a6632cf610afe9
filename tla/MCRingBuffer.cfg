SPECIFICATION Spec
CONSTANTS
  Byte <- MCByte
  Sizes <- MCSizes
  MaxLen = 4
INVARIANTS
  RingTypeOK
  GetWhole
  PutInRoom
PROPERTY
  ImplementsQueue
