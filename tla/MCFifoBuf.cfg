CONSTANTS
  Byte = {0, 1}
  Size = 3
  MaxRequest = 3
SPECIFICATION RingSpec
INVARIANTS
  CopyInBounds
PROPERTIES
  IsFifo
