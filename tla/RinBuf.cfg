CONSTANTS
  Byte = {a, b}
  GARBAGE = GARBAGE
  Caps <- SmallCaps
  MaxSize = 5
SPECIFICATION FairSpec
INVARIANTS
  InMemory
PROPERTIES
  ImplementsFifo
  CallsReturn
