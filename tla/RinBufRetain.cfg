CONSTANTS
  Byte = {a, b}
  GARBAGE = GARBAGE
  Caps <- SmallCaps
  MaxSize = 3
SPECIFICATION Spec
PROPERTIES
  RetainKeeps
