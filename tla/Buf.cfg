CONSTANTS
  Char = {a, b}
  NUL = NUL
  GARBAGE = GARBAGE
  Least = 2
  MaxText = 2
  MaxCap = 5
  Maxima <- SmallMaxima
  LineCap = 6
  LogLevel = 2
  RespCap = 7
  Gap = 3
SPECIFICATION UsersSpec
INVARIANTS
  StringEnds
  LineWhole
  ResponseWhole
PROPERTIES
  AllOrNothing
  FailsForReason
  GrowsAsNeeded
  PrintfReturns
