CONSTANTS
  NULL = NULL
  EMPTY = EMPTY
  CUT = CUT
  ABSENT = ABSENT
  short = short
  long = long
  junk = junk
  Format = {fmt}
  Junk <- OneJunk
  Least = 2
  Rec = {r1, r2}
  Addr = {a1, a2, a3}
  Number = {n1}
  Key <- TwoKeys
  Text <- TwoTexts
  Length <- Lengths
  Usage = {"recycle"}
SPECIFICATION Spec
SYMMETRY Symmetry
INVARIANTS
  ResetIsClean
