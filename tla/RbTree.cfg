CONSTANTS
  NULL = NULL
  STALE = STALE
  Key = {1, 2, 3, 4, 5, 6, 7, 8, 9, 10}
SPECIFICATION Spec
INVARIANTS
  RedBlack
PROPERTIES
  ImplementsSortedSet
