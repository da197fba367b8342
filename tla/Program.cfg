SPECIFICATION FairSpec
CONSTANTS
  NULL = NULL
  INFINITE = INFINITE
  WithAlsa = TRUE
  PortArgs = {0, 8000, 65535}
  MaxOptions = 2
  MaxPuts = 4
  MaxWrites = 2
INVARIANTS
  FifoStaysServed
  WaitsOnOpen
  Nested
  ReleasedAtExit
PROPERTIES
  CommandsRead
