SPECIFICATION FairSpec
CONSTANTS
  FileSize = 7
  AUBUF_SZ = 4
  AUBUF_THR = 3
  MaxFrames = 2
INVARIANTS
  StreamInOrder
  AllConsumed
  ReleasedAtEnd
PROPERTIES
  Ends
