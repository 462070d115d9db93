SPECIFICATION FairSpec
CONSTANTS
  Ed = 2
  ChunkSizes = {1, 2, 3}
  MaxBytes = 5
  ReadSize = 2
INVARIANTS TypeOK NoSocketLeft
PROPERTIES ImplementsDuplex AllArrives ReaderReleased
CHECK_DEADLOCK FALSE
