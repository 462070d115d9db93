SPECIFICATION FairSpec
CONSTANTS
  Streams = {s1, s2}
  MaxWrites = 2
INVARIANTS TypeOK ResponseKept
PROPERTY ReleasedAfterRelay
CHECK_DEADLOCK FALSE
