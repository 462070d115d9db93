SPECIFICATION Spec
CONSTANTS
  Streams = {s1, s2}
  MaxWrites = 2
INVARIANT NoCrash
CHECK_DEADLOCK FALSE
