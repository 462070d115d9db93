SPECIFICATION FairSpec
CONSTANTS
  Dialers = {d1, d2}
  Shared = shared
  Cases <- AllCases
  MaxAttempts = 2
INVARIANTS TypeOK AsConfigured
PROPERTIES DialReturns HandshakeEnds
CHECK_DEADLOCK FALSE
