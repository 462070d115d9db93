SPECIFICATION FairSpec
CONSTANTS
  Conns = {"c1", "c2"}
  MaxStreams = 1
  MaxSessions = 2
INVARIANTS TypeOK OneLiveSession
PROPERTIES DialSparesStreams DialReturns 
CHECK_DEADLOCK FALSE
