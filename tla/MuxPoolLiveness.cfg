SPECIFICATION FairSpec
CONSTANTS
  Dialers = {d1, d2}
  Sessions = {s1, s2}
  MuxIDs = {i1, i2}
  Concurrency = 1
  Cleaner = Cleaner
  Nobody = Nobody
  NoSession = NoSession
  NoID = NoID
PROPERTIES DialReturns IdleSessionsReaped
