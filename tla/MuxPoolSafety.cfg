SPECIFICATION Spec
CONSTANTS
  Dialers = {d1, d2, d3}
  Sessions = {s1, s2, s3}
  MuxIDs = {i1, i2, i3}
  Concurrency = 2
  Cleaner = Cleaner
  Nobody = Nobody
  NoSession = NoSession
  NoID = NoID
SYMMETRY Symmetry
INVARIANTS TypeOK StreamCap StreamsOwned OpenSessionsTracked PoolBounded
PROPERTY SweepSparesUsedSessions
