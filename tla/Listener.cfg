SPECIFICATION FairSpec
CONSTANTS
  c1 = c1
  c2 = c2
  c3 = c3
  l1 = l1
  l2 = l2
  Conns = {c1, c2, c3}
  Links = {l1, l2}
  Carrier <- SharedAndOwn
  QueueCap = 1
  Modes = {"direct", "upgrade", "request", "mux", "quic"}
INVARIANTS TypeOK ClosedOnce RequestOutlivesConn 
PROPERTIES Served LinksAccepted RequestsEnd
CHECK_DEADLOCK FALSE
