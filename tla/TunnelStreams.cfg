SPECIFICATION Spec
CONSTANTS
  Kinds = {"conn", "mux", "h2", "gun", "quic"}
  Loads <- BothWays
  MaxChunks = 2
  Window = 1
INVARIANT TypeOK
PROPERTY ImplementsDuplex
CHECK_DEADLOCK FALSE
