SPECIFICATION FairSpec
CONSTANTS
  Kinds = {"conn", "mux", "h2", "quic"}
  Loads <- TwoUp
  MaxChunks = 2
  Window = 1
PROPERTIES CopiesEnd LeaveSpreads
CHECK_DEADLOCK FALSE
