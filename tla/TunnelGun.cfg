SPECIFICATION FairSpec
CONSTANTS
  Kinds = {"gun"}
  Loads <- TwoUp
  MaxChunks = 2
  Window = 1
PROPERTY CloseUnblocks
CHECK_DEADLOCK FALSE
