SPECIFICATION Spec
CONSTANTS
  Words <- AllWords
  Environments <- AllEnvironments
  FlagSets <- Flags
  BitWidth <- Width
INVARIANTS TypeOK ParsedAsReference RoundTrip ServesAsTold
CHECK_DEADLOCK FALSE
