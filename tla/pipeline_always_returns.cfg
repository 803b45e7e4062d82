SPECIFICATION FairSpec
CONSTANTS
  NFiles = 5
  ParseChunk = 2
PROPERTY AlwaysReturns
CHECK_DEADLOCK FALSE
