SPECIFICATION FairSpec
CONSTANTS
  NFiles = 5
  ParseChunk = 2
INVARIANTS
  FoldsExactlyThePrefix
  
PROPERTY ReturnsWhenFewChunksFollow
CHECK_DEADLOCK FALSE
