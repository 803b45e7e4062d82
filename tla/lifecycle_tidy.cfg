SPECIFICATION FairSpec
CONSTANTS
  Gone = Gone
  NoDb = NoDb
  Torn = Torn
  None = None
  x = x
  y = y
  a = a
  b = b
  c = c
  Files <- MCFiles
  Versions <- MCVersions
  Commits <- MCCommits
  TreeOf <- MCTreeOf
  Extractors <- MCExtractors
  BailoutFloor = 1
  Env <- Tidy
  MaxMoves = 7
CHECK_DEADLOCK FALSE
INVARIANTS FreshAfterIndex StalenessSignalled
PROPERTIES WatchCatchesUp
