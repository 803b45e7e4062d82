SPECIFICATION Spec
CONSTANTS
  Gone = Gone
  NoDb = NoDb
  Torn = Torn
  None = None
  x = x
  y = y
  a = a
  b = b
  c = c
  Files <- MCFiles
  Versions <- MCVersions
  Commits <- MCCommits
  TreeOf <- MCTreeOf
  Extractors <- MCExtractors
  BailoutFloor = 1
  Env <- Chaos
  MaxMoves = 4
CHECK_DEADLOCK FALSE
 
PROPERTY CompleteUnlessCutOff
