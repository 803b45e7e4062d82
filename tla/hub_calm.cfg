SPECIFICATION FairSpec
CONSTANTS
  None = None
  k1 = k1
  k2 = k2
  k3 = k3
  c1 = c1
  c2 = c2
  c3 = c3
  Pushers <- Three
  Shas <- MCShas
  TargetOf <- LineOfThree
  BaseOf <- BaseOfThree
  NChunks = 2
  MaxDepth = 2
  Retention = 1
  MaxTries = 1
  MaxAttempts = 2
  MaxStates = 1
  UsizeMax = 7
  Env <- Calm
CHECK_DEADLOCK FALSE
INVARIANTS PendingExact
PROPERTIES RefinesHistory AckedIsCommitted
