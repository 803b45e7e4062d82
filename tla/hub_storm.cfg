SPECIFICATION Spec
CONSTANTS
  None = None
  k1 = k1
  k2 = k2
  k3 = k3
  c1 = c1
  c2 = c2
  c3 = c3
  Pushers <- Two
  Shas <- MCShas
  TargetOf <- LineOfTwo
  BaseOf <- BaseOfTwo
  NChunks = 2
  MaxDepth = 2
  Retention = 1
  MaxTries = 1
  MaxAttempts = 1
  MaxStates = 3
  UsizeMax = 7
  Env <- Storm
CHECK_DEADLOCK FALSE
INVARIANTS  HeadServed BlobsWhole
