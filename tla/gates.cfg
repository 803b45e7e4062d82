SPECIFICATION MCSpec
CHECK_DEADLOCK FALSE
CONSTANTS
  Subjects = {"ann", "bob"}
  UserTables <- MCUserTables
  GroupMappings <- MCGroupMappings
  Bodies <- MCBodies
  Github <- MCGithub
  GithubRoles <- MCGithubRoles
  ScimToken = TRUE
  MaxScim = 3
  Node <- MCNode
  Repositories <- MCRepositories
  Lookups <- MCLookups
  PolicyFiles <- MCPolicyFiles
  Waives <- MCWaives
  MaxLints = 1
  FileOf <- MCFileOf
  PathOf <- MCPathOf
  EdgeTables <- MCEdgeTables
  Views <- MCViews
  Alike <- MCAlike
  Couplings <- MCCouplings
  RepoA = "a"
  RepoB = "b"
  Sources <- MCSources
  CallSets <- MCCallSets
  Budgets <- MCBudgets
  WaiverSets <- MCWaiverSets
  Submodules <- MCSubmodules
  Checkout <- MCCheckout
  Contents <- MCContents
  States = {"clean", "bumped", "bumped and dirty", "dirty", "uninitialized"}
  ParentFiles = {"p", "q"}
  CallTables <- MCCallTables
  Configs <- MCConfigs
  BrokenConfig <- MCBroken
  MaxSteps = 4
  Reviewers = {1, 2}
  Documents <- MCDocuments
  Selections <- MCSelections
  MaxReviews = 2
  Surveys <- MCSurveys
  Deprecated = "b"
INVARIANTS
  PassCertifies
  EveryTangleIsReported
  
  
  PlanMovesCallersFirst
  DecisionsAreKept

  
