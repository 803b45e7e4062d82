CONSTANTS
  NodeTable <- MCNodeTable
  EdgeTables <- MCEdgeTables
  Guards <- MCGuards
  Symbols <- MCSymbols
  Filters <- MCFilters
  Depths = {0, 1, 2}
  Budgets <- MCBudgets
  Partitions <- MCPartitions
  Rankings <- MCRankings
  FusedIds = {2, 5, 7}
  Pages = {0, 1, 2}
  FileOf <- MCFileOf
  RepoOf <- MCRepoOf
  DirOf <- MCDirOf
  ModuleTables <- MCModuleTables
  Views <- MCViews
  NodeBudget = 3
  MaxReports = 2
  N = 4
  Adjacencies <- MCAdjacencies
SPECIFICATION MCSpec
CHECK_DEADLOCK FALSE
INVARIANTS
  WalksListWhatTheRowsSay
  
  TotalsSurviveTheBudget
  FoldedIsLocallyOptimal
  ReportCoversEveryFile
  GroupsAreComponents

  
