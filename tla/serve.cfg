SPECIFICATION MCSpec
CHECK_DEADLOCK FALSE
CONSTANTS
  Symbols = {"f"}
  Trees <- MCTrees
  Ttl = 1
  Budgets <- MCBudgets
  Setups <- MCSetups
  CodeFiles <- MCCode
  NoteFiles <- MCNotes
  ShortOf <- MCShort
  StemOf <- MCStem
  DirOf <- MCDir
  Lower <- MCLower
  MaxEdits = 2
  Openers <- MCOpeners
  Readers = {"reader"}
  Repeatable = {3}
  Found = {0, 1, 2}
  NoProcess = NoProcess
  MaxDeaths = 2
  HubSetups <- MCHubSetups
  Repos = {"web", "api"}
  ModulesOf <- MCModulesOf
  ViewOf <- MCViewOf
  Blocked = {"private"}
  Clients = {"c1", "c2"}
  Machines <- MCMachines
INVARIANTS
  ListedUntilExpired
  
  
  OpenMeansMigrated
  
  SlotsAreReturned
  ToldInPublicOfCommits
PROPERTIES
  LessMemoryAdmitsNoMore
