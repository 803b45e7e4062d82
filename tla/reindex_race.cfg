SPECIFICATION Spec
CONSTANTS
  NFiles = 2
  Contents <- MCContentsKinds
  Absent = Absent
  Broken = Broken
  Symbols <- MCSymbols
  Names <- MCNames
  ShortName <- MCShortName
  MaxNodes = 6
  MaxEdits = 3
  EditsDuringReindex = TRUE
INVARIANTS
  NoDanglingEdges
