SPECIFICATION Spec
CONSTANTS
  NFiles = 3
  Contents <- MCContents
  Absent = Absent
  Broken = Broken
  Symbols <- MCSymbols
  Names <- MCNames
  ShortName <- MCShortName
  MaxNodes = 10
  MaxEdits = 2
  EditsDuringReindex = FALSE
INVARIANTS
  NodesMatchTree
  ReferencesResolved
  EdgesJustified
