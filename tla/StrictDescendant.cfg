SPECIFICATION FilesSpec
CONSTANTS
  f1 = f1
  f2 = f2
  Old = Old
  New = New
  Part = Part
  Nothing = Nothing
  Paths <- MCPaths
  LexicalDirs <- MCLexicalDirs
  HostRoots <- MCHostRoots
  AllowPaths <- MCAllowPaths
  FileCalls = {f1}
  FileRequests <- MCFileRequests
  Trees <- MCTrees
  Versions = {Old, New}
  Fallback = "proceed"
  MaxDisturbances = 0
INVARIANTS OnlyBelowEntries
CHECK_DEADLOCK FALSE
