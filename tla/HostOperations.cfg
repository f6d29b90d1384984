SPECIFICATION OperationsSpec
CONSTANTS
  f1 = f1
  f2 = f2
  Old = Old
  New = New
  Part = Part
  Nothing = Nothing
  Paths <- MCPaths
  LexicalDirs <- MCLexicalDirs
  HostRoots <- MCHostRoots
  AllowPaths <- MCAllowPaths
  FileCalls = {f1, f2}
  FileRequests <- MCFileRequests
  Trees <- MCTrees
  Versions = {Old, New}
  Fallback = "proceed"
  MaxDisturbances = 1
  c1 = c1
  c2 = c2
  app = app
  child = child
  base = base
  guard = guard
  editor = editor
  viewer = viewer
  NoOne = NoOne
  ChangeCalls = {c1, c2}
  ChangeRequests <- MCChangeRequests
  Services = {app, child, base, guard}
  Protected = {guard}
  Recovering = {app}
  Pids = {7}
  Processes = {editor, viewer}
  Hosts <- MCHosts
  Agreement = "proceed"
  MaxMeddling = 1
  w1 = w1
  w2 = w2
  s1 = s1
  Writes = {w1, w2}
  Encoded = {w1}
  Scripts = {s1}
  Chunks = 2
  Absent = Absent
  Foreign = Foreign
  MaxLost = 2
  MaxTampers = 1
INVARIANTS OperationsTypeOK NoSilentReplace ProtectedKept NothingVanishes ProtectedServicesKept ConfirmedRuns NothingLeft
PROPERTIES FilesConsented FileRepliesTrue ChangesConsented HalfDoneTold DisabledStays WholeWrites EveryOperationEnds
CHECK_DEADLOCK FALSE
