SPECIFICATION FairChangeSpec
CONSTANTS
  c1 = c1
  c2 = c2
  app = app
  child = child
  base = base
  guard = guard
  editor = editor
  viewer = viewer
  NoOne = NoOne
  ChangeCalls = {c1}
  ChangeRequests <- MCChangeRequests
  Services = {app, child, base, guard}
  Protected = {guard}
  Recovering = {app}
  Pids = {7}
  Processes = {editor, viewer}
  Hosts <- MCHosts
  Agreement = "proceed"
  MaxMeddling = 1
PROPERTIES DependentsRefused
CHECK_DEADLOCK FALSE
