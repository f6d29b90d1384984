SPECIFICATION CleanupSpec
CONSTANTS
  c1 = c1
  c2 = c2
  Calls = {c1}
  Replacing = {c1}
  Windows = {a, b}
  MaxWindows = 3
  MaxTransfer = 2
  Absent = Absent
  Foreign = Foreign
  MaxRemovals = 2
  MaxLost = 1
  MaxChanges = 2
  MaxParts = 3
INVARIANTS ProvenGone
PROPERTIES EveryCallEnds CallKeepsPromises
CHECK_DEADLOCK FALSE
