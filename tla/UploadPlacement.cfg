SPECIFICATION Spec
CONSTANTS
  c1 = c1
  c2 = c2
  Calls = {c1, c2}
  Replacing = {c1}
  Windows = {a, b}
  MaxWindows = 1
  MaxTransfer = 1
  Absent = Absent
  Foreign = Foreign
  MaxRemovals = 1
  MaxLost = 1
  MaxChanges = 1
SYMMETRY Symmetry
PROPERTIES PlacementSpec
CHECK_DEADLOCK FALSE
