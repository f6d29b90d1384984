SPECIFICATION DownloadsSpec
CONSTANTS
  d1 = d1
  d2 = d2
  d3 = d3
  Calls = {d1, d2, d3}
  Replacing = {d1}
  Unlinkable = {d3}
  Windows = {a, b}
  MaxWindows = 3
  Absent = Absent
  Foreign = Foreign
  MaxRewrites = 1
INVARIANTS TypeOK NoTornContent LeftoversExcused
PROPERTIES PlacementSpec EveryCallEnds
