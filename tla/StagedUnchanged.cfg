SPECIFICATION Spec
CONSTANTS
  w1 = w1
  w2 = w2
  s1 = s1
  Writes = {w1}
  Encoded = {}
  Scripts = {s1}
  Chunks = 2
  Absent = Absent
  Foreign = Foreign
  MaxLost = 1
  MaxTampers = 1
INVARIANTS UnchangedOnFailure
CHECK_DEADLOCK FALSE
