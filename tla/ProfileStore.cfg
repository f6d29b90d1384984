SPECIFICATION MCStoreSpec
CONSTANTS
  d1 = d1
  d2 = d2
  d3 = d3
  t0 = t0
  Absent = Absent
  Bad = Bad
  NoText = NoText
  Stranger = Stranger
  Nobody = Nobody
  Procs = {d1, d2, d3}
  Earlier = {t0}
  Names <- MCNames
  Plans <- MCPlans
  Disks <- MCDisks
  Folders <- MCFolders
  Requests <- MCRequests
  Domained = {"ALICE@corp"}
  Unsafe = {"break"}
  Loopback = {"localhost"}
  Labels <- MCLabels
  Numerals <- MCNumerals
  Listings <- MCListings
  Lowered <- MCLowered
  Blank = {""}
  Absolute = {"/logs"}
  U32Max = 2147483647
  Mentions = {"winrig", "winrig/mcp"}
  Binaries = {"winrig"}
  Joined <- MCJoined
  Before <- MCBefore
INVARIANTS OneServerPerProfile NoProfileLost AuthTokenIsNoKey DoctorTrue SecretDecidesIdentity
PROPERTIES RefusedServerEnds
CHECK_DEADLOCK FALSE
