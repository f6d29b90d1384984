SPECIFICATION Spec
CONSTANTS
  None = None
  p1 = p1
  Users = {u1, u2}
  Hosts = {h1}
  Passwords = {p1, p2}
  Requests = {r1, r2}
  ProfilePassword <- MCProfilePassword
  MaxAttempts = 2
  LockoutWindow = 1
  PasswordIdleTtl = 1
  SlowSections = TRUE
  MaxCalls = 3
  MaxRotations = 1
SYMMETRY Symmetry
VIEW WithoutLockouts
INVARIANTS CountedFailuresWereRejected NoRefusalBelowThreshold SessionsWereAccepted
PROPERTIES UserIsolation
