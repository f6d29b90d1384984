SPECIFICATION Spec
CONSTANTS
  None = None
  p1 = p1
  Users = {u1}
  Hosts = {h1}
  Passwords = {p1, p2}
  Requests = {r1}
  ProfilePassword <- MCProfilePassword
  MaxAttempts = 2
  LockoutWindow = 1
  PasswordIdleTtl = 2
  SlowSections = FALSE
  MaxCalls = 5
  MaxRotations = 1
PROPERTIES CommandKeepsWindow
