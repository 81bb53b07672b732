SPECIFICATION Spec
CONSTANTS
  g1 = g1
  g2 = g2
  mail = mail
  Proc = {p1, p2}
  None = None
  Grant = {g1, g2}
  Scope = {mail}
  All = All
  Granted <- MCGranted
  Garbage = Garbage
  MaxOf <- MCNoLogin
  MaxCommands = 2
  MaxMints = 2
INVARIANTS LoggedOut
CHECK_DEADLOCK FALSE
