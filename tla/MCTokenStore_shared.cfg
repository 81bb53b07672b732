SPECIFICATION FairSpec
CONSTANTS
  g1 = g1
  g2 = g2
  mail = mail
  Proc = {p1, p2}
  None = None
  Grant = {g1, g2}
  Scope = {mail}
  All = All
  Granted <- MCGranted
  Garbage = Garbage
  MaxOf <- MCMaxOf
  MaxCommands = 3
  MaxMints = 2
INVARIANTS Exclusive OneRefresh OwnToken RejectedStaysGone
PROPERTIES NoLostUpdate CommandEnds
CHECK_DEADLOCK FALSE
