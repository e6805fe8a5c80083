\* Fair goroutines: dead sockets leave, whatever transfer their leave raced, and
\* empty instances are reaped.
SPECIFICATION FairSpec
CONSTANTS
  None = None
  t1 = t1
  t2 = t2
  n1 = n1
  n2 = n2
  Tokens = {t1, t2}
  Names = {n1, n2}
  Loaded <- TwoAccounts
  Conns = {c1, c2}
  GuestConns = {}
  Reused = {}
  Slow = {}
  Insts = {i1, i2}
  Hardcore = {}
  SSF = {}
  RosterCap = 1
  MaxEdits = 0
PROPERTIES DeadSocketLeaves EmptyInstanceReaped
CHECK_DEADLOCK FALSE
