\* An account with two characters and one yet to be claimed: two claims, new
\* characters or deletes under live sessions that bank.
SPECIFICATION Spec
CONSTANTS
  None = None
  t1 = t1
  t2 = t2
  n1 = n1
  n2 = n2
  Tokens = {t1, t2}
  Names = {n1, n2}
  Loaded <- OneWithTwo
  Conns = {c1, c2}
  GuestConns = {}
  Reused = {}
  Slow = {}
  Insts = {i1, i2}
  Hardcore = {}
  SSF = {}
  RosterCap = 2
  MaxEdits = 2
SYMMETRY InstSymmetry
INVARIANTS NameIndexAgrees BankLandsHome
CHECK_DEADLOCK FALSE
