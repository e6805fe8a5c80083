\* Two connections of two accounts and of guests, slow readers, a hardcore
\* character: drops, reconnects, parties, transfers and the reaper.
SPECIFICATION Spec
CONSTANTS
  None = None
  t1 = t1
  t2 = t2
  n1 = n1
  n2 = n2
  Tokens = {t1, t2}
  Names = {n1, n2}
  Loaded <- TwoAccounts
  Conns = {c1, c2}
  GuestConns = {c1, c2}
  Reused = {c1, c2}
  Slow = {c1, c2}
  Insts = {i1, i2}
  Hardcore = {n2}
  SSF = {}
  RosterCap = 1
  MaxEdits = 0
SYMMETRY Symmetry
INVARIANTS TypeOK OneSession HousedOnce HomesStand OnlineListAgrees
