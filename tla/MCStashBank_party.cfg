\* Two players of one party and two items; four moves (MaxMoves) of the players, of
\* their accounts or of the process, and any number of ticks, saves and deaths.
SPECIFICATION Spec
CONSTANTS
  p1 = p1
  p2 = p2
  soft = soft
  hard = hard
  None = None
  sword = sword
  Items = {sword, ring}
  Players = {p1, p2}
  Chars = {soft, hard}
  Hardcore = {hard}
  BagSize = 1
  StashCap = 1
  RosterCap = 2
  Loaded <- LoadedAccounts
  MaxMoves = 4
INVARIANTS TypeOK NothingTwice CleanFileIsCurrent
PROPERTY NoOtherLoss
