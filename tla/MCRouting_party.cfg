\* Two clients, one of which sends, and two instances: joins, transfers, pauses
\* and a floor swap.
SPECIFICATION Spec
CONSTANTS
  Clients = {c1, c2}
  Insts = {i1, i2}
  None = None
  Free = Free
  Dead = Dead
  Monster = Monster
  MaxMoves = 1
  MayPause = TRUE
  MaxId = 3
  Senders = {c1}
  MaxSent = 2
  MaxSwaps = 1
SYMMETRY Symmetry
INVARIANTS EarlyIsFlushed OneStrayAtMost HeardInOrder
