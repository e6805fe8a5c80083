\* Views, acks that get lost, pauses and swaps.
SPECIFICATION Spec
CONSTANTS
  Entities = {e1}
  None = None
  MaxUnacked = 2
  History = 2
  MayPause = TRUE
  MayDrop = TRUE
  MaxTick = 4
  MaxGen = 2
  MaxFlight = 2
SYMMETRY Symmetry
INVARIANTS DecodesExactly BaselineWasDecoded AnsweredUnlessDropped
CHECK_DEADLOCK FALSE
