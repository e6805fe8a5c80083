\* Floors that fail to build, saves, and processes that load them.
SPECIFICATION Spec
CONSTANTS
  Players = {p1}
  Named = {}
  Portals = 2
  StartFloor = 2
  MayFail = TRUE
  MaySave = TRUE
  DelveCols = 5
  EntryCol = 3
  Fewest = 1
  Most = 3
  MaxRun = 2
  MaxRow = 1
  Chart <- Stubs
  Edges <- StubLinks
  NoSave = NoSave
PROPERTY BudgetIsKept
