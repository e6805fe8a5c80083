\* Runs from home, with deep starts.
SPECIFICATION Spec
CONSTANTS
  Players = {p1, g1}
  Named = {p1}
  Portals = 2
  StartFloor = 0
  MayFail = FALSE
  MaySave = FALSE
  DelveCols = 5
  EntryCol = 3
  Fewest = 1
  Most = 3
  MaxRun = 2
  MaxRow = 3
  Chart <- Charts
  Edges <- Links
  NoSave = NoSave
INVARIANTS PlaceAgrees AnchorStands FrontierWasOpened SaveIsExact MapShowsTheWay
PROPERTIES DeepStartsCostAPortal
