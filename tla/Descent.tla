------------------------------ MODULE Descent ------------------------------
(***************************************************************************)
(* The run an instance's players share (server/descent.go, runsave.go): a  *)
(* chart of nodes of three floors each (delvemap.go), the portal that is   *)
(* their death anchor, its budget, and the run's save file.  A tick runs   *)
(* runTick once after Step: a set-piece may have fallen in it, and of the  *)
(* deaths and requests of the tick the first that is accepted replaces the *)
(* world.                                                                  *)
(*                                                                         *)
(* Positions are abstracted to the floor they are on: a player may stand   *)
(* at the stairs, at the portal or anywhere else.                          *)
(***************************************************************************)
EXTENDS Naturals, FiniteSets, DelveChart

CONSTANTS
  Players, Named,  \* who plays; the ones with an account
  Portals,         \* Config.Portals
  StartFloor,      \* Config.StartFloor
  MayFail,         \* a floor may fail to build (an unknown spawn, say)
  MaySave,         \* the admin may save the run
  MaxRun, MaxRow,  \* bounds: runs, rows of a chart
  Chart,           \* Chart[r]: the nodes of run r's chart
  Edges,           \* Edges[r]: its edges, pairs of nodes
  NoSave           \* no save file

VARIABLES
  run, node, fin, floor,    \* Instance.run, node, fin, floor
  portalNode, portalFin,    \* the portal's floor
  portalPos,                \* the floor its position is on
  portalPlaced, portalsLeft,
  visited, cleared, maxRow, \* the chart's bookkeeping
  best,                     \* Instance.best
  members, alive,           \* the clients, and those with a live actor
  checkpoints,              \* checkpoints[p]: the floors p's account has beaten
  saved,                    \* the save file
  hasMap,                   \* this process was given a scenario: Config.Map
  down                      \* the process died

portal == <<portalNode, portalFin, portalPos, portalPlaced, portalsLeft>>
chart == <<visited, cleared, maxRow>>
place == <<run, node, fin, floor, best>>
process == <<saved, hasMap, down>>
vars == <<place, portal, chart, members, alive, checkpoints, process>>

NodeFloors == 3
Hideout == [row |-> 0, col |-> 0]
Addr == [row : 1..MaxRow, col : Nat]
FloorOf(n, f) == (n.row - 1) * NodeFloors + f   \* globalFloor
RowOf(f) == (f + 2) \div 3                       \* nodeRowOf
FinOf(f) == ((f - 1) % 3) + 1
Larger(a, b) == IF a < b THEN b ELSE a

(* The row's node nearest the entry column, of two the one to the left. *)
TrunkNodeAt(r, row) ==
  CHOOSE n \in Chart[r] :
    /\ n.row = row
    /\ \A m \in Chart[r] : m.row = row =>
         \/ Apart(n.col, EntryCol) < Apart(m.col, EntryCol)
         \/ Apart(n.col, EntryCol) = Apart(m.col, EntryCol) /\ n.col <= m.col

ASSUME DescentAssumption ==
  /\ Named \subseteq Players
  /\ Portals \in Nat /\ StartFloor \in 0..MaxRow * NodeFloors
  /\ MayFail \in BOOLEAN /\ MaySave \in BOOLEAN
  /\ MaxRun \in Nat \ {0} /\ MaxRow \in Nat \ {0}
  /\ Chart \in [1..MaxRun -> SUBSET Addr]
  /\ \A r \in 1..MaxRun : Edges[r] \subseteq Chart[r] \X Chart[r]

(* Neighbours are two, mutual, and at most a row apart (delveNeighbors).   *)
ASSUME EdgesAreMutual ==
  \A r \in 1..MaxRun : \A e \in Edges[r] :
    <<e[2], e[1]>> \in Edges[r] /\ e[1] # e[2] /\ e[2].row <= e[1].row + 1

(* Every row of a chart has a node (delveRow draws three to five). *)
ASSUME EveryRowHasItsTrunk ==
  \A r \in 1..MaxRun : \A row \in 1..MaxRow :
    TrunkNodeAt(r, row) \in Chart[r] /\ TrunkNodeAt(r, row).row = row

OnFloor(r, n, f) == [run |-> r, node |-> n, fin |-> f]
NoPos == OnFloor(0, Hideout, 0)
Positions == [run : 0..MaxRun, node : Addr \cup {Hideout}, fin : 0..NodeFloors]

Saves == [run : 1..MaxRun, node : Addr \cup {Hideout}, fin : 0..NodeFloors,
          floor : Nat, best : Nat,
          portalNode : Addr, portalFin : 1..NodeFloors, portalPos : Positions,
          portalPlaced : BOOLEAN, portalsLeft : Nat,
          visited : SUBSET Addr, cleared : SUBSET Addr]

ASSUME NoSaveAssumption ==
  NoSave \notin Saves /\ NoSave \notin [run : Nat, left : Nat, begun : BOOLEAN]

TypeOK ==
  /\ run \in 1..MaxRun /\ node \in Addr \cup {Hideout} /\ fin \in 0..NodeFloors
  /\ floor \in Nat /\ best \in Nat
  /\ portalNode \in Addr /\ portalFin \in 1..NodeFloors /\ portalPos \in Positions
  /\ portalPlaced \in BOOLEAN /\ portalsLeft \in Nat
  /\ visited \in SUBSET Addr /\ cleared \in SUBSET Addr /\ maxRow \in 1..MaxRow
  /\ members \in SUBSET Players /\ alive \in SUBSET members
  /\ checkpoints \in [Players -> SUBSET (1..MaxRow * NodeFloors)]
  /\ saved \in Saves \cup {NoSave}
  /\ hasMap \in BOOLEAN /\ down \in BOOLEAN

-----------------------------------------------------------------------------
(* startRunWorld: home, with the portal waiting at the chart's entry, or   *)
(* on the start floor, with the portal planted there.                      *)
FirstNode(r) == IF StartFloor = 0 THEN TrunkNodeAt(r, 1) ELSE TrunkNodeAt(r, RowOf(StartFloor))
FirstFin == IF StartFloor = 0 THEN 1 ELSE FinOf(StartFloor)

Init ==
  /\ run = 1 /\ portalsLeft = Portals /\ cleared = {}
  /\ portalNode = FirstNode(1) /\ portalFin = FirstFin
  /\ floor = StartFloor /\ best = StartFloor
  /\ IF StartFloor = 0
     THEN /\ node = Hideout /\ fin = 0
          /\ visited = {} /\ maxRow = 1
          /\ portalPlaced = FALSE /\ portalPos = NoPos
     ELSE /\ node = FirstNode(1) /\ fin = FirstFin
          /\ visited = {node} /\ maxRow = node.row
          /\ portalPlaced = TRUE /\ portalPos = OnFloor(1, node, fin)
  /\ members = {} /\ alive = {}
  /\ checkpoints = [p \in Players |-> {}]
  /\ saved = NoSave /\ hasMap = TRUE /\ down = FALSE

(* spawnClient and removeClient, before the tick's Step *)
Join(p) ==
  /\ ~down /\ p \notin members
  /\ members' = members \cup {p} /\ alive' = alive \cup {p}
  /\ UNCHANGED <<place, portal, chart, checkpoints, process>>

Leave(p) ==
  /\ ~down /\ p \in members
  /\ members' = members \ {p} /\ alive' = alive \ {p}
  /\ UNCHANGED <<place, portal, chart, checkpoints, process>>

(* swapWorld puts everyone on floor f of node n, markVisited records the   *)
(* node, and swapWorld the depth.                                          *)
Arrive(n, f) ==
  /\ hasMap
  /\ node' = n /\ fin' = f
  /\ floor' = FloorOf(n, f) /\ best' = Larger(best, FloorOf(n, f))
  /\ alive' = members

(* Faulty: only deeper ground is recorded. *)
MarkDeeper(n) ==
  IF n.row > maxRow THEN visited' = visited \cup {n} /\ maxRow' = n.row
  ELSE UNCHANGED <<visited, maxRow>>

MarkVisited(n) == visited' = visited \cup {n} /\ maxRow' = Larger(maxRow, n.row)

(* swapWorld into the hideout *)
GoHome ==
  /\ node' = Hideout /\ fin' = 0 /\ floor' = 0
  /\ alive' = members
  /\ UNCHANGED best

(* resetChart *)
ResetChart == visited' = {} /\ cleared' = {} /\ maxRow' = 1

-----------------------------------------------------------------------------
(* What a tick's run logic can do after it has counted cl as cleared. *)

(* A death with portal uses left puts everyone at the portal, for a use. *)
Eject(cl) ==
  /\ portalsLeft > 0
  /\ portalsLeft' = portalsLeft - 1
  /\ Arrive(portalNode, portalFin)
  /\ MarkVisited(portalNode) /\ cleared' = cl
  /\ portalPlaced' = TRUE
  /\ portalPos' = IF portalPlaced THEN portalPos ELSE OnFloor(run, portalNode, portalFin)
  /\ UNCHANGED <<run, portalNode, portalFin>>

(* The anchor floor cannot be built: the use is spent, the dead stay dead. *)
EjectFails(d, cl) ==
  /\ MayFail /\ portalsLeft > 0
  /\ portalsLeft' = portalsLeft - 1
  /\ cleared' = cl /\ alive' = alive \ d
  /\ UNCHANGED <<place, portalNode, portalFin, portalPos, portalPlaced, visited, maxRow>>

(* Faulty: the portal of the last run still counts as placed. *)
RunOverPlaced ==
  /\ portalsLeft = 0 /\ run < MaxRun
  /\ run' = run + 1
  /\ portalsLeft' = Portals
  /\ portalNode' = FirstNode(run + 1) /\ portalFin' = FirstFin
  /\ ResetChart
  /\ GoHome
  /\ UNCHANGED <<portalPos, portalPlaced>>

(* A death with none left ends the run: startNextRun. *)
RunOver ==
  /\ portalsLeft = 0 /\ run < MaxRun
  /\ run' = run + 1
  /\ portalsLeft' = Portals
  /\ portalNode' = FirstNode(run + 1) /\ portalFin' = FirstFin
  /\ cleared' = {}
  /\ IF StartFloor = 0
     THEN /\ portalPlaced' = FALSE /\ UNCHANGED portalPos
          /\ visited' = {} /\ maxRow' = 1
          /\ GoHome
     ELSE /\ portalPlaced' = TRUE /\ portalPos' = OnFloor(run + 1, portalNode', portalFin')
          /\ visited' = {portalNode'} /\ maxRow' = portalNode'.row
          /\ Arrive(portalNode', portalFin')

(* Faulty: the budget is set with the world that failed to build. *)
RunOverUnfunded(d) ==
  /\ MayFail /\ StartFloor > 0 /\ portalsLeft = 0 /\ run < MaxRun
  /\ run' = run + 1
  /\ ResetChart
  /\ alive' = alive \ d
  /\ UNCHANGED <<node, fin, floor, best, portal>>

(* The next run's first floor cannot be built: its budget, its seed and    *)
(* its empty chart are there, the world is the last run's.                 *)
RunOverFails(d) ==
  /\ MayFail /\ StartFloor > 0 /\ portalsLeft = 0 /\ run < MaxRun
  /\ run' = run + 1
  /\ portalsLeft' = Portals
  /\ ResetChart
  /\ alive' = alive \ d
  /\ UNCHANGED <<node, fin, floor, best, portalNode, portalFin, portalPos, portalPlaced>>

(* handleDeaths.  Nothing kills in the hideout. *)
Deaths(cl) ==
  /\ floor > 0
  /\ \E d \in SUBSET alive \ {{}} :
       Eject(cl) \/ EjectFails(d, cl) \/ RunOver \/ RunOverFails(d)

(* descendWithin, at the stairs *)
DescendWithin(cl) ==
  /\ floor > 0 /\ alive # {} /\ fin < NodeFloors
  /\ Arrive(node, fin + 1)
  /\ cleared' = cl
  /\ UNCHANGED <<run, portal, visited, maxRow>>

Opened(n, cl) == \E m \in cl : <<n, m>> \in Edges[run]

(* Faulty: visited ground opens its neighbours. *)
CanTravelToFrontier(n, cl) ==
  n \in Chart[run] /\ n # node /\ (n \in visited \/ Opened(n, visited))

CanTravelTo(n, cl) ==
  n \in Chart[run] /\ n # node /\ (n \in visited \/ Opened(n, cl))

(* travelTo, on the map a node's last stairs open *)
Travel(n, cl) ==
  /\ floor > 0 /\ alive # {} /\ fin = NodeFloors
  /\ CanTravelTo(n, cl)
  /\ Arrive(n, 1)
  /\ MarkVisited(n) /\ cleared' = cl
  /\ UNCHANGED <<run, portal>>

(* Faulty: depth is free. *)
OffersAll(row) == Portals

(* What portalStartOffers offers for a start in a row. *)
OffersPortals(row) == IF row = 1 THEN Portals ELSE Larger(1, Portals - 1)

(* A route pick, startRunAt: from the top, or from a checkpoint of the     *)
(* account that the character's level covers.                              *)
StartRunAt(p, row) ==
  /\ floor = 0 /\ ~portalPlaced
  /\ p \in alive \cap Named
  /\ row = 1 \/ \E f \in checkpoints[p] : row = RowOf(f)
  /\ portalsLeft' = OffersPortals(row)
  /\ portalNode' = TrunkNodeAt(run, row) /\ portalFin' = 1
  /\ portalPlaced' = TRUE /\ portalPos' = OnFloor(run, portalNode', 1)
  /\ Arrive(portalNode', 1)
  /\ MarkVisited(portalNode')
  /\ UNCHANGED <<run, cleared>>

(* portalTravel from the hideout: back to the portal's floor, for free.    *)
ReturnByPortal ==
  /\ floor = 0 /\ alive # {}
  /\ Arrive(portalNode, portalFin)
  /\ MarkVisited(portalNode)
  /\ portalPlaced' = TRUE
  /\ portalPos' = IF portalPlaced THEN portalPos ELSE OnFloor(run, portalNode, portalFin)
  /\ UNCHANGED <<run, portalNode, portalFin, portalsLeft, cleared>>

(* portalTravel from the portal's floor: home, for a use. *)
EnterPortal(cl) ==
  /\ floor > 0 /\ alive # {}
  /\ node = portalNode /\ fin = portalFin
  /\ portalsLeft > 0 /\ portalsLeft' = portalsLeft - 1
  /\ GoHome
  /\ cleared' = cl
  /\ UNCHANGED <<run, portalNode, portalFin, portalPos, portalPlaced, visited, maxRow>>

(* The portal is planted where the player stands. *)
Plant(cl) ==
  /\ floor > 0 /\ alive # {}
  /\ portalNode' = node /\ portalFin' = fin
  /\ portalPos' = OnFloor(run, node, fin) /\ portalPlaced' = TRUE
  /\ cleared' = cl
  /\ UNCHANGED <<place, portalsLeft, visited, maxRow, alive>>

(* Nothing replaces the world: there was no request, it was refused, or    *)
(* the floor it asks for failed to build.                                  *)
Quiet(cl) ==
  /\ cleared' = cl
  /\ UNCHANGED <<place, portal, visited, maxRow, alive>>

(* runTick: a set-piece that falls clears its node, the floor is a         *)
(* checkpoint of every account present, and then one thing happens.        *)
RunTick ==
  /\ ~down
  /\ \E falls \in BOOLEAN :
       LET cl == IF falls THEN cleared \cup {node} ELSE cleared IN
       /\ falls => fin = NodeFloors /\ node \notin cleared
       /\ checkpoints' = [p \in Players |->
            IF falls /\ p \in members \cap Named
            THEN checkpoints[p] \cup {floor} ELSE checkpoints[p]]
       /\ \/ Deaths(cl)
          \/ DescendWithin(cl)
          \/ \E n \in Chart[run] : Travel(n, cl)
          \/ \E p \in Players, row \in 1..MaxRow : StartRunAt(p, row)
          \/ ReturnByPortal
          \/ EnterPortal(cl)
          \/ Plant(cl)
          \/ Quiet(cl)
  /\ UNCHANGED <<members, process>>

(* A process that was given a save and no scenario has no map to build a   *)
(* floor from: the first stairs, portal or death that needs one ends it.   *)
Panics ==
  /\ ~down /\ ~hasMap /\ alive # {}
  /\ \/ floor = 0 \/ portalsLeft > 0 \/ StartFloor > 0 \/ fin < NodeFloors
     \/ \E n \in Chart[run] : CanTravelTo(n, cleared)
  /\ down' = TRUE
  /\ UNCHANGED <<place, portal, chart, members, alive, checkpoints, saved, hasMap>>

-----------------------------------------------------------------------------
(* The save file. *)

(* Faulty: the last row is left out. *)
ChartListShort(set) == {n \in set : n \in Chart[run] /\ n.row < maxRow}

(* chartList lists a set of nodes row by row, down to the deepest visited. *)
ChartList(set) == {n \in set : n \in Chart[run] /\ n.row <= maxRow}

(* The admin's save, between ticks: encodeRunSave *)
Save ==
  /\ MaySave /\ ~down
  /\ saved' = [run |-> run, node |-> node, fin |-> fin, floor |-> floor, best |-> best,
               portalNode |-> portalNode, portalFin |-> portalFin,
               portalPos |-> portalPos, portalPlaced |-> portalPlaced,
               portalsLeft |-> portalsLeft,
               visited |-> ChartList(visited), cleared |-> ChartList(cleared)]
  /\ UNCHANGED <<place, portal, chart, members, alive, checkpoints, hasMap, down>>

Deepest(nodes) ==
  CHOOSE r \in 1..MaxRow : /\ r = 1 \/ \E n \in nodes : n.row = r
                           /\ \A n \in nodes : n.row <= r

(* The process ends, and the next one is given the save, with a scenario   *)
(* or without: New                                                         *)
Load ==
  /\ saved # NoSave
  /\ run' = saved.run /\ node' = saved.node /\ fin' = saved.fin
  /\ floor' = saved.floor /\ best' = saved.best
  /\ portalNode' = saved.portalNode /\ portalFin' = saved.portalFin
  /\ portalPos' = saved.portalPos /\ portalPlaced' = saved.portalPlaced
  /\ portalsLeft' = saved.portalsLeft
  /\ visited' = saved.visited /\ cleared' = saved.cleared
  /\ maxRow' = Deepest(saved.visited)
  /\ members' = {} /\ alive' = {}
  /\ hasMap' \in BOOLEAN /\ down' = FALSE
  /\ UNCHANGED <<checkpoints, saved>>

(* The save is a bare world, without a run: beginRun makes it the first    *)
(* floor of a fresh one.                                                   *)
LoadWorld ==
  /\ saved # NoSave
  /\ run' = 1 /\ portalsLeft' = Portals
  /\ node' = TrunkNodeAt(1, 1) /\ fin' = 1 /\ floor' = 1 /\ best' = 1
  /\ visited' = {TrunkNodeAt(1, 1)} /\ cleared' = {} /\ maxRow' = 1
  /\ portalNode' = TrunkNodeAt(1, 1) /\ portalFin' = 1
  /\ portalPlaced' = TRUE /\ portalPos' = OnFloor(1, TrunkNodeAt(1, 1), 1)
  /\ members' = {} /\ alive' = {}
  /\ hasMap' \in BOOLEAN /\ down' = FALSE
  /\ UNCHANGED <<checkpoints, saved>>

Next ==
  \/ \E p \in Players : Join(p) \/ Leave(p)
  \/ RunTick \/ Panics
  \/ Save \/ Load \/ LoadWorld

Spec == Init /\ [][Next]_vars

-----------------------------------------------------------------------------
(* Node, floor and depth say the same place, and it is on the chart's      *)
(* books: what a player sees, what the ladder counts and where a save      *)
(* resumes agree (swapWorld's callers set them apart from each other).     *)
PlaceAgrees ==
  /\ floor = 0 <=> node = Hideout
  /\ floor = 0 <=> fin = 0
  /\ floor > 0 => floor = FloorOf(node, fin) /\ node \in visited
  /\ floor <= best

(* The death anchor is on ground this run has seen, and its position is a  *)
(* position of that very floor; before it is first placed the run is home, *)
(* with all its uses and nothing visited (startNextRun, portalTravel,      *)
(* handleDeaths' "deaths shouldn't precede placement").                    *)
AnchorStands ==
  IF portalPlaced
  THEN /\ portalNode \in visited
       /\ portalPos = OnFloor(run, portalNode, portalFin)
  ELSE floor = 0 /\ visited = {} /\ cleared = {} /\ portalsLeft = Portals

(* Ground is opened by clearing: of the nodes a run has visited all but    *)
(* the first border a node it has cleared, and it cleared only what it     *)
(* visited ("the set-piece bars new ground").                              *)
FrontierWasOpened ==
  /\ cleared \subseteq visited
  /\ \A n, m \in visited : n # m => Opened(n, cleared) \/ Opened(m, cleared)

(* What a save lists of the chart is all there is, and a load finds the    *)
(* same depth again: a restart resumes the run exactly.                    *)
SaveIsExact ==
  /\ ChartList(visited) = visited /\ ChartList(cleared) = cleared
  /\ maxRow = Deepest(visited)

(* The map a client is shown, at any time: all it has visited and all it   *)
(* may travel to in full, what lies beside the ground in full at least as  *)
(* a silhouette, and every way between two nodes of it.  The rows that     *)
(* delveSnap scans end in time, whatever the moves so far.                 *)
MapShowsTheWay ==
  LET snap == DelveSnap(Chart[run], Edges[run], visited, maxRow) IN
    /\ visited \subseteq snap.full
    /\ \A n \in Chart[run] : CanTravelTo(n, cleared) => n \in snap.full
    /\ \A e \in Edges[run] :
         /\ e[1] \in snap.full => e[2] \in snap.full \cup snap.veiled
         /\ e[1] \in snap.full \cup snap.veiled /\ e[2] \in snap.full \cup snap.veiled =>
              e \in snap.edges \/ <<e[2], e[1]>> \in snap.edges

(* A deep start is "one portal lighter, so 'from the top' stays a choice"  *)
(* (portalStartOffers).                                                    *)
DeepStartsCostAPortal ==
  [][~portalPlaced /\ portalPlaced' /\ portalNode'.row > 1 /\ members' # {}
       => portalsLeft' < Portals]_vars

(* The budget of a run, by itself. *)
Budget == INSTANCE PortalBudget WITH
  left <- portalsLeft, begun <- portalPlaced,
  file <- IF saved = NoSave THEN NoSave
          ELSE [run |-> saved.run, left |-> saved.portalsLeft, begun |-> saved.portalPlaced]

BudgetIsKept == Budget!Spec
=============================================================================
