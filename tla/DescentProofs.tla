---------------------------- MODULE DescentProofs ----------------------------
(* Theorems about Descent, for any charts, players and budgets. *)
EXTENDS Descent, TLAPS

USE DescentAssumption, EveryRowHasItsTrunk

(***************************************************************************)
(* Types.                                                                  *)
(***************************************************************************)
LEMMA RowsAndFloors ==
  ASSUME NEW f \in 1..MaxRow * NodeFloors
  PROVE  /\ RowOf(f) \in 1..MaxRow /\ FinOf(f) \in 1..NodeFloors
         /\ (RowOf(f) - 1) * NodeFloors + FinOf(f) = f
  <1>1. MaxRow \in Nat
    OBVIOUS
  <1>2. QED BY <1>1 DEF RowOf, FinOf, NodeFloors

LEMMA FloorsOfNodes ==
  ASSUME NEW n \in Addr, NEW f \in 1..NodeFloors
  PROVE  FloorOf(n, f) \in 1..MaxRow * NodeFloors
  <1>1. n.row \in 1..MaxRow
    BY DEF Addr
  <1>2. MaxRow \in Nat
    OBVIOUS
  <1>3. QED BY <1>1, <1>2 DEF FloorOf, NodeFloors

LEMMA TrunkIsANode ==
  ASSUME NEW r \in 1..MaxRun, NEW row \in 1..MaxRow
  PROVE  /\ TrunkNodeAt(r, row) \in Addr
         /\ TrunkNodeAt(r, row) \in Chart[r]
         /\ TrunkNodeAt(r, row).row = row
  <1>1. Chart[r] \subseteq Addr
    OBVIOUS
  <1>2. QED BY <1>1

LEMMA FirstIsANode ==
  ASSUME NEW r \in 1..MaxRun
  PROVE  /\ FirstNode(r) \in Addr /\ FirstNode(r) \in Chart[r]
         /\ FirstFin \in 1..NodeFloors
         /\ StartFloor > 0 => FloorOf(FirstNode(r), FirstFin) = StartFloor
  <1>1. CASE StartFloor = 0
    <2>1. 1 \in 1..MaxRow
      OBVIOUS
    <2>2. QED BY <1>1, <2>1, TrunkIsANode DEF FirstNode, FirstFin, NodeFloors
  <1>2. CASE StartFloor # 0
    <2>1. StartFloor \in 1..MaxRow * NodeFloors
      BY <1>2 DEF NodeFloors
    <2>2. QED BY <1>2, <2>1, RowsAndFloors, TrunkIsANode DEF FirstNode, FirstFin, FloorOf
  <1>3. QED BY <1>1, <1>2

(***************************************************************************)
(* The inductive invariant.  It is about runs whose first floor can be     *)
(* built: one that fails leaves a new run on the old run's floor.          *)
(***************************************************************************)
FirstFloorBuilds == MayFail => StartFloor = 0

RunTypes ==
  /\ run \in 1..MaxRun /\ node \in Addr \cup {Hideout} /\ fin \in 0..NodeFloors
  /\ floor \in Nat /\ best \in Nat
  /\ portalNode \in Addr /\ portalFin \in 1..NodeFloors /\ portalPos \in Positions
  /\ portalPlaced \in BOOLEAN /\ portalsLeft \in Nat
  /\ visited \in SUBSET Addr /\ cleared \in SUBSET Addr /\ maxRow \in 1..MaxRow

OnChart == visited \subseteq Chart[run] /\ portalNode \in Chart[run]

(* r is the depth of a set of nodes, at least 1. *)
IsDeepest(r, nodes) ==
  /\ r = 1 \/ \E n \in nodes : n.row = r
  /\ \A n \in nodes : n.row <= r

DepthIsKnown == IsDeepest(maxRow, visited)

RunInv == /\ RunTypes
          /\ PlaceAgrees /\ OnChart /\ AnchorStands
          /\ FrontierWasOpened /\ DepthIsKnown

(* The same of the run in the save file. *)
SavedPlace ==
  /\ saved.floor = 0 <=> saved.node = Hideout
  /\ saved.floor = 0 <=> saved.fin = 0
  /\ saved.floor > 0 => /\ saved.floor = FloorOf(saved.node, saved.fin)
                        /\ saved.node \in saved.visited
  /\ saved.floor <= saved.best

SavedAnchor ==
  IF saved.portalPlaced
  THEN /\ saved.portalNode \in saved.visited
       /\ saved.portalPos = OnFloor(saved.run, saved.portalNode, saved.portalFin)
  ELSE /\ saved.floor = 0 /\ saved.visited = {} /\ saved.cleared = {}
       /\ saved.portalsLeft = Portals

SavedChart ==
  /\ saved.visited \subseteq Chart[saved.run] /\ saved.portalNode \in Chart[saved.run]
  /\ saved.cleared \subseteq saved.visited
  /\ \A n, m \in saved.visited : n # m =>
       \/ \E k \in saved.cleared : <<n, k>> \in Edges[saved.run]
       \/ \E k \in saved.cleared : <<m, k>> \in Edges[saved.run]
  /\ \E r \in 1..MaxRow : IsDeepest(r, saved.visited)

SavedInv == saved # NoSave => saved \in Saves /\ SavedPlace /\ SavedAnchor /\ SavedChart

OthersTyped ==
  /\ members \in SUBSET Players /\ alive \in SUBSET members
  /\ checkpoints \in [Players -> SUBSET (1..MaxRow * NodeFloors)]
  /\ hasMap \in BOOLEAN /\ down \in BOOLEAN

IInv == RunInv /\ OthersTyped /\ SavedInv

LEMMA DeepestIsChosen ==
  ASSUME NEW nodes \in SUBSET Addr, NEW r \in 1..MaxRow, IsDeepest(r, nodes)
  PROVE  Deepest(nodes) = r
  <1>1. \A q \in 1..MaxRow : IsDeepest(q, nodes) => q = r
    <2> SUFFICES ASSUME NEW q \in 1..MaxRow, IsDeepest(q, nodes) PROVE q = r
      OBVIOUS
    <2>1. \A n \in nodes : n.row \in 1..MaxRow
      BY DEF Addr
    <2>2. q <= r
      BY <2>1 DEF IsDeepest
    <2>3. r <= q
      BY <2>1 DEF IsDeepest
    <2>4. QED BY <2>2, <2>3
  <1>2. QED BY <1>1 DEF Deepest, IsDeepest

LEMMA HideoutIsNoNode == Hideout \notin Addr
  BY DEF Hideout, Addr

(* What an arrival on a dungeon floor gives. *)
PlaceTypes ==
  /\ node \in Addr \cup {Hideout} /\ fin \in 0..NodeFloors
  /\ floor \in Nat /\ best \in Nat

LEMMA ArrivesThere ==
  ASSUME PlaceTypes, NEW n \in Addr, NEW f \in 1..NodeFloors, Arrive(n, f)
  PROVE  /\ PlaceTypes'
         /\ n \in visited' => PlaceAgrees'
  <1>1. FloorOf(n, f) \in Nat \ {0}
    BY FloorsOfNodes DEF NodeFloors
  <1>2. node' = n /\ fin' = f /\ floor' = FloorOf(n, f)
    BY DEF Arrive
  <1>3. best' \in Nat /\ floor' <= best'
    BY <1>1 DEF Arrive, Larger, PlaceTypes
  <1>4. PlaceTypes'
    BY <1>1, <1>2, <1>3 DEF PlaceTypes, NodeFloors
  <1>5. node' # Hideout /\ floor' # 0 /\ fin' # 0
    BY <1>1, <1>2, HideoutIsNoNode DEF NodeFloors
  <1>6. (n \in visited') => PlaceAgrees'
    BY <1>1, <1>2, <1>3, <1>5 DEF PlaceAgrees, FloorOf
  <1>7. QED BY <1>4, <1>6

LEMMA GoesHome ==
  ASSUME PlaceTypes, GoHome
  PROVE  PlaceTypes' /\ PlaceAgrees' /\ floor' = 0
  BY DEF PlaceTypes, GoHome, PlaceAgrees, NodeFloors

LEMMA RecordsDepth ==
  ASSUME visited \in SUBSET Addr, maxRow \in 1..MaxRow, DepthIsKnown,
         NEW n \in Addr, MarkVisited(n)
  PROVE  /\ visited' = visited \cup {n} /\ visited' \in SUBSET Addr
         /\ maxRow' \in 1..MaxRow /\ DepthIsKnown'
  <1>1. n.row \in 1..MaxRow /\ \A m \in visited : m.row \in 1..MaxRow
    BY DEF Addr
  <1>2. visited' = visited \cup {n} /\ maxRow' = IF maxRow < n.row THEN n.row ELSE maxRow
    BY DEF MarkVisited, Larger
  <1>3. maxRow' \in 1..MaxRow
    BY <1>1, <1>2
  <1>4. maxRow' = 1 \/ \E m \in visited' : m.row = maxRow'
    BY <1>1, <1>2 DEF DepthIsKnown, IsDeepest
  <1>5. \A m \in visited' : m.row <= maxRow'
    BY <1>1, <1>2 DEF DepthIsKnown, IsDeepest
  <1>6. QED BY <1>2, <1>3, <1>4, <1>5 DEF DepthIsKnown, IsDeepest

(* Ground that was visited, or that cleared ground opens, joins a chart    *)
(* whose frontier was opened by clearing.                                  *)
LEMMA FrontierGrows ==
  ASSUME FrontierWasOpened, NEW cl, cleared \subseteq cl, cl \subseteq visited,
         cleared' = cl, run' = run, NEW n,
         n \in visited \/ Opened(n, cl), visited' = visited \cup {n}
  PROVE  FrontierWasOpened'
  <1>1. \A m : Opened(m, cleared) => Opened(m, cl)'
    BY DEF Opened
  <1>2. Opened(n, cl) => Opened(n, cl)'
    BY DEF Opened
  <1>3. QED BY <1>1, <1>2 DEF FrontierWasOpened, Opened

(***************************************************************************)
(* What each outcome of a tick does to the run.                            *)
(***************************************************************************)
LEMMA EjectKeepsRun ==
  ASSUME RunInv, NEW cl, cleared \subseteq cl, cl \subseteq visited,
         floor > 0, Eject(cl)
  PROVE  RunInv'
  <1> USE DEF RunInv
  <1>1. portalPlaced /\ portalNode \in visited
    BY DEF AnchorStands, RunTypes
  <1>2. PlaceTypes' /\ (portalNode \in visited' => PlaceAgrees')
    BY ArrivesThere DEF RunTypes, PlaceTypes, Eject
  <1>3. /\ visited' = visited \cup {portalNode} /\ visited' \in SUBSET Addr
        /\ maxRow' \in 1..MaxRow /\ DepthIsKnown'
    BY RecordsDepth DEF RunTypes, Eject
  <1>4. RunTypes'
    BY <1>1, <1>2, <1>3 DEF Eject, RunTypes, PlaceTypes
  <1>5. OnChart' /\ AnchorStands'
    BY <1>1, <1>3 DEF Eject, OnChart, AnchorStands
  <1>6. FrontierWasOpened'
    BY <1>1, <1>3, FrontierGrows DEF Eject
  <1>7. QED BY <1>2, <1>3, <1>4, <1>5, <1>6

LEMMA EjectFailsKeepsRun ==
  ASSUME RunInv, NEW d, NEW cl, cleared \subseteq cl, cl \subseteq visited,
         floor > 0, EjectFails(d, cl)
  PROVE  RunInv'
  <1> USE DEF RunInv, EjectFails, place
  <1>1. RunTypes' /\ PlaceAgrees' /\ OnChart' /\ DepthIsKnown'
    BY DEF RunTypes, PlaceAgrees, OnChart, DepthIsKnown, IsDeepest
  <1>2. AnchorStands'
    BY DEF AnchorStands
  <1>3. FrontierWasOpened'
    BY DEF FrontierWasOpened, Opened
  <1>4. QED BY <1>1, <1>2, <1>3

LEMMA RunOverKeepsRun ==
  ASSUME RunInv, RunOver
  PROVE  RunInv'
  <1> USE DEF RunInv
  <1>1. run' \in 1..MaxRun /\ portalsLeft' \in Nat /\ cleared' = {}
    BY DEF RunOver, RunTypes
  <1>2. /\ portalNode' \in Addr /\ portalNode' \in Chart[run']
        /\ portalFin' \in 1..NodeFloors
    BY <1>1, FirstIsANode DEF RunOver
  <1>3. CASE StartFloor = 0
    <2>1. PlaceTypes' /\ PlaceAgrees' /\ floor' = 0
      BY <1>3, GoesHome DEF RunOver, RunTypes, PlaceTypes
    <2>2. visited' = {} /\ maxRow' = 1 /\ portalPlaced' = FALSE /\ portalPos' = portalPos
      BY <1>3 DEF RunOver
    <2>3. RunTypes'
      <3>1. maxRow' \in 1..MaxRow /\ portalPos' \in Positions
        BY <2>2 DEF RunTypes
      <3>2. visited' \in SUBSET Addr /\ cleared' \in SUBSET Addr /\ portalPlaced' \in BOOLEAN
        BY <1>1, <2>2
      <3>3. QED BY <1>1, <1>2, <2>1, <3>1, <3>2 DEF RunTypes, PlaceTypes
    <2>4. AnchorStands' /\ OnChart' /\ FrontierWasOpened' /\ DepthIsKnown'
      BY <1>1, <1>2, <2>1, <2>2
      DEF RunOver, AnchorStands, OnChart, FrontierWasOpened, DepthIsKnown, IsDeepest
    <2>5. QED BY <2>1, <2>3, <2>4
  <1>4. CASE StartFloor # 0
    <2>1. /\ portalPlaced' = TRUE /\ portalPos' = OnFloor(run', portalNode', portalFin')
          /\ visited' = {portalNode'} /\ maxRow' = portalNode'.row
          /\ Arrive(portalNode', portalFin')
      BY <1>4 DEF RunOver
    <2>2. PlaceTypes' /\ PlaceAgrees'
      BY <1>2, <2>1, ArrivesThere DEF RunTypes, PlaceTypes
    <2>3. portalPos' \in Positions
      BY <1>1, <1>2, <2>1 DEF OnFloor, Positions, NodeFloors
    <2>4. maxRow' \in 1..MaxRow
      BY <1>2, <2>1 DEF Addr
    <2>5. RunTypes'
      BY <1>1, <1>2, <2>1, <2>2, <2>3, <2>4 DEF RunTypes, PlaceTypes
    <2>6. AnchorStands' /\ OnChart' /\ FrontierWasOpened'
      BY <1>1, <1>2, <2>1 DEF AnchorStands, OnChart, FrontierWasOpened
    <2>7. DepthIsKnown'
      BY <2>1, <2>4 DEF DepthIsKnown, IsDeepest
    <2>8. QED BY <2>2, <2>5, <2>6, <2>7
  <1>5. QED BY <1>3, <1>4

LEMMA DescendKeepsRun ==
  ASSUME RunInv, NEW cl, cleared \subseteq cl, cl \subseteq visited, DescendWithin(cl)
  PROVE  RunInv'
  <1> USE DEF RunInv, DescendWithin, portal
  <1>1. node \in Addr /\ fin + 1 \in 1..NodeFloors /\ node \in visited
    BY DEF RunTypes, PlaceAgrees, NodeFloors
  <1>2. PlaceTypes' /\ PlaceAgrees'
    BY <1>1, ArrivesThere DEF RunTypes, PlaceTypes
  <1>3. RunTypes'
    BY <1>2 DEF RunTypes, PlaceTypes
  <1>4. OnChart' /\ AnchorStands' /\ DepthIsKnown'
    BY DEF OnChart, AnchorStands, DepthIsKnown, IsDeepest
  <1>5. FrontierWasOpened'
    BY DEF FrontierWasOpened, Opened
  <1>6. QED BY <1>2, <1>3, <1>4, <1>5

LEMMA TravelKeepsRun ==
  ASSUME RunInv, NEW cl, cleared \subseteq cl, cl \subseteq visited,
         NEW n \in Chart[run], Travel(n, cl)
  PROVE  RunInv'
  <1> USE DEF RunInv, Travel, portal
  <1>1. n \in Addr /\ 1 \in 1..NodeFloors
    BY DEF RunTypes, NodeFloors
  <1>2. PlaceTypes' /\ (n \in visited' => PlaceAgrees')
    BY <1>1, ArrivesThere DEF RunTypes, PlaceTypes
  <1>3. /\ visited' = visited \cup {n} /\ visited' \in SUBSET Addr
        /\ maxRow' \in 1..MaxRow /\ DepthIsKnown'
    BY <1>1, RecordsDepth DEF RunTypes
  <1>4. RunTypes'
    BY <1>2, <1>3 DEF RunTypes, PlaceTypes
  <1>5. OnChart' /\ AnchorStands'
    BY <1>3 DEF OnChart, AnchorStands
  <1>6. FrontierWasOpened'
    BY <1>3, FrontierGrows DEF CanTravelTo
  <1>7. QED BY <1>2, <1>3, <1>4, <1>5, <1>6

LEMMA StartKeepsRun ==
  ASSUME RunInv, NEW p, NEW row \in 1..MaxRow, StartRunAt(p, row)
  PROVE  RunInv'
  <1> USE DEF RunInv, StartRunAt
  <1>1. /\ portalNode' \in Addr /\ portalNode' \in Chart[run]
        /\ 1 \in 1..NodeFloors /\ portalsLeft' \in Nat
    BY TrunkIsANode DEF RunTypes, NodeFloors, OffersPortals, Larger
  <1>2. visited = {} /\ cleared = {}
    BY DEF AnchorStands
  <1>3. PlaceTypes' /\ (portalNode' \in visited' => PlaceAgrees')
    BY <1>1, ArrivesThere DEF RunTypes, PlaceTypes
  <1>4. /\ visited' = visited \cup {portalNode'} /\ visited' \in SUBSET Addr
        /\ maxRow' \in 1..MaxRow /\ DepthIsKnown'
    BY <1>1, RecordsDepth DEF RunTypes
  <1>5. portalPos' \in Positions
    BY <1>1 DEF OnFloor, Positions, NodeFloors, RunTypes
  <1>6. RunTypes'
    BY <1>1, <1>3, <1>4, <1>5 DEF RunTypes, PlaceTypes
  <1>7. OnChart' /\ AnchorStands' /\ FrontierWasOpened'
    BY <1>1, <1>2, <1>4 DEF OnChart, AnchorStands, FrontierWasOpened
  <1>8. QED BY <1>3, <1>4, <1>6, <1>7

LEMMA ReturnKeepsRun ==
  ASSUME RunInv, ReturnByPortal
  PROVE  RunInv'
  <1> USE DEF RunInv, ReturnByPortal
  <1>1. portalNode \in Addr /\ portalFin \in 1..NodeFloors
    BY DEF RunTypes
  <1>2. PlaceTypes' /\ (portalNode \in visited' => PlaceAgrees')
    BY <1>1, ArrivesThere DEF RunTypes, PlaceTypes
  <1>3. /\ visited' = visited \cup {portalNode} /\ visited' \in SUBSET Addr
        /\ maxRow' \in 1..MaxRow /\ DepthIsKnown'
    BY <1>1, RecordsDepth DEF RunTypes
  <1>4. portalPos' \in Positions
    BY <1>1 DEF OnFloor, Positions, NodeFloors, RunTypes
  <1>5. RunTypes'
    BY <1>2, <1>3, <1>4 DEF RunTypes, PlaceTypes
  <1>6. OnChart' /\ AnchorStands'
    BY <1>3 DEF OnChart, AnchorStands
  <1>7. FrontierWasOpened'
    <2>1. CASE portalPlaced
      BY <1>3, <2>1, FrontierGrows DEF AnchorStands, FrontierWasOpened
    <2>2. CASE ~portalPlaced
      BY <1>3, <2>2 DEF AnchorStands, FrontierWasOpened
    <2>3. QED BY <2>1, <2>2
  <1>8. QED BY <1>2, <1>3, <1>5, <1>6, <1>7

LEMMA EnterKeepsRun ==
  ASSUME RunInv, NEW cl, cleared \subseteq cl, cl \subseteq visited, EnterPortal(cl)
  PROVE  RunInv'
  <1> USE DEF RunInv, EnterPortal
  <1>1. PlaceTypes' /\ PlaceAgrees'
    BY GoesHome DEF RunTypes, PlaceTypes
  <1>2. RunTypes'
    BY <1>1 DEF RunTypes, PlaceTypes
  <1>3. OnChart' /\ AnchorStands' /\ DepthIsKnown'
    BY DEF OnChart, AnchorStands, DepthIsKnown, IsDeepest
  <1>4. FrontierWasOpened'
    BY DEF FrontierWasOpened, Opened
  <1>5. QED BY <1>1, <1>2, <1>3, <1>4

LEMMA PlantKeepsRun ==
  ASSUME RunInv, NEW cl, cleared \subseteq cl, cl \subseteq visited, Plant(cl)
  PROVE  RunInv'
  <1> USE DEF RunInv, Plant, place
  <1>1. node \in Addr /\ fin \in 1..NodeFloors /\ node \in visited
    BY DEF RunTypes, PlaceAgrees, NodeFloors
  <1>2. portalPos' \in Positions
    BY <1>1 DEF OnFloor, Positions, RunTypes, NodeFloors
  <1>3. RunTypes'
    BY <1>1, <1>2 DEF RunTypes
  <1>4. PlaceAgrees' /\ OnChart' /\ AnchorStands' /\ DepthIsKnown'
    BY <1>1 DEF PlaceAgrees, OnChart, AnchorStands, DepthIsKnown, IsDeepest
  <1>5. FrontierWasOpened'
    BY DEF FrontierWasOpened, Opened
  <1>6. QED BY <1>3, <1>4, <1>5

LEMMA QuietKeepsRun ==
  ASSUME RunInv, NEW cl, cleared \subseteq cl, cl \subseteq visited, Quiet(cl)
  PROVE  RunInv'
  <1> USE DEF RunInv, Quiet, place, portal
  <1>1. RunTypes' /\ PlaceAgrees' /\ OnChart' /\ DepthIsKnown'
    BY DEF RunTypes, PlaceAgrees, OnChart, DepthIsKnown, IsDeepest
  <1>2. AnchorStands'
    BY DEF AnchorStands
  <1>3. FrontierWasOpened'
    BY DEF FrontierWasOpened, Opened
  <1>4. QED BY <1>1, <1>2, <1>3

LEMMA TickKeepsRun ==
  ASSUME FirstFloorBuilds, IInv, RunTick
  PROVE  RunInv' /\ OthersTyped'
  <1> USE DEF IInv
  <1>1. PICK falls \in BOOLEAN :
          LET cl == IF falls THEN cleared \cup {node} ELSE cleared IN
          /\ falls => fin = NodeFloors /\ node \notin cleared
          /\ checkpoints' = [p \in Players |->
               IF falls /\ p \in members \cap Named
               THEN checkpoints[p] \cup {floor} ELSE checkpoints[p]]
          /\ \/ Deaths(cl) \/ DescendWithin(cl)
             \/ \E n \in Chart[run] : Travel(n, cl)
             \/ \E p \in Players, row \in 1..MaxRow : StartRunAt(p, row)
             \/ ReturnByPortal \/ EnterPortal(cl) \/ Plant(cl) \/ Quiet(cl)
    BY Zenon DEF RunTick
  <1> DEFINE cl == IF falls THEN cleared \cup {node} ELSE cleared
  <1>2. falls => /\ node \in visited
                 /\ floor \in 1..MaxRow * NodeFloors
    <2> SUFFICES ASSUME falls
                 PROVE  node \in visited /\ floor \in 1..MaxRow * NodeFloors
      OBVIOUS
    <2>1. fin = NodeFloors /\ fin # 0
      BY <1>1 DEF NodeFloors
    <2>2. node \in Addr /\ node \in visited /\ floor = FloorOf(node, fin)
      BY <2>1 DEF RunInv, RunTypes, PlaceAgrees
    <2>3. QED BY <2>1, <2>2, FloorsOfNodes DEF NodeFloors
  <1>3. cleared \subseteq cl /\ cl \subseteq visited
    BY <1>2 DEF RunInv, FrontierWasOpened
  <1>4. checkpoints' \in [Players -> SUBSET (1..MaxRow * NodeFloors)]
    BY <1>1, <1>2 DEF OthersTyped
  <1>5. members' = members /\ saved' = saved /\ hasMap' = hasMap /\ down' = down
    BY DEF RunTick, process
  <1> HIDE DEF cl
  <1>6. CASE Deaths(cl)
    <2>1. floor > 0 /\ \E d \in SUBSET alive \ {{}} :
            Eject(cl) \/ EjectFails(d, cl) \/ RunOver \/ RunOverFails(d)
      BY <1>6 DEF Deaths
    <2>2. CASE Eject(cl)
      BY <1>3, <1>4, <1>5, <2>1, <2>2, EjectKeepsRun DEF OthersTyped, Eject, Arrive
    <2>3. ASSUME NEW d, EjectFails(d, cl) PROVE RunInv' /\ OthersTyped'
      BY <1>3, <1>4, <1>5, <2>1, <2>3, EjectFailsKeepsRun DEF OthersTyped, EjectFails
    <2>4. CASE RunOver
      <3>1. alive' = members
        BY <2>4 DEF RunOver, GoHome, Arrive
      <3>2. QED BY <1>4, <1>5, <2>4, <3>1, RunOverKeepsRun DEF OthersTyped
    <2>5. ASSUME NEW d PROVE ~RunOverFails(d)
      BY DEF RunOverFails, FirstFloorBuilds
    <2>6. QED BY <2>1, <2>2, <2>3, <2>4, <2>5
  <1>7. CASE DescendWithin(cl)
    BY <1>3, <1>4, <1>5, <1>7, DescendKeepsRun DEF OthersTyped, DescendWithin, Arrive
  <1>8. ASSUME NEW n \in Chart[run], Travel(n, cl) PROVE RunInv' /\ OthersTyped'
    BY <1>3, <1>4, <1>5, <1>8, TravelKeepsRun DEF OthersTyped, Travel, Arrive
  <1>9. ASSUME NEW p \in Players, NEW row \in 1..MaxRow, StartRunAt(p, row)
        PROVE  RunInv' /\ OthersTyped'
    BY <1>4, <1>5, <1>9, StartKeepsRun DEF OthersTyped, StartRunAt, Arrive
  <1>10. CASE ReturnByPortal
    BY <1>4, <1>5, <1>10, ReturnKeepsRun DEF OthersTyped, ReturnByPortal, Arrive
  <1>11. CASE EnterPortal(cl)
    BY <1>3, <1>4, <1>5, <1>11, EnterKeepsRun DEF OthersTyped, EnterPortal, GoHome
  <1>12. CASE Plant(cl)
    BY <1>3, <1>4, <1>5, <1>12, PlantKeepsRun DEF OthersTyped, Plant
  <1>13. CASE Quiet(cl)
    BY <1>3, <1>4, <1>5, <1>13, QuietKeepsRun DEF OthersTyped, Quiet
  <1>14. QED BY <1>1, <1>6, <1>7, <1>8, <1>9, <1>10, <1>11, <1>12, <1>13 DEF cl

(***************************************************************************)
(* The save file.                                                          *)
(***************************************************************************)

(* A save lists the whole chart, and a load computes the same depth. *)
LEMMA SavesAreExact == ASSUME RunInv PROVE SaveIsExact
  <1>1. ChartList(visited) = visited
    BY DEF ChartList, RunInv, OnChart, DepthIsKnown, IsDeepest
  <1>2. ChartList(cleared) = cleared
    BY DEF ChartList, RunInv, OnChart, DepthIsKnown, IsDeepest, FrontierWasOpened
  <1>3. maxRow = Deepest(visited)
    BY DeepestIsChosen DEF RunInv, RunTypes, DepthIsKnown
  <1>4. QED BY <1>1, <1>2, <1>3 DEF SaveIsExact

LEMMA SaveKeepsSaved ==
  ASSUME IInv, Save
  PROVE  SavedInv'
  <1> USE DEF IInv, RunInv
  <1>1. ChartList(visited) = visited /\ ChartList(cleared) = cleared
    BY SavesAreExact DEF SaveIsExact
  <1>2. saved' = [run |-> run, node |-> node, fin |-> fin, floor |-> floor, best |-> best,
                  portalNode |-> portalNode, portalFin |-> portalFin,
                  portalPos |-> portalPos, portalPlaced |-> portalPlaced,
                  portalsLeft |-> portalsLeft, visited |-> visited, cleared |-> cleared]
    BY <1>1 DEF Save
  <1>3. saved' \in Saves
    BY <1>2 DEF RunTypes, Saves
  <1>4. SavedPlace'
    BY <1>2 DEF PlaceAgrees, SavedPlace
  <1>5. SavedAnchor'
    BY <1>2 DEF AnchorStands, SavedAnchor
  <1>6. SavedChart'
    <2>1. \E r \in 1..MaxRow : IsDeepest(r, visited)
      BY DEF RunTypes, DepthIsKnown
    <2>2. QED BY <1>2, <2>1 DEF SavedChart, OnChart, FrontierWasOpened, Opened
  <1>7. QED BY <1>3, <1>4, <1>5, <1>6 DEF SavedInv

LEMMA LoadKeepsRun ==
  ASSUME IInv, Load
  PROVE  RunInv' /\ OthersTyped'
  <1> USE DEF IInv, Load
  <1>1. saved \in Saves /\ SavedPlace /\ SavedAnchor /\ SavedChart
    BY DEF SavedInv
  <1>2. PICK r \in 1..MaxRow : IsDeepest(r, saved.visited)
    BY <1>1 DEF SavedChart
  <1>3. saved.visited \in SUBSET Addr
    BY <1>1 DEF Saves
  <1>4. maxRow' = r
    BY <1>2, <1>3, DeepestIsChosen
  <1>5. RunTypes'
    BY <1>1, <1>2, <1>4 DEF RunTypes, Saves
  <1>6. DepthIsKnown'
    BY <1>2, <1>4 DEF DepthIsKnown
  <1>7. PlaceAgrees'
    BY <1>1 DEF SavedPlace, PlaceAgrees
  <1>8. AnchorStands'
    BY <1>1 DEF SavedAnchor, AnchorStands
  <1>9. OnChart' /\ FrontierWasOpened'
    BY <1>1 DEF SavedChart, OnChart, FrontierWasOpened, Opened
  <1>10. OthersTyped'
    BY DEF OthersTyped
  <1>11. QED BY <1>5, <1>6, <1>7, <1>8, <1>9, <1>10 DEF RunInv

LEMMA LoadWorldKeepsRun ==
  ASSUME IInv, LoadWorld
  PROVE  RunInv' /\ OthersTyped'
  <1> USE DEF IInv, LoadWorld
  <1> DEFINE n == TrunkNodeAt(1, 1)
  <1>1. n \in Addr /\ n \in Chart[1] /\ n.row = 1 /\ n # Hideout
    BY TrunkIsANode, HideoutIsNoNode
  <1> HIDE DEF n
  <1>2. /\ run' = 1 /\ portalsLeft' = Portals /\ node' = n /\ fin' = 1 /\ floor' = 1
        /\ best' = 1 /\ visited' = {n} /\ cleared' = {} /\ maxRow' = 1
        /\ portalNode' = n /\ portalFin' = 1 /\ portalPlaced' = TRUE
        /\ portalPos' = OnFloor(1, n, 1)
    BY DEF n
  <1>3. RunTypes'
    BY <1>1, <1>2 DEF RunTypes, NodeFloors, OnFloor, Positions
  <1>4. PlaceAgrees'
    BY <1>1, <1>2 DEF PlaceAgrees, FloorOf, NodeFloors
  <1>5. OnChart' /\ AnchorStands' /\ FrontierWasOpened' /\ DepthIsKnown'
    BY <1>1, <1>2 DEF OnChart, AnchorStands, FrontierWasOpened, DepthIsKnown, IsDeepest
  <1>6. OthersTyped'
    BY DEF OthersTyped
  <1>7. QED BY <1>3, <1>4, <1>5, <1>6 DEF RunInv

(***************************************************************************)
(* The invariant.                                                          *)
(***************************************************************************)
LEMMA InitIsIInv == Init => IInv
  <1> SUFFICES ASSUME Init PROVE IInv
    OBVIOUS
  <1> USE DEF Init
  <1>1. /\ portalNode \in Addr /\ portalNode \in Chart[1] /\ portalFin \in 1..NodeFloors
        /\ StartFloor > 0 => FloorOf(portalNode, portalFin) = StartFloor
    BY FirstIsANode
  <1>2. SavedInv
    BY DEF SavedInv
  <1>3. OthersTyped
    BY DEF OthersTyped
  <1>4. CASE StartFloor = 0
    <2>1. /\ node = Hideout /\ fin = 0 /\ visited = {} /\ maxRow = 1
          /\ portalPlaced = FALSE /\ portalPos = NoPos
      BY <1>4
    <2>2. RunTypes
      <3>1. portalPos \in Positions
        BY <2>1 DEF NoPos, OnFloor, Positions, NodeFloors
      <3>2. floor = 0 /\ best = 0 /\ run \in 1..MaxRun /\ maxRow \in 1..MaxRow
        BY <1>4, <2>1
      <3>3. fin \in 0..NodeFloors
        BY <2>1 DEF NodeFloors
      <3>4. portalsLeft \in Nat /\ visited \in SUBSET Addr /\ cleared \in SUBSET Addr
        BY <2>1
      <3>5. node \in Addr \cup {Hideout} /\ portalPlaced \in BOOLEAN
        BY <2>1
      <3>6. floor \in Nat /\ best \in Nat
        BY <3>2
      <3> HIDE DEF Init
      <3>7. QED BY <1>1, <3>1, <3>2, <3>3, <3>4, <3>5, <3>6 DEF RunTypes
    <2>3. PlaceAgrees /\ OnChart /\ AnchorStands /\ FrontierWasOpened /\ DepthIsKnown
      BY <1>1, <1>4, <2>1
      DEF PlaceAgrees, OnChart, AnchorStands, FrontierWasOpened, DepthIsKnown, IsDeepest
    <2>4. QED BY <1>2, <1>3, <2>2, <2>3 DEF IInv, RunInv
  <1>5. CASE StartFloor # 0
    <2>1. /\ node = portalNode /\ fin = portalFin /\ visited = {portalNode}
          /\ maxRow = portalNode.row
          /\ portalPlaced = TRUE /\ portalPos = OnFloor(1, portalNode, portalFin)
      BY <1>5
    <2>2. portalNode.row \in 1..MaxRow /\ portalNode # Hideout
      BY <1>1, HideoutIsNoNode DEF Addr
    <2>3. RunTypes
      BY <1>1, <2>1, <2>2 DEF RunTypes, OnFloor, Positions, NodeFloors
    <2>4. PlaceAgrees
      BY <1>1, <1>5, <2>1, <2>2 DEF PlaceAgrees, NodeFloors
    <2>5. OnChart /\ AnchorStands /\ FrontierWasOpened
      BY <1>1, <2>1 DEF OnChart, AnchorStands, FrontierWasOpened
    <2>6. DepthIsKnown
      BY <2>1, <2>2 DEF DepthIsKnown, IsDeepest
    <2>7. QED BY <1>2, <1>3, <2>3, <2>4, <2>5, <2>6 DEF IInv, RunInv
  <1>6. QED BY <1>4, <1>5

LEMMA RunStands ==
  ASSUME RunInv, UNCHANGED <<place, portal, chart>>
  PROVE  RunInv'
  BY DEF RunInv, place, portal, chart, RunTypes, PlaceAgrees, OnChart, AnchorStands,
         FrontierWasOpened, Opened, DepthIsKnown, IsDeepest

LEMMA SavedStands ==
  ASSUME SavedInv, saved' = saved
  PROVE  SavedInv'
  BY DEF SavedInv, SavedPlace, SavedAnchor, SavedChart, IsDeepest

LEMMA NextKeepsIInv == ASSUME FirstFloorBuilds PROVE IInv /\ [Next]_vars => IInv'
  <1> SUFFICES ASSUME IInv, [Next]_vars PROVE IInv'
    OBVIOUS
  <1> USE DEF IInv
  <1>1. ASSUME NEW p \in Players, Join(p) PROVE IInv'
    BY <1>1, RunStands, SavedStands DEF Join, OthersTyped, process
  <1>2. ASSUME NEW p \in Players, Leave(p) PROVE IInv'
    BY <1>2, RunStands, SavedStands DEF Leave, OthersTyped, process
  <1>3. CASE RunTick
    BY <1>3, TickKeepsRun, SavedStands DEF RunTick, process
  <1>4. CASE Panics
    BY <1>4, RunStands, SavedStands DEF Panics, OthersTyped
  <1>5. CASE Save
    BY <1>5, RunStands, SaveKeepsSaved DEF Save, OthersTyped
  <1>6. CASE Load
    BY <1>6, LoadKeepsRun, SavedStands DEF Load
  <1>7. CASE LoadWorld
    BY <1>7, LoadWorldKeepsRun, SavedStands DEF LoadWorld
  <1>8. CASE UNCHANGED vars
    BY <1>8, RunStands, SavedStands DEF vars, OthersTyped, process
  <1>9. QED BY <1>1, <1>2, <1>3, <1>4, <1>5, <1>6, <1>7, <1>8 DEF Next

(* The strengthened invariant holds in every state of every run. *)
THEOREM Invariant == ASSUME FirstFloorBuilds PROVE Spec => []IInv
  <1>1. Init => IInv
    BY InitIsIInv
  <1>2. IInv /\ [Next]_vars => IInv'
    BY NextKeepsIInv
  <1>3. QED BY <1>1, <1>2, PTL DEF Spec

(* Every variable of the run keeps its type (descent.go, runsave.go). *)
THEOREM TypeCorrect == ASSUME FirstFloorBuilds PROVE Spec => []TypeOK
  <1>1. IInv => TypeOK
    BY DEF IInv, RunInv, RunTypes, OthersTyped, SavedInv, TypeOK
  <1>2. QED BY <1>1, Invariant, PTL

(* Node, floor and depth always say the same, visited, place (swapWorld    *)
(* and its callers).                                                       *)
THEOREM PlacesAgree == ASSUME FirstFloorBuilds PROVE Spec => []PlaceAgrees
  <1>1. IInv => PlaceAgrees
    BY DEF IInv, RunInv
  <1>2. QED BY <1>1, Invariant, PTL

(* The death anchor stands on visited ground, at a position of its own     *)
(* floor, through runs, deaths, plants and restarts (handleDeaths,         *)
(* portalTravel, startNextRun).                                            *)
THEOREM AnchorsStand == ASSUME FirstFloorBuilds PROVE Spec => []AnchorStands
  <1>1. IInv => AnchorStands
    BY DEF IInv, RunInv
  <1>2. QED BY <1>1, Invariant, PTL

(* All ground but the first of a run was opened by clearing, on any chart  *)
(* (canTravelTo).                                                          *)
THEOREM FrontierIsOpened == ASSUME FirstFloorBuilds PROVE Spec => []FrontierWasOpened
  <1>1. IInv => FrontierWasOpened
    BY DEF IInv, RunInv
  <1>2. QED BY <1>1, Invariant, PTL

(* A save holds the whole chart, whatever was visited (chartList).         *)
THEOREM SavesHoldTheChart == ASSUME FirstFloorBuilds PROVE Spec => []SaveIsExact
  <1>1. IInv => SaveIsExact
    BY SavesAreExact DEF IInv
  <1>2. QED BY <1>1, Invariant, PTL

(***************************************************************************)
(* The map.                                                                *)
(***************************************************************************)

(* Of neighbours both are on the chart, and neither is far deeper. *)
LEMMA NeighborsAreClose ==
  ASSUME NEW r \in 1..MaxRun, NEW n, NEW m, <<n, m>> \in Edges[r]
  PROVE  /\ n \in Chart[r] /\ m \in Chart[r]
         /\ <<m, n>> \in Edges[r] /\ n # m /\ m.row <= n.row + 1
  BY EdgesAreMutual

LEMMA NodesAreAddresses ==
  ASSUME NEW r \in 1..MaxRun, NEW n \in Chart[r]
  PROVE  n \in Addr /\ n.row \in Nat /\ n.col \in Nat
  <1>1. n \in Addr
    OBVIOUS
  <1>2. QED BY <1>1 DEF Addr

LEMMA AddressesDiffer ==
  ASSUME NEW a \in Addr, NEW b \in Addr, a # b
  PROVE  a.row # b.row \/ a.col # b.col
  <1>1. \A n \in Addr : n = [row |-> n.row, col |-> n.col]
    BY DEF Addr
  <1>2. QED BY <1>1

(* Two rows further than the deepest visited one are enough for the nodes  *)
(* in full and the ones beside them.                                       *)
LEMMA ScanReachesTheRing ==
  ASSUME RunInv, NEW n \in Chart[run], n \in InFull(Chart[run], Edges[run], visited)
  PROVE  /\ n \in Scanned(Chart[run], maxRow)
         /\ \A m : <<n, m>> \in Edges[run] => m \in Scanned(Chart[run], maxRow)
  <1>1. run \in 1..MaxRun /\ maxRow \in Nat /\ visited \subseteq Chart[run]
    BY DEF RunInv, RunTypes, OnChart
  <1>2. n.row \in Nat /\ n.row <= maxRow + 1
    <2>1. CASE n \in visited
      BY <1>1, <2>1, NodesAreAddresses DEF RunInv, DepthIsKnown, IsDeepest
    <2>2. ASSUME NEW m \in visited, <<n, m>> \in Edges[run]
          PROVE  n.row \in Nat /\ n.row <= maxRow + 1
      <3>1. m.row <= maxRow
        BY DEF RunInv, DepthIsKnown, IsDeepest
      <3>2. n.row <= m.row + 1
        BY <1>1, <2>2, NeighborsAreClose
      <3>3. n.row \in Nat /\ m.row \in Nat
        BY <1>1, NodesAreAddresses
      <3>4. QED BY <1>1, <3>1, <3>2, <3>3
    <2>3. QED BY <2>1, <2>2 DEF InFull
  <1>3. n \in Scanned(Chart[run], maxRow)
    BY <1>1, <1>2 DEF Scanned
  <1>4. ASSUME NEW m, <<n, m>> \in Edges[run]
        PROVE  m \in Scanned(Chart[run], maxRow)
    <2>1. m \in Chart[run] /\ m.row <= n.row + 1
      BY <1>1, <1>4, NeighborsAreClose
    <2>2. m.row \in Nat
      BY <1>1, <2>1, NodesAreAddresses
    <2>3. QED BY <1>1, <1>2, <2>1, <2>2 DEF Scanned
  <1>5. QED BY <1>3, <1>4

LEMMA TheMapIsWhole == ASSUME RunInv PROVE MapShowsTheWay
  <1> DEFINE known == InFull(Chart[run], Edges[run], visited)
             snap == DelveSnap(Chart[run], Edges[run], visited, maxRow)
             shown == snap.full \cup snap.veiled
  <1>1. run \in 1..MaxRun /\ visited \subseteq Chart[run] /\ cleared \subseteq visited
    BY DEF RunInv, RunTypes, OnChart, FrontierWasOpened
  <1>2. snap.full = Scanned(Chart[run], maxRow) \cap known
    BY DEF DelveSnap
  <1>3. snap.veiled = {n \in Scanned(Chart[run], maxRow) \ known :
                        \E m \in known : <<n, m>> \in Edges[run]}
    BY DEF DelveSnap
  <1>4. snap.edges = {e \in Edges[run] :
                       /\ e[1] \in shown /\ e[2] \in shown
                       /\ \/ e[2].row > e[1].row
                          \/ e[2].row = e[1].row /\ e[2].col > e[1].col}
    BY DEF DelveSnap
  <1>5. \A n \in known : n \in snap.full
    <2>1. \A n \in known : n \in Chart[run]
      BY DEF InFull
    <2>2. QED BY <1>2, <2>1, ScanReachesTheRing
  <1>6. visited \subseteq snap.full
    BY <1>1, <1>5 DEF InFull
  <1>7. \A n \in Chart[run] : CanTravelTo(n, cleared) => n \in snap.full
    BY <1>1, <1>5 DEF InFull, CanTravelTo, Opened
  <1>8. ASSUME NEW e \in Edges[run], e[1] \in snap.full
        PROVE  e[2] \in shown
    <2>1. e = <<e[1], e[2]>> /\ e[1] \in Chart[run] /\ e[2] \in Chart[run]
      BY <1>1
    <2>2. e[1] \in known
      BY <1>2, <1>8
    <2>3. e[2] \in Scanned(Chart[run], maxRow)
      BY <2>1, <2>2, ScanReachesTheRing
    <2>4. <<e[2], e[1]>> \in Edges[run]
      BY <1>1, EdgesAreMutual
    <2>5. QED BY <1>2, <1>3, <2>2, <2>3, <2>4
  <1>9. ASSUME NEW e \in Edges[run], e[1] \in shown, e[2] \in shown
        PROVE  e \in snap.edges \/ <<e[2], e[1]>> \in snap.edges
    <2>1. e[1] \in Chart[run] /\ e[2] \in Chart[run]
      BY <1>1
    <2>2. <<e[2], e[1]>> \in Edges[run] /\ e[1] # e[2]
      BY <1>1, EdgesAreMutual
    <2>3. e[1] \in Addr /\ e[2] \in Addr
      BY <1>1, <2>1, NodesAreAddresses
    <2>4. e[1].row # e[2].row \/ e[1].col # e[2].col
      BY <2>2, <2>3, AddressesDiffer
    <2>5. \/ e[2].row > e[1].row \/ e[1].row > e[2].row
          \/ e[2].row = e[1].row /\ (e[2].col > e[1].col \/ e[1].col > e[2].col)
      BY <1>1, <2>1, <2>4, NodesAreAddresses
    <2> HIDE DEF shown
    <2>6. QED BY <1>4, <1>9, <2>2, <2>5
  <1> HIDE DEF snap
  <1>10. QED BY <1>6, <1>7, <1>8, <1>9 DEF MapShowsTheWay, snap

(* On any chart, the map a client is shown at any time holds all that was  *)
(* visited, all that may be travelled to, and the silhouettes beside it:   *)
(* two rows past the deepest are always enough (delveSnap).                *)
THEOREM MapIsWhole == ASSUME FirstFloorBuilds PROVE Spec => []MapShowsTheWay
  <1>1. IInv => MapShowsTheWay
    BY TheMapIsWhole DEF IInv
  <1>2. QED BY <1>1, Invariant, PTL

-----------------------------------------------------------------------------
(***************************************************************************)
(* The descent's run implements PortalBudget, floors that fail to build    *)
(* included.  The invariant of that proof asks less of the run than IInv:  *)
(* a first floor that fails to build leaves a new run on the old run's     *)
(* floor, and the budget is right all the same.                            *)
(***************************************************************************)
RunKept ==
  /\ PlaceTypes
  /\ fin # 0 => node \in Addr
  /\ floor > 0 => fin # 0
  /\ run \in 1..MaxRun
  /\ portalNode \in Addr /\ portalFin \in 1..NodeFloors /\ portalPos \in Positions
  /\ portalPlaced \in BOOLEAN /\ portalsLeft \in Nat
  /\ visited \in SUBSET Addr /\ cleared \in SUBSET Addr
  /\ ~portalPlaced => floor = 0 /\ portalsLeft = Portals /\ portalNode.row = 1

SaveKept ==
  saved # NoSave =>
    /\ saved \in Saves
    /\ saved.fin # 0 => saved.node \in Addr
    /\ saved.floor > 0 => saved.fin # 0
    /\ ~saved.portalPlaced => /\ saved.floor = 0 /\ saved.portalsLeft = Portals
                              /\ saved.portalNode.row = 1

Kept == RunKept /\ SaveKept

(* What a tick may do to the budget. *)
Begins == /\ ~portalPlaced /\ portalPlaced' = TRUE /\ run' = run
          /\ portalsLeft' \in {Portals, IF Portals <= 1 THEN 1 ELSE Portals - 1}
Spends == /\ portalPlaced /\ portalPlaced' = portalPlaced /\ run' = run
          /\ portalsLeft > 0 /\ portalsLeft' = portalsLeft - 1
Ends == /\ portalPlaced /\ portalsLeft = 0
        /\ run' = run + 1 /\ portalsLeft' = Portals /\ portalPlaced' \in BOOLEAN
Keeps == run' = run /\ portalsLeft' = portalsLeft /\ portalPlaced' = portalPlaced

BudgetStep == Begins \/ Spends \/ Ends \/ Keeps

-----------------------------------------------------------------------------
LEMMA ArrivalIsKept ==
  ASSUME PlaceTypes, NEW n \in Addr, NEW f \in 1..NodeFloors, Arrive(n, f)
  PROVE  /\ PlaceTypes' /\ (fin' # 0 => node' \in Addr) /\ (floor' > 0 => fin' # 0)
  <1>1. PlaceTypes'
    BY ArrivesThere
  <1>2. QED BY <1>1 DEF Arrive, NodeFloors

LEMMA AnchorHasAPlace ==
  ASSUME NEW r \in 1..MaxRun, NEW n \in Addr, NEW f \in 1..NodeFloors
  PROVE  OnFloor(r, n, f) \in Positions
  BY DEF OnFloor, Positions, NodeFloors

LEMMA VisitsAreTyped ==
  ASSUME visited \in SUBSET Addr, NEW n \in Addr, MarkVisited(n)
  PROVE  visited' \in SUBSET Addr
  BY DEF MarkVisited

LEMMA FirstIsOnTop ==
  ASSUME StartFloor = 0, NEW r \in 1..MaxRun
  PROVE  FirstNode(r).row = 1
  <1>1. 1 \in 1..MaxRow
    OBVIOUS
  <1>2. QED BY <1>1, TrunkIsANode DEF FirstNode

LEMMA EjectSpends ==
  ASSUME RunKept, NEW cl \in SUBSET Addr, floor > 0, Eject(cl)
  PROVE  RunKept' /\ BudgetStep
  <1> USE DEF RunKept, Eject
  <1>1. portalPlaced
    OBVIOUS
  <1>2. PlaceTypes' /\ (fin' # 0 => node' \in Addr) /\ (floor' > 0 => fin' # 0)
    BY ArrivalIsKept
  <1>3. visited' \in SUBSET Addr
    BY VisitsAreTyped
  <1>4. RunKept'
    BY <1>1, <1>2, <1>3
  <1>5. BudgetStep
    BY <1>1 DEF BudgetStep, Spends
  <1>6. QED BY <1>4, <1>5

LEMMA EjectFailsSpends ==
  ASSUME RunKept, NEW d, NEW cl \in SUBSET Addr, floor > 0, EjectFails(d, cl)
  PROVE  RunKept' /\ BudgetStep
  <1> USE DEF RunKept, EjectFails, place
  <1>1. RunKept'
    BY DEF PlaceTypes
  <1>2. BudgetStep
    BY DEF BudgetStep, Spends
  <1>3. QED BY <1>1, <1>2

LEMMA RunOverEnds ==
  ASSUME RunKept, floor > 0, RunOver
  PROVE  RunKept' /\ BudgetStep
  <1> USE DEF RunKept
  <1>1. portalPlaced /\ portalsLeft = 0 /\ run' = run + 1 /\ run' \in 1..MaxRun
    BY DEF RunOver
  <1>2. portalsLeft' = Portals /\ cleared' = {}
    BY DEF RunOver
  <1>3. portalNode' \in Addr /\ portalFin' \in 1..NodeFloors
    BY <1>1, FirstIsANode DEF RunOver
  <1>4. CASE StartFloor = 0
    <2>1. portalPlaced' = FALSE /\ portalPos' = portalPos /\ visited' = {} /\ GoHome
      BY <1>4 DEF RunOver
    <2>2. PlaceTypes' /\ floor' = 0 /\ fin' = 0
      BY <2>1, GoesHome DEF GoHome
    <2>3. visited' \in SUBSET Addr /\ cleared' \in SUBSET Addr
      BY <1>2, <2>1
    <2>4. portalPos' \in Positions /\ portalPlaced' \in BOOLEAN /\ portalsLeft' \in Nat
      BY <1>2, <2>1
    <2>5. portalNode'.row = 1
      BY <1>1, <1>4, FirstIsOnTop DEF RunOver
    <2>6. RunKept'
      BY <1>1, <1>2, <1>3, <2>2, <2>3, <2>4, <2>5
    <2>7. QED BY <1>1, <1>2, <2>1, <2>6 DEF BudgetStep, Ends
  <1>5. CASE StartFloor # 0
    <2>1. /\ portalPlaced' = TRUE /\ portalPos' = OnFloor(run', portalNode', portalFin')
          /\ visited' = {portalNode'} /\ Arrive(portalNode', portalFin')
      BY <1>1, <1>5 DEF RunOver
    <2>2. PlaceTypes' /\ (fin' # 0 => node' \in Addr) /\ (floor' > 0 => fin' # 0)
      BY <1>3, <2>1, ArrivalIsKept
    <2>3. portalPos' \in Positions
      BY <1>1, <1>3, <2>1, AnchorHasAPlace
    <2>4. RunKept'
      BY <1>1, <1>2, <1>3, <2>1, <2>2, <2>3
    <2>5. QED BY <1>1, <1>2, <2>1, <2>4 DEF BudgetStep, Ends
  <1>6. QED BY <1>4, <1>5

LEMMA RunOverFailsEnds ==
  ASSUME RunKept, NEW d, floor > 0, RunOverFails(d)
  PROVE  RunKept' /\ BudgetStep
  <1> USE DEF RunKept, RunOverFails, ResetChart
  <1>1. portalPlaced /\ run' \in 1..MaxRun
    OBVIOUS
  <1>2. RunKept'
    BY <1>1 DEF PlaceTypes
  <1>3. BudgetStep
    BY <1>1 DEF BudgetStep, Ends
  <1>4. QED BY <1>2, <1>3

LEMMA DescendKeeps ==
  ASSUME RunKept, NEW cl \in SUBSET Addr, DescendWithin(cl)
  PROVE  RunKept' /\ BudgetStep
  <1> USE DEF RunKept, DescendWithin, portal
  <1>1. portalPlaced /\ node \in Addr /\ fin + 1 \in 1..NodeFloors
    BY DEF PlaceTypes, NodeFloors
  <1>2. PlaceTypes' /\ (fin' # 0 => node' \in Addr) /\ (floor' > 0 => fin' # 0)
    BY <1>1, ArrivalIsKept
  <1>3. RunKept'
    BY <1>1, <1>2
  <1>4. QED BY <1>3 DEF BudgetStep, Keeps

LEMMA TravelKeeps ==
  ASSUME RunKept, NEW cl \in SUBSET Addr, NEW n \in Chart[run], Travel(n, cl)
  PROVE  RunKept' /\ BudgetStep
  <1> USE DEF RunKept, Travel, portal
  <1>1. portalPlaced /\ n \in Addr /\ 1 \in 1..NodeFloors
    BY DEF NodeFloors
  <1>2. PlaceTypes' /\ (fin' # 0 => node' \in Addr) /\ (floor' > 0 => fin' # 0)
    BY <1>1, ArrivalIsKept
  <1>3. visited' \in SUBSET Addr
    BY <1>1, VisitsAreTyped
  <1>4. RunKept'
    BY <1>1, <1>2, <1>3
  <1>5. QED BY <1>4 DEF BudgetStep, Keeps

LEMMA StartBegins ==
  ASSUME RunKept, NEW p, NEW row \in 1..MaxRow, StartRunAt(p, row)
  PROVE  RunKept' /\ BudgetStep
  <1> USE DEF RunKept, StartRunAt
  <1>1. portalNode' \in Addr /\ 1 \in 1..NodeFloors
    BY TrunkIsANode DEF NodeFloors
  <1>2. /\ portalsLeft' \in {Portals, IF Portals <= 1 THEN 1 ELSE Portals - 1}
        /\ portalsLeft' \in Nat
    BY DEF OffersPortals, Larger
  <1>3. PlaceTypes' /\ (fin' # 0 => node' \in Addr) /\ (floor' > 0 => fin' # 0)
    BY <1>1, ArrivalIsKept
  <1>4. visited' \in SUBSET Addr /\ portalPos' \in Positions
    BY <1>1, VisitsAreTyped, AnchorHasAPlace
  <1>5. RunKept'
    BY <1>1, <1>2, <1>3, <1>4
  <1>6. BudgetStep
    BY <1>2 DEF BudgetStep, Begins
  <1>7. QED BY <1>5, <1>6

LEMMA ReturnBegins ==
  ASSUME RunKept, ReturnByPortal
  PROVE  RunKept' /\ BudgetStep
  <1> USE DEF RunKept, ReturnByPortal
  <1>1. PlaceTypes' /\ (fin' # 0 => node' \in Addr) /\ (floor' > 0 => fin' # 0)
    BY ArrivalIsKept
  <1>2. visited' \in SUBSET Addr /\ portalPos' \in Positions
    BY VisitsAreTyped, AnchorHasAPlace
  <1>3. RunKept'
    BY <1>1, <1>2
  <1>4. BudgetStep
    BY DEF BudgetStep, Begins, Keeps
  <1>5. QED BY <1>3, <1>4

LEMMA EnterSpends ==
  ASSUME RunKept, NEW cl \in SUBSET Addr, EnterPortal(cl)
  PROVE  RunKept' /\ BudgetStep
  <1> USE DEF RunKept, EnterPortal
  <1>1. portalPlaced /\ PlaceTypes' /\ floor' = 0 /\ fin' = 0
    BY GoesHome DEF GoHome
  <1>2. RunKept'
    BY <1>1
  <1>3. BudgetStep
    BY <1>1 DEF BudgetStep, Spends
  <1>4. QED BY <1>2, <1>3

LEMMA PlantKeeps ==
  ASSUME RunKept, NEW cl \in SUBSET Addr, Plant(cl) \/ Quiet(cl)
  PROVE  RunKept' /\ BudgetStep
  <1> USE DEF RunKept, place, portal
  <1>1. CASE Plant(cl)
    <2>1. portalPlaced /\ node \in Addr /\ fin \in 1..NodeFloors
      BY <1>1 DEF Plant, PlaceTypes, NodeFloors
    <2>2. portalPos' \in Positions
      BY <1>1, <2>1, AnchorHasAPlace DEF Plant
    <2>3. RunKept'
      BY <1>1, <2>1, <2>2 DEF Plant, PlaceTypes
    <2>4. QED BY <1>1, <2>1, <2>3 DEF Plant, BudgetStep, Keeps
  <1>2. CASE Quiet(cl)
    BY <1>2 DEF Quiet, PlaceTypes, BudgetStep, Keeps
  <1>3. QED BY <1>1, <1>2

LEMMA TickIsABudgetStep ==
  ASSUME RunKept, RunTick
  PROVE  RunKept' /\ BudgetStep
  <1>1. PICK falls \in BOOLEAN :
          LET cl == IF falls THEN cleared \cup {node} ELSE cleared IN
          /\ falls => fin = NodeFloors
          /\ \/ Deaths(cl) \/ DescendWithin(cl)
             \/ \E n \in Chart[run] : Travel(n, cl)
             \/ \E p \in Players, row \in 1..MaxRow : StartRunAt(p, row)
             \/ ReturnByPortal \/ EnterPortal(cl) \/ Plant(cl) \/ Quiet(cl)
    BY Zenon DEF RunTick
  <1> DEFINE cl == IF falls THEN cleared \cup {node} ELSE cleared
  <1>2. cl \in SUBSET Addr
    BY <1>1 DEF RunKept, NodeFloors
  <1> HIDE DEF cl
  <1>3. CASE Deaths(cl)
    BY <1>2, <1>3, EjectSpends, EjectFailsSpends, RunOverEnds, RunOverFailsEnds DEF Deaths
  <1>4. CASE DescendWithin(cl)
    BY <1>2, <1>4, DescendKeeps
  <1>5. ASSUME NEW n \in Chart[run], Travel(n, cl) PROVE RunKept' /\ BudgetStep
    BY <1>2, <1>5, TravelKeeps
  <1>6. ASSUME NEW p \in Players, NEW row \in 1..MaxRow, StartRunAt(p, row)
        PROVE  RunKept' /\ BudgetStep
    BY <1>6, StartBegins
  <1>7. CASE ReturnByPortal
    BY <1>7, ReturnBegins
  <1>8. CASE EnterPortal(cl)
    BY <1>2, <1>8, EnterSpends
  <1>9. CASE Plant(cl) \/ Quiet(cl)
    BY <1>2, <1>9, PlantKeeps
  <1>10. QED BY <1>1, <1>3, <1>4, <1>5, <1>6, <1>7, <1>8, <1>9 DEF cl

-----------------------------------------------------------------------------
LEMMA InitIsKept == Init => Kept
  <1> SUFFICES ASSUME Init PROVE Kept
    OBVIOUS
  <1>1. Init => IInv
    BY InitIsIInv
  <1>2. RunTypes /\ PlaceAgrees /\ AnchorStands
    BY <1>1 DEF IInv, RunInv
  <1>3. ~portalPlaced => portalNode.row = 1
    <2>1. StartFloor = 0 \/ portalPlaced
      BY DEF Init
    <2>2. portalNode = FirstNode(1) /\ 1 \in 1..MaxRun
      BY DEF Init
    <2>3. QED BY <2>1, <2>2, FirstIsOnTop
  <1>4. RunKept
    BY <1>2, <1>3 DEF RunTypes, PlaceAgrees, AnchorStands, RunKept, PlaceTypes
  <1>5. SaveKept
    BY DEF Init, SaveKept
  <1>6. QED BY <1>4, <1>5 DEF Kept

(* The save as the budget sees it. *)
FileOf(s) == IF s = NoSave THEN NoSave
             ELSE [run |-> s.run, left |-> s.portalsLeft, begun |-> s.portalPlaced]

LEMMA SavesAreNamed ==
  ASSUME NEW s \in Saves
  PROVE  /\ s # NoSave
         /\ FileOf(s) = [run |-> s.run, left |-> s.portalsLeft, begun |-> s.portalPlaced]
         /\ FileOf(s) # NoSave
  <1>1. s # NoSave
    BY NoSaveAssumption
  <1>2. [run |-> s.run, left |-> s.portalsLeft, begun |-> s.portalPlaced]
          \in [run : Nat, left : Nat, begun : BOOLEAN]
    BY DEF Saves
  <1>3. QED BY <1>1, <1>2, NoSaveAssumption DEF FileOf

LEMMA SaveIsABudgetStep ==
  ASSUME Kept, Save
  PROVE  Kept' /\ Budget!Save
  <1> USE DEF Kept, RunKept
  <1>1. saved' \in Saves
    BY DEF Save, Saves, PlaceTypes, ChartList
  <1>2. SaveKept'
    BY <1>1 DEF Save, SaveKept
  <1>3. RunKept'
    BY DEF Save, place, portal, chart, PlaceTypes
  <1>4. FileOf(saved') = [run |-> run, left |-> portalsLeft, begun |-> portalPlaced]
    BY <1>1, SavesAreNamed DEF Save
  <1>5. Budget!Save
    BY <1>4 DEF Budget!Save, FileOf, Save, place, portal
  <1>6. QED BY <1>2, <1>3, <1>5

LEMMA LoadIsABudgetStep ==
  ASSUME Kept, Load
  PROVE  Kept' /\ Budget!Load
  <1> USE DEF Kept, Load
  <1>1. saved # NoSave /\ saved \in Saves /\ saved' = saved
    BY DEF SaveKept
  <1>2. SaveKept'
    BY DEF SaveKept
  <1>3. RunKept'
    BY <1>1 DEF SaveKept, RunKept, Saves, PlaceTypes
  <1>4. FileOf(saved) = [run |-> saved.run, left |-> saved.portalsLeft,
                         begun |-> saved.portalPlaced]
        /\ FileOf(saved) # NoSave
    BY <1>1, SavesAreNamed
  <1>5. Budget!Load
    BY <1>1, <1>4 DEF Budget!Load, FileOf
  <1>6. QED BY <1>2, <1>3, <1>5

LEMMA LoadWorldIsABudgetStep ==
  ASSUME Kept, LoadWorld
  PROVE  Kept' /\ Budget!LoadWorld
  <1> USE DEF Kept, LoadWorld
  <1> DEFINE n == TrunkNodeAt(1, 1)
  <1>1. n \in Addr
    BY TrunkIsANode
  <1> HIDE DEF n
  <1>2. /\ run' = 1 /\ portalsLeft' = Portals /\ node' = n /\ fin' = 1 /\ floor' = 1
        /\ best' = 1 /\ visited' = {n} /\ cleared' = {}
        /\ portalNode' = n /\ portalFin' = 1 /\ portalPlaced' = TRUE
        /\ portalPos' = OnFloor(1, n, 1)
    BY DEF n
  <1>3. portalPos' \in Positions
    BY <1>1, <1>2, AnchorHasAPlace DEF NodeFloors
  <1>4. RunKept'
    BY <1>1, <1>2, <1>3 DEF RunKept, PlaceTypes, NodeFloors
  <1>5. SaveKept' /\ saved # NoSave /\ saved \in Saves /\ saved' = saved
    BY DEF SaveKept
  <1>6. FileOf(saved) # NoSave
    BY <1>5, SavesAreNamed
  <1>7. Budget!LoadWorld
    BY <1>2, <1>5, <1>6 DEF Budget!LoadWorld, FileOf
  <1>8. QED BY <1>4, <1>5, <1>7

LEMMA StepsRefine ==
  ASSUME BudgetStep, saved' = saved
  PROVE  [Budget!Next]_(Budget!vars)
  BY DEF BudgetStep, Begins, Spends, Ends, Keeps, Budget!Next, Budget!vars,
         Budget!Begin, Budget!Granted, Budget!Spend, Budget!NextRun

LEMMA NextRefines == Kept /\ [Next]_vars => Kept' /\ [Budget!Next]_(Budget!vars)
  <1> SUFFICES ASSUME Kept, [Next]_vars PROVE Kept' /\ [Budget!Next]_(Budget!vars)
    OBVIOUS
  <1>1. CASE RunTick
    <2>1. RunKept' /\ BudgetStep
      BY <1>1, TickIsABudgetStep DEF Kept
    <2>2. saved' = saved
      BY <1>1 DEF RunTick, process
    <2>3. SaveKept'
      BY <2>2 DEF Kept, SaveKept
    <2>4. QED BY <2>1, <2>2, <2>3, StepsRefine DEF Kept
  <1>2. CASE Save
    BY <1>2, SaveIsABudgetStep DEF Budget!Next
  <1>3. CASE Load
    BY <1>3, LoadIsABudgetStep DEF Budget!Next
  <1>4. CASE LoadWorld
    BY <1>4, LoadWorldIsABudgetStep DEF Budget!Next
  <1>5. CASE UNCHANGED <<place, portal, chart, saved>>
    <2>1. Kept'
      BY <1>5 DEF Kept, RunKept, SaveKept, PlaceTypes, place, portal, chart
    <2>2. Keeps /\ saved' = saved
      BY <1>5 DEF Keeps, place, portal
    <2>3. QED BY <2>1, <2>2, StepsRefine DEF BudgetStep
  <1>6. (\E p \in Players : Join(p) \/ Leave(p)) \/ Panics \/ UNCHANGED vars
          => UNCHANGED <<place, portal, chart, saved>>
    BY DEF Join, Leave, Panics, vars, process
  <1>7. QED BY <1>1, <1>2, <1>3, <1>4, <1>5, <1>6 DEF Next

(* Each run of a descent is granted its uses once, loses one to each death *)
(* or trip home and ends when one more is needed, whatever fails to build  *)
(* and whatever is saved and loaded (handleDeaths, portalTravel,           *)
(* startNextRun, startRunAt, New).                                         *)
THEOREM BudgetIsImplemented == Spec => BudgetIsKept
  <1>1. Init => Kept /\ Budget!Fresh
    <2>1. Init => Budget!Fresh
      BY DEF Init, Budget!Fresh
    <2>2. QED BY <2>1, InitIsKept
  <1>2. Kept /\ [Next]_vars => Kept' /\ [Budget!Next]_(Budget!vars)
    BY NextRefines
  <1>3. QED BY <1>1, <1>2, PTL DEF Spec, BudgetIsKept, Budget!Spec

(* With two uses or more to grant, a start below the first row is granted  *)
(* fewer than a start from the top (portalStartOffers).                    *)
THEOREM DeepStartsCost == ASSUME Portals > 1 PROVE Spec => DeepStartsCostAPortal
  <1> DEFINE Deep == ~portalPlaced /\ portalPlaced' /\ portalNode'.row > 1 /\ members' # {}
             Costs == Deep => portalsLeft' < Portals
  <1>1. ASSUME Kept, [Next]_vars, Deep PROVE portalsLeft' < Portals
    <2>1. floor = 0 /\ ~(floor > 0) /\ portalNode.row = 1
      BY <1>1 DEF Kept, RunKept
    <2>2. ~(\E p \in Players : Join(p) \/ Leave(p)) /\ ~Panics /\ ~Save /\ ~UNCHANGED vars
      BY <1>1 DEF Join, Leave, Panics, Save, vars, portal
    <2>3. ~Load /\ ~LoadWorld
      BY <1>1 DEF Load, LoadWorld
    <2>4. RunTick
      BY <1>1, <2>2, <2>3 DEF Next
    <2>5. ~ReturnByPortal /\ \A cl : ~Quiet(cl)
      <3>1. ~ReturnByPortal
        BY <1>1, <2>1 DEF ReturnByPortal
      <3>2. ASSUME NEW cl, Quiet(cl) PROVE FALSE
        <4>1. portalPlaced' = portalPlaced
          BY <3>2 DEF Quiet, portal
        <4>2. QED BY <1>1, <4>1, Zenon
      <3>3. QED BY <3>1, <3>2
    <2>6. PICK p \in Players, row \in 1..MaxRow : StartRunAt(p, row)
      <3>1. \A cl : /\ ~Deaths(cl) /\ ~DescendWithin(cl) /\ ~EnterPortal(cl) /\ ~Plant(cl)
                    /\ \A n : ~Travel(n, cl)
        BY <2>1 DEF Deaths, DescendWithin, Travel, EnterPortal, Plant
      <3>2. QED BY <2>4, <2>5, <3>1, Zenon DEF RunTick
    <2>7. row # 1
      <3>1. portalNode' = TrunkNodeAt(run, row) /\ run \in 1..MaxRun
        BY <1>1, <2>6 DEF StartRunAt, Kept, RunKept
      <3>2. portalNode'.row = row
        BY <3>1, TrunkIsANode
      <3>3. QED BY <1>1, <3>2
    <2>8. QED BY <2>6, <2>7 DEF StartRunAt, OffersPortals, Larger
  <1>2. Kept /\ [Next]_vars => [Costs]_vars
    BY <1>1
  <1>3. Kept /\ [Next]_vars => Kept'
    BY NextRefines
  <1>4. QED BY <1>2, <1>3, InitIsKept, PTL DEF Spec, DeepStartsCostAPortal
=============================================================================
