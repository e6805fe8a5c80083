----------------------------- MODULE DelveChart -----------------------------
(***************************************************************************)
(* The chart of a run (server/delvemap.go): rows of nodes, the way from    *)
(* each to its neighbours, and what of it a client is shown.  A row, its   *)
(* ways down and its ways sideways are drawn from streams of their own,    *)
(* derived from the run's seed and the address; here any draw is possible. *)
(* Biomes and modifiers, which decorate a node, are left out.              *)
(***************************************************************************)
EXTENDS Naturals, FiniteSets

CONSTANTS DelveCols,     \* delveCols
          EntryCol,      \* delveEntryCol
          Fewest, Most   \* how many nodes a row holds

ASSUME DelveAssumption ==
  /\ DelveCols \in Nat /\ EntryCol \in 0..DelveCols - 1
  /\ Fewest \in Nat \ {0} /\ Most \in Fewest..DelveCols

Columns == 0..DelveCols - 1
Node(row, col) == [row |-> row, col |-> col]

Apart(a, b) == IF a < b THEN b - a ELSE a - b

(* delveRow: a row of distinct columns.  In the first row one of the picks *)
(* makes way for the entry.                                                *)
RowDraws(row) ==
  LET picks == {s \in SUBSET Columns : Cardinality(s) \in Fewest..Most}
      enter(s) == IF EntryCol \in s THEN {s} ELSE {(s \ {c}) \cup {EntryCol} : c \in s}
  IN IF row = 1 THEN UNION {enter(s) : s \in picks} ELSE picks

(* The one of the columns nearest to c, of two the one to the left. *)
NearestCol(cols, c) ==
  CHOOSE n \in cols : \A m \in cols :
    Apart(n, c) < Apart(m, c) \/ (Apart(n, c) = Apart(m, c) /\ n <= m)

Close(up, down) == {e \in up \X down : Apart(e[1], e[2]) <= 1}

(* Every node leads to the one nearest below it; close ones may have a way *)
(* besides; and a node below without any gets one from the nearest above.  *)
DownEdges(up, down, extra) ==
  LET drawn == {<<u, NearestCol(down, u)>> : u \in up} \cup (extra \cap Close(up, down))
      orphans == {d \in down : \A u \in up : <<u, d>> \notin drawn}
  IN drawn \cup {<<NearestCol(up, d), d>> : d \in orphans}

(* Neighbours in a row up to three columns apart. *)
Gaps(cols) ==
  {e \in cols \X cols : /\ e[1] < e[2] /\ e[2] - e[1] <= 3
                        /\ \A c \in cols : c <= e[1] \/ c >= e[2]}

LateralEdges(cols, taken) == taken \cap Gaps(cols)

(* A lattice is its rows, with the extra ways down and the ways sideways   *)
(* that the dice have granted.                                             *)
Rows(lattice) == DOMAIN lattice.cols
NodesOf(lattice) == UNION {{Node(r, c) : c \in lattice.cols[r]} : r \in Rows(lattice)}

Down(lattice, r) == DownEdges(lattice.cols[r], lattice.cols[r + 1], lattice.extra[r])

(* delveNeighbors: sideways, up and down.  (Of the last row of a bounded   *)
(* lattice there is no way down.)                                          *)
Neighbors(lattice, n) ==
  LET sideways == LateralEdges(lattice.cols[n.row], lattice.taken[n.row]) IN
    {Node(n.row, c) : c \in {k \in Columns : <<n.col, k>> \in sideways \/ <<k, n.col>> \in sideways}}
    \cup (IF n.row - 1 \in Rows(lattice)
          THEN {Node(n.row - 1, e[1]) : e \in {d \in Down(lattice, n.row - 1) : d[2] = n.col}}
          ELSE {})
    \cup (IF n.row + 1 \in Rows(lattice)
          THEN {Node(n.row + 1, e[2]) : e \in {d \in Down(lattice, n.row) : d[1] = n.col}}
          ELSE {})

EdgesOf(lattice) ==
  UNION {{<<n, m>> : m \in Neighbors(lattice, n)} : n \in NodesOf(lattice)}

-----------------------------------------------------------------------------
(* The part of a chart a client is shown, when these nodes are visited and *)
(* the deepest of them is in this row: delveSnap.                          *)
InFull(chart, edges, visited) ==
  {n \in chart : n \in visited \/ \E m \in visited : <<n, m>> \in edges}

(* Faulty: the rows end with the ones in full. *)
ScannedShort(chart, deepest) == {n \in chart : n.row <= deepest + 1}

Scanned(chart, deepest) == {n \in chart : n.row <= deepest + 2}

(* The nodes in full, the ones that are silhouettes, and the edges: each   *)
(* rides on its lesser end, if the chart shows its other end, too.         *)
DelveSnap(chart, edges, visited, deepest) ==
  LET known == InFull(chart, edges, visited)
      full == Scanned(chart, deepest) \cap known
      veiled == {n \in Scanned(chart, deepest) \ known : \E m \in known : <<n, m>> \in edges}
      shown == full \cup veiled
  IN [full |-> full, veiled |-> veiled,
      edges |-> {e \in edges : /\ e[1] \in shown /\ e[2] \in shown
                               /\ \/ e[2].row > e[1].row
                                  \/ e[2].row = e[1].row /\ e[2].col > e[1].col}]

-----------------------------------------------------------------------------
(* Two rows as the dice may draw them, with the ways between. *)
RowsAreSound ==
  /\ \A row \in RowDraws(1) \cup RowDraws(2) : Cardinality(row) \in Fewest..Most
  /\ \A row \in RowDraws(1) : EntryCol \in row

EdgesAreSound ==
  \A up \in RowDraws(1) \cup RowDraws(2), down \in RowDraws(2) :
    \A extra \in SUBSET Close(up, down) :
      LET edges == EdgesOf([cols |-> <<up, down>>, extra |-> <<extra>>,
                            taken |-> <<Gaps(up), {}>>]) IN
        /\ \A u \in up : \E d \in down : <<Node(1, u), Node(2, d)>> \in edges
        /\ \A d \in down : \E u \in up : <<Node(2, d), Node(1, u)>> \in edges
        /\ \A e \in edges : <<e[2], e[1]>> \in edges

(* Whatever the dice say, a row has its few nodes, the first one holds the *)
(* entry, no node is a dead end on the way down or hangs in the air, and   *)
(* the neighbours of a node have it as theirs ("the map draws and          *)
(* validates travel off the same undirected graph").                       *)
LatticeIsSound == RowsAreSound /\ EdgesAreSound
=============================================================================
