------------------------------ MODULE MCDescent ------------------------------
(* Small instances of Descent for TLC: two runs, charts of a few nodes.    *)
EXTENDS Descent, TLC

(* Any two rows the dice may draw are linked soundly (downEdges).          *)
ASSUME EveryDrawIsSound == LatticeIsSound

(* A first row with a way sideways, and a second one that both lead to.    *)
Wide == [cols |-> <<{2, 3}, {3}, {4}>>,
         extra |-> <<{}, {}>>, taken |-> <<{<<2, 3>>}, {}, {}>>]

(* A trunk of one node a row. *)
Narrow == [cols |-> <<{3}, {2}, {2}>>, extra |-> <<{}, {}>>, taken |-> <<{}, {}, {}>>]

(* One node, for runs whose charts do not matter. *)
Stub == {Node(1, 3)}

Lattices == [r \in 1..MaxRun |-> IF r = 1 THEN Wide ELSE Narrow]
Charts == [r \in 1..MaxRun |-> NodesOf(Lattices[r])]
Links == [r \in 1..MaxRun |-> EdgesOf(Lattices[r])]
Stubs == [r \in 1..MaxRun |-> Stub]
StubLinks == [r \in 1..MaxRun |-> {}]
=============================================================================
