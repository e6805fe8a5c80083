------------------------------ MODULE MCViewSync ------------------------------
(* Small instances of ViewSync for TLC; entities are interchangeable. *)
EXTENDS ViewSync, TLC

Symmetry == Permutations(Entities)
=============================================================================
