------------------------------- MODULE MCLobby -------------------------------
(* Small instances of Lobby for TLC.  Instances are interchangeable, and   *)
(* so are the connections that serve one session after another; accounts   *)
(* and names are not (the name index and the mode sets tell them apart).   *)
EXTENDS Lobby, TLC

CONSTANTS t1, t2, n1, n2

(* One character on each of two accounts. *)
TwoAccounts == (t1 :> {n1}) @@ (t2 :> {n2})

(* Both characters on one account, the other yet to be claimed. *)
OneWithTwo == (t1 :> {n1, n2}) @@ (t2 :> {})

InstSymmetry == Permutations(Insts)

Symmetry == InstSymmetry \cup Permutations(Reused)
=============================================================================
