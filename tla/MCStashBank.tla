----------------------------- MODULE MCStashBank -----------------------------
(* A small instance of StashBank for TLC.  An account has two characters,   *)
(* one of which owns an item; another item has yet to drop.                *)
EXTENDS StashBank, TLC

CONSTANTS p1, p2,  \* the players
          soft,    \* a character that comes back from a death
          hard,    \* a hardcore character
          sword    \* the item that soft has

LoadedAccounts ==
  [live |-> Players,
   roster |-> (p1 :> {soft, hard}) @@ (p2 :> {soft}),
   stash |-> Nobodys,
   slot |-> [p \in Players |-> [ch \in Chars |-> IF <<p, ch>> = <<p1, soft>> THEN {sword} ELSE {}]]]
=============================================================================
