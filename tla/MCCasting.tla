------------------------------ MODULE MCCasting ------------------------------
(* A small instance of Casting for TLC: a cast with a recovery and a       *)
(* cooldown, a channel with a cooldown, and two stages.                    *)
EXTENDS Casting, TLC

CONSTANTS bolt, beam, slam

Bar == {bolt, beam, slam}
Kinds == (bolt :> "cast") @@ (beam :> "channel") @@ (slam :> "staged")
Costs == (bolt :> 1) @@ (beam :> 1) @@ (slam :> 2)
Repeats == (bolt :> 0) @@ (beam :> 1) @@ (slam :> 0)
Cooldowns == (bolt :> 2) @@ (beam :> 3) @@ (slam :> 0)
Tails == (bolt :> TRUE) @@ (beam :> FALSE) @@ (slam :> FALSE)
Parts == (bolt :> 1) @@ (beam :> 1) @@ (slam :> 2)
=============================================================================
