------------------------------ MODULE MCBattle ------------------------------
(* A small instance of Battle for TLC: a hero with a fan of two, a curse   *)
(* and a blow, a minion, a splitter and its young.                         *)
EXTENDS Battle, TLC

CONSTANTS hero, minion, splitter, small, tiny

MCFoes == {splitter, small, tiny}
MCBroods == (splitter :> {small, tiny}) @@ (small :> {}) @@ (tiny :> {})
MCKnows == (hero :> {"strike", "volley", "hex"}) @@ (minion :> {"strike", "boon"})
           @@ (splitter :> {"strike"}) @@ (small :> {}) @@ (tiny :> {})

MCLife == [a \in {hero, minion, splitter, small, tiny} |-> IF a \in {small, tiny} THEN 1 ELSE 2]
MCFans == {[n |-> 2, chains |-> 0, splash |-> TRUE], [n |-> 2, chains |-> 1, splash |-> FALSE],
           [n |-> 1, chains |-> 1, splash |-> FALSE]}
MCHardy == {splitter}
MCTypeSeq == <<"fire", "chaos">>
MCDoTTicks == (("fire" :> 2) @@ ("chaos" :> 1))
MCAilments == {"chill"}
MCCurses == {"frailty", "frost"}
MCBoons == {"ward"}
MCStatusTicks == ("chill" :> 2) @@ ("frailty" :> 2) @@ ("frost" :> 2) @@ ("ward" :> 1)

Blow(loss, leech, fire, chaos, chill) ==
  [loss |-> loss, leech |-> leech, ails |-> "chill" :> chill,
   burns |-> (("fire" :> fire) @@ ("chaos" :> chaos))]
MCBlows == {Blow(1, TRUE, 0, 0, 0), Blow(0, FALSE, 1, 0, 1), Blow(1, FALSE, 2, 1, 2),
            Blow(0, FALSE, 2, 0, 2)}
=============================================================================
