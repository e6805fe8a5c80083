------------------------------- MODULE MCGear -------------------------------
(* A small instance of Gear for TLC: two ring slots and a belt, two affixes *)
(* of one group, of which one needs a higher level, and one of another.     *)
EXTENDS Gear, TLC

CONSTANTS hale, stout, cold, ring, belt, ring1, ring2, waist, healing, chill

AllAffixes == {hale, stout, cold}
Groups == (hale :> healing) @@ (stout :> healing) @@ (cold :> chill)
NeedsLevel == (hale :> 1) @@ (stout :> 2) @@ (cold :> 1)
Prefixes == {hale}
Healthy == {hale, stout}
Rolls == {ring}
InOrder == <<ring1, ring2, waist>>
Family == (ring :> <<ring1, ring2>>) @@ (belt :> <<waist>>)
Pays == [r \in {"normal", "magic", "rare", "unique", "gem"} |->
           IF r = "normal" THEN 0 ELSE 1]
Prices == [o \in Orbs |-> 1]
=============================================================================
