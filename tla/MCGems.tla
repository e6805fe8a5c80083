------------------------------- MODULE MCGems -------------------------------
(* A small instance of Gems for TLC: two auras and a summon, a bar of two,  *)
(* and a support that only the summon takes.                                *)
EXTENDS Gems, TLC

CONSTANTS haste, wrath, raise, echo

TwoAuras == {haste, wrath}
OneSupport == {echo}
OnlySummons == echo :> {raise}
=============================================================================
