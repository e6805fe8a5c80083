-------------------------------- MODULE Gems --------------------------------
(***************************************************************************)
(* A hero's skill gems and what they do to other actors: cutting, levels,  *)
(* sockets and supports (sim/items/gems.go), auras that stand on the sheet *)
(* of the hero and of every minion (sim/core/aura.go), summoning under a   *)
(* cap (sim/skills/skills.go), the end of a tick (sim/core/world.go), and  *)
(* a world that is saved and restored (sim/core/save.go).                  *)
(*                                                                         *)
(* The bag is Gear's: any uncut gem and any jeweller may be in it.  Mana,  *)
(* cooldowns and places are left out: an order may be refused, a cast may  *)
(* wait, a spawn may find nowhere to stand.                                *)
(***************************************************************************)
EXTENDS Naturals, FiniteSets, Sequences

CONSTANTS
  Auras, SummonSkill,        \* skills: the auras, and one that summons
  Supports, Fits,            \* Fits[s]: the skills whose tags support s requires
  MaxSkillGems, MaxGemSockets, MaxGemLevel,
  SummonCap, SummonCount,
  SummonTTL,                 \* 0: no lifespan
  Extra,                     \* what the gear may add to the cap: ExtraMinions
  MaxMinions,                \* a bound: how many find room in the world
  None

Skills == Auras \cup {SummonSkill}

ASSUME GemsAssumption ==
  /\ None \notin Skills \cup Supports /\ SummonSkill \notin Auras
  /\ Fits \in [Supports -> SUBSET Skills]
  /\ MaxSkillGems \in Nat \ {0} /\ MaxGemSockets \in Nat \ {0} /\ MaxGemLevel \in Nat \ {0}
  /\ SummonCount \in Nat \ {0} /\ SummonCap \in Nat /\ SummonCap >= SummonCount
  /\ SummonTTL \in Nat /\ Extra \subseteq Nat /\ Extra # {} /\ MaxMinions \in Nat

(* No skill and no support is nameless. *)
ASSUME NamesAssumption == "" \notin Skills \cup Supports

VARIABLES
  phase,    \* the phase of Step: idle between ticks
  hero,     \* alive; dead and not yet compacted; away
  gems,     \* Actor.Gems, or those of the character while the hero is away
  cast,     \* the skill action in flight and the GemCtx it was cast with
  sheet,    \* sheet[a]: the levels at which aura a stands on the hero's sheet
  minions,  \* World.Actors that are minions, oldest first
  spawns    \* World.PendingSpawns: their levels

vars == <<phase, hero, gems, cast, sheet, minions, spawns>>

Levels == 1..MaxGemLevel
Clean == [a \in Auras |-> <<>>]
Mine(m) == m.owned /\ ~m.dead
Living == {k \in DOMAIN minions : Mine(minions[k])}
Skill(k) == gems[k].skill
IsCut(sk) == \E k \in DOMAIN gems : Skill(k) = sk

(* Those that are not dead, in their order.                                *)
Standing(ms) ==
  LET K == {k \in DOMAIN ms : ~ms[k].dead}
  IN  [n \in 1..Cardinality(K) |-> ms[CHOOSE k \in K : Cardinality({j \in K : j <= k}) = n]]

-----------------------------------------------------------------------------
(* The package of aura a at a level comes onto a sheet; RemoveSource takes  *)
(* all of it off, whatever the levels.                                      *)
Applied(mods, a, level) == [mods EXCEPT ![a] = Append(@, level)]
Stripped(mods, a) == [mods EXCEPT ![a] = <<>>]

(* To each living minion of the hero. *)
OnMinions(Change(_)) ==
  [k \in DOMAIN minions |->
     IF Mine(minions[k]) THEN [minions[k] EXCEPT !.mods = Change(@)] ELSE minions[k]]

ActivateAura(a, level) ==
  /\ sheet' = Applied(sheet, a, level)
  /\ minions' = OnMinions(LAMBDA m : Applied(m, a, level))

DeactivateAura(a) ==
  /\ sheet' = Stripped(sheet, a)
  /\ minions' = OnMinions(LAMBDA m : Stripped(m, a))

(* Off and on again, at the new level. *)
ReactivateAura(a, level) ==
  /\ sheet' = Applied(Stripped(sheet, a), a, level)
  /\ minions' = OnMinions(LAMBDA m : Applied(Stripped(m, a), a, level))

(* ApplyOwnerAuras and ActivateCharacterAuras, on a sheet that has none. *)
Running(a) == {k \in DOMAIN gems : Skill(k) = a /\ gems[k].on}
OwnerAuras == [a \in Auras |-> IF Running(a) = {} THEN <<>>
                               ELSE <<gems[CHOOSE k \in Running(a) : TRUE].level>>]

-----------------------------------------------------------------------------
Used(g) == {g.supports[j] : j \in DOMAIN g.supports} \ {None}

(* Types; a bar with no skill twice, whose sockets hold supports that fit, *)
(* none twice; and no more minions than the cap allows.                    *)
TypeOK ==
  /\ phase \in {"idle", "commands", "combat", "drain"}
  /\ hero \in {"alive", "dead", "away"}
  /\ Len(gems) <= MaxSkillGems
  /\ \A j, k \in DOMAIN gems : Skill(j) = Skill(k) => j = k
  /\ \A k \in DOMAIN gems :
       /\ Skill(k) \in Skills /\ gems[k].level \in Levels /\ gems[k].on \in BOOLEAN
       /\ gems[k].on => Skill(k) \in Auras
       /\ Len(gems[k].supports) \in 1..MaxGemSockets
       /\ \A s \in Used(gems[k]) :
            /\ Skill(k) \in Fits[s]
            /\ Cardinality({j \in DOMAIN gems[k].supports : gems[k].supports[j] = s}) = 1
  /\ cast # None => hero = "alive" /\ cast.skill \in Skills
  /\ DOMAIN sheet = Auras
  /\ \A k \in DOMAIN minions : minions[k].left \in 0..SummonTTL /\ minions[k].level \in Levels
  /\ \E x \in Extra : Cardinality(Living) + Len(spawns) <= SummonCap + x

Init ==
  /\ phase = "idle" /\ hero = "alive"
  /\ gems = <<>> /\ cast = None /\ sheet = Clean
  /\ minions = <<>> /\ spawns = <<>>

-----------------------------------------------------------------------------
(* Upkeep: a minion whose time is up is dead from here on.  Its lifespan   *)
(* runs whether it has an owner or not.                                    *)
BeginTick ==
  /\ phase = "idle" /\ phase' = "commands"
  /\ minions' = [k \in DOMAIN minions |->
       [minions[k] EXCEPT !.left = IF @ = 0 THEN 0 ELSE @ - 1, !.dead = @ \/ minions[k].left = 1]]
  /\ UNCHANGED <<hero, gems, cast, sheet, spawns>>

(* Faulty: gems are worked on in the middle of a cast. *)
BenchAnytime == phase = "commands" /\ hero = "alive"

(* Gem work is refused while a skill is in flight. *)
Bench == phase = "commands" /\ hero = "alive" /\ cast = None

Fresh(sk, level) == [skill |-> sk, level |-> level, supports |-> <<None>>, on |-> FALSE]

CutSkill(sk, level) ==
  /\ Bench /\ ~IsCut(sk) /\ Len(gems) < MaxSkillGems
  /\ gems' = Append(gems, Fresh(sk, level))
  /\ UNCHANGED <<phase, hero, cast, sheet, minions, spawns>>

(* A replaced gem takes its aura with it. *)
CutSkillOver(sk, level, k) ==
  /\ Bench /\ ~IsCut(sk)
  /\ IF gems[k].on THEN DeactivateAura(Skill(k)) ELSE UNCHANGED <<sheet, minions>>
  /\ gems' = [gems EXCEPT ![k] = Fresh(sk, level)]
  /\ UNCHANGED <<phase, hero, cast, spawns>>

(* Faulty: a running aura stays at the level it was turned on at. *)
LevelGemOnly(level, k) ==
  /\ Bench /\ level > gems[k].level
  /\ gems' = [gems EXCEPT ![k].level = level]
  /\ UNCHANGED <<phase, hero, cast, sheet, minions, spawns>>

LevelGem(level, k) ==
  /\ Bench /\ level > gems[k].level
  /\ gems' = [gems EXCEPT ![k].level = level]
  /\ IF gems[k].on THEN ReactivateAura(Skill(k), level) ELSE UNCHANGED <<sheet, minions>>
  /\ UNCHANGED <<phase, hero, cast, spawns>>

CutSupport(s, k, socket) ==
  /\ Bench /\ Skill(k) \in Fits[s] /\ s \notin Used(gems[k])
  /\ gems' = [gems EXCEPT ![k].supports[socket] = s]
  /\ UNCHANGED <<phase, hero, cast, sheet, minions, spawns>>

AddSocket(k) ==
  /\ Bench /\ Len(gems[k].supports) < MaxGemSockets
  /\ gems' = [gems EXCEPT ![k].supports = Append(@, None)]
  /\ UNCHANGED <<phase, hero, cast, sheet, minions, spawns>>

GemVerb ==
  \/ \E sk \in Skills, l \in Levels : CutSkill(sk, l)
  \/ \E k \in DOMAIN gems :
       \/ \E sk \in Skills, l \in Levels : CutSkillOver(sk, l, k)
       \/ \E l \in Levels : LevelGem(l, k)
       \/ \E s \in Supports, j \in DOMAIN gems[k].supports : CutSupport(s, k, j)
       \/ AddSocket(k)

(* Gem.Ctx: level and supports are baked when the skill is used. *)
UseSkill(k) ==
  /\ phase = "commands" /\ hero = "alive" /\ cast = None
  /\ cast' = [skill |-> Skill(k), level |-> gems[k].level, supports |-> Used(gems[k])]
  /\ UNCHANGED <<phase, hero, gems, sheet, minions, spawns>>

-----------------------------------------------------------------------------
(* The effect point.  An aura is toggled by the gem, where it is now. *)
ToggleAura(k) ==
  /\ gems' = [gems EXCEPT ![k].on = ~@]
  /\ IF gems[k].on THEN DeactivateAura(Skill(k)) ELSE ActivateAura(Skill(k), gems[k].level)
  /\ UNCHANGED spawns

(* The oldest n go, without a death. *)
Despawned(n) ==
  [k \in DOMAIN minions |->
     IF k \in Living /\ Cardinality({j \in Living : j < k}) < n
     THEN [minions[k] EXCEPT !.dead = TRUE] ELSE minions[k]]

(* Faulty: the batch that is coming is not counted. *)
OverWithout(cap) ==
  IF Cardinality(Living) > cap THEN Cardinality(Living) - cap ELSE 0

(* How many are too many. *)
Over(cap) ==
  LET n == Cardinality(Living) + SummonCount IN IF n > cap THEN n - cap ELSE 0

Summon ==
  /\ \E x \in Extra : minions' = Despawned(Over(SummonCap + x))
  /\ spawns' = spawns \o [i \in 1..SummonCount |-> cast.level]
  /\ UNCHANGED <<gems, sheet>>

Fire ==
  IF cast.skill = SummonSkill THEN Summon
  ELSE IF IsCut(cast.skill) THEN \E k \in DOMAIN gems : Skill(k) = cast.skill /\ ToggleAura(k)
  ELSE UNCHANGED <<gems, sheet, minions, spawns>>

AdvanceActions ==
  /\ phase = "commands" /\ phase' = "combat"
  /\ \/ cast # None /\ Fire /\ cast' = None
     \/ UNCHANGED <<gems, cast, sheet, minions, spawns>>
  /\ UNCHANGED hero

(* Hits and damage over time: some die, and the hero may be stunned. *)
ResolveCombat ==
  /\ phase = "combat" /\ phase' = "drain"
  /\ \E D \in SUBSET {k \in DOMAIN minions : ~minions[k].dead} :
       minions' = [k \in DOMAIN minions |-> IF k \in D THEN [minions[k] EXCEPT !.dead = TRUE]
                                            ELSE minions[k]]
  /\ hero' \in IF hero = "alive" THEN {"alive", "dead"} ELSE {hero}
  /\ cast' \in IF hero' = "dead" THEN {None} ELSE {cast, None}
  /\ UNCHANGED <<gems, sheet, spawns>>

(* DrainSpawns, then EndTick.  A spawn that finds nowhere to stand is lost; *)
(* a newcomer gets the auras of an owner who is in the world, dead or not;  *)
(* and the minions of one who is swept have no owner any more.              *)
Born(level) ==
  [level |-> level, left |-> SummonTTL, dead |-> FALSE, owned |-> TRUE, mods |-> OwnerAuras]

EndTick ==
  /\ phase = "drain" /\ phase' = "idle"
  /\ \E n \in 0..Len(spawns) :
       LET all == Standing(minions \o [i \in 1..n |-> Born(spawns[i])])
       IN  /\ Len(all) <= MaxMinions
           /\ minions' = [k \in DOMAIN all |-> [all[k] EXCEPT !.owned = @ /\ hero = "alive"]]
  /\ spawns' = <<>>
  /\ hero' = IF hero = "alive" THEN "alive" ELSE "away"
  /\ sheet' = IF hero = "alive" THEN sheet ELSE Clean
  /\ UNCHANGED <<gems, cast>>

-----------------------------------------------------------------------------
(* Between ticks.  The hero goes to another world: what was in flight ends, *)
(* the minions stay, and are nobody's.                                      *)
Leave ==
  /\ phase = "idle" /\ hero = "alive"
  /\ hero' = "away" /\ cast' = None /\ sheet' = Clean
  /\ minions' = [k \in DOMAIN minions |-> [minions[k] EXCEPT !.owned = FALSE]]
  /\ UNCHANGED <<phase, gems, spawns>>

(* InjectCharacter, into this world or a new one: a new actor, with the     *)
(* auras that were running.                                                 *)
Enter ==
  /\ phase = "idle" /\ hero = "away"
  /\ hero' = "alive" /\ sheet' = OwnerAuras
  /\ minions' \in {minions, <<>>}
  /\ UNCHANGED <<phase, gems, cast, spawns>>

(* Save, actor by actor and field by field; not the dead.  A sheet is a list *)
(* of modifiers, each with its source and in its order; an empty socket is   *)
(* an empty name in its place; no skill in flight is an empty name too.      *)
SavedMods(mods) ==
  UNION {{[source |-> a, nth |-> n, value |-> mods[a][n]] : n \in DOMAIN mods[a]} : a \in Auras}

SavedGem(g) ==
  [skill |-> g.skill, level |-> g.level, aura_on |-> g.on,
   supports |-> [j \in DOMAIN g.supports |-> IF g.supports[j] = None THEN "" ELSE g.supports[j]]]

SavedAction ==
  IF cast = None THEN [skill |-> "", gem_level |-> 0, gem_supports |-> {}]
  ELSE [skill |-> cast.skill, gem_level |-> cast.level, gem_supports |-> cast.supports]

SavedHero ==
  [gems |-> [k \in DOMAIN gems |-> SavedGem(gems[k])], action |-> SavedAction, mods |-> SavedMods(sheet)]

SavedMinion(m) ==
  [level |-> m.level, lifespan |-> m.left, owner |-> m.owned, mods |-> SavedMods(m.mods)]

Saved ==
  LET up == Standing(minions)
  IN  [hero |-> IF hero = "alive" THEN SavedHero ELSE None,
       minions |-> [k \in DOMAIN up |-> SavedMinion(up[k])]]

(* decodeActor: a modifier goes to its source, which is all there is of a   *)
(* running aura: the switch of its gem turns nothing on.                    *)
LoadedMods(ms) ==
  [a \in Auras |->
     LET own == {m \in ms : m.source = a}
     IN  [n \in {m.nth : m \in own} |-> (CHOOSE m \in own : m.nth = n).value]]

(* Faulty: an empty name is skipped, and the sockets close up. *)
ClosedSockets(names) == SelectSeq(names, LAMBDA name : name # "")

LoadedSockets(names) == [j \in DOMAIN names |-> IF names[j] = "" THEN None ELSE names[j]]

LoadedGem(g) ==
  [skill |-> g.skill, level |-> g.level, supports |-> LoadedSockets(g.supports), on |-> g.aura_on]

LoadedAction(a) ==
  IF a.skill = "" THEN None
  ELSE [skill |-> a.skill, level |-> a.gem_level, supports |-> a.gem_supports]

LoadedHero(a) ==
  /\ hero' = "alive"
  /\ gems' = [k \in DOMAIN a.gems |-> LoadedGem(a.gems[k])]
  /\ cast' = LoadedAction(a.action) /\ sheet' = LoadedMods(a.mods)

LoadedMinion(m) ==
  [level |-> IF m.level < 1 THEN 1 ELSE m.level, left |-> m.lifespan,
   dead |-> FALSE, owned |-> m.owner, mods |-> LoadedMods(m.mods)]

(* LoadWorld.  A hero who is away is not in the file. *)
Restore ==
  /\ phase = "idle" /\ spawns = <<>>
  /\ IF Saved.hero = None THEN UNCHANGED <<hero, gems, cast, sheet>> ELSE LoadedHero(Saved.hero)
  /\ minions' = [k \in DOMAIN Saved.minions |-> LoadedMinion(Saved.minions[k])]
  /\ UNCHANGED <<phase, spawns>>

Next ==
  \/ BeginTick \/ GemVerb \/ (\E k \in DOMAIN gems : UseSkill(k))
  \/ AdvanceActions \/ ResolveCombat \/ EndTick
  \/ Leave \/ Enter \/ Restore

Spec == Init /\ [][Next]_vars

-----------------------------------------------------------------------------
(* An aura stands once, at the level of its gem, on the sheet of a hero who *)
(* is in the world and on that of each of the hero's minions, as long as it *)
(* is on, and on none of them when it is off: whatever is cut over, levelled*)
(* or toggled while minions are born, expire and die.                       *)
SheetIsTheBuild ==
  hero # "away" => sheet = OwnerAuras /\ \A k \in Living : minions[k].mods = OwnerAuras

(* What is in flight is a gem of the bar as it is: its level and supports   *)
(* have not changed since it was used, so the effect that looks the gem up  *)
(* again and the one that was baked agree.                                  *)
CastHasItsGem ==
  cast # None => \E k \in DOMAIN gems :
    Skill(k) = cast.skill /\ gems[k].level = cast.level /\ Used(gems[k]) = cast.supports

(* World.Hash: not the sheets, and of an action only how far it is. *)
Hash ==
  <<hero, gems, cast # None,
    [k \in DOMAIN minions |-> <<minions[k].level, minions[k].left, minions[k].owned>>]>>

(* A restored world hashes as the one that was saved, and also has what the *)
(* hash does not see: the same sheets and the same cast.  What a save keeps *)
(* as a list of modifiers, as names with empty ones among them, and as the  *)
(* fields of an actor becomes the same sheets, sockets and casts again, and *)
(* nobody is left out.                                                      *)
RestoreKeepsTheWorld ==
  [][Restore => Hash' = Hash /\ sheet' = sheet /\ cast' = cast /\ minions' = minions]_vars
=============================================================================
