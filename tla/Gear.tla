-------------------------------- MODULE Gear --------------------------------
(***************************************************************************)
(* What one hero carries and wears (sim/items/equip.go, loot.go): items    *)
(* drop, are picked up, worn, crafted, melted, and travel with the hero    *)
(* from world to world (sim/core/character.go).  What is worn also stands  *)
(* on the hero's stat sheet, copied there under the item's id.             *)
(*                                                                         *)
(* An affix is a name, allowed on every base; the value it rolled is left  *)
(* out.  Where things lie is left out: a drop may be within reach or not.  *)
(* A drop goes by the id of its item.  Jewellers are spent in Gems.  Ids   *)
(* that nothing bears any more are used again.                             *)
(***************************************************************************)
EXTENDS Naturals, FiniteSets, Sequences

CONSTANTS
  Affixes, Prefix, Group, AffixLevel,  \* Content.Affixes; Prefix \subseteq Affixes
  LifeAffix,                           \* the affixes that add to maximum life
  Bases, UniqueBase, Levels,           \* what the loot tables roll
  SlotSeq, SlotsFor,                   \* the slots in order; SlotsFor[b]: where b goes
  MagicCap, RareCap,                   \* magicAffixCap, rareAffixCap
  BagSize, BaseLife,
  Pay, Price,                          \* MeltShards, OrbShardPrice
  MaxItems, MaxWealth,                 \* bounds: items at a time, orbs and shards together
  None                                 \* no item; the base of an uncut gem

Orbs == {"transmutation", "alchemy", "chaos", "regal", "exalt", "annulment", "scouring"}
Rarities == {"normal", "magic", "rare", "unique"}
Slots == {SlotSeq[k] : k \in DOMAIN SlotSeq}
AllBases == Bases \cup {UniqueBase}

ASSUME GearAssumption ==
  /\ IsFiniteSet(Affixes) /\ Prefix \subseteq Affixes /\ LifeAffix \subseteq Affixes
  /\ AffixLevel \in [Affixes -> Nat] /\ DOMAIN Group = Affixes
  /\ None \notin AllBases /\ Levels \subseteq Nat /\ Levels # {}
  /\ SlotSeq \in Seq(Slots)
  /\ \A k, l \in DOMAIN SlotSeq : SlotSeq[k] = SlotSeq[l] => k = l
  /\ \A b \in AllBases : SlotsFor[b] \in Seq(Slots) \ {<<>>}
  /\ MagicCap \in Nat /\ RareCap \in Nat /\ MagicCap <= RareCap
  /\ BagSize \in Nat \ {0} /\ BaseLife \in Nat \ {0}
  /\ Pay \in [Rarities \cup {"gem"} -> Nat] /\ Price \in [Orbs -> Nat \ {0}]
  /\ MaxItems \in Nat \ {0} /\ MaxWealth \in Nat

VARIABLES
  drops,   \* World.Drops: [id, item, taken]; the item of one that is taken is read no more
  bag,     \* Actor.Inventory
  worn,    \* Actor.Equipment
  sheet,   \* the sheet's modifiers that come from items, in order: [source, mods]
  orbs,    \* Actor.Orbs
  shards,  \* Actor.Shards
  life,    \* Actor.Life; 0 when dead
  live     \* history: the ids of the items there ought to be

vars == <<drops, bag, worn, sheet, orbs, shards, life, live>>

Ids == 1..MaxItems
Items == [id : Ids, base : AllBases \cup {None}, rarity : Rarities, level : Levels,
          affixes : SUBSET Affixes]
CharItems == [base : AllBases \cup {None}, rarity : Rarities, level : Levels,
              affixes : SUBSET Affixes]
ASSUME NothingIsNoItem == None \notin Items \cup CharItems

IsGem(i) == i.base = None
Unique(i) == i.rarity = "unique"

InBag == {bag[k] : k \in DOMAIN bag}
WornItems == {worn[s] : s \in Slots} \ {None}
OnGround == {d.item : d \in {x \in drops : ~x.taken}}
Unused == Ids \ {i.id : i \in InBag \cup WornItems \cup drops}
Least(S) == CHOOSE n \in S : \A m \in S : n <= m

(* The modifiers an item grants: AddItemMods.  A unique has its own. *)
Mods(i) == IF Unique(i) THEN {"unique"} ELSE i.affixes

MaxLife(s) ==
  BaseLife + Cardinality({k \in DOMAIN s : s[k].mods \cap LifeAffix # {}})

Min2(a, b) == IF a <= b THEN a ELSE b

-----------------------------------------------------------------------------
(* Affixes (loot.go: legal, pickAffix, fillAffixes, addAffixes).           *)

OfKind(s, p) == {a \in s : (a \in Prefix) = p}

(* legal, of all the affixes of an item together. *)
WellFormed(s, level, cap) ==
  /\ \A a \in s : AffixLevel[a] <= level
  /\ \A a, b \in s : Group[a] = Group[b] => a = b
  /\ \A p \in BOOLEAN : Cardinality(OfKind(s, p)) <= cap

(* Faulty: groups are not looked at again when an affix is added. *)
RolledAnyGroup(have, n, level, cap) ==
  {have \cup t : t \in {t \in SUBSET (Affixes \ have) :
     Cardinality(t) = n /\ \A a \in t : AffixLevel[a] <= level}}

(* What n more rolls can make of an item that has the affixes have: fewer  *)
(* than n only if nothing legal is left (EvLootStarved).                   *)
Rolled(have, n, level, cap) ==
  {s \in SUBSET Affixes :
     /\ have \subseteq s /\ WellFormed(s, level, cap)
     /\ \/ Cardinality(s) = Cardinality(have) + n
        \/ /\ Cardinality(s) < Cardinality(have) + n
           /\ \A a \in Affixes \ s : ~WellFormed(s \cup {a}, level, cap)}

Wants(rarity) ==
  IF rarity = "magic" THEN MagicCap..(2 * MagicCap)
  ELSE IF rarity = "rare" THEN (RareCap + 1)..(2 * RareCap)
  ELSE {0}

Cap(rarity) == IF rarity = "magic" THEN MagicCap ELSE IF rarity = "rare" THEN RareCap ELSE 0

(* fillAffixes *)
Filled(rarity, level) == UNION {Rolled({}, n, level, Cap(rarity)) : n \in Wants(rarity)}

(* RollItem and RollUncutGem, under an id. *)
RolledItems(n) ==
  UNION {{[id |-> n, base |-> b, rarity |-> r, level |-> l, affixes |-> s] : s \in Filled(r, l)} :
    b \in Bases, r \in {"normal", "magic", "rare"}, l \in Levels}

UniqueItems(n) ==
  {[id |-> n, base |-> UniqueBase, rarity |-> "unique", level |-> Least(Levels), affixes |-> {}]}

UncutGem(n) ==
  [id |-> n, base |-> None, rarity |-> "normal", level |-> Least(Levels), affixes |-> {}]

NewItems(n) == RolledItems(n) \cup UniqueItems(n) \cup {UncutGem(n)}

-----------------------------------------------------------------------------
Lawful(i) == WellFormed(i.affixes, i.level, Cap(i.rarity)) /\ (IsGem(i) => i.affixes = {})

Wealth == shards + Cardinality({p \in Orbs \X (1..MaxWealth) : p[2] <= orbs[p[1]]})

(* Types and capacities, and every item is one that its rarity allows.     *)
TypeOK ==
  /\ \A d \in drops : d.taken \in BOOLEAN /\ IF d.taken THEN d.item = None ELSE d.item \in Items
  /\ Len(bag) <= BagSize
  /\ InBag \cup WornItems \subseteq Items /\ DOMAIN worn = Slots
  /\ \A s \in Slots : worn[s] # None =>
       ~IsGem(worn[s]) /\ \E k \in DOMAIN SlotsFor[worn[s].base] : SlotsFor[worn[s].base][k] = s
  /\ \A i \in InBag \cup WornItems \cup OnGround : Lawful(i)
  /\ orbs \in [Orbs -> 0..MaxWealth] /\ shards \in 0..MaxWealth /\ Wealth <= MaxWealth
  /\ life \in 0..MaxLife(sheet)
  /\ live \subseteq Ids

(* A new hero: StartingUncut in the bag (sim.go, Spawn). *)
Init ==
  /\ drops = {} /\ bag = <<UncutGem(1)>>
  /\ worn = [s \in Slots |-> None] /\ sheet = <<>>
  /\ orbs = [o \in Orbs |-> 0] /\ shards = 0
  /\ life = BaseLife
  /\ live = {1}

Alive == life > 0

Dropped(i) == [id |-> i.id, item |-> i, taken |-> FALSE]
Taken(S, i) == (S \ {Dropped(i)}) \cup {[id |-> i.id, item |-> None, taken |-> TRUE]}
Without(s, k) == SubSeq(s, 1, k - 1) \o SubSeq(s, k + 1, Len(s))
HasRoom(b) == Len(b) < BagSize

(* The entries of s at the positions K, in their order.                    *)
Only(s, K) ==
  [n \in 1..Cardinality(K) |-> s[CHOOSE k \in K : Cardinality({j \in K : j <= k}) = n]]

Granted(s, i) == Append(s, [source |-> i.id, mods |-> Mods(i)])
Revoked(s, i) == Only(s, {k \in DOMAIN s : s[k].source # i.id})

-----------------------------------------------------------------------------
Pickup(i) ==
  /\ Alive /\ i \in OnGround /\ HasRoom(bag)
  /\ drops' = Taken(drops, i)
  /\ bag' = Append(bag, i)
  /\ UNCHANGED <<worn, sheet, orbs, shards, life, live>>

(* chooseSlot: the first that is free, else the first. *)
Chosen(b) ==
  LET free == {k \in DOMAIN SlotsFor[b] : worn[SlotsFor[b][k]] = None}
  IN  IF free = {} THEN SlotsFor[b][1] ELSE SlotsFor[b][Least(free)]

Accepting(b) == {SlotsFor[b][k] : k \in DOMAIN SlotsFor[b]}

(* i goes from the bag or the ground, whose rest is given, to slot s; what  *)
(* was there goes to the bag, or to the ground if the bag is full.          *)
Wear(i, s, restBag, restDrops) ==
  LET old == worn[s]
      off == IF old = None THEN sheet ELSE Revoked(sheet, old)
      kept == old # None /\ HasRoom(restBag)
  IN  /\ bag' = IF kept THEN Append(restBag, old) ELSE restBag
      /\ drops' = IF old # None /\ ~kept THEN restDrops \cup {Dropped(old)} ELSE restDrops
      /\ worn' = [worn EXCEPT ![s] = i]
      /\ sheet' = Granted(off, i)
      /\ life' = Min2(life, MaxLife(sheet'))
      /\ UNCHANGED <<orbs, shards, live>>

SlotNamed(i) == Accepting(i.base) \cup {Chosen(i.base)}

EquipFromBag(k) ==
  /\ Alive /\ ~IsGem(bag[k])
  /\ \E s \in SlotNamed(bag[k]) : Wear(bag[k], s, Without(bag, k), drops)

(* Faulty: the drop stays where it lies. *)
EquipAndLeave(i) ==
  /\ Alive /\ i \in OnGround /\ ~IsGem(i)
  /\ \E s \in SlotNamed(i) : Wear(i, s, bag, drops)

EquipFromGround(i) ==
  /\ Alive /\ i \in OnGround /\ ~IsGem(i)
  /\ \E s \in SlotNamed(i) : Wear(i, s, bag, Taken(drops, i))

Unequip(s) ==
  /\ Alive /\ worn[s] # None /\ HasRoom(bag)
  /\ sheet' = Revoked(sheet, worn[s])
  /\ bag' = Append(bag, worn[s])
  /\ worn' = [worn EXCEPT ![s] = None]
  /\ life' = Min2(life, MaxLife(sheet'))
  /\ UNCHANGED <<drops, orbs, shards, live>>

DropItem(k) ==
  /\ Alive
  /\ bag' = Without(bag, k)
  /\ drops' = drops \cup {Dropped(bag[k])}
  /\ UNCHANGED <<worn, sheet, orbs, shards, life, live>>

-----------------------------------------------------------------------------
(* ApplyOrb: the new item, by the orb that is spent. *)
Crafted(o, i) ==
  LET Become(r, s) == [i EXCEPT !.rarity = r, !.affixes = s] IN
  CASE o = "transmutation" /\ i.rarity = "normal" ->
         {Become("magic", s) : s \in Filled("magic", i.level)}
    [] o = "alchemy" /\ i.rarity = "normal" -> {Become("rare", s) : s \in Filled("rare", i.level)}
    [] o = "chaos" /\ i.rarity = "rare" -> {Become("rare", s) : s \in Filled("rare", i.level)}
    [] o = "regal" /\ i.rarity = "magic" ->
         {Become("rare", s) : s \in Rolled(i.affixes, 1, i.level, RareCap)}
    [] o = "exalt" /\ i.rarity = "rare" /\ Cardinality(i.affixes) < 2 * RareCap ->
         {Become("rare", s) : s \in Rolled(i.affixes, 1, i.level, RareCap)}
    [] o = "annulment" /\ i.rarity \in {"magic", "rare"} ->
         {Become(i.rarity, i.affixes \ {a}) : a \in i.affixes}
    [] o = "scouring" /\ i.rarity \in {"magic", "rare"} -> {Become("normal", {})}
    [] OTHER -> {}

(* Faulty: what is worn is crafted as well. *)
ApplyOrbToWorn(o) ==
  /\ Alive /\ orbs[o] > 0
  /\ \E s \in {t \in Slots : worn[t] # None} : \E i \in Crafted(o, worn[s]) :
       worn' = [worn EXCEPT ![s] = i]
  /\ orbs' = [orbs EXCEPT ![o] = @ - 1]
  /\ UNCHANGED <<drops, bag, sheet, shards, life, live>>

ApplyOrb(o) ==
  /\ Alive /\ orbs[o] > 0
  /\ \E k \in DOMAIN bag :
       /\ ~IsGem(bag[k])
       /\ \E i \in Crafted(o, bag[k]) : bag' = [bag EXCEPT ![k] = i]
  /\ orbs' = [orbs EXCEPT ![o] = @ - 1]
  /\ UNCHANGED <<drops, worn, sheet, shards, life, live>>

ForgeMelt(k) ==
  /\ Alive
  /\ LET pay == Pay[IF IsGem(bag[k]) THEN "gem" ELSE bag[k].rarity]
     IN  Wealth + pay <= MaxWealth /\ shards' = shards + pay
  /\ bag' = Without(bag, k)
  /\ live' = live \ {bag[k].id}
  /\ UNCHANGED <<drops, worn, sheet, orbs, life>>

ForgeBuy(o) ==
  /\ Alive /\ shards >= Price[o]
  /\ shards' = shards - Price[o]
  /\ orbs' = [orbs EXCEPT ![o] = @ + 1]
  /\ UNCHANGED <<drops, bag, worn, sheet, life, live>>

(* Cutting consumes an uncut gem; what it makes of it is in Gems. *)
Cut(k) ==
  /\ Alive /\ IsGem(bag[k])
  /\ bag' = Without(bag, k)
  /\ live' = live \ {bag[k].id}
  /\ UNCHANGED <<drops, worn, sheet, orbs, shards, life>>

-----------------------------------------------------------------------------
(* RollLoot: one item of a death, or an orb for its killer. *)
DropLoot ==
  /\ Unused # {}
  /\ \E i \in NewItems(Least(Unused)) :
       /\ drops' = drops \cup {Dropped(i)}
       /\ live' = live \cup {i.id}
  /\ UNCHANGED <<bag, worn, sheet, orbs, shards, life>>

BankOrb(o) ==
  /\ Alive /\ Wealth < MaxWealth
  /\ orbs' = [orbs EXCEPT ![o] = @ + 1]
  /\ UNCHANGED <<drops, bag, worn, sheet, shards, life, live>>

(* EndTick sweeps the drops that were taken. *)
EndTick ==
  /\ \E d \in drops : d.taken
  /\ drops' = {d \in drops : ~d.taken}
  /\ UNCHANGED <<bag, worn, sheet, orbs, shards, life, live>>

(* Hits and regeneration; 0 is dead. *)
LifeChanges ==
  /\ Alive
  /\ life' \in {life - 1, Min2(life + 1, MaxLife(sheet))} \ {life}
  /\ UNCHANGED <<drops, bag, worn, sheet, orbs, shards, live>>

-----------------------------------------------------------------------------
(* charItem leaves the id behind; ExtractCharacter, InjectCharacter. *)
CharItem(i) == [base |-> i.base, rarity |-> i.rarity, level |-> i.level, affixes |-> i.affixes]

Character ==
  [equipment |-> [s \in Slots |-> IF worn[s] = None THEN None ELSE CharItem(worn[s])],
   inventory |-> [k \in DOMAIN bag |-> CharItem(bag[k])],
   orbs |-> orbs, shards |-> shards, life |-> life]

Minted(ci, n) ==
  [id |-> n, base |-> ci.base, rarity |-> ci.rarity, level |-> ci.level, affixes |-> ci.affixes]

(* The occupied slots, in order: ids are minted slot by slot, then through  *)
(* the bag.                                                                 *)
Occupied(ch) == Only(SlotSeq, {k \in DOMAIN SlotSeq : ch.equipment[SlotSeq[k]] # None})

(* Faulty: the pools are carried before the gear is on. *)
InjectBare(ch) ==
  LET order == Occupied(ch)
      item == [k \in DOMAIN order |-> Minted(ch.equipment[order[k]], k)]
  IN  /\ worn' = [s \in Slots |-> IF \E k \in DOMAIN order : order[k] = s
                                  THEN item[CHOOSE k \in DOMAIN order : order[k] = s] ELSE None]
      /\ sheet' = [k \in DOMAIN order |-> [source |-> k, mods |-> Mods(item[k])]]
      /\ bag' = [k \in DOMAIN ch.inventory |-> Minted(ch.inventory[k], Len(order) + k)]
      /\ orbs' = ch.orbs /\ shards' = ch.shards
      /\ life' = IF ch.life = 0 THEN MaxLife(<<>>) ELSE Min2(ch.life, MaxLife(<<>>))

Inject(ch) ==
  LET order == Occupied(ch)
      item == [k \in DOMAIN order |-> Minted(ch.equipment[order[k]], k)]
  IN  /\ worn' = [s \in Slots |-> IF \E k \in DOMAIN order : order[k] = s
                                  THEN item[CHOOSE k \in DOMAIN order : order[k] = s] ELSE None]
      /\ sheet' = [k \in DOMAIN order |-> [source |-> k, mods |-> Mods(item[k])]]
      /\ bag' = [k \in DOMAIN ch.inventory |-> Minted(ch.inventory[k], Len(order) + k)]
      /\ orbs' = ch.orbs /\ shards' = ch.shards
      /\ life' = IF ch.life = 0 THEN MaxLife(sheet') ELSE Min2(ch.life, MaxLife(sheet'))

(* The hero leaves for a new world; what lay on the ground stays behind.   *)
Travel ==
  /\ Inject(Character)
  /\ drops' = {}
  /\ live' = 1..(Cardinality(WornItems) + Len(bag))

-----------------------------------------------------------------------------
ItemVerb ==
  \/ \E i \in OnGround : Pickup(i) \/ EquipFromGround(i)
  \/ \E k \in DOMAIN bag : EquipFromBag(k) \/ DropItem(k) \/ ForgeMelt(k) \/ Cut(k)
  \/ \E s \in Slots : Unequip(s)
  \/ \E o \in Orbs : ApplyOrb(o) \/ ForgeBuy(o)

Next == ItemVerb \/ DropLoot \/ (\E o \in Orbs : BankOrb(o)) \/ EndTick \/ LifeChanges \/ Travel

Spec == Init /\ [][Next]_vars

-----------------------------------------------------------------------------
(* Every item there ought to be is in one place: the bag, a slot or the    *)
(* ground, whatever is equipped over what, from where, with a full bag or  *)
(* twice in a tick.                                                        *)
Conserved ==
  /\ live = {i.id : i \in InBag \cup WornItems \cup OnGround}
  /\ Cardinality(live) = Len(bag) + Cardinality({s \in Slots : worn[s] # None})
                         + Cardinality({d \in drops : ~d.taken})

(* The sheet has the modifiers of what is worn, as it is now, each once.   *)
SheetIsTheGear ==
  /\ {<<sheet[k].source, sheet[k].mods>> : k \in DOMAIN sheet} =
       {<<i.id, Mods(i)>> : i \in WornItems}
  /\ Len(sheet) = Cardinality(WornItems)

(* Going from world to world changes nothing of what the hero has: the     *)
(* gear, the bag, the wallet, and the life of one who lives.               *)
TravelKeepsTheBuild ==
  [][Travel => /\ Character' = [Character EXCEPT !.life = IF Alive THEN @ ELSE life']
               /\ life' > 0]_vars
=============================================================================
