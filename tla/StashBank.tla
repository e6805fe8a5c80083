------------------------------ MODULE StashBank ------------------------------
(***************************************************************************)
(* Where an item is: in a bag in the world, on the ground, in the account  *)
(* stash (server/stash.go), in a banked character or in the file           *)
(* (server/identity.go).  One instance ticks; its players each have an     *)
(* account with one stash and some characters, which may be claimed,       *)
(* deleted and, if they are hardcore, fall for good.  Players of other     *)
(* instances matter only through the file: their sessions save it too, at  *)
(* any time.                                                               *)
(*                                                                         *)
(* A tick takes joins and leaves (phase "idle"), then steps the world      *)
(* ("commands", "fight"), then runs the stash verbs ("stash") and then the *)
(* run logic ("run"), which may replace the world.                         *)
(*                                                                         *)
(* Items are told apart by identity although the code copies them: two     *)
(* places holding one item here is a duplicated item there.                *)
(***************************************************************************)
EXTENDS Naturals, FiniteSets

CONSTANTS Items,      \* the items there are
          Players,    \* accounts
          Chars,      \* character slots of an account
          Hardcore,   \* the characters that die for good
          None,       \* no character in play
          BagSize,    \* ActorDef.InventorySize
          StashCap,   \* items the stash may hold
          RosterCap,  \* characters an account may hold
          Loaded,     \* the file that the process starts with
          MaxMoves    \* bound: item commands, departures, crashes, claims and characters
                      \* created or deleted, in all

VARIABLES
  phase,    \* the last part of the tick in which anything has happened
  floor,    \* "hideout" or "dungeon"
  minted,   \* the items that have ever dropped as loot
  ground,   \* World.Drops that are not taken
  dropped,  \* history: dropped[p], what p has dropped in this tick
  twice,    \* history: what a death has brought back beside the one who took it
  playing,  \* playing[p]: the character of p's session, or None
  active,   \* Identity.active: the slot in play, or None
  spawned,  \* the players with an actor in the world
  ghosts,   \* the players whose actor died and who got no new one
  dead,     \* the players whose actor died in this tick
  bag,      \* bag[p]: the actor's inventory
  lastChar, \* lastChar[p]: client.lastChar, the freshest extraction
  store,    \* the identity store in memory
  file,     \* the identity store on disk
  dirty,    \* IdentityStore.dirty
  crashed,  \* the process has died at least once
  moves     \* how many of the counted moves there have been

worldVars == <<floor, minted, ground, dropped, twice, spawned, ghosts, dead, bag>>
sessionVars == <<playing, active, lastChar>>
storeVars == <<store, file, dirty>>
vars == <<phase, worldVars, sessionVars, storeVars, crashed, moves>>

(* The order of the parts of a tick. *)
Rank == [idle |-> 0, commands |-> 1, fight |-> 2, stash |-> 3, run |-> 4]

Accounts == [live : SUBSET Players,
             roster : [Players -> SUBSET Chars],
             stash : [Players -> SUBSET Items],
             slot : [Players -> [Chars -> SUBSET Items]]]

(* What the accounts of store st hold of item x. *)
Holds(st, p, x) == x \in st.stash[p] \/ \E ch \in Chars : x \in st.slot[p][ch]

(* A store in which no item is twice and nothing is over its size.          *)
Lawful(st) ==
  /\ \A p \in Players :
       /\ Cardinality(st.roster[p]) <= RosterCap
       /\ Cardinality(st.stash[p]) <= StashCap
       /\ \A ch \in Chars : Cardinality(st.slot[p][ch]) <= BagSize
  /\ \A p \in Players, x \in Items :
       /\ x \in st.stash[p] => \A ch \in Chars : x \notin st.slot[p][ch]
       /\ \A ch \in Chars, dh \in Chars :
            x \in st.slot[p][ch] \cap st.slot[p][dh] => ch = dh
       /\ Holds(st, p, x) => \A q \in Players : Holds(st, q, x) => p = q

ASSUME StashAssumption ==
  /\ None \notin Chars /\ IsFiniteSet(Chars) /\ Hardcore \subseteq Chars
  /\ IsFiniteSet(Items)
  /\ BagSize \in Nat /\ StashCap \in Nat /\ RosterCap \in Nat \ {0} /\ MaxMoves \in Nat
  /\ Loaded \in Accounts /\ Lawful(Loaded)

Typed ==
  /\ phase \in DOMAIN Rank
  /\ floor \in {"hideout", "dungeon"}
  /\ minted \in SUBSET Items /\ ground \in SUBSET Items /\ twice \in SUBSET Items
  /\ dropped \in [Players -> SUBSET Items]
  /\ playing \in [Players -> Chars \cup {None}]
  /\ active \in [Players -> Chars \cup {None}]
  /\ spawned \in SUBSET Players /\ ghosts \in SUBSET Players /\ dead \in SUBSET Players
  /\ bag \in [Players -> SUBSET Items]
  /\ lastChar \in [Players -> SUBSET Items]
  /\ store \in Accounts /\ file \in Accounts
  /\ dirty \in BOOLEAN
  /\ crashed \in BOOLEAN /\ moves \in 0..MaxMoves

(* No bag, no stash and no roster is ever over its size: not by a put or a *)
(* take, not by a character that comes back from a slot or from a death.   *)
WithinCapacity ==
  \A p \in Players :
    /\ Cardinality(bag[p]) <= BagSize
    /\ Cardinality(lastChar[p]) <= BagSize
    /\ Cardinality(store.stash[p]) <= StashCap
    /\ Cardinality(store.roster[p]) <= RosterCap
    /\ \A ch \in Chars : Cardinality(store.slot[p][ch]) <= BagSize

TypeOK == Typed /\ WithinCapacity

Nobodys == [p \in Players |-> {}]

(* The store as it is loaded; the instance is in its hideout.               *)
Init ==
  /\ phase = "idle" /\ floor = "hideout"
  /\ minted = {x \in Items : \E p \in Players : Holds(Loaded, p, x)} /\ ground = {} /\ twice = {}
  /\ dropped = Nobodys
  /\ playing = [p \in Players |-> None] /\ active = [p \in Players |-> None]
  /\ spawned = {} /\ ghosts = {} /\ dead = {}
  /\ bag = Nobodys /\ lastChar = Nobodys
  /\ store = Loaded /\ file = Loaded
  /\ dirty = FALSE
  /\ crashed = FALSE /\ moves = 0

(* What player p carries: in the actor's bag, or where there is no actor in *)
(* the copy it is spawned from.                                             *)
Carried(p) == IF p \in spawned THEN bag[p] ELSE lastChar[p]

(* The tick goes on to part ph, if it is not past it. *)
Reaches(ph) == Rank[phase] <= Rank[ph] /\ phase' = ph

(* A move that the bound counts. *)
Counted == moves < MaxMoves /\ moves' = moves + 1

-----------------------------------------------------------------------------
(* The identity API, from any goroutine. *)

(* saveLocked: the whole store is written and renamed into place, or the   *)
(* write fails and the store stays dirty.                                  *)
SaveLocked ==
  \/ dirty' = FALSE /\ file' = store'
  \/ dirty' = TRUE /\ UNCHANGED file

(* A new account has a new token: p is a player without account or session. *)
Claim(p, ch) ==
  /\ Counted
  /\ p \notin store.live /\ playing[p] = None
  /\ store' = [store EXCEPT !.live = @ \cup {p}, !.roster[p] = {ch}]
  /\ SaveLocked
  /\ UNCHANGED <<phase, worldVars, sessionVars, crashed>>

AddChar(p, ch) ==
  /\ Counted
  /\ p \in store.live
  /\ ch \notin store.roster[p] /\ Cardinality(store.roster[p]) < RosterCap
  /\ store' = [store EXCEPT !.roster[p] = @ \cup {ch}]
  /\ SaveLocked
  /\ UNCHANGED <<phase, worldVars, sessionVars, crashed>>

(* A slot goes with what is banked in it, and is no longer in play. *)
WithoutSlot(p, ch) == [store EXCEPT !.roster[p] = @ \ {ch}, !.slot[p][ch] = {}]
NotInPlay(p, ch) == [active EXCEPT ![p] = IF @ = ch THEN None ELSE @]

(* The last character takes the account along, stash included.  A session   *)
(* that plays the slot is kicked, and goes on until it leaves.              *)
DeleteChar(p, ch) ==
  /\ Counted
  /\ p \in store.live /\ ch \in store.roster[p]
  /\ store' = IF store.roster[p] = {ch}
              THEN [WithoutSlot(p, ch) EXCEPT !.live = @ \ {p}, !.stash[p] = {}]
              ELSE WithoutSlot(p, ch)
  /\ active' = NotInPlay(p, ch)
  /\ SaveLocked
  /\ UNCHANGED <<phase, worldVars, playing, lastChar, crashed>>

-----------------------------------------------------------------------------
(* Sessions. *)

(* Connect: the banked character of the chosen slot becomes lastChar. *)
Connect(p, ch) ==
  /\ playing[p] = None
  /\ p \in store.live /\ ch \in store.roster[p]
  /\ playing' = [playing EXCEPT ![p] = ch] /\ active' = [active EXCEPT ![p] = ch]
  /\ lastChar' = [lastChar EXCEPT ![p] = store.slot[p][ch]]
  /\ dirty' = TRUE
  /\ UNCHANGED <<phase, worldVars, store, file, crashed, moves>>

Waiting(p) == playing[p] # None /\ p \notin spawned \cup ghosts

(* Faulty: a fresh character is spawned for a returning one. *)
JoinFresh(p) ==
  /\ phase = "idle" /\ Waiting(p)
  /\ spawned' = spawned \cup {p}
  /\ lastChar' = [lastChar EXCEPT ![p] = {}]
  /\ UNCHANGED <<phase, floor, minted, ground, dropped, twice, ghosts, dead, bag, playing,
                 active, storeVars, crashed, moves>>

(* spawnClient injects lastChar. *)
Join(p) ==
  /\ phase = "idle" /\ Waiting(p)
  /\ spawned' = spawned \cup {p}
  /\ bag' = [bag EXCEPT ![p] = lastChar[p]]
  /\ UNCHANGED <<phase, floor, minted, ground, dropped, twice, ghosts, dead, sessionVars,
                 storeVars, crashed, moves>>

(* Bank and Disconnect write the slot in play, and nowhere when it is gone. *)
BankedWith(p) ==
  IF active[p] = None THEN store ELSE [store EXCEPT !.slot[p][active[p]] = Carried(p)]

(* removeClient extracts the actor, or falls back to lastChar; Disconnect   *)
(* banks it and saves at once, if there still is an account.                *)
Leave(p) ==
  /\ Counted
  /\ phase = "idle"
  /\ p \in spawned \cup ghosts
  /\ spawned' = spawned \ {p} /\ ghosts' = ghosts \ {p}
  /\ bag' = [bag EXCEPT ![p] = {}]
  /\ lastChar' = [lastChar EXCEPT ![p] = {}]
  /\ playing' = [playing EXCEPT ![p] = None] /\ active' = [active EXCEPT ![p] = None]
  /\ IF p \in store.live THEN store' = BankedWith(p) /\ SaveLocked ELSE UNCHANGED storeVars
  /\ UNCHANGED <<phase, floor, minted, ground, dropped, twice, dead, crashed>>

-----------------------------------------------------------------------------
(* Step. *)

Acting(p) == Reaches("commands") /\ p \in spawned

(* A pickup, or a ground drop equipped: any drop that is not taken will do, *)
(* one of this very tick too.                                               *)
Pickup(p, x) ==
  /\ Counted
  /\ Acting(p)
  /\ x \in ground
  /\ Cardinality(bag[p]) < BagSize
  /\ ground' = ground \ {x}
  /\ bag' = [bag EXCEPT ![p] = @ \cup {x}]
  /\ dropped' = [dropped EXCEPT ![p] = @ \ {x}]
  /\ UNCHANGED <<floor, minted, twice, spawned, ghosts, dead, sessionVars, storeVars,
                 crashed>>

DropItem(p, x) ==
  /\ Counted
  /\ Acting(p)
  /\ x \in bag[p]
  /\ ground' = ground \cup {x}
  /\ bag' = [bag EXCEPT ![p] = @ \ {x}]
  /\ dropped' = [dropped EXCEPT ![p] = @ \cup {x}]
  /\ UNCHANGED <<floor, minted, twice, spawned, ghosts, dead, sessionVars, storeVars,
                 crashed>>

(* Everybody's commands come before anything is hit, and only a floor has   *)
(* monsters.                                                               *)
Dies(p) ==
  /\ Reaches("fight") /\ floor = "dungeon"
  /\ p \in spawned \ dead
  /\ dead' = dead \cup {p}
  /\ UNCHANGED <<floor, minted, ground, dropped, twice, spawned, ghosts, bag,
                 sessionVars, storeVars, crashed, moves>>

(* RollLoot: a kill drops an item. *)
Loot(x) ==
  /\ Reaches("fight") /\ floor = "dungeon"
  /\ x \in Items \ minted
  /\ minted' = minted \cup {x}
  /\ ground' = ground \cup {x}
  /\ UNCHANGED <<floor, dropped, twice, spawned, ghosts, dead, bag, sessionVars,
                 storeVars, crashed, moves>>

-----------------------------------------------------------------------------
(* processStash, one verb.  The store's part is atomic under its mutex;    *)
(* the bag is the tick goroutine's own.  A solo-self-found character is one *)
(* that never uses a verb.                                                  *)
Stashing(p) ==
  /\ Reaches("stash") /\ floor = "hideout"
  /\ p \in spawned \ dead /\ p \in store.live

(* Faulty: one item too many fits. *)
StashPutOneOver(p, x) ==
  /\ Counted
  /\ Stashing(p)
  /\ x \in bag[p]
  /\ Cardinality(store.stash[p]) <= StashCap
  /\ store' = [store EXCEPT !.stash[p] = @ \cup {x}]
  /\ bag' = [bag EXCEPT ![p] = @ \ {x}]
  /\ dirty' = TRUE
  /\ UNCHANGED <<floor, minted, ground, dropped, twice, spawned, ghosts, dead,
                 sessionVars, file, crashed>>

StashPut(p, x) ==
  /\ Counted
  /\ Stashing(p)
  /\ x \in bag[p]
  /\ Cardinality(store.stash[p]) < StashCap
  /\ store' = [store EXCEPT !.stash[p] = @ \cup {x}]
  /\ bag' = [bag EXCEPT ![p] = @ \ {x}]
  /\ dirty' = TRUE
  /\ UNCHANGED <<floor, minted, ground, dropped, twice, spawned, ghosts, dead,
                 sessionVars, file, crashed>>

(* Faulty: a take does not mark the store dirty. *)
StashTakeSilent(p, x) ==
  /\ Counted
  /\ Stashing(p)
  /\ Cardinality(bag[p]) < BagSize
  /\ x \in store.stash[p]
  /\ store' = [store EXCEPT !.stash[p] = @ \ {x}]
  /\ bag' = [bag EXCEPT ![p] = @ \cup {x}]
  /\ UNCHANGED <<floor, minted, ground, dropped, twice, spawned, ghosts, dead,
                 sessionVars, file, dirty, crashed>>

StashTake(p, x) ==
  /\ Counted
  /\ Stashing(p)
  /\ Cardinality(bag[p]) < BagSize
  /\ x \in store.stash[p]
  /\ store' = [store EXCEPT !.stash[p] = @ \ {x}]
  /\ bag' = [bag EXCEPT ![p] = @ \cup {x}]
  /\ dirty' = TRUE
  /\ UNCHANGED <<floor, minted, ground, dropped, twice, spawned, ghosts, dead,
                 sessionVars, file, crashed>>

-----------------------------------------------------------------------------
(* The run logic. *)

(* FellInBattle, from handleDeaths: the slot in play and its name go; the   *)
(* account stays, and so does the client, until its doom closes it.         *)
Falls(p) == p \in dead /\ playing[p] \in Hardcore /\ active[p] # None

FellInBattle(p) ==
  /\ Falls(p) /\ Reaches("run")
  /\ store' = WithoutSlot(p, active[p])
  /\ active' = NotInPlay(p, active[p])
  /\ SaveLocked
  /\ UNCHANGED <<worldVars, playing, lastChar, crashed, moves>>

(* Every fallen character has gone before the world is replaced; one that  *)
(* was never extracted (hasChar) has nothing and is spared.                *)
FallsDone == \A p \in Players : Falls(p) => lastChar[p] = {}

(* What a client is after the run logic: its living actor's extraction, or  *)
(* the last one before for those whose actor Step has compacted away.       *)
Freshest(p) == IF p \in spawned \ dead THEN bag[p] ELSE lastChar[p]

KeepWorld ==
  /\ dead = {}
  /\ UNCHANGED <<floor, ground, spawned, ghosts, bag>>

(* swapWorld: a new world has no drops; everyone in the client list is     *)
(* injected.  Without a death, stairs and portals may do so.               *)
SwapWorld ==
  /\ (dead = {} /\ floor = "hideout") => floor' = "dungeon"
  /\ floor' \in {"hideout", "dungeon"}
  /\ ground' = {}
  /\ spawned' = spawned \cup ghosts /\ ghosts' = {}
  /\ bag' = [p \in Players |-> IF p \in spawned \cup ghosts THEN Freshest(p) ELSE {}]

(* The floor of a death's eject could not be built: the world stays, and    *)
(* the dead have no actor in it.                                            *)
BuildFails ==
  /\ dead # {}
  /\ spawned' = spawned \ dead /\ ghosts' = ghosts \cup dead
  /\ bag' = [p \in Players |-> IF p \in dead THEN {} ELSE bag[p]]
  /\ UNCHANGED <<floor, ground>>

(* History: of what the dead held a tick ago and dropped in this one, a     *)
(* living actor has taken some, or it still lies in the world.              *)
BroughtBack ==
  {x \in Items : /\ \E p \in dead : x \in dropped[p] \cap lastChar[p]
                 /\ x \in ground' \/ \E q \in spawned \ dead : x \in bag[q]}

(* Faulty: lastChar is refreshed before the stash verbs and not after. *)
RunTickStale ==
  /\ FallsDone
  /\ phase' = "idle"
  /\ KeepWorld \/ SwapWorld \/ BuildFails
  /\ twice' = twice \cup BroughtBack
  /\ dead' = {} /\ dropped' = Nobodys
  /\ UNCHANGED <<minted, sessionVars, storeVars, crashed, moves>>

(* runTick: deaths replace the world, stairs and portals may.  Swapped or  *)
(* not, lastChar then is what the actor carries.                           *)
RunTick ==
  /\ FallsDone
  /\ phase' = "idle"
  /\ KeepWorld \/ SwapWorld \/ BuildFails
  /\ lastChar' = [p \in Players |-> Freshest(p)]
  /\ twice' = twice \cup BroughtBack
  /\ dead' = {} /\ dropped' = Nobodys
  /\ UNCHANGED <<minted, playing, active, storeVars, crashed, moves>>

(* The periodic bank of a live character, after the run logic. *)
BankLive(p) ==
  /\ phase = "idle"
  /\ p \in spawned /\ active[p] # None
  /\ store' = BankedWith(p)
  /\ dirty' = TRUE
  /\ UNCHANGED <<phase, worldVars, sessionVars, file, crashed, moves>>

(* SaveIfDue of any instance's tick, or the save of anyone else's claim,   *)
(* delete or disconnect.  A save that fails leaves everything as it is.    *)
Save ==
  /\ dirty
  /\ file' = store
  /\ dirty' = FALSE
  /\ UNCHANGED <<phase, worldVars, sessionVars, store, crashed, moves>>

(* The process dies, wherever the tick stands, and starts again. *)
Crash ==
  /\ Counted
  /\ crashed' = TRUE
  /\ phase' = "idle" /\ floor' = "hideout"
  /\ ground' = {} /\ dropped' = Nobodys /\ spawned' = {} /\ ghosts' = {} /\ dead' = {}
  /\ bag' = Nobodys /\ lastChar' = Nobodys
  /\ playing' = [p \in Players |-> None] /\ active' = [p \in Players |-> None]
  /\ store' = file
  /\ dirty' = FALSE
  /\ UNCHANGED <<minted, twice, file>>

Next ==
  \/ \E p \in Players, ch \in Chars :
       Claim(p, ch) \/ AddChar(p, ch) \/ DeleteChar(p, ch) \/ Connect(p, ch)
  \/ \E p \in Players : Join(p) \/ Leave(p) \/ Dies(p) \/ FellInBattle(p) \/ BankLive(p)
  \/ \E p \in Players, x \in Items :
       Pickup(p, x) \/ DropItem(p, x) \/ StashPut(p, x) \/ StashTake(p, x)
  \/ \E x \in Items : Loot(x)
  \/ RunTick
  \/ Save \/ Crash

Spec == Init /\ [][Next]_vars

-----------------------------------------------------------------------------
(* The character in play is banked as well, but that copy is only the      *)
(* shadow of the carried one.                                              *)
InSlot(p, ch, x) == ch # active[p] /\ x \in store.slot[p][ch]

Owns(p, x) == x \in Carried(p) \/ x \in store.stash[p] \/ \E ch \in Chars : InSlot(p, ch, x)

OnePlace(x) ==
  \A p \in Players :
    /\ ~(x \in Carried(p) /\ x \in store.stash[p])
    /\ \A ch \in Chars : InSlot(p, ch, x) =>
         /\ x \notin Carried(p) \cup store.stash[p]
         /\ \A dh \in Chars : InSlot(p, dh, x) => ch = dh
    /\ Owns(p, x) => x \notin ground /\ \A q \in Players : Owns(q, x) => p = q

(* An item is never in two places: every move between bag, ground, stash   *)
(* and slots takes it from where it was, and a death that brings back an   *)
(* older copy of a bag brings back nothing that has moved on since.  The   *)
(* one exception is what the dead had dropped in the tick of their death   *)
(* and somebody alive has taken in that same tick (or, when the next floor *)
(* cannot be built, what still lies there): that is doubled.               *)
NothingTwice == ~crashed => \A x \in Items \ twice : OnePlace(x)

(* When the store is not marked dirty the file is the store: no change of  *)
(* an account, and no failed save, is forgotten until the next change.     *)
CleanFileIsCurrent == ~dirty => file = store

Placed(x) == x \in ground \/ \E p \in Players : Owns(p, x)

(* An item is lost by a crash, with the ground of a world that is replaced, *)
(* with what a player had picked up in the tick of its death, with the slot *)
(* or the account that is deleted, and at the end of a session whose slot   *)
(* was deleted or has fallen, which banks nowhere; by no other step.        *)
NoOtherLoss ==
  [][\A x \in Items : Placed(x) /\ ~Placed(x)' =>
       \/ Crash
       \/ RunTick /\ (x \in ground \/ \E p \in dead : x \in bag[p] \ lastChar[p])
       \/ \E p \in Players, ch \in Chars :
            DeleteChar(p, ch) /\ (InSlot(p, ch, x) \/ (store.roster[p] = {ch} /\ x \in store.stash[p]))
       \/ \E p \in Players : Leave(p) /\ active[p] = None /\ x \in Carried(p)]_vars
=============================================================================
