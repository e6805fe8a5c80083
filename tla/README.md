# Draupforge: a specification of the server

Draupforge is a multiplayer action RPG: a Go server simulates worlds ("instances") at 30 ticks a
second and streams views to browsers.  This directory specifies the parts of it that are hard to
test: what happens when connections, ticks, disk writes and crashes interleave, the rules of
the run loop that many players share, and the bookkeeping of the simulation (actions, items, gems,
hits) that long sequences of legal orders and events must not break.  Every module is written from the Go source; the comments
name the functions.

## Running it

    tlc -workers 2 -config MCLobby_sessions.cfg MCLobby   # one run; likewise the other cfg files
    tlapm LobbyProofs.tla                                  # the proofs; likewise the other *Proofs modules

PROJECT.json lists the runs, the mutants that show each property can fail, the lines of the source
each definition models, the hazards the properties are for, and the theorems.

## The system (inventory)

| component | state | operations | talks to |
|---|---|---|---|
| identity store, `server/identity.go` | accounts, rosters, name index, online flag, banked characters, stash, checkpoints; one mutex, one JSON file | Claim, AddChar, Connect, Disconnect, Bank, DeleteChar, FellInBattle, StashAdd, StashTake, SaveIfDue | called by HTTP handlers, by every instance's tick and by the lobby |
| lobby, `server/lobby.go` | instances, homes (reconnect breadcrumbs), invites, the online list; one mutex | HandleWS, place, invite/accept/leave, transferLocked, reap, kickToken | identity store, instances |
| instance sessions, `server/server.go` | join and leave queues, client list, pending commands, occupancy telemetry; one tick goroutine, one readLoop and one writer goroutine per client | tick, spawnClient, removeClient, releaseClient, publishParty, readLoop, frameFor | lobby, store, simulation |
| descent, `server/descent.go`, `delvemap.go`, `runsave.go` | floor, node, portal anchor and budget, visited and cleared nodes | runTick, handleDeaths, portalTravel, travelTo, startRunAt, swapWorld, save and load | instance tick, store |
| stash, `server/stash.go` | account stash against the bag in the world | processStash | store, world |
| view codec, `protocol/binary.go`, `web/net.js` | baselines and unacknowledged views on the server, view history on the client | EncodeViewFrame, ack | readLoop, tick |
| simulation: actions, `sim/sim.go`, `sim/skills` | Action, mana, cooldowns, stun counter of each actor | applyCommands, AdvanceActions, TryStun | instance tick |
| simulation: combat, `sim/combat`, `sim/progress` | pending hits and buffs, projectiles, DoTs, statuses and their modifiers, this tick's events, XP | UpdateProjectiles, ResolveBuffs, ResolveHits, TickDoTs, TickStatuses, AwardXP, EndTick | actions, items |
| simulation: gear, `sim/items/equip.go`, `loot.go` | drops, bag, equipment, wallet, the sheet's item modifiers | PickUp, Equip, Unequip, Drop, Melt, ApplyOrb, RollLoot | sheet, character transfer |
| simulation: gems, `sim/items/gems.go`, `sim/core/aura.go` | gem bar, sockets, auras on several sheets, minions, pending spawns | CutSkill, LevelGem, CutSupport, ActivateAura, fire, DrainSpawns, Save, LoadWorld | sheet, actions |
| delve chart, `server/delvemap.go` | none: a pure function of seed and address | delveRow, downEdges, lateralEdges, delveNeighbors, delveSnap | descent |
| the rest | biomes, feats, ladder, chat, rate limits, replay, admin, content | | |

Goroutines and what they share:

* one HTTP goroutine per connection runs `HandleWS`, then `readLoop`; it shares the client object
  (a small mutex per client), the instance's queues (`in.mu`), the lobby (`lb.mu`) and the store
  (`st.mu`);
* one tick goroutine per instance owns its world and client list, drains the queues, calls the
  store and, in social verbs, takes the lobby's lock;
* the lobby's reaper, and the handlers of `/api/claim` and `/api/forget`.

No lock is held across two of these calls, so a sequence such as *disconnect at the store, then
tell the lobby* can be cut in two by any other goroutine.  That is where the properties aim.

What is hard, and what must hold, by component:

* **lobby and sessions**: stale, doubled and misfiled leaves; reconnects that race the departure of
  the session before; the reaper racing placements and transfers.  One session per account, one
  instance per connection, and lobby maps that agree with who is there.
* **identity store**: deletes and renewed claims under a live session that still banks.  The name
  index is exact, and a bank lands in the slot it came from.
* **durability**: items move between worlds, bags, stashes and slots that are copied and saved at
  different times, through deaths, floor swaps, deleted and fallen characters, failed saves and
  crashes.  Nothing twice and nothing lost, but for the cases the code has, which the properties name.
* **view stream**: deltas against acked baselines, across floor swaps that restart the tick count.
  What the client decodes is what the server sent.
* **descent**: deaths, set-pieces and travel requests of several players in a tick that replaces
  the world at most once; saves and restarts.  Place, anchor, chart and budget stay those of one run.
* **command routing**: a sender's id and its queue are read under different locks, while ticks
  swap worlds and parties.  No command is lost on the way in, reordered, or given to another actor.
* **actions**: what is paid for happens once; stuns do not chain; every action ends.
* **combat**: hits, buffs and burns are queued while actors act and resolved when some of them have
  died, expired or gone.  One cast hits a target once, the sheet carries exactly the live statuses,
  a kill pays once and the right one.
* **gear and gems**: items move three at a time with bags that are full; what is worn, cut, levelled
  or toggled is copied onto one sheet or several.  Nothing lost or doubled, and sheets that agree.

## Modules

    Identity <- Lobby <- LobbyProofs              PortalBudget, DelveChart <- Descent
                Lobby <- MCLobby                         Descent <- DescentProofs, MCDescent
    StashBank <- MCStashBank, StashBankProofs    ViewSync <- MCViewSync, ViewSyncProofs
    Routing <- MCRouting, RoutingProofs          Battle <- MCBattle, BattleProofs
    Gear <- MCGear       Gear, Casting <- HeroProofs
    Casting <- MCCasting                         Gems <- MCGems, GemsProofs

An operator marked *Faulty* in a comment is a plausible bug of the definition after it; PROJECT.json
pairs it with the property that rejects it.  No specification uses one.

### Identity and Lobby (`server/identity.go`, `lobby.go`, session part of `server.go`)

`Identity` is the store's part: rosters, the global name index, the active slot, the online flag and
the banked characters, with one operator per store call.  A character is abstracted to the slot it
was loaded from and whether that slot has been deleted since, which is all `BankLandsHome` asks.
`Lobby` extends it with the three kinds of goroutine.  An action is what one goroutine does between
taking and releasing a lock, so `HandleWS` is `ConnectNamed`/`ConnectGuest`, `Place` (or
`PlaceFails`), `QueueJoin`, `Announce`; its end is `ReadExit` (read `c.inst`, unlock) and
`FileLeave` (file with what was read), which a `Transfer` may separate.  A tick is `TickDrain`, one
`TickRemove` and `TickPlayerLeft` for each leave, social verbs, and `TickPublish`; `Identity`'s
`Disconnect` happens in `TickRemove`, the lobby hears of it in `TickPlayerLeft`, and everything may
come between.  `SendFails` is a full send buffer closing the transport, or the writer finding the
socket dead; it files a leave as well.  Time is left out: the reaper's grace is `emptyAt` going from
"recent" to "old" in a step of its own.  Client and instance objects are reused after nothing
refers to them, which keeps the state space finite.

### StashBank (`server/stash.go`, `identity.go` banks, saves)

Where each item is, by identity: ground, bags, `lastChar`, stashes, slots and the file.  Two players
of one instance have accounts with a stash and characters, which are claimed, added and deleted, and
fall for good if they are hardcore (`FellInBattle`, in the run logic of the tick of the death).
`phase` is the last part of the tick in which something has happened: joins and leaves ("idle"), the
commands of Step, the fight, the stash verbs, the run logic, in that order, each optional.  Commands
come in any order, and a drop may be taken in the Step that dropped it, as `DropByID` allows.
The run logic refreshes every `lastChar` and may replace the world, as it does when somebody has died
and the next floor can be built; if it cannot, the dead stay without an actor (`ghosts`).  Saves
happen at any time, because any instance's ticker may trigger them, and may fail.  `dropped` and
`twice` are history: what was dropped in this tick, and what a death has doubled.  Worn equipment goes
the way of the bag and is left out; so are items that crafting consumes (they are in `Gear`), levels,
orbs, checkpoints and memorials.

### ViewSync (`server/server.go` frameFor and readLoop, `protocol/binary.go`, `web/net.js`, `web/client.js`)

One client's view stream, both ends, with frames and acks in flight.  A view is a set of entities, a
delta is a base tick and the two differences.  Swaps and transfers start a generation, in which ticks
count from a small number again; the admin's pause repeats a tick; the rate limit may drop an ack.

### Descent, DelveChart and PortalBudget (`server/descent.go`, `delvemap.go`, `runsave.go`)

`Descent` is one action per outcome of `runTick`: the deaths of a tick come first and end it with an
ejection or the end of the run, otherwise stairs, chart travel, deep starts, the portal, and plants;
all read the set-piece's result of the same tick (`cl`).  `Join`, `Leave`, `Save`, `Load` and
`LoadWorld` (a save from before the envelope) come between ticks.  Charts are constants: any nodes and any edges
between them, so that the theorems hold for whatever `delvemap.go` generates; that ways are mutual and a row
long at most is the assumption `EdgesAreMutual`.  `DelveChart` is how they are generated, for any
draw of the dice, and what of a chart a client is shown (`DelveSnap`, which `MapShowsTheWay` is
about).  `MCDescent` builds its charts with it, and has TLC evaluate `EveryDrawIsSound`: over all
pairs of rows of one to three nodes in five columns and all grants of extra ways, no row is too
small or too large, the first has the entry, no node is a dead end or hangs in the air, and
neighbours are mutual.  (The code has three to five nodes in seven columns, too many pairs to
enumerate; the smaller rows already hold gaps too wide for a way, ties and orphans.)  `PortalBudget` is
what a run promises about its portal, and `BudgetIsKept` says that `Descent` implements it.

### Routing (`server/server.go` readLoop, tick, spawnClient; `descent.go` swapWorld; `lobby.go` transferLocked)

A command carries its sender and a number as history, and the id it was tagged with.  Each
instance's world says who wears each id; ids restart in every world, and monsters wear the low ones.
`Read` and `Enqueue` are the two lock sections of `readLoop`; `Drain`, `Spawn`, `Flush`, `Step`,
`SwapWorld`, `CutOver` and `DropPending` are those of the tick.

### Casting (`sim/sim.go` applyCommands, `sim/skills` AdvanceActions, `sim/core/entity.go`)

One actor and the phases of a tick that it feels: upkeep, its commands, its action, the hits.  A
skill is a cast, a channel or a sequence of stages; its durations are any up to `Longest`, because
they depend on speeds that are bound when it is used.  `debt`, `shut` and `free` are history.

### Gear (`sim/items/equip.go`, `loot.go`, `sim/core/character.go`)

One hero's bag, slots, wallet and sheet, and the drops on the ground.  An item is an id, a base, a
rarity and its affixes; an affix is a name with a group and a level, on every base, without its
value.  Each orb is what it may make of an item.  `Travel` is an extraction and an injection, with
new ids.  Ids are used again once nothing bears them.

### Gems (`sim/items/gems.go`, `sim/core/aura.go`, `gems.go`, `save.go`, `sim/skills`)

The gem bar of a hero, the auras on the hero's sheet and on those of its minions, summons under the
cap, the spawn queue, leaving and coming back, and a save, field by field, that is loaded into a new process (`SavedMods`, `SavedGem`, ...,
`LoadedHero`, `LoadedMinion`).  A hero who is away is not in the file.  Mana
and cooldowns are in `Casting`: here an order may be refused and a cast may wait.

### Battle (`sim/combat`, `sim/skills` projectiles and effect points, `sim/progress`, `sim/core/world.go`)

A tick from the effect points to the sweep: a hero with a minion against foes.  The actions are the
phases of `Step`, with projectiles, buffs and hits one at a time.  What an actor carries of a kind is kept by the
kind: its statuses, and the modifiers on the sheet that name it as their source.  Geometry becomes a choice among the
living of the other team, and dice, stats and energy shield a choice among `Blows`.  A minion may
expire at the start of any tick; a splitter's young come at its end.  What `Gems` says of births and
auras, and `Casting` of when an effect point is reached, is not repeated.

## What the runs show

| run | instance | shows |
|---|---|---|
| MCLobby_sessions | 2 connections, 2 accounts, guests, 2 instances, one hardcore name | types, `OneSession`, `HousedOnce`, `HomesStand`, `OnlineListAgrees` |
| MCLobby_roster | 2 connections, 2 accounts, 2 names, rosters of 2, 2 edits | `NameIndexAgrees`, `BankLandsHome` |
| MCLobby_fair | 2 connections, one session each, fair | `DeadSocketLeaves`, `EmptyInstanceReaped` |
| MCStashBank_party | 2 accounts, soft and hardcore characters, 2 items of which one is owned at first, bag 1, stash 1, 4 moves | types and capacities, `NothingTwice`, `NoOtherLoss`, `CleanFileIsCurrent` |
| MCViewSync_stream | 1 entity, 4 ticks, 2 generations, 2 unacked, history 2, 2 in flight | `DecodesExactly`, `BaselineWasDecoded`, `AnsweredUnlessDropped` |
| MCDescent_run | 2 runs, charts of 4 and 3 nodes in 3 rows, 2 portals, an account and a guest | `PlaceAgrees`, `AnchorStands`, `FrontierWasOpened`, `SaveIsExact`, `MapShowsTheWay`, `DeepStartsCostAPortal` |
| MCDescent_budget | 2 runs from floor 2, failing floors, saves and loads | `BudgetIsKept` |
| MCRouting_party | 2 clients of which 1 sends 2 commands, 2 instances, 1 swap, 1 transfer each, pauses | `EarlyIsFlushed`, `OneStrayAtMost`, `HeardInOrder` |
| MCCasting_ticks | 1 actor, a cast, a channel, 2 stages, durations up to 3, fair | `PaidEffectsHappen`, `NoStunLock`, `CastsEnd` |
| MCGear_hero | 2 items at a time, bag 1, 3 slots, 3 affixes, 1 orb or shard | types and lawful items, `Conserved`, `SheetIsTheGear`, `TravelKeepsTheBuild` |
| MCGems_bar | 2 gems of 3 skills, 2 levels, 2 sockets, 2 minions | types, sockets and cap, `SheetIsTheBuild`, `CastHasItsGem`, `RestoreKeepsTheWorld` |
| MCBattle_fight | hero, minion, a splitter and 2 young, 2 skills used, life 2 or 1 | `StatusesAreOnTheSheet`, `OneCastOneHit`, `PaidOnceToTheRoot` |

**Bounds.**  Two connections, accounts and instances are enough for a session to race its successor
on one account, for a leave to be filed with one instance while its client is in another, and for the
reaper to take the instance somebody is on the way to; the safety properties of that model are proved for any
number.  `Reused` and `GuestConns` say which connection objects may serve several sessions or guests,
and `Slow` which may read too slowly; the liveness run empties them, since it asks about one
connection at a time.  `MaxEdits` = 2 admits a delete and a new claim of the same name, by the other account or by the same.
An item more than the bags and the stash hold (2 items, capacity 1) reaches every limit, and rosters of two one of
them full.  `Loaded` is the file the stash run starts with, so that its four moves (`MaxMoves`: item commands,
departures, claims, characters added or deleted, and crashes, in all) are enough for a drop, a pickup
by the other, the death that doubles it and one more, or for a death, a leave and a crash; ticks, deaths, loot,
banks and saves are not counted.  Two unacked views and two
remembered ones make both prunings happen within four ticks; two generations make a tick number
mean two views.  In `MaxFlight` the third frame waits for the first, which delays a send but loses none.
A chart with a lateral edge in its first row has a node that can be opened in two ways, row 2 makes a
deep start possible, and the third row is the silhouette that a map of the first two must show.  In the budget run only the bookkeeping of the portal matters, so the charts are
stubs.  Two commands can be out of order, one of them early; one swap or transfer each can leave a stray.

A bag of one with two items is full whenever something is equipped over something; two slots of one
family and one of another make `chooseSlot` choose; a wealth of one buys, melts and spends.  Two
gems of three skills force one to be cut over, two levels relevel a running aura, and two minions
under a cap of two or three despawn.  Two skills used suffice for a fan of
two whose second shot arrives after the volley of another cast (a memory of one, where the code has
four, forgets the first), for an ailment that is outdone and one that is not, for a curse that
evicts another, and for a minion's kill in the tick its owner dies of a burn; `MaxEffects` bounds
them, `MaxLife` is low so that every hit may kill.

`SSF` is empty in all runs: the guards on solo-self-found characters are in the model, but no
property is about them (see the disagreements).

**Deadlock.**  Checked in all runs but those whose bounds stop them: roster and fair (no connection
is reused), stream (ticks run out).  In the simulation a tick always follows.

**Fairness** (`Lobby!Fairness`).  Go schedules every runnable goroutine: the handler of a connection
whose socket died goes on (`WF`), as does the kick of a delete.  A ticker makes each instance tick,
and the reaper has one of its own (`WF` of `TickStep`, `GracePasses` and `Reap`).  Once a socket is
dead its reader has filed a leave with one instance; if a transfer took the client elsewhere
meanwhile, the views that instance sends every few ticks fail.  A send is only possible in the part of
the tick when it happens, so its fairness is strong (`SF` of `SendFails`, restricted to connections
whose handler has ended).  No player, socket, admin or slow reader is required to do anything.
`Casting!FairSpec` is weak fairness of the phases of a tick: the ticker calls `Step` for ever.

## What is proved

TLAPS checks these for all values of the constants.

**LobbyProofs** (any finite set of connections; any tokens, names, instances): `TypeCorrect`,
`OneSessionPerAccount`, `HousedInOneLiveInstance`, `HomesAreRegistered`, `OnlineListIsRight`,
`NameIndexIsRight` and `BanksLandHome` are the seven safety properties of the runs.  They follow from
one invariant, `IInv`, which `Invariant` proves inductive with a lemma for each action.  Types and the
properties alone are not inductive, because:

* whether a drained leave may clear the online flag depends on where its connection stands: `Sessions`
  relates a connection's program counter to its token, its instance and the flag, and says that a
  token belongs to one connection at a time;
* a home or a placement survives the reaper only because of what the reaper reads: `Places` ties
  queues, client lists and `inst` together, and `Reaper` says that an instance whose published count
  is zero and whose clock runs has no clients but those a tick is about to publish;
* the name index and the bank agree only if unclaimed slots have no character: `UnmintedIsEmpty`.

**DescentProofs**: `TypeCorrect`, `PlacesAgree`, `AnchorsStand`, `FrontierIsOpened`,
`SavesHoldTheChart` and `MapIsWhole`, from `Invariant`.  They assume `FirstFloorBuilds == MayFail => StartFloor = 0`:
when the first floor of a new run fails to build, the code has already reset the chart while the world is still
the old run's, and place, chart and save disagree until the next swap.  The hideout is assumed to
build.

The same module proves the refinement of `PortalBudget`, `BudgetIsImplemented`, which needs no such
assumption: failed builds, saves, loads and bare worlds included.  `DeepStartsCost` is the action
property that a deep start is granted fewer uses than one from the top, for two portals or more.

**StashBankProofs** (any finite set of items and characters, any players, capacities and moves, any
lawful file to start with): `TypeCorrect`, `CleanIsCurrent`, `NeverTwice` and the action property
`LossesAccounted`.  The only assumption on the data is `Lawful(Loaded)`: the first file holds no item
twice and nothing over its size.  `NothingTwice` is not inductive: a death brings back `lastChar`, an
older copy of the bag.  `Single` is what is, item by item: beside being in one place, an item that is
anywhere has been minted, so that loot is new (`Known`), and a copy that a death may still bring back
holds only what its player carries, or has dropped in this tick and what then is on the ground or in the hand of a
living actor (`Shadowed`), so that what comes back beside its new owner is exactly what `BroughtBack` adds to
`twice`.  `Sitting` is what holds after a crash as well: who has no session has no actor and no copy,
the character in play is on the roster, and between ticks the copy is the bag (`Settled`).  On it rests
`LossesAccounted`, crashes included: a new session overwrites nothing, and an item disappears only
in one of the ways `NoOtherLoss` lists.  The type invariant needs that what is in the file fits
(`Fits`), because a crash loads it.

**ViewSyncProofs** (any entities, histories, pauses and dropped acks): `BaselineDecoded`,
`WaitersAnswered` and `DeltasExact`.  `Frames` says that the last welcome on its way is the server's
generation, and that the views behind it have ascending ticks of this world; `Client`, that the
client has the generation if no welcome is on its way, and then shows nothing newer than what comes;
`Acks`, that an ack of this generation names a view shown since.  Why acks of the world before, with
the same tick numbers, do no harm is the comparison of generations in `readLoop`, and the proof uses
it.  `Answered` follows a client that waits for a keyframe along its request, the server's reset and
the keyframe on its way back.  `Exact` says, without a pause, that a tick of a generation has one
view: the same in the server's history, in a frame and in what the client remembers; a delta
applied to the baseline both know by its tick then gives back what was sent.

**RoutingProofs** (any finite set of clients): `NothingHeldBack`, `HeardOnceInOrder` and
`StraysBounded`.  The first rests on a client of an instance never losing its actor: `Cutting` says
that whoever is still to be cut over has an id in the new world.  The order, `OrderInv`, follows a
client's commands through every place where one may be (held by `readLoop`, early, pending, heard):
each is in one of them, and those of the id now worn are queued in the order they were read.  It
holds while the client has moved to another world at most once, which is what makes the ids in its
commands those of the last world or of this one.  A stray is bounded by `Calm`: a `readLoop` holds one
command (`Quiet`), who has not moved wears the id it tags with (`Wearing`), and a command with a
worn-out id was held when the swap came (`Scarce`).  It is about clients no transfer has moved, since
a transfer takes any number of commands along.

**BattleProofs** (any actors, broods, fans, memory, ailments, curses and durations): `VolleysAreRemembered`,
`SheetsFollowStatuses` and the action property `DeathsPayOnce`, all that the run checks.  `Memories` says that
an actor's ring is the last `Memory` volleys that have damaged it, newest first; that needs
`Deaths`, because a spawn clears the ring: whoever is out stays out until the sweep, and young are unborn until
their splitter is swept.  `Bodies` says that of each kind an actor carries nothing, or one status with its
modifiers, that it carries one curse, and that whoever set a burn is of the other side.  `Ledger` says that the
events of a tick list its dead, each once, every dead foe among them (a minion may have expired without an event), and
that each names a killer of the other side; for deaths by burns that is the last part of `Bodies`, for
deaths by hits it is what the queues hold (`QueuesTyped`).  What `EndTick` earns is then a subset
of a list that is in bijection with the foes it sweeps (`Wages`).

**HeroProofs**, of `Gear` (any finite set of items and affixes, any number of slots, bag sizes, orbs):
`TypeCorrect` (types, lawful items and the wallet's limits), `NothingIsLost`, `SheetCopiesGear` and the
action property `TravelKeepsAll`.  The invariant, `GearInv`, speaks of places and not of numbers:
an id is at one place only (`OneEach`), and what lies there is one of the forms the orbs allow
(`AllLawful`).  What is counted follows, because every operation is a bijection between the places before
and after, apart from the item it makes, sells or melts.  An extraction takes the worn items in the
order of the slots and an injection names them anew; that every item finds a name is an injection from the places
into the ids, and that each lands in its slot again is the rank of a slot among the occupied ones
(`Ranks`).  The only induction is the principle that a set of numbers has a least element (`HasLeast`),
which the library proves; the model selects with `Only` and not with `SelectSeq`, which is recursive, so that the principle is
enough.  `GearAssumption` says that slots have families, that an orb makes a lawful item of a lawful
one, and `NothingIsNoItem` that the empty slot is distinct from every item: both hold of the content tables,
and TLC evaluates them for the run's constants.

The same module proves of `Casting` (any skills and durations): `PaidIsDone` and `StunsDoNotLock`.
`DebtInv` adds to `PaidEffectsHappen`, which computes what an action still owes from its stage and
clock, that the action is one of its skill.  `StunInv` adds up the lockout: ticks whose orders were dropped and
ticks still to drop make one lockout, and the ticks that were heard since are what the immunity has
counted down.

**GemsProofs** (any auras and supports, any number of gems, sockets, levels and minions, any cap that holds
a batch): `TypeCorrect` (the bar, its sockets and the cap), `SheetIsBuild`, `CastsHaveGems` and the action
property `RestoreIsExact`, all that the run checks.  What the auras of a bar amount to is a choice
of a gem for each; `PackageIs` says it without one, since no skill is in the bar twice, and `GemTurns`
what becomes of it when one gem is replaced.  `Sheets` is then inductive: an action either reaches every
living minion (`AuraReaches`) or leaves the package as it is (`GemStays`).  It also says that a hero
who is away owns nobody, so that a return finds no sheet out of date.  The cap (`Crowded`) counts
those alive and those waiting to be born, against one of the gears the hero has worn; in the tick that orders
a batch nothing else is waiting, and the oldest who go make room for it because their ranks are
distinct (`OldestGo`).  A save is taken apart and put together again field by field: `ModsComeBack` (modifiers
by source and order), `GemComesBack` (sockets with empty names among them), `ActionComesBack` and
`MinionComesBack`; that no skill or support has an empty name is `NamesAssumption`.  It leaves nobody out because between ticks nobody is dead (`NoneDead`).
`Standing`, the sweep that keeps order, is stated by ranks for these proofs (`Stands`).

**Only model-checked** are the liveness properties, `DeadSocketLeaves`, `EmptyInstanceReaped` and `CastsEnd`: fairness
and ENABLED are beyond this prover.  So is that the charts of `DelveChart` are sound for every draw
(`EveryDrawIsSound`, over small rows), which `Descent` takes as the assumption on its charts.

## Where the code and its comments disagree

The models follow the code.  No run is devoted to these; they bound what the properties say.

* *A crash between a stash save and a bank*: an item put in the stash is saved there within seconds,
  while the slot keeps the bag of the last bank.  A crash between the two brings back both
  (`server/stash.go:80`); `NothingTwice` is claimed until a crash.
* *Dropped, taken and dead in one tick*: A drops an item, B (with a higher id) picks it up in the same
  Step, which `DropByID` (`sim/core/world.go:272`) allows, and A dies in its fight.  A is injected from
  the copy of the tick before (`server/descent.go`, `swapWorld`) and has the item as well as B.  The
  same happens with what still lies on the ground when the floor A is to wake on cannot be built and A's
  session ends: the copy is banked.  `NothingTwice` excepts exactly these items (`twice`).
* *What is lost*: with the ground of a replaced world; with a pickup in the tick of its taker's death;
  with a deleted slot, the stash included when it was the last; and, since a session outlives its slot
  (a delete that kicks nobody, a hardcore death before the doomed client is closed), with all that such
  a session carries, which its leave banks nowhere.  `NoOtherLoss` is the list.
* *A resumed run without a scenario* has a nil map, and the first floor it has to build ends the
  process (`server/descent.go:150`).
* *Between a transfer and the spawn that completes it*, commands go to the new instance with the id
  of the old world (`server/lobby.go:435`).
* *A delete between Connect and Announce kicks nobody* (`server/lobby.go:174`): the session plays on,
  and what it banks goes nowhere.
* *Solo-self-found* (`server/lobby.go:351`, "no parties, in or out"): the inviter is looked up when the
  invitation is accepted, and may by then have reconnected as a solo-self-found character.
* *Dropped resets*: the client asks for a keyframe once (`web/client.js:137`); if the rate limit
  (`server/server.go:659`) drops it, it waits for ever.  `AnsweredUnlessDropped` says "unless dropped".
* *Pause*: views of a paused world share a tick with different contents, against
  `protocol/binary.go:5`; `DecodesExactly` is claimed until a pause.
* *Strays at a swap*: `server/descent.go:766` clears the queues so that no command crosses, but `readLoop` may
  hold one between its two locks.  `OneStrayAtMost` bounds it.
* *Early commands*: `spawnClient` publishes the id before it queues the early commands, so later ones can
  overtake them (`server/server.go:1142`); `HeardInOrder` is about the others.
* *Order across moves*: a command that was tagged in an instance and is still pending there when its client
  leaves waits for as long as that instance does.  A client that comes back may be given the same id, and
  then the old command is heard after newer ones, against "preserves each client's own command order"
  (`server/server.go:844`); nothing on the way resets the id (`releaseClient`, `transferLocked`).  It takes two moves of one client: `HeardInOrder` claims that
  a command is heard once for any moves, and the order for one.
* *One portal*: with `-portals 1` a deep start costs nothing (`server/descent.go:628`).
* *A failed first floor* leaves the old world under an empty chart; a guardian that falls there marks
  a node below the chart's deepest row, which a save drops (`server/runsave.go:43`).
* *Volleys*: "One cast damages a target once" (`sim/core/entity.go:209`) holds while at most four other
  volleys damage the target in between; `OneCastOneHit` says so.
* *Who is paid*: "a minion's kills are its summoner's" (`sim/progress/progress.go:37`), but a killer
  that died in the same tick is skipped before that, so the kill of a minion that expires or falls
  with its victim pays nobody.  A death by burns is credited to the last burn that ticked.
* *Injection*: "any unknown reference fails before the world is touched" (`sim/core/character.go:164`), but
  passives, skills and supports are resolved after `SpawnActor`; a failure there leaves an actor
  without an owner.  Extraction is a "pure data copy" (`:84`) that shares the flask and orb arrays.
* *Orphans*: `reclaimOrphanPlayers` drops the gear of saved players on the ground while their
  characters are banked with it; minions whose owner has left keep its auras.
* *Stuns* lock out the commands of one tick fewer than `StunLockTicks`, because the upkeep of the
  next tick counts first; an order to use a skill that is then refused still ends a channel.
* *World.Hash* sees neither the modifiers on a sheet nor the skill, aim and gem of an action; two
  worlds that differ in those hash alike.  `RestoreKeepsTheWorld` asks for more than the hash.
* *Replay*: a transfer removes an actor after Step without setting `surgery` (`server/server.go:126`), so the
  segment goes on and no longer reproduces the world.

## What is not modelled, and the plan

What could come next, most useful first:

1. Proofs: that every draw of `DelveChart` makes a sound chart.
2. `Replay`: worlds, segments and surgery; replaying a segment yields the world it was recorded from.
3. `Limits`: the claim window and the token bucket; `AdminOps`: the operation queue against ticks.
4. A* against a reference on small grids, the level curve, the fixed-point division.

Not modelled, with the reason: biomes and node modifiers (decoration drawn from the seed), monster AI and pathfinding (behaviour over geometry), map generation,
separation and collision (geometry), damage arithmetic, stat evaluation and fixed point (numbers that no
property here tells apart), the varint codec and field masks of `protocol/binary.go` (a pure
function of two views; the baselines it depends on are in `ViewSync`), feats, ladder and chat
(write-once records and fan-out), the replay log, the admin dashboard, rate limits, content tables
(data), rendering and input of the web client, command line wiring, cookies and HTTP.
