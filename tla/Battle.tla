------------------------------- MODULE Battle -------------------------------
(***************************************************************************)
(* The combat half of a tick (sim.go, Step): skills that queue hits and    *)
(* buffs (sim/skills), projectiles, buffs and curses, the hit pipeline with *)
(* its ailments (sim/combat), damage over time, timed statuses, what a     *)
(* kill pays (sim/progress), the young of a splitter, and the sweep.       *)
(*                                                                         *)
(* A hero, a minion of the hero's that may expire, and their foes.  Places *)
(* are left out: whom a skill reaches is any choice among the living of    *)
(* the other team.  What a hit does is any of Blows; the dice, the stats   *)
(* and the energy shield are behind that choice.                           *)
(***************************************************************************)
EXTENDS Naturals, FiniteSets, Sequences, SequencesExt

CONSTANTS
  Hero, Minion, Foes,
  Broods,        \* Broods[f]: the foes that spawn from f's corpse
  Knows,         \* Knows[a] \subseteq {"strike", "volley", "hex", "boon"}
  MaxLife,       \* MaxLife[a]
  Hardy,         \* those whose life regenerates
  TypeSeq,       \* damage types that burn over time, in the order a hit applies them
  Stacking,      \* the one of them whose instances stack: Chaos, poison
  DoTTicks,      \* DoTTicks[type]
  Ailments, Curses, Boons,
  StatusTicks,   \* StatusTicks[kind]
  Blows,         \* what a hit that lands may do
  Fans,          \* how projectile skills fire: how many, chains, splash or not
  Memory,        \* slots of RecentVolleys
  MaxEffects,    \* a bound: skills used in a behaviour
  None

Actors == {Hero, Minion} \cup Foes
Kinds == Ailments \cup Curses \cup Boons
Buffs == Curses \cup Boons
Types == ToSet(TypeSeq)

ASSUME BattleAssumption ==
  /\ Hero \notin Foes /\ Minion \notin Foes /\ Hero # Minion /\ None \notin Actors
  /\ IsFiniteSet(Foes) /\ Broods \in [Foes -> SUBSET Foes]
  /\ \A f, g \in Foes : f \notin Broods[f] /\ (f # g => Broods[f] \cap Broods[g] = {})
  /\ Hardy \subseteq Actors
  /\ Knows \in [Actors -> SUBSET {"strike", "volley", "hex", "boon"}]
  /\ TypeSeq \in Seq(Types) /\ DoTTicks \in [Types -> Nat \ {0}]
  /\ StatusTicks \in [Kinds -> Nat \ {0}]
  /\ Ailments \cap Buffs = {} /\ Curses \cap Boons = {}
  /\ MaxLife \in [Actors -> Nat \ {0}] /\ Memory \in Nat \ {0} /\ MaxEffects \in Nat
  /\ Fans \subseteq [n : Nat \ {0}, chains : Nat, splash : BOOLEAN]
  /\ \A b \in Blows :
       /\ b.loss \in Nat /\ b.leech \in BOOLEAN
       /\ b.burns \in [Types -> Nat] /\ b.ails \in [Ailments -> Nat]

VARIABLES
  phase,     \* the phase of Step
  st,        \* st[a]: unborn; in the world; dead and not yet swept; out
  body,      \* body[a]: life, DoTs, timed statuses with their modifiers, RecentVolleys
  xp,        \* Actor.XP of the hero and of the minion, in kills
  shots,     \* World.Projectiles; the first todo are still to move this tick
  todo,
  buffs,     \* World.PendingBuffs
  hits,      \* World.PendingHits
  events,    \* the deaths among this tick's events
  volley,    \* the last volley id minted
  effects,   \* skills used so far
  scars      \* history: scars[a], the volleys that damaged a, in order

vars == <<phase, st, body, xp, shots, todo, buffs, hits, events, volley, effects, scars>>

Here(a) == st[a] \in {"in", "dead"}
Living == {a \in Actors : st[a] = "in"}
Side(a) == IF a \in Foes THEN "foes" ELSE "heroes"
Prey(a) == {t \in Living : Side(t) # Side(a)}

(* The entries of s at the positions K, in their order.                    *)
Only(s, K) ==
  [n \in 1..Cardinality(K) |-> s[CHOOSE k \in K : Cardinality({j \in K : j <= k}) = n]]

(* A tick of the timers: what had one tick left is gone.                   *)
Outlasting(s) == Only([k \in DOMAIN s |-> [s[k] EXCEPT !.left = @ - 1]],
                      {k \in DOMAIN s : s[k].left > 1})

Clear == [statuses |-> <<>>, mods |-> <<>>]
Fresh(a) == [life |-> MaxLife[a], dots |-> <<>>, timed |-> [k \in Kinds |-> Clear], ring |-> <<>>]

-----------------------------------------------------------------------------
(* What an actor carries of one kind: the statuses of that kind, and the   *)
(* modifiers on the sheet that name it as their source.                    *)
Status(kind, mag) == [mag |-> mag, left |-> StatusTicks[kind]]
Granted(e, kind, mag) ==
  [statuses |-> Append(e.statuses, Status(kind, mag)), mods |-> Append(e.mods, mag)]
Outdone(e, mag) == mag = 0 \/ (e.statuses # <<>> /\ mag <= e.statuses[1].mag)

(* Faulty: the stronger ailment's modifiers come on top of the weaker's.   *)
SetStatusOnTop(e, kind, mag) ==
  IF Outdone(e, mag) THEN e
  ELSE IF e.statuses = <<>> THEN Granted(e, kind, mag)
  ELSE [statuses |-> [e.statuses EXCEPT ![1] = Status(kind, mag)], mods |-> Append(e.mods, mag)]

(* setStatus: the strongest wins, and a weaker one does not even refresh.  *)
SetStatus(e, kind, mag) ==
  IF Outdone(e, mag) THEN e
  ELSE IF e.statuses = <<>> THEN Granted(e, kind, mag)
  ELSE [statuses |-> [e.statuses EXCEPT ![1] = Status(kind, mag)], mods |-> <<mag>>]

(* A buff that is already there is refreshed; its modifiers stay.          *)
Refreshed(e, buff) ==
  IF e.statuses = <<>> THEN Granted(e, buff, 1)
  ELSE [e EXCEPT !.statuses[1].left = StatusTicks[buff]]

(* One hex per head: a curse evicts the others, with their modifiers.      *)
Evicted(e) == IF e.statuses = <<>> THEN e ELSE Clear

ApplyBuff(timed, buff) ==
  [k \in Kinds |-> IF k = buff THEN Refreshed(timed[k], buff)
                   ELSE IF {k, buff} \subseteq Curses THEN Evicted(timed[k]) ELSE timed[k]]

(* A burn: poison stacks, of the others the strongest wins.                *)
Burn(type, per, src) == [type |-> type, per |-> per, left |-> DoTTicks[type], src |-> src]
Burned(ds, burns, src) ==
  LET Old(t) == {k \in DOMAIN ds : ds[k].type = t}
      Adds(t) == burns[t] > 0 /\ (t = Stacking \/ Old(t) = {})
  IN [k \in DOMAIN ds |-> LET t == ds[k].type IN
        IF t # Stacking /\ burns[t] > ds[k].per THEN Burn(t, burns[t], src) ELSE ds[k]]
     \o Only([n \in DOMAIN TypeSeq |-> Burn(TypeSeq[n], burns[TypeSeq[n]], src)],
             {n \in DOMAIN TypeSeq : Adds(TypeSeq[n])})

(* The effects after a hit.                                                *)
Afflicted(b, blow, src) ==
  [b EXCEPT !.dots = Burned(@, blow.burns, src),
            !.timed = [k \in Kinds |-> IF k \in Ailments THEN SetStatus(@[k], k, blow.ails[k]) ELSE @[k]]]

-----------------------------------------------------------------------------
(* Faulty: the two siblings of one tick are both let through.              *)
NeverHitByVolley(b, v) == FALSE

(* RecentVolleys: newest first, and short.                                 *)
HitByVolley(b, v) == v # 0 /\ v \in ToSet(b.ring)

MarkVolley(b, v) ==
  IF v = 0 THEN b ELSE [b EXCEPT !.ring = SubSeq(<<v>> \o @, 1, IF Len(@) < Memory THEN Len(@) + 1 ELSE Memory)]

Slain(a, by) == [dier |-> a, killer |-> by]

-----------------------------------------------------------------------------
Init ==
  /\ phase = "idle"
  /\ st = [a \in Actors |-> IF \E f \in Foes : a \in Broods[f] THEN "unborn" ELSE "in"]
  /\ body = [a \in Actors |-> Fresh(a)]
  /\ xp = [a \in {Hero, Minion} |-> 0]
  /\ shots = <<>> /\ todo = 0 /\ buffs = <<>> /\ hits = <<>> /\ events = <<>>
  /\ volley = 0 /\ effects = 0
  /\ scars = [a \in Actors |-> <<>>]

(* BeginTick and Upkeep: life regenerates, and the minion's time may be    *)
(* up.  That is no death: no event, no pay.                                *)
BeginTick ==
  /\ phase = "idle" /\ phase' = "act"
  /\ events' = <<>>
  /\ st' \in {st, [st EXCEPT ![Minion] = IF @ = "in" THEN "dead" ELSE @]}
  /\ body' = [a \in Actors |->
       IF a \in Hardy /\ st'[a] = "in" /\ body[a].life < MaxLife[a]
       THEN [body[a] EXCEPT !.life = @ + 1] ELSE body[a]]
  /\ UNCHANGED <<xp, shots, todo, buffs, hits, volley, effects, scars>>

(* The effect points of AdvanceActions, one at a time.                     *)
Acts(a, skill) ==
  /\ phase = "act" /\ a \in Living /\ skill \in Knows[a]
  /\ effects < MaxEffects /\ effects' = effects + 1
  /\ UNCHANGED <<phase, st, body, xp, todo, events, scars>>

(* Melee, nova, chain and blast: a hit for each of the targets.            *)
Strike(a) ==
  /\ Acts(a, "strike")
  /\ \E T \in SUBSET Prey(a) \ {{}} : \E order \in SetToSeqs(T) :
       hits' = hits \o [k \in DOMAIN order |-> [att |-> a, def |-> order[k], volley |-> 0]]
  /\ UNCHANGED <<shots, buffs, volley>>

(* A fan of two or more shares an id: one cast damages a target once.      *)
LooseVolley(a) ==
  /\ Acts(a, "volley")
  /\ \E f \in Fans :
       LET v == IF f.n > 1 THEN volley + 1 ELSE 0
           p == [src |-> a, volley |-> v, chains |-> f.chains, splash |-> f.splash, struck |-> {}]
       IN /\ volley' = IF f.n > 1 THEN v ELSE volley
          /\ shots' = shots \o [k \in 1..f.n |-> p]
  /\ UNCHANGED <<buffs, hits>>

Curse(a) ==
  /\ Acts(a, "hex")
  /\ \E c \in Curses, T \in SUBSET Prey(a) \ {{}} : \E order \in SetToSeqs(T) :
       buffs' = buffs \o [k \in DOMAIN order |-> [target |-> order[k], buff |-> c]]
  /\ UNCHANGED <<shots, hits, volley>>

BuffSelf(a) ==
  /\ Acts(a, "boon")
  /\ \E b \in Boons : buffs' = Append(buffs, [target |-> a, buff |-> b])
  /\ UNCHANGED <<shots, hits, volley>>

EndActions ==
  /\ phase = "act" /\ phase' = "resolve" /\ todo' = Len(shots)
  /\ UNCHANGED <<st, body, xp, shots, buffs, hits, events, volley, effects, scars>>

-----------------------------------------------------------------------------
(* UpdateProjectiles moves the shots one by one, oldest first.             *)
Flies == phase = "resolve" /\ todo > 0 /\ todo' = todo - 1
InPath(p) == {t \in Prey(p.src) : t \notin p.struck /\ ~HitByVolley(body[t], p.volley)}

FliesOn ==
  /\ Flies
  /\ shots' = Append(Tail(shots), Head(shots))
  /\ UNCHANGED <<phase, st, body, xp, buffs, hits, events, volley, effects, scars>>

(* A wall, or the end of its time.                                         *)
FliesOut ==
  /\ Flies
  /\ shots' = Tail(shots)
  /\ UNCHANGED <<phase, st, body, xp, buffs, hits, events, volley, effects, scars>>

(* A hit on the first in its path, a splash on others near, and a chain    *)
(* from there if a fresh enemy is in reach.                                *)
Impact ==
  /\ Flies
  /\ LET p == Head(shots) IN
     \E t \in InPath(p) : \E Near \in SUBSET (IF p.splash THEN Prey(p.src) \ {t} ELSE {}) :
       /\ hits' = hits \o [k \in 1..(1 + Cardinality(Near)) |->
                     [att |-> p.src, volley |-> p.volley,
                      def |-> IF k = 1 THEN t ELSE SetToSeq(Near)[k - 1]]]
       /\ \/ shots' = Tail(shots)
          \/ /\ p.chains > 0 /\ Prey(p.src) \ (p.struck \cup {t}) # {}
             /\ shots' = Append(Tail(shots), [p EXCEPT !.chains = @ - 1, !.struck = @ \cup {t}])
  /\ UNCHANGED <<phase, st, body, xp, buffs, events, volley, effects, scars>>

(* ResolveBuffs, when the last shot has moved, one buff at a time.         *)
ResolveBuff ==
  /\ phase = "resolve" /\ todo = 0 /\ buffs # <<>>
  /\ LET q == Head(buffs) IN
     body' = IF q.target \in Living THEN [body EXCEPT ![q.target].timed = ApplyBuff(@, q.buff)] ELSE body
  /\ buffs' = Tail(buffs)
  /\ UNCHANGED <<phase, st, xp, shots, todo, hits, events, volley, effects, scars>>

-----------------------------------------------------------------------------
(* ResolveHits, one hit at a time.  An attacker that died this tick still  *)
(* lands its hits; one that is out does not.                               *)
Resolved == phase = "resolve" /\ todo = 0 /\ buffs = <<>>
NextHit(h) == Resolved /\ hits # <<>> /\ h = Head(hits) /\ hits' = Tail(hits)

Counts(h) == Here(h.att) /\ h.def \in Living /\ ~HitByVolley(body[h.def], h.volley)

(* Spent on the dead or on one who remembers its volley, evaded, blocked,  *)
(* or no damage at all.                                                    *)
Fizzle ==
  /\ \E h \in ToSet(hits) : NextHit(h)
  /\ UNCHANGED <<phase, st, body, xp, shots, todo, buffs, events, volley, effects, scars>>

(* What a hit leaves of its target, and the bodies after it.               *)
Hurt(h, blow) ==
  MarkVolley([body[h.def] EXCEPT !.life = IF @ > blow.loss THEN @ - blow.loss ELSE 0], h.volley)
Falls(h, blow) == Hurt(h, blow).life = 0
Struck(h, blow) ==
  LET b == Hurt(h, blow) IN [body EXCEPT ![h.def] = IF b.life = 0 THEN b ELSE Afflicted(b, blow, h.att)]
Leeches(h, blow) == blow.leech /\ h.att \in Living /\ body[h.att].life < MaxLife[h.att]

Land ==
  \E h \in ToSet(hits), blow \in Blows :
    /\ NextHit(h) /\ Counts(h)
    /\ body' = IF Leeches(h, blow) THEN [Struck(h, blow) EXCEPT ![h.att].life = @ + 1] ELSE Struck(h, blow)
    /\ IF Falls(h, blow)
       THEN st' = [st EXCEPT ![h.def] = "dead"] /\ events' = Append(events, Slain(h.def, h.att))
       ELSE UNCHANGED <<st, events>>
    /\ scars' = IF h.volley = 0 THEN scars ELSE [scars EXCEPT ![h.def] = Append(@, h.volley)]
    /\ UNCHANGED <<phase, xp, shots, todo, buffs, volley, effects>>

-----------------------------------------------------------------------------
(* TickDoTs: all of an actor's burns tick, and if it falls the last of     *)
(* them is its killer.  Resistance and shield may take all of it.          *)
Heat(a) == FoldSeq(LAMBDA d, sum : sum + d.per, 0, body[a].dots)
Burning == {a \in Living : body[a].dots # <<>>}

TickDoTs ==
  /\ Resolved /\ hits = <<>> /\ phase' = "statuses"
  /\ \E Shielded \in SUBSET Burning :
       LET left(a) == IF a \in Shielded THEN body[a].life
                      ELSE IF body[a].life > Heat(a) THEN body[a].life - Heat(a) ELSE 0
           Fall == {a \in Burning : left(a) = 0}
       IN /\ body' = [a \in Actors |-> IF a \notin Burning THEN body[a] ELSE
               [body[a] EXCEPT !.life = left(a), !.dots = Outlasting(@)]]
          /\ st' = [a \in Actors |-> IF a \in Fall THEN "dead" ELSE st[a]]
          /\ events' = events \o
               [k \in 1..Cardinality(Fall) |->
                  LET a == SetToSeq(Fall)[k] IN Slain(a, Last(body[a].dots).src)]
  /\ UNCHANGED <<xp, shots, todo, buffs, hits, volley, effects, scars>>

(* TickStatuses: at its end a status takes its modifiers off the sheet.    *)
TickedOff(e) ==
  [statuses |-> Outlasting(e.statuses),
   mods |-> IF \E k \in DOMAIN e.statuses : e.statuses[k].left = 1 THEN <<>> ELSE e.mods]

TickStatuses ==
  /\ phase = "statuses" /\ phase' = "pay"
  /\ body' = [a \in Actors |-> IF a \in Living
       THEN [body[a] EXCEPT !.timed = [k \in Kinds |-> TickedOff(@[k])]] ELSE body[a]]
  /\ UNCHANGED <<st, xp, shots, todo, buffs, hits, events, volley, effects, scars>>

-----------------------------------------------------------------------------
(* Faulty: the killer is paid, whoever it belongs to.                      *)
CreditForKiller(killer) == killer

(* CreditFor: a minion's kills are its summoner's while that one lives.    *)
CreditFor(killer) == IF killer = Minion /\ Hero \in Living THEN Hero ELSE killer

(* Whom a death pays: nobody, if the killer is gone or died in this tick.  *)
Payee(e) == IF e.killer \in Living /\ Side(e.killer) # Side(e.dier)
            THEN CreditFor(e.killer) ELSE None
Earned(a) == Cardinality({k \in DOMAIN events : Payee(events[k]) = a})

(* AwardXP, with the refill of a level gained; queueDeathSpawns and        *)
(* DrainSpawns, or no room for the young; EndTick sweeps the dead, their   *)
(* shots fly on.                                                           *)
EndTick ==
  /\ phase = "pay" /\ phase' = "idle"
  /\ xp' = [a \in {Hero, Minion} |-> xp[a] + Earned(a)]
  /\ \E Dinged \in SUBSET {a \in {Hero, Minion} : Earned(a) > 0},
        Born \in SUBSET UNION {Broods[f] : f \in Foes \cap {events[k].dier : k \in DOMAIN events}} :
       /\ body' = [a \in Actors |->
            IF a \in Dinged THEN [body[a] EXCEPT !.life = MaxLife[a]]
            ELSE IF st[a] = "dead" THEN Fresh(a) ELSE body[a]]
       /\ st' = [a \in Actors |-> IF a \in Born THEN "in" ELSE IF st[a] = "dead" THEN "out" ELSE st[a]]
  /\ UNCHANGED <<shots, todo, buffs, hits, events, volley, effects, scars>>

Next ==
  \/ BeginTick
  \/ \E a \in Actors : Strike(a) \/ LooseVolley(a) \/ Curse(a) \/ BuffSelf(a)
  \/ EndActions
  \/ FliesOn \/ FliesOut \/ Impact
  \/ ResolveBuff
  \/ Fizzle \/ Land
  \/ TickDoTs \/ TickStatuses
  \/ EndTick

Spec == Init /\ [][Next]_vars

-----------------------------------------------------------------------------
(* The modifiers that timed statuses left on an actor's sheet are those of *)
(* its statuses: each package once and at the magnitude of the status,     *)
(* none of a status that ended, was evicted or was outdone; and an actor   *)
(* carries one status of a kind and one curse.                             *)
StatusesAreOnTheSheet ==
  \A a \in Living :
    /\ \A k \in Kinds : LET e == body[a].timed[k] IN
         /\ Len(e.statuses) <= 1
         /\ e.mods = [n \in DOMAIN e.statuses |-> e.statuses[n].mag]
    /\ Cardinality({c \in Curses : body[a].timed[c].statuses # <<>>}) <= 1

(* One cast damages a target once, however its projectiles, their splash   *)
(* and their chains arrive, as long as the target remembers the volley: it *)
(* may again when Memory other volleys have damaged the target since.      *)
OneCastOneHit ==
  \A a \in Actors : \A i, j \in DOMAIN scars[a] :
    i < j /\ scars[a][i] = scars[a][j] => j - i > Memory

(* A foe pays at most once, and in the tick it falls: everything to the    *)
(* hero when hero and minion both live through that tick, and to the       *)
(* minion only when the hero does not.                                     *)
PaidOnceToTheRoot ==
  [][LET Swept == {f \in Foes : st[f] = "dead" /\ st'[f] = "out"} IN
     /\ xp'[Hero] + xp'[Minion] <= xp[Hero] + xp[Minion] + Cardinality(Swept)
     /\ {Hero, Minion} \subseteq Living => xp'[Hero] = xp[Hero] + Cardinality(Swept)
     /\ Hero \in Living => xp'[Minion] = xp[Minion]]_vars
=============================================================================
