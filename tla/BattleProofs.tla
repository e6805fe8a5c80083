---------------------------- MODULE BattleProofs ----------------------------
(* A theorem about Battle, for any actors, broods, blows, fans and memory. *)
EXTENDS Battle, FiniteSetTheorems, TLAPS

(***************************************************************************)
(* What is queued has the shape that the phases after it read.             *)
(***************************************************************************)
Hits == {h \in [att : Actors, def : Actors, volley : Nat] : Side(h.att) # Side(h.def)}
Shots == [src : Actors, volley : Nat, chains : Nat, splash : BOOLEAN, struck : SUBSET Actors]
Spells == [target : Actors, buff : Buffs]

QueuesTyped ==
  /\ volley \in Nat /\ hits \in Seq(Hits) /\ shots \in Seq(Shots) /\ buffs \in Seq(Spells)
  /\ phase = "resolve" => todo \in 0..Len(shots)

LEMMA ActorsAreFinite ==
  ASSUME NEW T \in SUBSET Actors
  PROVE  IsFiniteSet(T) /\ Cardinality(T) \in Nat
<1>1. IsFiniteSet(Foes \cup {Hero} \cup {Minion})
  BY FS_AddElement, BattleAssumption
<1>2. Foes \cup {Hero} \cup {Minion} = Actors
  BY DEF Actors
<1>3. IsFiniteSet(T)
  BY <1>1, <1>2, FS_Subset
<1> QED
  BY <1>3, FS_CardinalityType

(* SetToSeq lists a finite set. *)
LEMMA ListedOnce ==
  ASSUME NEW T \in SUBSET Actors
  PROVE  /\ SetToSeq(T) \in [1..Cardinality(T) -> T]
         /\ \A i, j \in 1..Cardinality(T) : SetToSeq(T)[i] = SetToSeq(T)[j] => i = j
         /\ \A t \in T : \E k \in 1..Cardinality(T) : SetToSeq(T)[k] = t
<1> DEFINE n == Cardinality(T)
           s == SetToSeq(T)
<1>1. IsFiniteSet(T) /\ n \in Nat /\ ExistsBijection(1..n, T)
  BY ActorsAreFinite, FS_CardinalityType
<1>2. \E f \in [1..n -> T] : IsInjective(f)
  BY <1>1 DEF ExistsBijection, Bijection, Injection, IsInjective
<1>3. s \in [1..n -> T] /\ IsInjective(s)
  BY <1>2 DEF SetToSeq
<1> HIDE DEF s
<1>4. s \in Injection(1..n, T)
  BY <1>3 DEF Injection
<1>5. IsFiniteSet(1..n) /\ Cardinality(1..n) = n
  BY <1>1, FS_Interval
<1> HIDE DEF n
<1>6. s \in Surjection(1..n, T)
  BY <1>1, <1>4, <1>5, FS_Injection DEF n
<1>7. (\A i, j \in 1..n : s[i] = s[j] => i = j) /\ \A t \in T : \E k \in 1..n : s[k] = t
  BY <1>3, <1>6 DEF IsInjective, Surjection
<1> QED
  BY <1>3, <1>7 DEF n, s

(* A list of a known length is a sequence. *)
LEMMA Lists ==
  ASSUME NEW S, NEW n \in Nat, NEW f \in [1..n -> S]
  PROVE  f \in Seq(S) /\ Len(f) = n
OBVIOUS

(* A shot that chains on is a shot. *)
LEMMA ChainsOn ==
  ASSUME NEW p \in Shots, NEW t \in Actors, p.chains > 0
  PROVE  [p EXCEPT !.chains = @ - 1, !.struck = @ \cup {t}] \in Shots
<1>1. p.chains - 1 \in Nat /\ p.struck \cup {t} \in SUBSET Actors
  BY DEF Shots
<1>2. ASSUME NEW c \in Nat, NEW k \in SUBSET Actors
      PROVE  [p EXCEPT !.chains = c, !.struck = k] \in Shots
  BY DEF Shots
<1> QED
  BY <1>1, <1>2

LEMMA QueuesInit == Init => QueuesTyped
BY DEF Init, QueuesTyped

LEMMA QueuesStep ==
  ASSUME QueuesTyped, [Next]_vars
  PROVE  QueuesTyped'
<1> USE DEF QueuesTyped
<1>1. CASE UNCHANGED <<phase, todo, volley, hits, shots, buffs>>
  BY <1>1
<1>2. ASSUME NEW a \in Actors, Strike(a)
      PROVE  QueuesTyped'
  <2>0. PICK T \in SUBSET Prey(a) \ {{}} : \E order \in SetToSeqs(T) :
          hits' = hits \o [k \in DOMAIN order |-> [att |-> a, def |-> order[k], volley |-> 0]]
    BY <1>2 DEF Strike
  <2>1. PICK order \in SetToSeqs(T) :
          hits' = hits \o [k \in DOMAIN order |-> [att |-> a, def |-> order[k], volley |-> 0]]
    BY <2>0
  <2>2. T \in SUBSET Actors /\ \A t \in T : Side(t) # Side(a)
    BY DEF Prey, Living
  <2>3. Cardinality(T) \in Nat /\ order \in [1..Cardinality(T) -> T]
    BY <2>2, ActorsAreFinite DEF SetToSeqs
  <2> DEFINE new == [k \in DOMAIN order |-> [att |-> a, def |-> order[k], volley |-> 0]]
  <2>4. new \in [1..Cardinality(T) -> Hits]
    BY <2>2, <2>3 DEF Hits
  <2>5. new \in Seq(Hits)
    BY <2>3, <2>4, Lists
  <2> HIDE DEF new
  <2>6. hits \o new \in Seq(Hits)
    BY <2>5
  <2> QED
    BY <1>2, <2>1, <2>6 DEF Strike, Acts, new
<1>3. ASSUME NEW a \in Actors, LooseVolley(a)
      PROVE  QueuesTyped'
  <2>1. PICK f \in Fans :
          LET v == IF f.n > 1 THEN volley + 1 ELSE 0
              p == [src |-> a, volley |-> v, chains |-> f.chains, splash |-> f.splash, struck |-> {}]
          IN /\ volley' = IF f.n > 1 THEN v ELSE volley
             /\ shots' = shots \o [k \in 1..f.n |-> p]
    BY <1>3 DEF LooseVolley
  <2> DEFINE v == IF f.n > 1 THEN volley + 1 ELSE 0
             p == [src |-> a, volley |-> v, chains |-> f.chains, splash |-> f.splash, struck |-> {}]
             new == [k \in 1..f.n |-> p]
  <2>2. f.n \in Nat /\ f.chains \in Nat /\ f.splash \in BOOLEAN
    BY BattleAssumption
  <2>3. v \in Nat /\ volley' \in Nat
    BY <2>1, <2>2
  <2>4. p \in Shots
    BY <2>2, <2>3 DEF Shots
  <2>5. new \in Seq(Shots)
    <3> HIDE DEF p
    <3>1. new \in [1..f.n -> Shots]
      BY <2>4
    <3> HIDE DEF new
    <3> QED
      BY <2>2, <3>1, Lists
  <2>6. shots' = shots \o new
    BY <2>1
  <2>7. shots' \in Seq(Shots)
    <3> HIDE DEF new
    <3> QED
      BY <2>5, <2>6
  <2>8. phase' = "act" /\ hits' = hits /\ buffs' = buffs
    BY <1>3 DEF LooseVolley, Acts
  <2> QED
    BY <2>3, <2>7, <2>8
<1>4. CASE FliesOn \/ FliesOut
  <2>1. Head(shots) \in Shots /\ Tail(shots) \in Seq(Shots) /\ Len(Tail(shots)) = Len(shots) - 1
    BY <1>4 DEF FliesOn, FliesOut, Flies
  <2>2. Append(Tail(shots), Head(shots)) \in Seq(Shots)
        /\ Len(Append(Tail(shots), Head(shots))) = Len(shots)
    BY <2>1
  <2>3. volley' = volley /\ hits' = hits /\ buffs' = buffs /\ todo' = todo - 1 /\ phase = "resolve" /\ todo > 0
    BY <1>4 DEF FliesOn, FliesOut, Flies
  <2>4. CASE shots' = Append(Tail(shots), Head(shots))
    BY <2>2, <2>3, <2>4
  <2>5. CASE shots' = Tail(shots)
    BY <2>1, <2>3, <2>5
  <2> QED
    BY <1>4, <2>4, <2>5 DEF FliesOn, FliesOut
<1>5. CASE Impact
  <2> DEFINE p == Head(shots)
  <2>1. p \in Shots /\ Tail(shots) \in Seq(Shots) /\ Len(Tail(shots)) = Len(shots) - 1
    BY <1>5 DEF Impact, Flies
  <2>2. PICK t \in InPath(p) : \E Near \in SUBSET (IF p.splash THEN Prey(p.src) \ {t} ELSE {}) :
          /\ hits' = hits \o [k \in 1..(1 + Cardinality(Near)) |->
                       [att |-> p.src, volley |-> p.volley,
                        def |-> IF k = 1 THEN t ELSE SetToSeq(Near)[k - 1]]]
          /\ \/ shots' = Tail(shots)
             \/ /\ p.chains > 0 /\ Prey(p.src) \ (p.struck \cup {t}) # {}
                /\ shots' = Append(Tail(shots), [p EXCEPT !.chains = @ - 1, !.struck = @ \cup {t}])
    BY <1>5 DEF Impact
  <2>3. PICK Near \in SUBSET (IF p.splash THEN Prey(p.src) \ {t} ELSE {}) :
          /\ hits' = hits \o [k \in 1..(1 + Cardinality(Near)) |->
                       [att |-> p.src, volley |-> p.volley,
                        def |-> IF k = 1 THEN t ELSE SetToSeq(Near)[k - 1]]]
          /\ \/ shots' = Tail(shots)
             \/ /\ p.chains > 0 /\ Prey(p.src) \ (p.struck \cup {t}) # {}
                /\ shots' = Append(Tail(shots), [p EXCEPT !.chains = @ - 1, !.struck = @ \cup {t}])
    BY <2>2
  <2> DEFINE n == 1 + Cardinality(Near)
             new == [k \in 1..n |-> [att |-> p.src, volley |-> p.volley,
                                     def |-> IF k = 1 THEN t ELSE SetToSeq(Near)[k - 1]]]
  <2>4. /\ t \in Actors /\ Near \in SUBSET Actors /\ Side(t) # Side(p.src)
        /\ \A u \in Near : Side(u) # Side(p.src)
    BY DEF InPath, Prey, Living
  <2>5. n \in Nat /\ \A k \in 2..n : SetToSeq(Near)[k - 1] \in Near
    <3>1. Near \in SUBSET Actors
      BY <2>4
    <3>2. Cardinality(Near) \in Nat /\ SetToSeq(Near) \in [1..Cardinality(Near) -> Near]
      BY <3>1, ListedOnce, ActorsAreFinite
    <3>3. \A k \in 2..(1 + Cardinality(Near)) : k - 1 \in 1..Cardinality(Near)
      BY <3>2
    <3>4. n \in Nat
      BY <3>2
    <3>5. ASSUME NEW k \in 2..n
          PROVE  SetToSeq(Near)[k - 1] \in Near
      <4>1. k - 1 \in 1..Cardinality(Near)
        BY <3>3
      <4> QED
        BY <3>2, <4>1
    <3> QED
      BY <3>4, <3>5
  <2>6. hits' \in Seq(Hits)
    <3> HIDE DEF p, n
    <3>1. new \in [1..n -> Hits]
      BY <2>1, <2>4, <2>5 DEF Hits, Shots
    <3>2. new \in Seq(Hits)
      BY <2>5, <3>1, Lists
    <3>3. hits' = hits \o new
      BY <2>3 DEF n, p
    <3> HIDE DEF new
    <3> QED
      BY <3>2, <3>3
  <2>7. CASE shots' = Tail(shots)
    BY <1>5, <2>1, <2>6, <2>7 DEF Impact, Flies
  <2>8. CASE /\ p.chains > 0
             /\ shots' = Append(Tail(shots), [p EXCEPT !.chains = @ - 1, !.struck = @ \cup {t}])
    <3>1. [p EXCEPT !.chains = @ - 1, !.struck = @ \cup {t}] \in Shots
      <4> HIDE DEF p
      <4> QED
        BY <2>1, <2>4, <2>8, ChainsOn
    <3>2. shots' \in Seq(Shots) /\ Len(shots') = Len(shots)
      <4> HIDE DEF p
      <4> QED
        BY <2>1, <2>8, <3>1
    <3> QED
      BY <1>5, <2>6, <3>2 DEF Impact, Flies
  <2> QED
    BY <2>3, <2>7, <2>8
<1>6. CASE EndActions
  BY <1>6 DEF EndActions
<1>7. ASSUME NEW h \in ToSet(hits), NextHit(h), UNCHANGED <<phase, todo, volley, shots, buffs>>
      PROVE  QueuesTyped'
  BY <1>7 DEF NextHit, Resolved
<1>8. CASE BeginTick \/ TickDoTs \/ TickStatuses \/ EndTick
  BY <1>8 DEF BeginTick, TickDoTs, TickStatuses, EndTick
<1>9. CASE ResolveBuff
  BY <1>9 DEF ResolveBuff
<1>10. ASSUME NEW a \in Actors, Curse(a)
      PROVE  QueuesTyped'
  <2>0. PICK c \in Curses, T \in SUBSET Prey(a) \ {{}} : \E order \in SetToSeqs(T) :
          buffs' = buffs \o [k \in DOMAIN order |-> [target |-> order[k], buff |-> c]]
    BY <1>10 DEF Curse
  <2>1. PICK order \in SetToSeqs(T) :
          buffs' = buffs \o [k \in DOMAIN order |-> [target |-> order[k], buff |-> c]]
    BY <2>0
  <2>2. T \in SUBSET Actors
    BY DEF Prey, Living
  <2>3. Cardinality(T) \in Nat /\ order \in [1..Cardinality(T) -> T]
    BY <2>2, ActorsAreFinite DEF SetToSeqs
  <2> DEFINE new == [k \in DOMAIN order |-> [target |-> order[k], buff |-> c]]
  <2>4. new \in [1..Cardinality(T) -> Spells]
    BY <2>2, <2>3 DEF Spells, Buffs
  <2>5. new \in Seq(Spells)
    BY <2>3, <2>4, Lists
  <2>6. buffs' = buffs \o new
    BY <2>1
  <2> HIDE DEF new
  <2>7. buffs' \in Seq(Spells)
    BY <2>5, <2>6
  <2> QED
    BY <1>10, <2>7 DEF Curse, Acts
<1>11. ASSUME NEW a \in Actors, BuffSelf(a)
      PROVE  QueuesTyped'
  <2>1. PICK b \in Boons : buffs' = Append(buffs, [target |-> a, buff |-> b])
    BY <1>11 DEF BuffSelf
  <2>2. [target |-> a, buff |-> b] \in Spells
    BY DEF Spells, Buffs
  <2>3. buffs' \in Seq(Spells)
    BY <2>1, <2>2
  <2> QED
    BY <1>11, <2>3 DEF BuffSelf, Acts
<1> QED
  BY <1>1, <1>2, <1>3, <1>4, <1>5, <1>6, <1>7, <1>8, <1>9, <1>10, <1>11
  DEF Next, vars, Fizzle, Land

(***************************************************************************)
(* The dead of this tick stay dead until the sweep, and a corpse is swept  *)
(* once: the young of a foe are unborn until then, so nobody who is out    *)
(* returns.                                                                *)
(***************************************************************************)
IsList(s) == \E S : s \in Seq(S)

Deaths ==
  /\ st \in [Actors -> {"unborn", "in", "dead", "out"}]
  /\ IsList(events)
  /\ phase # "idle" => \A k \in DOMAIN events :
                         events[k].dier \in Actors /\ st[events[k].dier] = "dead"
  /\ \A f \in Foes : st[f] # "out" => \A g \in Broods[f] : st[g] = "unborn"

LEMMA WiderSeq ==
  ASSUME NEW A, NEW B, A \subseteq B, NEW s \in Seq(A)
  PROVE  s \in Seq(B)
<1>1. Len(s) \in Nat /\ s \in [1..Len(s) -> A]
  OBVIOUS
<1> DEFINE n == Len(s)
<1>2. s \in [1..n -> B]
  BY <1>1
<1> HIDE DEF n
<1> QED
  BY <1>1, <1>2, Lists DEF n

LEMMA ListsJoin ==
  ASSUME NEW s, NEW t, IsList(s), IsList(t)
  PROVE  /\ IsList(s \o t)
         /\ \A k \in DOMAIN (s \o t) : \/ k \in DOMAIN s /\ (s \o t)[k] = s[k]
                                       \/ \E j \in DOMAIN t : (s \o t)[k] = t[j]
<1>1. PICK S : s \in Seq(S)
  BY DEF IsList
<1>2. PICK T : t \in Seq(T)
  BY DEF IsList
<1>3. s \in Seq(S \cup T) /\ t \in Seq(S \cup T)
  BY <1>1, <1>2, WiderSeq
<1>4. s \o t \in Seq(S \cup T) /\ Len(s \o t) = Len(s) + Len(t)
  BY <1>3
<1>5. ASSUME NEW k \in DOMAIN (s \o t)
      PROVE  \/ k \in DOMAIN s /\ (s \o t)[k] = s[k]
             \/ \E j \in DOMAIN t : (s \o t)[k] = t[j]
  <2>1. k \in 1..(Len(s) + Len(t))
    BY <1>4
  <2>2. CASE k <= Len(s)
    BY <1>3, <2>1, <2>2
  <2>3. CASE k > Len(s)
    <3>1. k - Len(s) \in DOMAIN t /\ (s \o t)[k] = t[k - Len(s)]
      BY <1>3, <2>1, <2>3
    <3> QED
      BY <3>1
  <2> QED
    BY <1>3, <2>1, <2>2, <2>3
<1> QED
  BY <1>4, <1>5 DEF IsList

LEMMA ListGrows ==
  ASSUME NEW s, NEW e, IsList(s)
  PROVE  /\ IsList(Append(s, e))
         /\ \A k \in DOMAIN Append(s, e) : \/ k \in DOMAIN s /\ Append(s, e)[k] = s[k]
                                           \/ Append(s, e)[k] = e
<1>1. PICK S : s \in Seq(S)
  BY DEF IsList
<1>2. s \in Seq(S \cup {e})
  BY <1>1, WiderSeq
<1>3. Append(s, e) \in Seq(S \cup {e})
  BY <1>2
<1> QED
  BY <1>2, <1>3 DEF IsList

LEMMA DeathsInit == Init => Deaths
<1> SUFFICES ASSUME Init PROVE Deaths
  OBVIOUS
<1>1. IsList(events)
  BY DEF Init, IsList
<1>2. st \in [Actors -> {"unborn", "in", "dead", "out"}]
  BY DEF Init
<1>3. ASSUME NEW f \in Foes, NEW g \in Broods[f]
      PROVE  st[g] = "unborn"
  <2>1. g \in Actors
    BY BattleAssumption DEF Actors
  <2> QED
    BY <2>1 DEF Init
<1> QED
  BY <1>1, <1>2, <1>3 DEF Init, Deaths

(* A phase in which some of the living fall. *)
LEMMA SomeFall ==
  ASSUME Deaths, IsList(events'), NEW Fall \in SUBSET Living,
         \A a \in Actors : st'[a] = IF a \in Fall THEN "dead" ELSE st[a],
         st' \in [Actors -> {"unborn", "in", "dead", "out"}],
         \A k \in DOMAIN events' :
           \/ phase # "idle" /\ k \in DOMAIN events /\ events'[k] = events[k]
           \/ events'[k].dier \in Fall
  PROVE  Deaths'
<1>1. \A k \in DOMAIN events' : events'[k].dier \in Actors /\ st'[events'[k].dier] = "dead"
  BY DEF Deaths, Living
<1>2. ASSUME NEW f \in Foes, st'[f] # "out", NEW g \in Broods[f]
      PROVE  st'[g] = "unborn"
  <2>1. f \in Actors /\ g \in Actors
    BY BattleAssumption DEF Actors
  <2>2. st[f] # "out"
    BY <1>2, <2>1 DEF Living
  <2>3. st[g] = "unborn"
    BY <2>2 DEF Deaths
  <2> QED
    BY <2>1, <2>3 DEF Living
<1> QED
  BY <1>1, <1>2 DEF Deaths

LEMMA DeathsStep ==
  ASSUME Deaths, [Next]_vars
  PROVE  Deaths'
<1>1. CASE UNCHANGED <<st, events>> /\ (phase' # "idle" => phase # "idle")
  BY <1>1 DEF Deaths
<1>2. CASE BeginTick
  <2> DEFINE Fall == {a \in Living : st'[a] # st[a]}
  <2>1. st' \in {st, [st EXCEPT ![Minion] = IF @ = "in" THEN "dead" ELSE @]}
    BY <1>2 DEF BeginTick
  <2>2. /\ st' \in [Actors -> {"unborn", "in", "dead", "out"}]
        /\ \A a \in Actors : st'[a] = IF a \in Fall THEN "dead" ELSE st[a]
    BY <2>1 DEF Deaths, Living, Actors
  <2>3. IsList(events') /\ DOMAIN events' = {}
    BY <1>2 DEF BeginTick, IsList
  <2> QED
    BY <2>2, <2>3, SomeFall
<1>3. CASE Land
  <2>1. PICK h \in ToSet(hits), blow \in Blows :
          /\ NextHit(h) /\ Counts(h) /\ phase' = phase
          /\ IF Falls(h, blow)
             THEN st' = [st EXCEPT ![h.def] = "dead"] /\ events' = Append(events, Slain(h.def, h.att))
             ELSE UNCHANGED <<st, events>>
    BY <1>3 DEF Land
  <2>2. h.def \in Living /\ phase = "resolve" /\ phase' = phase
    BY <2>1 DEF Counts, NextHit, Resolved
  <2>3. CASE st' = st /\ events' = events
    BY <1>1, <2>2, <2>3
  <2>4. CASE /\ st' = [st EXCEPT ![h.def] = "dead"]
             /\ events' = Append(events, Slain(h.def, h.att))
    <3>1. /\ st' \in [Actors -> {"unborn", "in", "dead", "out"}]
          /\ \A a \in Actors : st'[a] = IF a \in {h.def} THEN "dead" ELSE st[a]
      BY <2>4 DEF Deaths
    <3>2. /\ IsList(events')
          /\ \A k \in DOMAIN events' : \/ k \in DOMAIN events /\ events'[k] = events[k]
                                       \/ events'[k] = Slain(h.def, h.att)
      BY <2>4, ListGrows DEF Deaths
    <3>3. Slain(h.def, h.att).dier = h.def
      BY DEF Slain
    <3> QED
      BY <2>2, <3>1, <3>2, <3>3, SomeFall
  <2> QED
    BY <2>1, <2>3, <2>4
<1>4. CASE TickDoTs
  <2>1. PICK Fall \in SUBSET Burning :
          /\ st' = [a \in Actors |-> IF a \in Fall THEN "dead" ELSE st[a]]
          /\ events' = events \o
               [k \in 1..Cardinality(Fall) |->
                  LET a == SetToSeq(Fall)[k] IN Slain(a, Last(body[a].dots).src)]
    <3>1. PICK Shielded \in SUBSET Burning :
            LET left(a) == IF a \in Shielded THEN body[a].life
                           ELSE IF body[a].life > Heat(a) THEN body[a].life - Heat(a) ELSE 0
                Fall == {a \in Burning : left(a) = 0}
            IN /\ st' = [a \in Actors |-> IF a \in Fall THEN "dead" ELSE st[a]]
               /\ events' = events \o
                    [k \in 1..Cardinality(Fall) |->
                       LET a == SetToSeq(Fall)[k] IN Slain(a, Last(body[a].dots).src)]
      BY <1>4 DEF TickDoTs
    <3> DEFINE Fall == {a \in Burning : (IF a \in Shielded THEN body[a].life
                           ELSE IF body[a].life > Heat(a) THEN body[a].life - Heat(a) ELSE 0) = 0}
    <3>2. /\ st' = [a \in Actors |-> IF a \in Fall THEN "dead" ELSE st[a]]
          /\ events' = events \o
               [k \in 1..Cardinality(Fall) |->
                  LET a == SetToSeq(Fall)[k] IN Slain(a, Last(body[a].dots).src)]
      BY <3>1
    <3> HIDE DEF Fall
    <3>3. Fall \in SUBSET Burning
      BY DEF Fall
    <3> QED
      BY <3>2, <3>3
  <2> DEFINE new == [k \in 1..Cardinality(Fall) |->
                      LET a == SetToSeq(Fall)[k] IN Slain(a, Last(body[a].dots).src)]
  <2>2. Fall \in SUBSET Living /\ Fall \in SUBSET Actors
    BY DEF Burning, Living
  <2>3. Cardinality(Fall) \in Nat /\ SetToSeq(Fall) \in [1..Cardinality(Fall) -> Fall]
    BY <2>2, ActorsAreFinite, ListedOnce
  <2>4. \A k \in DOMAIN new : new[k].dier \in Fall
    BY <2>3 DEF Slain
  <2>5. IsList(new)
    <3> DEFINE S == {new[k] : k \in 1..Cardinality(Fall)}
    <3>1. new \in [1..Cardinality(Fall) -> S]
      OBVIOUS
    <3> HIDE DEF new, S
    <3> QED
      BY <2>3, <3>1, Lists DEF IsList
  <2>6. events' = events \o new
    BY <2>1
  <2> HIDE DEF new
  <2>7. /\ IsList(events')
        /\ \A k \in DOMAIN events' : \/ k \in DOMAIN events /\ events'[k] = events[k]
                                     \/ events'[k].dier \in Fall
    BY <2>4, <2>5, <2>6, ListsJoin DEF Deaths
  <2>8. phase # "idle"
    BY <1>4 DEF TickDoTs, Resolved
  <2>9. st' \in [Actors -> {"unborn", "in", "dead", "out"}]
    BY <2>1 DEF Deaths
  <2>10. \A a \in Actors : st'[a] = IF a \in Fall THEN "dead" ELSE st[a]
    BY <2>1
  <2> QED
    BY <2>2, <2>7, <2>8, <2>9, <2>10, SomeFall
<1>5. CASE EndTick
  <2>1. PICK Born \in SUBSET UNION {Broods[f] : f \in Foes \cap {events[k].dier : k \in DOMAIN events}} :
          st' = [a \in Actors |-> IF a \in Born THEN "in" ELSE IF st[a] = "dead" THEN "out" ELSE st[a]]
    BY <1>5 DEF EndTick
  <2>2. ASSUME NEW g \in Born
        PROVE  st[g] = "unborn" /\ \E f \in Foes : g \in Broods[f] /\ st[f] = "dead"
    <3>1. PICK f \in Foes : f \in {events[k].dier : k \in DOMAIN events} /\ g \in Broods[f]
      BY <2>2
    <3>2. st[f] = "dead"
      BY <1>5, <3>1 DEF EndTick, Deaths
    <3> QED
      BY <3>1, <3>2 DEF Deaths
  <2>3. ASSUME NEW f \in Foes, st'[f] # "out", NEW g \in Broods[f]
        PROVE  st'[g] = "unborn"
    <3>1. f \in Actors /\ g \in Actors
      BY BattleAssumption DEF Actors
    <3>2. st[f] # "out" /\ st[f] # "dead"
      BY <2>1, <2>2, <2>3, <3>1
    <3>3. st[g] = "unborn"
      BY <3>2 DEF Deaths
    <3>4. g \notin Born
      <4> SUFFICES ASSUME g \in Born PROVE FALSE
        OBVIOUS
      <4>1. PICK e \in Foes : g \in Broods[e] /\ st[e] = "dead"
        BY <2>2
      <4>2. e = f
        BY <4>1, BattleAssumption
      <4> QED
        BY <3>2, <4>1, <4>2
    <3> QED
      BY <2>1, <3>1, <3>3, <3>4
  <2>4. st' \in [Actors -> {"unborn", "in", "dead", "out"}]
    BY <2>1 DEF Deaths
  <2> QED
    BY <1>5, <2>3, <2>4 DEF EndTick, Deaths
<1>6. CASE EndActions \/ FliesOn \/ FliesOut \/ Impact \/ ResolveBuff \/ Fizzle \/ TickStatuses
  BY <1>1, <1>6 DEF EndActions, FliesOn, FliesOut, Impact, Flies, ResolveBuff, Fizzle, TickStatuses
<1>7. ASSUME NEW a \in Actors, Strike(a) \/ LooseVolley(a) \/ Curse(a) \/ BuffSelf(a)
      PROVE  Deaths'
  BY <1>1, <1>7 DEF Strike, LooseVolley, Curse, BuffSelf, Acts
<1>8. CASE UNCHANGED vars
  BY <1>1, <1>8 DEF vars
<1> QED
  BY <1>2, <1>3, <1>4, <1>5, <1>6, <1>7, <1>8 DEF Next

(* Nobody who is out comes back. *)
LEMMA OutForGood ==
  ASSUME Deaths, [Next]_vars, NEW a \in Actors, st[a] = "out"
  PROVE  st'[a] = "out"
<1>1. CASE UNCHANGED st
  BY <1>1
<1>2. CASE BeginTick
  <2>1. st' \in {st, [st EXCEPT ![Minion] = IF @ = "in" THEN "dead" ELSE @]}
    BY <1>2 DEF BeginTick
  <2> QED
    BY <2>1 DEF Deaths
<1>3. CASE Land
  BY <1>3 DEF Land, Counts, Living, Deaths
<1>4. CASE TickDoTs
  BY <1>4 DEF TickDoTs, Burning, Living
<1>5. CASE EndTick
  <2>1. PICK Born \in SUBSET UNION {Broods[f] : f \in Foes \cap {events[k].dier : k \in DOMAIN events}} :
          st' = [b \in Actors |-> IF b \in Born THEN "in" ELSE IF st[b] = "dead" THEN "out" ELSE st[b]]
    BY <1>5 DEF EndTick
  <2>2. a \notin Born
    <3> SUFFICES ASSUME a \in Born PROVE FALSE
      OBVIOUS
    <3>1. PICK f \in Foes : f \in {events[k].dier : k \in DOMAIN events} /\ a \in Broods[f]
      OBVIOUS
    <3>2. st[f] = "dead"
      BY <1>5, <3>1 DEF EndTick, Deaths
    <3> QED
      BY <3>1, <3>2 DEF Deaths
  <2> QED
    BY <2>1, <2>2
<1>6. CASE EndActions \/ FliesOn \/ FliesOut \/ Impact \/ ResolveBuff \/ Fizzle \/ TickStatuses
  BY <1>1, <1>6 DEF EndActions, FliesOn, FliesOut, Impact, Flies, ResolveBuff, Fizzle, TickStatuses
<1>7. ASSUME NEW b \in Actors, Strike(b) \/ LooseVolley(b) \/ Curse(b) \/ BuffSelf(b)
      PROVE  st'[a] = "out"
  BY <1>1, <1>7 DEF Strike, LooseVolley, Curse, BuffSelf, Acts
<1>8. CASE UNCHANGED vars
  BY <1>1, <1>8 DEF vars
<1> QED
  BY <1>2, <1>3, <1>4, <1>5, <1>6, <1>7, <1>8 DEF Next

(***************************************************************************)
(* What an actor remembers of the volleys that damaged it: the last of     *)
(* them, newest first, as many as there are slots for.                     *)
(***************************************************************************)
Recalls(ring, marks) ==
  /\ ring \in Seq(Nat) /\ marks \in Seq(Nat)
  /\ Len(ring) = IF Len(marks) < Memory THEN Len(marks) ELSE Memory
  /\ \A k \in 1..Len(ring) : ring[k] = marks[Len(marks) + 1 - k]

Spaced(marks) == \A i, j \in DOMAIN marks : i < j /\ marks[i] = marks[j] => j - i > Memory

Memories ==
  /\ DOMAIN body = Actors /\ scars \in [Actors -> Seq(Nat)]
  /\ \A a \in Actors : /\ "ring" \in DOMAIN body[a] /\ Spaced(scars[a])
                       /\ st[a] # "out" => Recalls(body[a].ring, scars[a])

LEMMA MemoryIsPositive == Memory \in Nat /\ Memory > 0
BY BattleAssumption

(* The ring after a mark: the new volley, then the newest of the others. *)
LEMMA RingShifts ==
  ASSUME NEW ring \in Seq(Nat), NEW v \in Nat, NEW n \in Nat, n <= Len(ring) + 1, n > 0
  PROVE  /\ SubSeq(<<v>> \o ring, 1, n) \in Seq(Nat) /\ Len(SubSeq(<<v>> \o ring, 1, n)) = n
         /\ SubSeq(<<v>> \o ring, 1, n)[1] = v
         /\ \A k \in 2..n : SubSeq(<<v>> \o ring, 1, n)[k] = ring[k - 1]
<1> DEFINE s == <<v>> \o ring
<1>1. s \in Seq(Nat) /\ Len(s) = Len(ring) + 1 /\ s[1] = v
  OBVIOUS
<1>2. \A k \in 2..n : s[k] = ring[k - 1]
  OBVIOUS
<1> HIDE DEF s
<1>3. /\ SubSeq(s, 1, n) \in Seq(Nat) /\ Len(SubSeq(s, 1, n)) = n
      /\ \A k \in 1..n : SubSeq(s, 1, n)[k] = s[k]
  BY <1>1
<1> QED
  BY <1>1, <1>2, <1>3 DEF s

LEMMA MarkRecalls ==
  ASSUME NEW b, "ring" \in DOMAIN b, NEW marks, NEW v \in Nat,
         Recalls(b.ring, marks), Spaced(marks), ~HitByVolley(b, v)
  PROVE  LET new == IF v = 0 THEN marks ELSE Append(marks, v)
         IN  /\ "ring" \in DOMAIN MarkVolley(b, v)
             /\ Recalls(MarkVolley(b, v).ring, new) /\ Spaced(new) /\ new \in Seq(Nat)
<1>1. CASE v = 0
  BY <1>1 DEF MarkVolley, Recalls
<1>2. CASE v # 0
  <2> DEFINE new == Append(marks, v)
             n == IF Len(b.ring) < Memory THEN Len(b.ring) + 1 ELSE Memory
             ring == SubSeq(<<v>> \o b.ring, 1, n)
  <2>1. /\ marks \in Seq(Nat) /\ new \in Seq(Nat) /\ Len(new) = Len(marks) + 1
        /\ new[Len(marks) + 1] = v /\ \A k \in 1..Len(marks) : new[k] = marks[k]
    BY DEF Recalls
  <2>0. /\ Len(marks) \in Nat /\ Len(b.ring) \in Nat
        /\ Len(b.ring) = IF Len(marks) < Memory THEN Len(marks) ELSE Memory
        /\ \A k \in 1..Len(b.ring) : b.ring[k] = marks[Len(marks) + 1 - k]
    BY DEF Recalls
  <2>2. b.ring \in Seq(Nat) /\ n \in Nat /\ n <= Len(b.ring) + 1 /\ n > 0
    BY MemoryIsPositive DEF Recalls
  <2>3. /\ ring \in Seq(Nat) /\ Len(ring) = n /\ ring[1] = v
        /\ \A k \in 2..n : ring[k] = b.ring[k - 1]
    <3> HIDE DEF n
    <3> QED
      BY <2>2, RingShifts
  <2>4. "ring" \in DOMAIN MarkVolley(b, v) /\ MarkVolley(b, v).ring = ring
    <3>1. MarkVolley(b, v) = [b EXCEPT !.ring = ring]
      BY <1>2 DEF MarkVolley
    <3> HIDE DEF ring
    <3> QED
      BY <3>1
  <2>5. Recalls(ring, new)
    <3> HIDE DEF ring, new
    <3>1. n = IF Len(new) < Memory THEN Len(new) ELSE Memory
      BY <2>1, MemoryIsPositive DEF Recalls
    <3>2. ASSUME NEW k \in 1..n
          PROVE  ring[k] = new[Len(new) + 1 - k]
      <4>1. CASE k = 1
        BY <2>1, <2>3, <4>1
      <4>2. CASE k # 1
        <5>1. k \in 2..n /\ k - 1 \in 1..Len(b.ring)
          BY <2>2, <4>2
        <5>2. ring[k] = marks[Len(marks) + 1 - (k - 1)]
          BY <2>3, <5>1 DEF Recalls
        <5>3. Len(marks) + 1 - (k - 1) \in 1..Len(marks)
          <6>1. Len(b.ring) <= Len(marks)
            BY <2>0, MemoryIsPositive
          <6> QED
            BY <2>0, <5>1, <6>1
        <5>4. new[Len(marks) + 1 - (k - 1)] = marks[Len(marks) + 1 - (k - 1)]
          BY <2>1, <5>3
        <5>5. Len(new) + 1 - k = Len(marks) + 1 - (k - 1)
          BY <2>1, <5>1, <2>2
        <5> QED
          BY <5>2, <5>4, <5>5
      <4> QED
        BY <4>1, <4>2
    <3> HIDE DEF n
    <3> QED
      BY <2>1, <2>3, <3>1, <3>2 DEF Recalls
  <2>6. Spaced(new)
    <3> HIDE DEF ring, new, n
    <3>1. ASSUME NEW i \in 1..Len(new), NEW j \in 1..Len(new), i < j, new[i] = new[j]
          PROVE  j - i > Memory
      <4>1. CASE j <= Len(marks)
        <5>1. i \in 1..Len(marks) /\ j \in 1..Len(marks)
          BY <2>0, <3>1, <4>1
        <5>2. marks[i] = marks[j] /\ DOMAIN marks = 1..Len(marks)
          BY <2>1, <3>1, <5>1
        <5> QED
          BY <3>1, <5>1, <5>2 DEF Spaced
      <4>2. CASE j > Len(marks)
        <5>1. j = Len(marks) + 1 /\ i \in 1..Len(marks) /\ marks[i] = v
          <6>1. Len(new) = Len(marks) + 1
            BY <2>1
          <6>2. j = Len(marks) + 1 /\ i \in 1..Len(marks)
            BY <2>0, <3>1, <4>2, <6>1
          <6> QED
            BY <2>1, <3>1, <6>2
        <5>2. \A k \in 1..Len(b.ring) : b.ring[k] # v
          BY <1>2, <2>2 DEF HitByVolley, ToSet
        <5>3. CASE Len(marks) + 1 - i <= Len(b.ring)
          <6>1. Len(marks) + 1 - i \in 1..Len(b.ring)
            BY <2>1, <2>2, <5>1, <5>3
          <6>2. b.ring[Len(marks) + 1 - i] = marks[Len(marks) + 1 - (Len(marks) + 1 - i)]
            BY <6>1 DEF Recalls
          <6>3. Len(marks) + 1 - (Len(marks) + 1 - i) = i
            BY <2>1, <5>1
          <6> QED
            BY <5>1, <5>2, <6>1, <6>2, <6>3
        <5>4. CASE Len(marks) + 1 - i > Len(b.ring)
          BY <2>0, <5>1, <5>4, MemoryIsPositive
        <5> QED
          BY <2>0, <5>1, <5>3, <5>4
      <4> QED
        BY <2>0, <4>1, <4>2
    <3>2. DOMAIN new = 1..Len(new)
      BY <2>1
    <3> QED
      BY <3>1, <3>2 DEF Spaced
  <2> QED
    BY <1>2, <2>1, <2>4, <2>5, <2>6
<1> QED
  BY <1>1, <1>2

(* What changes something else of an actor leaves its ring alone. *)
LEMMA OtherFields ==
  ASSUME NEW b, "ring" \in DOMAIN b, NEW w, NEW x
  PROVE  /\ "ring" \in DOMAIN [b EXCEPT !.life = w] /\ [b EXCEPT !.life = w].ring = b.ring
         /\ "ring" \in DOMAIN [b EXCEPT !.timed = w] /\ [b EXCEPT !.timed = w].ring = b.ring
         /\ LET c == [b EXCEPT !.life = w, !.dots = x]
            IN  "ring" \in DOMAIN c /\ c.ring = b.ring
         /\ LET c == [b EXCEPT !.dots = w, !.timed = x]
            IN  "ring" \in DOMAIN c /\ c.ring = b.ring
OBVIOUS

LEMMA MemoriesInit == Init => Memories
<1> SUFFICES ASSUME Init, NEW a \in Actors
             PROVE  /\ "ring" \in DOMAIN body[a] /\ Spaced(scars[a])
                    /\ Recalls(body[a].ring, scars[a])
  BY DEF Init, Memories
<1>1. body[a] = Fresh(a) /\ scars[a] = <<>>
  BY DEF Init
<1>2. "ring" \in DOMAIN body[a] /\ body[a].ring = <<>>
  BY <1>1 DEF Fresh
<1>3. Len(<<>>) = 0 /\ <<>> \in Seq(Nat)
  OBVIOUS
<1> QED
  BY <1>1, <1>2, <1>3, MemoryIsPositive DEF Recalls, Spaced

(* A phase that marks nobody. *)
LEMMA RingsKept ==
  ASSUME Memories, UNCHANGED scars, DOMAIN body' = Actors,
         \A a \in Actors : /\ st'[a] # "out" => st[a] # "out"
                           /\ "ring" \in DOMAIN body'[a]
                           /\ st'[a] # "out" => body'[a].ring = body[a].ring
  PROVE  Memories'
<1>1. scars' \in [Actors -> Seq(Nat)]
  BY DEF Memories
<1>2. ASSUME NEW a \in Actors
      PROVE  Spaced(scars'[a]) /\ (st'[a] # "out" => Recalls(body'[a].ring, scars'[a]))
  BY DEF Memories
<1> QED
  BY <1>1, <1>2 DEF Memories

LEMMA MemoriesStep ==
  ASSUME QueuesTyped, Deaths, Memories, [Next]_vars
  PROVE  Memories'
<1>0. \A a \in Actors : st'[a] # "out" => st[a] # "out"
  BY OutForGood
<1>1. CASE UNCHANGED <<body, scars>>
  BY <1>0, <1>1 DEF Memories
<1>2. CASE BeginTick
  <2>1. body' = [a \in Actors |->
          IF a \in Hardy /\ st'[a] = "in" /\ body[a].life < MaxLife[a]
          THEN [body[a] EXCEPT !.life = @ + 1] ELSE body[a]]
    BY <1>2 DEF BeginTick
  <2>2. ASSUME NEW a \in Actors
        PROVE  "ring" \in DOMAIN body'[a] /\ body'[a].ring = body[a].ring
    <3>1. "ring" \in DOMAIN body[a]
      BY DEF Memories
    <3> QED
      BY <2>1, <3>1, OtherFields
  <2> QED
    BY <1>0, <1>2, <2>1, <2>2, RingsKept DEF BeginTick
<1>3. CASE ResolveBuff
  <2> DEFINE q == Head(buffs)
  <2>1. body' = IF q.target \in Living
                THEN [body EXCEPT ![q.target].timed = ApplyBuff(body[q.target].timed, q.buff)] ELSE body
    BY <1>3 DEF ResolveBuff
  <2> HIDE DEF q
  <2>2. ASSUME NEW a \in Actors
        PROVE  "ring" \in DOMAIN body'[a] /\ body'[a].ring = body[a].ring
    <3>1. "ring" \in DOMAIN body[a] /\ DOMAIN body = Actors
      BY DEF Memories
    <3>2. \/ body'[a] = body[a]
          \/ body'[a] = [body[a] EXCEPT !.timed = ApplyBuff(body[a].timed, q.buff)]
      BY <2>1, <3>1
    <3> QED
      BY <3>1, <3>2, OtherFields
  <2>3. DOMAIN body' = Actors
    BY <2>1 DEF Memories
  <2> QED
    BY <1>0, <1>3, <2>2, <2>3, RingsKept DEF ResolveBuff
<1>4. CASE Land
  <2>1. PICK h \in ToSet(hits), blow \in Blows :
          /\ Counts(h)
          /\ \/ body' = Struck(h, blow)
             \/ body' = [Struck(h, blow) EXCEPT ![h.att].life = @ + 1]
          /\ scars' = IF h.volley = 0 THEN scars ELSE [scars EXCEPT ![h.def] = Append(@, h.volley)]
    BY <1>4 DEF Land
  <2> DEFINE wound == [body[h.def] EXCEPT !.life = IF @ > blow.loss THEN @ - blow.loss ELSE 0]
             hurt == Hurt(h, blow)
             after == IF hurt.life = 0 THEN hurt ELSE Afflicted(hurt, blow, h.att)
             struck == Struck(h, blow)
             marks == IF h.volley = 0 THEN scars[h.def] ELSE Append(scars[h.def], h.volley)
  <2>2. h.def \in Actors /\ h.volley \in Nat /\ st[h.def] # "out" /\ ~HitByVolley(body[h.def], h.volley)
    <3>1. h \in Hits
      BY DEF QueuesTyped, ToSet
    <3> QED
      BY <2>1, <3>1 DEF Counts, Living, Hits
  <2>3. "ring" \in DOMAIN wound /\ wound.ring = body[h.def].ring
    BY <2>2, OtherFields DEF Memories
  <2>4. /\ "ring" \in DOMAIN hurt
        /\ Recalls(hurt.ring, marks) /\ Spaced(marks) /\ marks \in Seq(Nat)
    <3>0. hurt = MarkVolley(wound, h.volley)
      BY DEF Hurt
    <3> HIDE DEF wound, hurt
    <3>1. Recalls(wound.ring, scars[h.def]) /\ Spaced(scars[h.def])
      BY <2>2, <2>3 DEF Memories
    <3>2. ~HitByVolley(wound, h.volley)
      BY <2>2, <2>3 DEF HitByVolley
    <3> QED
      BY <2>2, <2>3, <3>0, <3>1, <3>2, MarkRecalls
  <2>5. "ring" \in DOMAIN after /\ after.ring = hurt.ring
    <3> HIDE DEF hurt
    <3> QED
      BY <2>4, OtherFields DEF Afflicted
  <2>6. /\ struck = [body EXCEPT ![h.def] = after]
        /\ body' = struck \/ body' = [struck EXCEPT ![h.att].life = @ + 1]
        /\ scars' = [scars EXCEPT ![h.def] = marks]
    <3>1. body' = struck \/ body' = [struck EXCEPT ![h.att].life = @ + 1]
      BY <2>1
    <3>2. scars' = [scars EXCEPT ![h.def] = marks]
      BY <2>1, <2>2 DEF Memories
    <3>3. struck = [body EXCEPT ![h.def] = after]
      BY DEF Struck
    <3> QED
      BY <3>1, <3>2, <3>3
  <2> HIDE DEF wound, hurt, after, marks, struck
  <2>7. ASSUME NEW a \in Actors
        PROVE  /\ "ring" \in DOMAIN body'[a]
               /\ body'[a].ring = IF a = h.def THEN after.ring ELSE body[a].ring
    <3>1. "ring" \in DOMAIN struck[a] /\ struck[a].ring = IF a = h.def THEN after.ring ELSE body[a].ring
      BY <2>2, <2>5, <2>6 DEF Memories
    <3>2. body'[a] = struck[a] \/ body'[a] = [struck[a] EXCEPT !.life = struck[a].life + 1]
      BY <2>2, <2>6 DEF Memories
    <3> QED
      BY <3>1, <3>2, OtherFields
  <2>8. DOMAIN body' = Actors /\ scars' \in [Actors -> Seq(Nat)]
    BY <2>2, <2>4, <2>6 DEF Memories
  <2>9. ASSUME NEW a \in Actors
        PROVE  /\ "ring" \in DOMAIN body'[a] /\ Spaced(scars'[a])
               /\ st'[a] # "out" => Recalls(body'[a].ring, scars'[a])
    <3>1. scars'[a] = IF a = h.def THEN marks ELSE scars[a]
      BY <2>2, <2>6 DEF Memories
    <3> QED
      BY <1>0, <2>4, <2>5, <2>7, <3>1 DEF Memories
  <2> QED
    BY <2>8, <2>9 DEF Memories
<1>5. CASE TickDoTs
  <2>1. PICK Shielded \in SUBSET Burning :
          LET left(a) == IF a \in Shielded THEN body[a].life
                         ELSE IF body[a].life > Heat(a) THEN body[a].life - Heat(a) ELSE 0
          IN  body' = [a \in Actors |-> IF a \notin Burning THEN body[a] ELSE
               [body[a] EXCEPT !.life = left(a), !.dots = Outlasting(@)]]
    BY <1>5 DEF TickDoTs
  <2>2. ASSUME NEW a \in Actors
        PROVE  "ring" \in DOMAIN body'[a] /\ body'[a].ring = body[a].ring
    <3>1. "ring" \in DOMAIN body[a]
      BY DEF Memories
    <3> QED
      BY <2>1, <3>1, OtherFields
  <2> QED
    BY <1>0, <1>5, <2>1, <2>2, RingsKept DEF TickDoTs
<1>6. CASE TickStatuses
  <2>1. body' = [a \in Actors |-> IF a \in Living
          THEN [body[a] EXCEPT !.timed = [k \in Kinds |-> TickedOff(@[k])]] ELSE body[a]]
    BY <1>6 DEF TickStatuses
  <2>2. ASSUME NEW a \in Actors
        PROVE  "ring" \in DOMAIN body'[a] /\ body'[a].ring = body[a].ring
    <3>1. "ring" \in DOMAIN body[a]
      BY DEF Memories
    <3> QED
      BY <2>1, <3>1, OtherFields
  <2> QED
    BY <1>0, <1>6, <2>1, <2>2, RingsKept DEF TickStatuses
<1>7. CASE EndTick
  <2>1. PICK Dinged \in SUBSET {a \in {Hero, Minion} : Earned(a) > 0},
             Born \in SUBSET UNION {Broods[f] : f \in Foes \cap {events[k].dier : k \in DOMAIN events}} :
          /\ body' = [a \in Actors |->
               IF a \in Dinged THEN [body[a] EXCEPT !.life = MaxLife[a]]
               ELSE IF st[a] = "dead" THEN Fresh(a) ELSE body[a]]
          /\ st' = [a \in Actors |-> IF a \in Born THEN "in" ELSE IF st[a] = "dead" THEN "out" ELSE st[a]]
    BY <1>7 DEF EndTick
  <2>2. ASSUME NEW a \in Actors
        PROVE  /\ "ring" \in DOMAIN body'[a]
               /\ st'[a] # "out" => body'[a].ring = body[a].ring
    <3>1. "ring" \in DOMAIN body[a] /\ "ring" \in DOMAIN Fresh(a)
      BY DEF Memories, Fresh
    <3>2. st[a] = "dead" => a \notin Born
      <4> SUFFICES ASSUME a \in Born PROVE st[a] = "unborn"
        OBVIOUS
      <4>1. PICK f \in Foes : f \in {events[k].dier : k \in DOMAIN events} /\ a \in Broods[f]
        OBVIOUS
      <4>2. st[f] = "dead"
        BY <1>7, <4>1 DEF EndTick, Deaths
      <4> QED
        BY <4>1, <4>2 DEF Deaths
    <3> QED
      BY <2>1, <3>1, <3>2, OtherFields
  <2> QED
    BY <1>0, <1>7, <2>1, <2>2, RingsKept DEF EndTick
<1>8. CASE EndActions \/ FliesOn \/ FliesOut \/ Impact \/ Fizzle
  BY <1>1, <1>8 DEF EndActions, FliesOn, FliesOut, Impact, Fizzle
<1>9. ASSUME NEW a \in Actors, Strike(a) \/ LooseVolley(a) \/ Curse(a) \/ BuffSelf(a)
      PROVE  Memories'
  BY <1>1, <1>9 DEF Strike, LooseVolley, Curse, BuffSelf, Acts
<1>10. CASE UNCHANGED vars
  BY <1>1, <1>10 DEF vars
<1> QED
  BY <1>2, <1>3, <1>4, <1>5, <1>6, <1>7, <1>8, <1>9, <1>10 DEF Next

(***************************************************************************)
(* One cast damages a target once as long as the target remembers the      *)
(* volley (entity.go: HitByVolley, MarkVolley; skills.go: fire; pipeline:  *)
(* resolve), for any fans, chains, splashes, deaths and size of memory.    *)
(***************************************************************************)
THEOREM VolleysAreRemembered == Spec => []OneCastOneHit
<1> DEFINE Inv == QueuesTyped /\ Deaths /\ Memories
<1>1. Init => Inv
  BY QueuesInit, DeathsInit, MemoriesInit
<1>2. Inv /\ [Next]_vars => Inv'
  BY QueuesStep, DeathsStep, MemoriesStep
<1>3. Inv => OneCastOneHit
  BY DEF Memories, Spaced, OneCastOneHit
<1> QED
  BY <1>1, <1>2, <1>3, PTL DEF Spec

(***************************************************************************)
(* What a selection is: as many of the chosen entries as are chosen.       *)
(***************************************************************************)
LEMMA Ranks ==
  ASSUME NEW K \in SUBSET Nat, IsFiniteSet(K)
  PROVE  /\ Cardinality(K) \in Nat
         /\ \A n \in 1..Cardinality(K) : \E k \in K : Cardinality({j \in K : j <= k}) = n
<1> DEFINE B(k) == {j \in K : j <= k}
           c == Cardinality(K)
           r == [k \in K |-> Cardinality(B(k))]
<1>1. c \in Nat
  BY FS_CardinalityType
<1>2. \A k \in K : IsFiniteSet(B(k)) /\ Cardinality(B(k)) \in 1..c
  <2> SUFFICES ASSUME NEW k \in K
               PROVE  IsFiniteSet(B(k)) /\ Cardinality(B(k)) \in 1..c
    OBVIOUS
  <2>1. B(k) \in SUBSET K /\ k \in B(k)
    OBVIOUS
  <2>2. IsFiniteSet(B(k)) /\ Cardinality(B(k)) <= c /\ Cardinality(B(k)) \in Nat
    BY <2>1, FS_Subset, FS_CardinalityType
  <2>3. Cardinality(B(k)) # 0
    BY <2>1, <2>2, FS_EmptySet
  <2> QED
    BY <1>1, <2>2, <2>3
<1>3. \A k, l \in K : Cardinality(B(k)) = Cardinality(B(l)) => k = l
  <2>1. ASSUME NEW k \in K, NEW l \in K, Cardinality(B(k)) = Cardinality(B(l)), k < l
        PROVE  FALSE
    <3>1. B(k) \in SUBSET B(l)
      <4>1. \A j \in K : j <= k => j <= l
        BY <2>1
      <4> QED
        BY <4>1
    <3>2. l \in B(l) /\ l \notin B(k)
      BY <2>1
    <3> QED
      BY <1>2, <2>1, <3>1, <3>2, FS_Subset
  <2>2. \A k, l \in K : k = l \/ k < l \/ l < k
    OBVIOUS
  <2> HIDE DEF B
  <2> QED
    BY <2>1, <2>2
<1> HIDE DEF B
<1>4. r \in Injection(K, 1..c)
  BY <1>2, <1>3 DEF Injection, IsInjective
<1>5. IsFiniteSet(1..c) /\ Cardinality(1..c) = c
  BY <1>1, FS_Interval
<1>6. r \in Surjection(K, 1..c)
  BY <1>4, <1>5, FS_Injection
<1>7. \A n \in 1..c : \E k \in K : Cardinality(B(k)) = n
  BY <1>6 DEF Surjection
<1> QED
  BY <1>1, <1>7 DEF B

LEMMA Selected ==
  ASSUME NEW X, NEW s \in Seq(X), NEW K \in SUBSET DOMAIN s
  PROVE  /\ Only(s, K) \in Seq(X) /\ Cardinality(K) \in Nat /\ Len(Only(s, K)) = Cardinality(K)
         /\ \A n \in 1..Cardinality(K) : \E k \in K : Only(s, K)[n] = s[k]
<1> DEFINE c == Cardinality(K)
           at(n) == CHOOSE k \in K : Cardinality({j \in K : j <= k}) = n
<1>1. DOMAIN s = 1..Len(s) /\ Len(s) \in Nat /\ \A k \in DOMAIN s : s[k] \in X
  OBVIOUS
<1>2. IsFiniteSet(K) /\ K \in SUBSET Nat
  <2>1. IsFiniteSet(1..Len(s))
    BY <1>1, FS_Interval
  <2> QED
    BY <1>1, <2>1, FS_Subset
<1>3. c \in Nat /\ \A n \in 1..c : at(n) \in K
  BY <1>2, Ranks
<1>4. Only(s, K) = [n \in 1..c |-> s[at(n)]]
  BY DEF Only
<1> HIDE DEF at, c
<1>5. Only(s, K) \in [1..c -> X]
  BY <1>1, <1>3, <1>4
<1>6. Only(s, K) \in Seq(X) /\ Len(Only(s, K)) = c
  <2> HIDE DEF Only
  <2> QED
    BY <1>3, <1>5, Lists
<1>7. \A n \in 1..c : \E k \in K : Only(s, K)[n] = s[k]
  BY <1>3, <1>4
<1> QED
  BY <1>3, <1>6, <1>7 DEF c

(* The timers of one kind are none or one. *)
LEMMA NoneLeft == Outlasting(<<>>) = <<>>
<1> DEFINE s == [k \in DOMAIN <<>> |-> [<<>>[k] EXCEPT !.left = @ - 1]]
           K == {k \in DOMAIN <<>> : <<>>[k].left > 1}
<1>1. K = {} /\ s \in Seq(Nat)
  OBVIOUS
<1>2. Outlasting(<<>>) = Only(s, K)
  BY DEF Outlasting
<1> HIDE DEF s
<1>3. Only(s, K) \in Seq(Nat) /\ Len(Only(s, K)) = 0
  BY <1>1, Selected, FS_EmptySet
<1> QED
  BY <1>2, <1>3

LEMMA OneLeft ==
  ASSUME NEW mag \in Nat, NEW left \in Int
  PROVE  Outlasting(<<[mag |-> mag, left |-> left]>>) =
           IF left > 1 THEN <<[mag |-> mag, left |-> left - 1]>> ELSE <<>>
<1> DEFINE t == <<[mag |-> mag, left |-> left]>>
           s == [k \in DOMAIN t |-> [t[k] EXCEPT !.left = @ - 1]]
           K == {k \in DOMAIN t : t[k].left > 1}
           X == {[mag |-> mag, left |-> left - 1]}
<1>1. s \in Seq(X) /\ K \in SUBSET DOMAIN s
  <2>1. s \in [1..1 -> X]
    OBVIOUS
  <2>2. s \in Seq(X)
    <3> HIDE DEF s, X
    <3> QED
      BY <2>1, Lists
  <2> QED
    BY <2>2
<1>2. K = IF left > 1 THEN {1} ELSE {}
  OBVIOUS
<1>3. Outlasting(t) = Only(s, K)
  BY DEF Outlasting
<1> HIDE DEF s, K, X
<1>4. Only(s, K) \in Seq(X) /\ Len(Only(s, K)) = Cardinality(K)
  BY <1>1, Selected
<1>5. Cardinality(K) = IF left > 1 THEN 1 ELSE 0
  BY <1>2, FS_EmptySet, FS_Singleton
<1> QED
  BY <1>3, <1>4, <1>5 DEF X

(***************************************************************************)
(* What a body carries: burns whose sources are on the other side, and of  *)
(* each kind nothing, or one status with its modifiers; one curse.         *)
(***************************************************************************)
Dots(a) == [type : Types, per : Nat, left : Int, src : {b \in Actors : Side(b) # Side(a)}]

One(mag, left) == [statuses |-> <<[mag |-> mag, left |-> left]>>, mods |-> <<mag>>]
Effects == {Clear} \cup {One(mag, left) : mag \in Nat, left \in Nat \ {0}}
OneCurse(timed) ==
  \A c, d \in Curses : timed[c].statuses # <<>> /\ timed[d].statuses # <<>> => c = d

Carries(a, b) ==
  /\ {"life", "dots", "timed"} \subseteq DOMAIN b
  /\ b.dots \in Seq(Dots(a))
  /\ b.timed \in [Kinds -> Effects] /\ OneCurse(b.timed)

Bodies == DOMAIN body = Actors /\ \A a \in Actors : Carries(a, body[a])

(***************************************************************************)
(* The operations on what an actor carries of one kind.                    *)
(***************************************************************************)
LEMMA EffectShapes ==
  ASSUME NEW e \in Effects
  PROVE  \/ e = Clear /\ e.statuses = <<>>
         \/ \E mag \in Nat, left \in Nat \ {0} : e = One(mag, left) /\ e.statuses # <<>>
BY DEF Effects, Clear, One

LEMMA Installs ==
  ASSUME NEW kind \in Kinds, NEW mag \in Nat
  PROVE  Granted(Clear, kind, mag) \in Effects
<1>1. StatusTicks[kind] \in Nat \ {0}
  BY BattleAssumption
<1>2. Granted(Clear, kind, mag) = One(mag, StatusTicks[kind])
  BY DEF Granted, Clear, One, Status
<1> QED
  BY <1>1, <1>2 DEF Effects

LEMMA SetKeeps ==
  ASSUME NEW e \in Effects, NEW kind \in Kinds, NEW mag \in Nat
  PROVE  SetStatus(e, kind, mag) \in Effects
<1>1. CASE e = Clear
  BY <1>1, Installs DEF SetStatus, Clear
<1>2. ASSUME NEW m \in Nat, NEW l \in Nat \ {0}, e = One(m, l)
      PROVE  SetStatus(e, kind, mag) \in Effects
  <2>1. StatusTicks[kind] \in Nat \ {0}
    BY BattleAssumption
  <2>2. e.statuses # <<>> /\ [e.statuses EXCEPT ![1] = Status(kind, mag)] = <<Status(kind, mag)>>
    BY <1>2 DEF One
  <2>3. SetStatus(e, kind, mag) \in {e, One(mag, StatusTicks[kind])}
    BY <2>2 DEF SetStatus, One, Status
  <2> QED
    BY <2>1, <2>3 DEF Effects
<1> QED
  BY <1>1, <1>2, EffectShapes

LEMMA RefreshKeeps ==
  ASSUME NEW e \in Effects, NEW buff \in Kinds
  PROVE  Refreshed(e, buff) \in Effects
<1>1. CASE e = Clear
  BY <1>1, Installs DEF Refreshed, Clear
<1>2. ASSUME NEW m \in Nat, NEW l \in Nat \ {0}, e = One(m, l)
      PROVE  Refreshed(e, buff) \in Effects
  <2>1. StatusTicks[buff] \in Nat \ {0}
    BY BattleAssumption
  <2>2. e.statuses = <<[mag |-> m, left |-> l]>> /\ e.statuses # <<>>
    BY <1>2 DEF One
  <2>3. [e.statuses EXCEPT ![1] = [e.statuses[1] EXCEPT !.left = StatusTicks[buff]]]
          = <<[mag |-> m, left |-> StatusTicks[buff]]>>
    BY <2>2
  <2>4. Refreshed(e, buff) = [e EXCEPT !.statuses = <<[mag |-> m, left |-> StatusTicks[buff]]>>]
    BY <2>2, <2>3 DEF Refreshed
  <2>5. Refreshed(e, buff) = One(m, StatusTicks[buff])
    BY <1>2, <2>4 DEF One
  <2> QED
    BY <2>1, <2>5 DEF Effects
<1> QED
  BY <1>1, <1>2, EffectShapes

LEMMA TickKeeps ==
  ASSUME NEW e \in Effects
  PROVE  TickedOff(e) \in Effects /\ (e.statuses = <<>> => TickedOff(e).statuses = <<>>)
<1>1. CASE e = Clear
  <2>1. TickedOff(e) = Clear
    BY <1>1, NoneLeft DEF TickedOff, Clear
  <2> QED
    BY <2>1 DEF Effects, Clear
<1>2. ASSUME NEW m \in Nat, NEW l \in Nat \ {0}, e = One(m, l)
      PROVE  TickedOff(e) \in Effects /\ e.statuses # <<>>
  <2>1. e.statuses = <<[mag |-> m, left |-> l]>> /\ e.mods = <<m>>
    BY <1>2 DEF One
  <2>2. Outlasting(e.statuses) = IF l > 1 THEN <<[mag |-> m, left |-> l - 1]>> ELSE <<>>
    BY <2>1, OneLeft
  <2>3. (\E k \in DOMAIN e.statuses : e.statuses[k].left = 1) <=> l = 1
    BY <2>1
  <2>4. TickedOff(e) = IF l > 1 THEN One(m, l - 1) ELSE Clear
    BY <2>1, <2>2, <2>3 DEF TickedOff, One, Clear
  <2> QED
    BY <2>1, <2>4 DEF Effects
<1> QED
  BY <1>1, <1>2, EffectShapes

LEMMA BuffKeeps ==
  ASSUME NEW timed \in [Kinds -> Effects], OneCurse(timed), NEW buff \in Buffs
  PROVE  ApplyBuff(timed, buff) \in [Kinds -> Effects] /\ OneCurse(ApplyBuff(timed, buff))
<1> DEFINE new == ApplyBuff(timed, buff)
<1>0. buff \in Kinds /\ Curses \subseteq Kinds
  BY DEF Buffs, Kinds
<1>1. /\ DOMAIN new = Kinds /\ new = [k \in Kinds |-> new[k]]
      /\ \A k \in Kinds : new[k] = IF k = buff THEN Refreshed(timed[k], buff)
                                   ELSE IF {k, buff} \subseteq Curses THEN Evicted(timed[k]) ELSE timed[k]
  BY DEF ApplyBuff
<1> HIDE DEF new
<1>2. \A k \in Kinds : Evicted(timed[k]) = Clear /\ Clear.statuses = <<>>
  BY EffectShapes DEF Evicted, Clear
<1>3. \A k \in Kinds : new[k] \in Effects
  <2> SUFFICES ASSUME NEW k \in Kinds PROVE new[k] \in Effects
    OBVIOUS
  <2>1. timed[k] \in Effects
    OBVIOUS
  <2>2. k = buff => new[k] \in Effects
    BY <1>1, <2>1, RefreshKeeps
  <2>3. Clear \in Effects
    BY DEF Effects
  <2> QED
    BY <1>1, <1>2, <2>1, <2>2, <2>3
<1>4. new \in [Kinds -> Effects]
  BY <1>1, <1>3
<1>5. ASSUME NEW c \in Curses, NEW d \in Curses, new[c].statuses # <<>>, new[d].statuses # <<>>
      PROVE  c = d
  <2>1. CASE buff \in Curses
    BY <1>0, <1>1, <1>2, <1>5, <2>1
  <2>2. CASE buff \notin Curses
    BY <1>0, <1>1, <1>5, <2>2 DEF OneCurse
  <2> QED
    BY <2>1, <2>2
<1>6. OneCurse(new)
  BY <1>5 DEF OneCurse
<1> QED
  BY <1>4, <1>6 DEF new

(***************************************************************************)
(* The burns.                                                              *)
(***************************************************************************)
LEMMA BurnsKeep ==
  ASSUME NEW a \in Actors, NEW ds \in Seq(Dots(a)), NEW burns \in [Types -> Nat],
         NEW src \in Actors, Side(src) # Side(a)
  PROVE  Burned(ds, burns, src) \in Seq(Dots(a))
<1>1. \A t \in Types, per \in Nat : Burn(t, per, src) \in Dots(a)
  BY BattleAssumption DEF Burn, Dots
<1> DEFINE Old(t) == {k \in DOMAIN ds : ds[k].type = t}
           kept == [k \in DOMAIN ds |-> IF ds[k].type # Stacking /\ burns[ds[k].type] > ds[k].per
                                        THEN Burn(ds[k].type, burns[ds[k].type], src) ELSE ds[k]]
           new == [n \in DOMAIN TypeSeq |-> Burn(TypeSeq[n], burns[TypeSeq[n]], src)]
           K == {n \in DOMAIN TypeSeq : burns[TypeSeq[n]] > 0 /\ (TypeSeq[n] = Stacking \/ Old(TypeSeq[n]) = {})}
<1>2. Burned(ds, burns, src) = kept \o Only(new, K)
  BY DEF Burned
<1>3. /\ Len(ds) \in Nat /\ DOMAIN ds = 1..Len(ds)
      /\ \A k \in DOMAIN ds : ds[k] \in Dots(a) /\ ds[k].type \in Types
  <2>1. Len(ds) \in Nat /\ DOMAIN ds = 1..Len(ds) /\ \A k \in DOMAIN ds : ds[k] \in Dots(a)
    OBVIOUS
  <2>2. \A d \in Dots(a) : d.type \in Types
    BY DEF Dots
  <2> QED
    BY <2>1, <2>2
<1>4. kept \in [1..Len(ds) -> Dots(a)]
  BY <1>1, <1>3
<1>5. TypeSeq \in Seq(Types) /\ Len(TypeSeq) \in Nat /\ DOMAIN TypeSeq = 1..Len(TypeSeq)
  BY BattleAssumption
<1>6. new \in [1..Len(TypeSeq) -> Dots(a)]
  BY <1>1, <1>5
<1>7. K \in SUBSET DOMAIN new
  BY <1>5, <1>6
<1> HIDE DEF kept, new, K
<1>8. kept \in Seq(Dots(a)) /\ new \in Seq(Dots(a))
  BY <1>3, <1>4, <1>5, <1>6, Lists
<1>9. Only(new, K) \in Seq(Dots(a))
  BY <1>7, <1>8, Selected
<1> QED
  BY <1>2, <1>8, <1>9

LEMMA BurnsTick ==
  ASSUME NEW a \in Actors, NEW ds \in Seq(Dots(a))
  PROVE  Outlasting(ds) \in Seq(Dots(a))
<1> DEFINE s == [k \in DOMAIN ds |-> [ds[k] EXCEPT !.left = @ - 1]]
           K == {k \in DOMAIN ds : ds[k].left > 1}
<1>1. Len(ds) \in Nat /\ DOMAIN ds = 1..Len(ds) /\ \A k \in DOMAIN ds : ds[k] \in Dots(a)
  OBVIOUS
<1>2. \A d \in Dots(a) : [d EXCEPT !.left = @ - 1] \in Dots(a)
  BY DEF Dots
<1>3. s \in [1..Len(ds) -> Dots(a)] /\ K \in SUBSET DOMAIN s
  BY <1>1, <1>2
<1>4. Outlasting(ds) = Only(s, K)
  BY DEF Outlasting
<1> HIDE DEF s, K
<1>5. s \in Seq(Dots(a))
  BY <1>1, <1>3, Lists
<1> QED
  BY <1>3, <1>4, <1>5, Selected

(***************************************************************************)
(* A body whose parts are replaced.                                        *)
(***************************************************************************)
LEMMA CarriesOn ==
  ASSUME NEW a \in Actors, NEW b, Carries(a, b), NEW life, NEW ds \in Seq(Dots(a)),
         NEW timed \in [Kinds -> Effects], OneCurse(timed), NEW ring
  PROVE  /\ Carries(a, [b EXCEPT !.life = life]) /\ Carries(a, [b EXCEPT !.ring = ring])
         /\ Carries(a, [b EXCEPT !.timed = timed])
         /\ Carries(a, [b EXCEPT !.life = life, !.dots = ds])
         /\ Carries(a, [b EXCEPT !.dots = ds, !.timed = timed])
BY DEF Carries

LEMMA FreshCarries ==
  ASSUME NEW a \in Actors
  PROVE  Carries(a, Fresh(a))
<1>1. <<>> \in Seq(Dots(a)) /\ Clear \in Effects /\ Clear.statuses = <<>>
  BY DEF Effects, Clear
<1>2. [k \in Kinds |-> Clear] \in [Kinds -> Effects] /\ OneCurse([k \in Kinds |-> Clear])
  BY <1>1 DEF OneCurse, Kinds
<1> QED
  BY <1>1, <1>2 DEF Carries, Fresh

LEMMA AfflictedCarries ==
  ASSUME NEW a \in Actors, NEW b, Carries(a, b), NEW blow \in Blows, NEW src \in Actors, Side(src) # Side(a)
  PROVE  Carries(a, Afflicted(b, blow, src))
<1> DEFINE ds == Burned(b.dots, blow.burns, src)
           timed == [k \in Kinds |-> IF k \in Ailments THEN SetStatus(b.timed[k], k, blow.ails[k]) ELSE b.timed[k]]
<1>1. blow.burns \in [Types -> Nat] /\ blow.ails \in [Ailments -> Nat]
  BY BattleAssumption
<1>2. b.dots \in Seq(Dots(a)) /\ b.timed \in [Kinds -> Effects] /\ OneCurse(b.timed)
  BY DEF Carries
<1>3. ds \in Seq(Dots(a))
  BY <1>1, <1>2, BurnsKeep
<1>4. timed \in [Kinds -> Effects]
  BY <1>1, <1>2, SetKeeps DEF Kinds
<1>5. \A c \in Curses : timed[c] = b.timed[c]
  BY BattleAssumption DEF Kinds, Buffs
<1>6. Afflicted(b, blow, src) = [b EXCEPT !.dots = ds, !.timed = timed]
  BY DEF Afflicted
<1> HIDE DEF ds, timed
<1>7. OneCurse(timed)
  BY <1>2, <1>5 DEF OneCurse
<1>8. Carries(a, [b EXCEPT !.dots = ds, !.timed = timed])
  BY <1>3, <1>4, <1>7 DEF Carries
<1> QED
  BY <1>6, <1>8

LEMMA TickedCarries ==
  ASSUME NEW a \in Actors, NEW b, Carries(a, b)
  PROVE  Carries(a, [b EXCEPT !.timed = [k \in Kinds |-> TickedOff(@[k])]])
<1> DEFINE timed == [k \in Kinds |-> TickedOff(b.timed[k])]
<1>1. b.dots \in Seq(Dots(a)) /\ b.timed \in [Kinds -> Effects] /\ OneCurse(b.timed)
  BY DEF Carries
<1>2. \A k \in Kinds : timed[k] \in Effects /\ (b.timed[k].statuses = <<>> => timed[k].statuses = <<>>)
  BY <1>1, TickKeeps
<1>3. timed \in [Kinds -> Effects]
  BY <1>2
<1>4. OneCurse(timed)
  <2> HIDE DEF timed
  <2> QED
    BY <1>1, <1>2 DEF OneCurse, Kinds
<1> QED
  BY <1>1, <1>3, <1>4, CarriesOn

LEMMA BodiesInit == Init => Bodies
BY FreshCarries DEF Init, Bodies

LEMMA BodiesStep ==
  ASSUME QueuesTyped, Bodies, [Next]_vars
  PROVE  Bodies'
<1>0. ASSUME NEW a \in Actors
      PROVE  Carries(a, body[a])
  BY DEF Bodies
<1>1. CASE UNCHANGED body
  BY <1>1 DEF Bodies
<1>2. CASE BeginTick
  <2>1. body' = [a \in Actors |->
          IF a \in Hardy /\ st'[a] = "in" /\ body[a].life < MaxLife[a]
          THEN [body[a] EXCEPT !.life = @ + 1] ELSE body[a]]
    BY <1>2 DEF BeginTick
  <2>2. ASSUME NEW a \in Actors
        PROVE  Carries(a, [body[a] EXCEPT !.life = body[a].life + 1])
    BY <1>0 DEF Carries
  <2> QED
    BY <1>0, <2>1, <2>2 DEF Bodies
<1>3. CASE ResolveBuff
  <2> DEFINE q == Head(buffs)
  <2>1. /\ q \in Spells
        /\ body' = IF q.target \in Living
                   THEN [body EXCEPT ![q.target].timed = ApplyBuff(body[q.target].timed, q.buff)] ELSE body
    BY <1>3 DEF ResolveBuff, QueuesTyped
  <2> HIDE DEF q
  <2>2. q.target \in Actors /\ q.buff \in Buffs
    BY <2>1 DEF Spells
  <2> DEFINE timed == ApplyBuff(body[q.target].timed, q.buff)
  <2>3. timed \in [Kinds -> Effects] /\ OneCurse(timed)
    BY <1>0, <2>2, BuffKeeps DEF Carries
  <2>4. body' \in {body, [body EXCEPT ![q.target].timed = timed]}
    BY <2>1
  <2> HIDE DEF timed
  <2>5. Carries(q.target, [body[q.target] EXCEPT !.timed = timed])
    BY <1>0, <2>2, <2>3 DEF Carries
  <2> QED
    BY <1>0, <2>2, <2>4, <2>5 DEF Bodies
<1>4. CASE Land
  <2>1. PICK h \in ToSet(hits), blow \in Blows :
          \/ body' = Struck(h, blow)
          \/ body' = [Struck(h, blow) EXCEPT ![h.att].life = @ + 1]
    BY <1>4 DEF Land
  <2>2. h \in Hits
    BY DEF QueuesTyped, ToSet
  <2>3. h.att \in Actors /\ h.def \in Actors /\ Side(h.att) # Side(h.def)
    BY <2>2 DEF Hits
  <2> DEFINE wound == [body[h.def] EXCEPT !.life = IF @ > blow.loss THEN @ - blow.loss ELSE 0]
             hurt == Hurt(h, blow)
             after == IF hurt.life = 0 THEN hurt ELSE Afflicted(hurt, blow, h.att)
             struck == Struck(h, blow)
  <2>4. Carries(h.def, wound)
    BY <1>0, <2>3 DEF Carries
  <2>5. Carries(h.def, hurt)
    <3>1. hurt = MarkVolley(wound, h.volley)
      BY DEF Hurt
    <3> HIDE DEF wound, hurt
    <3>2. hurt = wound \/ \E ring : hurt = [wound EXCEPT !.ring = ring]
      BY <3>1 DEF MarkVolley
    <3> QED
      BY <2>4, <3>2 DEF Carries
  <2>6. struck = [body EXCEPT ![h.def] = after]
    BY DEF Struck
  <2>7. body' = struck \/ body' = [struck EXCEPT ![h.att].life = @ + 1]
    BY <2>1
  <2> HIDE DEF struck, wound, hurt
  <2>8. Carries(h.def, after)
    BY <2>3, <2>5, AfflictedCarries
  <2> HIDE DEF after
  <2>9. DOMAIN struck = Actors /\ \A a \in Actors : Carries(a, struck[a])
    BY <1>0, <2>3, <2>6, <2>8 DEF Bodies
  <2>10. Carries(h.att, [struck[h.att] EXCEPT !.life = struck[h.att].life + 1])
    BY <2>3, <2>9 DEF Carries
  <2> QED
    BY <2>3, <2>7, <2>9, <2>10 DEF Bodies
<1>5. CASE TickDoTs
  <2>1. PICK Shielded \in SUBSET Burning :
          LET left(a) == IF a \in Shielded THEN body[a].life
                         ELSE IF body[a].life > Heat(a) THEN body[a].life - Heat(a) ELSE 0
          IN  body' = [a \in Actors |-> IF a \notin Burning THEN body[a] ELSE
               [body[a] EXCEPT !.life = left(a), !.dots = Outlasting(@)]]
    BY <1>5 DEF TickDoTs
  <2>2. ASSUME NEW a \in Actors, NEW life
        PROVE  Carries(a, [body[a] EXCEPT !.life = life, !.dots = Outlasting(body[a].dots)])
    <3>1. Outlasting(body[a].dots) \in Seq(Dots(a))
      BY <1>0, BurnsTick DEF Carries
    <3> QED
      BY <1>0, <3>1 DEF Carries
  <2>3. ASSUME NEW a \in Actors
        PROVE  \/ body'[a] = body[a]
               \/ \E life : body'[a] = [body[a] EXCEPT !.life = life, !.dots = Outlasting(body[a].dots)]
    BY <2>1
  <2>4. DOMAIN body' = Actors
    BY <2>1
  <2>5. ASSUME NEW a \in Actors
        PROVE  Carries(a, body'[a])
    <3>1. CASE body'[a] = body[a]
      BY <1>0, <3>1
    <3>2. ASSUME NEW life, body'[a] = [body[a] EXCEPT !.life = life, !.dots = Outlasting(body[a].dots)]
          PROVE  Carries(a, body'[a])
      BY <2>2, <3>2
    <3> QED
      BY <2>3, <3>1, <3>2
  <2> QED
    BY <2>4, <2>5 DEF Bodies
<1>6. CASE TickStatuses
  <2>1. body' = [a \in Actors |-> IF a \in Living
          THEN [body[a] EXCEPT !.timed = [k \in Kinds |-> TickedOff(@[k])]] ELSE body[a]]
    BY <1>6 DEF TickStatuses
  <2>2. ASSUME NEW a \in Actors
        PROVE  Carries(a, [body[a] EXCEPT !.timed = [k \in Kinds |-> TickedOff(@[k])]])
    BY <1>0, TickedCarries
  <2> QED
    BY <1>0, <2>1, <2>2 DEF Bodies
<1>7. CASE EndTick
  <2>1. PICK Dinged \in SUBSET {a \in {Hero, Minion} : Earned(a) > 0} :
          body' = [a \in Actors |->
               IF a \in Dinged THEN [body[a] EXCEPT !.life = MaxLife[a]]
               ELSE IF st[a] = "dead" THEN Fresh(a) ELSE body[a]]
    BY <1>7 DEF EndTick
  <2>2. ASSUME NEW a \in Actors
        PROVE  Carries(a, [body[a] EXCEPT !.life = MaxLife[a]])
    BY <1>0 DEF Carries
  <2> QED
    BY <1>0, <2>1, <2>2, FreshCarries DEF Bodies
<1>8. CASE EndActions \/ FliesOn \/ FliesOut \/ Impact \/ Fizzle
  BY <1>1, <1>8 DEF EndActions, FliesOn, FliesOut, Impact, Fizzle
<1>9. ASSUME NEW a \in Actors, Strike(a) \/ LooseVolley(a) \/ Curse(a) \/ BuffSelf(a)
      PROVE  Bodies'
  BY <1>1, <1>9 DEF Strike, LooseVolley, Curse, BuffSelf, Acts
<1>10. CASE UNCHANGED vars
  BY <1>1, <1>10 DEF vars
<1> QED
  BY <1>2, <1>3, <1>4, <1>5, <1>6, <1>7, <1>8, <1>9, <1>10 DEF Next

(* The sheet of everybody in the world carries the modifiers of exactly    *)
(* its timed statuses, one of a kind and one curse, whatever is outdone,   *)
(* refreshed, evicted or expires (ailments.go: setStatus, TickStatuses;    *)
(* buff.go: ApplyBuff), for any ailments, curses, boons and durations.     *)
THEOREM SheetsFollowStatuses == Spec => []StatusesAreOnTheSheet
<1>1. Init => QueuesTyped /\ Bodies
  BY QueuesInit, BodiesInit
<1>2. QueuesTyped /\ Bodies /\ [Next]_vars => (QueuesTyped /\ Bodies)'
  BY QueuesStep, BodiesStep
<1>3. Bodies => StatusesAreOnTheSheet
  <2> SUFFICES ASSUME Bodies, NEW a \in Living
               PROVE  /\ \A k \in Kinds : LET e == body[a].timed[k] IN
                           /\ Len(e.statuses) <= 1
                           /\ e.mods = [n \in DOMAIN e.statuses |-> e.statuses[n].mag]
                      /\ Cardinality({c \in Curses : body[a].timed[c].statuses # <<>>}) <= 1
    BY DEF StatusesAreOnTheSheet
  <2>1. body[a].timed \in [Kinds -> Effects] /\ OneCurse(body[a].timed)
    BY DEF Bodies, Carries, Living
  <2>2. ASSUME NEW e \in Effects
        PROVE  /\ Len(e.statuses) <= 1
               /\ e.mods = [n \in DOMAIN e.statuses |-> e.statuses[n].mag]
    <3>1. CASE e = Clear
      BY <3>1 DEF Clear
    <3>2. ASSUME NEW m \in Nat, NEW l \in Nat \ {0}, e = One(m, l)
          PROVE  /\ Len(e.statuses) <= 1
                 /\ e.mods = [n \in DOMAIN e.statuses |-> e.statuses[n].mag]
      BY <3>2 DEF One
    <3>3. e = Clear \/ \E m \in Nat, l \in Nat \ {0} : e = One(m, l)
      BY EffectShapes
    <3> QED
      BY <3>1, <3>2, <3>3
  <2> DEFINE C == {c \in Curses : body[a].timed[c].statuses # <<>>}
  <2>3. Cardinality(C) <= 1
    <3>0. \A c, d \in C : c = d
      BY <2>1 DEF OneCurse
    <3> HIDE DEF C
    <3>1. CASE C = {}
      BY <3>1, FS_EmptySet
    <3>2. ASSUME NEW c \in C
          PROVE  Cardinality(C) <= 1
      <4>1. C = {c}
        BY <3>0
      <4>2. Cardinality({c}) = 1
        BY FS_Singleton
      <4> QED
        BY <4>1, <4>2
    <3> QED
      BY <3>1, <3>2
  <2> QED
    BY <2>1, <2>2, <2>3
<1> QED
  BY <1>1, <1>2, <1>3, PTL DEF Spec

(***************************************************************************)
(* The events of a tick are a list of its dead: no two for one actor, one  *)
(* for each foe (a minion may have expired without one), and each names a  *)
(* killer of the other side.                                               *)
(***************************************************************************)
Ledger ==
  /\ xp \in [{Hero, Minion} -> Nat]
  /\ phase = "idle" => \A a \in Actors : st[a] # "dead"
  /\ phase # "idle" =>
       /\ \A i, j \in DOMAIN events : events[i].dier = events[j].dier => i = j
       /\ \A f \in Foes : st[f] = "dead" => \E k \in DOMAIN events : events[k].dier = f
       /\ \A k \in DOMAIN events :
            events[k].killer \in Actors /\ Side(events[k].killer) # Side(events[k].dier)

LEMMA Joined ==
  ASSUME NEW s, NEW t, IsList(s), IsList(t)
  PROVE  /\ Len(s) \in Nat /\ Len(t) \in Nat /\ DOMAIN s = 1..Len(s) /\ DOMAIN t = 1..Len(t)
         /\ DOMAIN (s \o t) = 1..(Len(s) + Len(t))
         /\ \A k \in 1..Len(s) : (s \o t)[k] = s[k]
         /\ \A k \in 1..Len(t) : (s \o t)[Len(s) + k] = t[k]
<1>1. PICK S : s \in Seq(S)
  BY DEF IsList
<1>2. PICK T : t \in Seq(T)
  BY DEF IsList
<1>3. s \in Seq(S \cup T) /\ t \in Seq(S \cup T)
  BY <1>1, <1>2, WiderSeq
<1> QED
  BY <1>3

(* Some of the living fall, and each gets its event.                       *)
LEMMA LedgerGrows ==
  ASSUME Deaths, Ledger, phase # "idle", phase' # "idle", xp' = xp,
         NEW Fall \in SUBSET Living, NEW new, IsList(new), events' = events \o new,
         \A a \in Actors : st'[a] = IF a \in Fall THEN "dead" ELSE st[a],
         \A i, j \in DOMAIN new : new[i].dier = new[j].dier => i = j,
         \A a \in Fall : \E j \in DOMAIN new : new[j].dier = a,
         \A j \in DOMAIN new : /\ new[j].dier \in Fall /\ new[j].killer \in Actors
                               /\ Side(new[j].killer) # Side(new[j].dier)
  PROVE  Ledger'
<1> DEFINE n == Len(events)
           m == Len(new)
           E == events \o new
<1>1. /\ n \in Nat /\ m \in Nat /\ DOMAIN events = 1..n /\ DOMAIN new = 1..m /\ DOMAIN E = 1..(n + m)
      /\ \A k \in 1..n : E[k] = events[k]
      /\ \A k \in 1..m : E[n + k] = new[k]
  BY Joined DEF Deaths
<1> HIDE DEF n, m, E
<1>2. ASSUME NEW k \in DOMAIN E
      PROVE  \/ k \in DOMAIN events /\ E[k] = events[k] /\ st[E[k].dier] = "dead"
             \/ k \notin DOMAIN events /\ k - n \in DOMAIN new /\ E[k] = new[k - n] /\ st[E[k].dier] = "in"
  <2>1. CASE k <= n
    BY <1>1, <2>1 DEF Deaths
  <2>2. CASE k > n
    <3>1. k - n \in 1..m /\ n + (k - n) = k
      BY <1>1, <2>2
    <3>2. E[k] = new[k - n] /\ k \notin DOMAIN events
      BY <1>1, <2>2, <3>1
    <3>3. st[new[k - n].dier] = "in"
      BY <1>1, <3>1 DEF Living
    <3> QED
      BY <1>1, <3>1, <3>2, <3>3
  <2> QED
    BY <1>1, <2>1, <2>2
<1>3. ASSUME NEW i \in DOMAIN E, NEW j \in DOMAIN E, E[i].dier = E[j].dier
      PROVE  i = j
  <2>1. CASE i \in DOMAIN events
    <3>1. j \in DOMAIN events /\ events[i].dier = events[j].dier
      BY <1>2, <1>3, <2>1
    <3> QED
      BY <2>1, <3>1 DEF Ledger
  <2>2. CASE i \notin DOMAIN events
    <3>1. i - n \in DOMAIN new /\ j - n \in DOMAIN new /\ new[i - n].dier = new[j - n].dier
      BY <1>2, <1>3, <2>2
    <3>2. i - n = j - n
      BY <3>1
    <3> QED
      BY <1>1, <3>2
  <2> QED
    BY <2>1, <2>2
<1>4. ASSUME NEW f \in Foes, st'[f] = "dead"
      PROVE  \E k \in DOMAIN E : E[k].dier = f
  <2>1. f \in Actors
    BY DEF Actors
  <2>2. CASE f \in Fall
    <3>1. PICK j \in 1..m : new[j].dier = f
      BY <1>1, <2>2
    <3>2. n + j \in DOMAIN E /\ E[n + j].dier = f
      BY <1>1, <3>1
    <3> QED
      BY <3>2
  <2>3. CASE f \notin Fall
    <3>1. PICK k \in DOMAIN events : events[k].dier = f
      BY <1>4, <2>1, <2>3 DEF Ledger
    <3>2. k \in DOMAIN E /\ E[k] = events[k]
      BY <1>1
    <3> QED
      BY <3>1, <3>2
  <2> QED
    BY <2>2, <2>3
<1>5. ASSUME NEW k \in DOMAIN E
      PROVE  E[k].killer \in Actors /\ Side(E[k].killer) # Side(E[k].dier)
  BY <1>2 DEF Ledger
<1>6. events' = E
  BY DEF E
<1>7. xp' \in [{Hero, Minion} -> Nat]
  BY DEF Ledger
<1> QED
  BY <1>3, <1>4, <1>5, <1>6, <1>7 DEF Ledger

LEMMA LedgerInit == Init => Ledger
BY DEF Init, Ledger

LEMMA LedgerStep ==
  ASSUME QueuesTyped, Deaths, Bodies, Ledger, [Next]_vars
  PROVE  Ledger'
<1>1. CASE UNCHANGED <<st, events, xp>> /\ phase # "idle" /\ phase' # "idle"
  BY <1>1 DEF Ledger
<1>2. CASE BeginTick
  <2>1. /\ phase = "idle" /\ phase' = "act" /\ events' = <<>> /\ xp' = xp
        /\ st' \in {st, [st EXCEPT ![Minion] = IF @ = "in" THEN "dead" ELSE @]}
    BY <1>2 DEF BeginTick
  <2>2. \A f \in Foes : st'[f] # "dead"
    <3>1. Minion \notin Foes /\ Foes \subseteq Actors
      BY BattleAssumption DEF Actors
    <3>2. \A f \in Foes : st'[f] = st[f]
      BY <2>1, <3>1 DEF Deaths
    <3>3. \A f \in Foes : st[f] # "dead"
      BY <2>1, <3>1 DEF Ledger
    <3> QED
      BY <3>2, <3>3
  <2> QED
    BY <2>1, <2>2 DEF Ledger
<1>3. CASE Land
  <2>1. PICK h \in ToSet(hits), blow \in Blows :
          /\ NextHit(h) /\ Counts(h) /\ phase' = phase /\ xp' = xp
          /\ IF Falls(h, blow)
             THEN st' = [st EXCEPT ![h.def] = "dead"] /\ events' = Append(events, Slain(h.def, h.att))
             ELSE UNCHANGED <<st, events>>
    BY <1>3 DEF Land
  <2>2. h.def \in Living /\ h.def \in Actors /\ phase = "resolve" /\ phase' = phase
    BY <2>1 DEF Counts, NextHit, Resolved, Living
  <2>3. h \in Hits
    BY DEF QueuesTyped, ToSet
  <2>4. CASE st' = st /\ events' = events
    BY <1>1, <2>1, <2>2, <2>4
  <2>5. CASE /\ st' = [st EXCEPT ![h.def] = "dead"]
             /\ events' = Append(events, Slain(h.def, h.att))
    <3> DEFINE e == Slain(h.def, h.att)
               new == <<e>>
    <3>1. e.dier = h.def /\ e.killer \in Actors /\ Side(e.killer) # Side(e.dier)
      BY <2>3 DEF Slain, Hits
    <3> HIDE DEF e
    <3>2. DOMAIN new = {1} /\ new[1] = e /\ new \in Seq({e})
      OBVIOUS
    <3>3. events' = events \o new
      <4>1. PICK S : events \in Seq(S)
        BY DEF Deaths, IsList
      <4>2. events' = Append(events, e)
        BY <2>5 DEF e
      <4>3. events \in Seq(S \cup {e})
        BY <4>1, WiderSeq
      <4> QED
        BY <4>2, <4>3
    <3>4. \A a \in Actors : st'[a] = IF a \in {h.def} THEN "dead" ELSE st[a]
      BY <2>5 DEF Deaths
    <3> HIDE DEF new
    <3>5. IsList(new)
      BY <3>2 DEF IsList
    <3>6. {h.def} \in SUBSET Living
      BY <2>2
    <3>7. \A i, j \in DOMAIN new : new[i].dier = new[j].dier => i = j
      BY <3>2
    <3>8. \A a \in {h.def} : \E j \in DOMAIN new : new[j].dier = a
      BY <3>1, <3>2
    <3>9. \A j \in DOMAIN new : /\ new[j].dier \in {h.def} /\ new[j].killer \in Actors
                                /\ Side(new[j].killer) # Side(new[j].dier)
      BY <3>1, <3>2
    <3>10. phase # "idle" /\ phase' # "idle" /\ xp' = xp
      BY <2>1, <2>2
    <3> QED
      BY <3>3, <3>4, <3>5, <3>6, <3>7, <3>8, <3>9, <3>10, LedgerGrows
  <2> QED
    BY <2>1, <2>4, <2>5
<1>4. CASE TickDoTs
  <2>1. PICK Fall \in SUBSET Burning :
          /\ st' = [a \in Actors |-> IF a \in Fall THEN "dead" ELSE st[a]]
          /\ events' = events \o
               [k \in 1..Cardinality(Fall) |->
                  LET a == SetToSeq(Fall)[k] IN Slain(a, Last(body[a].dots).src)]
    <3>1. PICK Shielded \in SUBSET Burning :
            LET left(a) == IF a \in Shielded THEN body[a].life
                           ELSE IF body[a].life > Heat(a) THEN body[a].life - Heat(a) ELSE 0
                Fall == {a \in Burning : left(a) = 0}
            IN /\ st' = [a \in Actors |-> IF a \in Fall THEN "dead" ELSE st[a]]
               /\ events' = events \o
                    [k \in 1..Cardinality(Fall) |->
                       LET a == SetToSeq(Fall)[k] IN Slain(a, Last(body[a].dots).src)]
      BY <1>4 DEF TickDoTs
    <3> DEFINE Fall == {a \in Burning : (IF a \in Shielded THEN body[a].life
                           ELSE IF body[a].life > Heat(a) THEN body[a].life - Heat(a) ELSE 0) = 0}
    <3>2. /\ st' = [a \in Actors |-> IF a \in Fall THEN "dead" ELSE st[a]]
          /\ events' = events \o
               [k \in 1..Cardinality(Fall) |->
                  LET a == SetToSeq(Fall)[k] IN Slain(a, Last(body[a].dots).src)]
      BY <3>1
    <3> HIDE DEF Fall
    <3>3. Fall \in SUBSET Burning
      BY DEF Fall
    <3> QED
      BY <3>2, <3>3
  <2> DEFINE c == Cardinality(Fall)
             order == SetToSeq(Fall)
             new == [k \in 1..c |-> Slain(order[k], Last(body[order[k]].dots).src)]
  <2>2. Fall \in SUBSET Living /\ Fall \in SUBSET Actors
    BY DEF Burning, Living
  <2>3. /\ c \in Nat /\ order \in [1..c -> Fall]
        /\ (\A i, j \in 1..c : order[i] = order[j] => i = j) /\ \A a \in Fall : \E k \in 1..c : order[k] = a
    BY <2>2, ActorsAreFinite, ListedOnce
  <2>4. ASSUME NEW a \in Fall
        PROVE  LET s == Last(body[a].dots).src IN s \in Actors /\ Side(s) # Side(a)
    <3>1. body[a].dots \in Seq(Dots(a)) /\ body[a].dots # <<>>
      BY <2>2 DEF Bodies, Carries, Burning
    <3>2. Last(body[a].dots) \in Dots(a)
      BY <3>1 DEF Last
    <3> QED
      BY <3>2 DEF Dots
  <2>5. events' = events \o new
    BY <2>1
  <2> HIDE DEF c, order
  <2>6. DOMAIN new = 1..c /\ \A k \in 1..c : new[k].dier = order[k] /\ new[k].killer = Last(body[order[k]].dots).src
    BY DEF Slain
  <2>7. IsList(new)
    <3> DEFINE S == {new[k] : k \in 1..c}
    <3>1. new \in [1..c -> S]
      OBVIOUS
    <3> HIDE DEF new, S
    <3> QED
      BY <2>3, <3>1, Lists DEF IsList
  <2> HIDE DEF new
  <2>8. ASSUME NEW j \in DOMAIN new
        PROVE  /\ new[j].dier \in Fall /\ new[j].killer \in Actors
               /\ Side(new[j].killer) # Side(new[j].dier)
    BY <2>3, <2>4, <2>6
  <2>9. \A i, j \in DOMAIN new : new[i].dier = new[j].dier => i = j
    BY <2>3, <2>6
  <2>10. \A a \in Fall : \E j \in DOMAIN new : new[j].dier = a
    BY <2>3, <2>6
  <2>11. phase # "idle" /\ phase' # "idle" /\ xp' = xp
    BY <1>4 DEF TickDoTs, Resolved
  <2>12. \A a \in Actors : st'[a] = IF a \in Fall THEN "dead" ELSE st[a]
    BY <2>1
  <2> QED
    BY <2>2, <2>5, <2>7, <2>8, <2>9, <2>10, <2>11, <2>12, LedgerGrows
<1>5. CASE EndTick
  <2>1. PICK Born \in SUBSET UNION {Broods[f] : f \in Foes \cap {events[k].dier : k \in DOMAIN events}} :
          st' = [a \in Actors |-> IF a \in Born THEN "in" ELSE IF st[a] = "dead" THEN "out" ELSE st[a]]
    BY <1>5 DEF EndTick
  <2>2. \A a \in Actors : st'[a] # "dead"
    BY <2>1
  <2>3. /\ phase' = "idle" /\ xp' = [a \in {Hero, Minion} |-> xp[a] + Earned(a)]
    BY <1>5 DEF EndTick
  <2>4. \A a \in {Hero, Minion} : Earned(a) \in Nat
    <3> SUFFICES ASSUME NEW a \in {Hero, Minion} PROVE Earned(a) \in Nat
      OBVIOUS
    <3>1. DOMAIN events = 1..Len(events) /\ Len(events) \in Nat
      BY Joined DEF Deaths
    <3> DEFINE K == {k \in DOMAIN events : Payee(events[k]) = a}
    <3>2. K \subseteq 1..Len(events) /\ Earned(a) = Cardinality(K)
      BY <3>1 DEF Earned
    <3> HIDE DEF K
    <3>3. IsFiniteSet(1..Len(events))
      BY <3>1, FS_Interval
    <3>4. IsFiniteSet(K)
      BY <3>2, <3>3, FS_Subset
    <3>5. Cardinality(K) \in Nat
      BY <3>4, FS_CardinalityType
    <3> QED
      BY <3>2, <3>5
  <2> QED
    BY <2>2, <2>3, <2>4 DEF Ledger
<1>6. CASE EndActions \/ FliesOn \/ FliesOut \/ Impact \/ ResolveBuff \/ Fizzle \/ TickStatuses
  BY <1>1, <1>6 DEF EndActions, FliesOn, FliesOut, Impact, Flies, ResolveBuff, Fizzle, NextHit, Resolved, TickStatuses
<1>7. ASSUME NEW a \in Actors, Strike(a) \/ LooseVolley(a) \/ Curse(a) \/ BuffSelf(a)
      PROVE  Ledger'
  BY <1>1, <1>7 DEF Strike, LooseVolley, Curse, BuffSelf, Acts
<1>8. CASE UNCHANGED vars
  BY <1>8 DEF vars, Ledger
<1> QED
  BY <1>2, <1>3, <1>4, <1>5, <1>6, <1>7, <1>8 DEF Next

Pays ==
  LET Swept == {f \in Foes : st[f] = "dead" /\ st'[f] = "out"} IN
  /\ xp'[Hero] + xp'[Minion] <= xp[Hero] + xp[Minion] + Cardinality(Swept)
  /\ {Hero, Minion} \subseteq Living => xp'[Hero] = xp[Hero] + Cardinality(Swept)
  /\ Hero \in Living => xp'[Minion] = xp[Minion]

(* A list has as many foes' deaths as there are dead foes, and what is     *)
(* earned is among them.                                                   *)
LEMMA Wages ==
  ASSUME Deaths, Ledger, phase # "idle",
         NEW c, c = Cardinality({f \in Foes : st[f] = "dead"})
  PROVE  /\ c \in Nat /\ Earned(Hero) \in Nat /\ Earned(Minion) \in Nat
         /\ Earned(Hero) + Earned(Minion) <= c
         /\ {Hero, Minion} \subseteq Living => Earned(Hero) = c
         /\ Hero \in Living => Earned(Minion) = 0
<1> DEFINE Dead == {f \in Foes : st[f] = "dead"}
           E == {k \in DOMAIN events : events[k].dier \in Foes}
           H == {k \in DOMAIN events : Payee(events[k]) = Hero}
           M == {k \in DOMAIN events : Payee(events[k]) = Minion}
<1>1. Earned(Hero) = Cardinality(H) /\ Earned(Minion) = Cardinality(M)
  BY DEF Earned
<1>2. DOMAIN events = 1..Len(events) /\ Len(events) \in Nat
  BY Joined DEF Deaths
<1>3. \A k \in DOMAIN events :
        /\ events[k].dier \in Actors /\ st[events[k].dier] = "dead"
        /\ events[k].killer \in Actors /\ Side(events[k].killer) # Side(events[k].dier)
  BY DEF Deaths, Ledger
<1>4. IsFiniteSet(E)
  <2>1. IsFiniteSet(1..Len(events))
    BY <1>2, FS_Interval
  <2>2. E \subseteq 1..Len(events)
    BY <1>2
  <2> QED
    BY <2>1, <2>2, FS_Subset
<1>5. Cardinality(E) = c /\ c \in Nat
  <2> DEFINE f == [k \in E |-> events[k].dier]
  <2>1. f \in [E -> Dead]
    BY <1>3
  <2>2. \A i, j \in E : f[i] = f[j] => i = j
    BY DEF Ledger
  <2>3. \A d \in Dead : \E k \in E : f[k] = d
    BY DEF Ledger
  <2> HIDE DEF f, E, Dead
  <2>4. ExistsBijection(E, Dead)
    BY <2>1, <2>2, <2>3 DEF ExistsBijection, Bijection, Injection, Surjection, IsInjective
  <2>5. Cardinality(E) = Cardinality(Dead)
    BY <1>4, <2>4, FS_Bijection
  <2>6. Cardinality(E) \in Nat
    BY <1>4, FS_CardinalityType
  <2> QED
    BY <2>5, <2>6 DEF Dead
<1>6. H \subseteq E /\ M \subseteq E /\ H \cap M = {}
  <2>1. ASSUME NEW k \in DOMAIN events, Payee(events[k]) \in {Hero, Minion}
        PROVE  events[k].dier \in Foes
    <3>1. events[k].killer \in {Hero, Minion}
      BY <1>3, <2>1, BattleAssumption DEF Payee, CreditFor, Actors
    <3> QED
      BY <1>3, <3>1, BattleAssumption DEF Side
  <2>2. Hero # Minion
    BY BattleAssumption
  <2> QED
    BY <2>1, <2>2
<1>7. {Hero, Minion} \subseteq Living => H = E
  <2> SUFFICES ASSUME {Hero, Minion} \subseteq Living, NEW k \in E
               PROVE  Payee(events[k]) = Hero
    BY <1>6
  <2>1. events[k].killer \in {Hero, Minion}
    BY <1>3 DEF Side, Actors
  <2>2. events[k].killer \in Living /\ Side(events[k].killer) # Side(events[k].dier)
    BY <1>3, <2>1
  <2> QED
    BY <2>1, <2>2 DEF Payee, CreditFor
<1>8. Hero \in Living => M = {}
  BY BattleAssumption DEF Payee, CreditFor, Actors
<1> HIDE DEF E, H, M
<1>9. IsFiniteSet(H) /\ IsFiniteSet(M)
  BY <1>4, <1>6, FS_Subset
<1>10. Cardinality(H) \in Nat /\ Cardinality(M) \in Nat
  BY <1>9, FS_CardinalityType
<1>11. Cardinality(H) + Cardinality(M) <= Cardinality(E)
  <2>1. Cardinality(H \cup M) = Cardinality(H) + Cardinality(M) - Cardinality(H \cap M)
    BY <1>9, FS_Union
  <2>2. Cardinality(H \cap M) = 0
    BY <1>6, FS_EmptySet
  <2>3. H \cup M \subseteq E
    BY <1>6
  <2>4. Cardinality(H \cup M) <= Cardinality(E)
    BY <1>4, <2>3, FS_Subset
  <2> QED
    BY <1>10, <2>1, <2>2, <2>4
<1>12. Cardinality({}) = 0
  BY FS_EmptySet
<1> QED
  BY <1>1, <1>5, <1>7, <1>8, <1>10, <1>11, <1>12

LEMMA PaysStep ==
  ASSUME Deaths, Ledger, [Next]_vars
  PROVE  Pays
<1> DEFINE Swept == {f \in Foes : st[f] = "dead" /\ st'[f] = "out"}
<1>0. xp[Hero] \in Nat /\ xp[Minion] \in Nat
  BY DEF Ledger
<1>1. ASSUME xp' = xp, \A f \in Foes : st[f] = "dead" => st'[f] # "out"
      PROVE  Pays
  <2>1. Swept = {}
    BY <1>1
  <2> HIDE DEF Swept
  <2>2. Cardinality(Swept) = 0
    BY <2>1, FS_EmptySet
  <2> DEFINE c == Cardinality(Swept)
  <2> HIDE DEF c
  <2>3. c = 0
    BY <2>2 DEF c
  <2>4. /\ xp'[Hero] + xp'[Minion] <= xp[Hero] + xp[Minion] + c
        /\ {Hero, Minion} \subseteq Living => xp'[Hero] = xp[Hero] + c
        /\ Hero \in Living => xp'[Minion] = xp[Minion]
    BY <1>0, <1>1, <2>3
  <2> QED
    BY <2>4 DEF Pays, c, Swept
<1>2. CASE xp' = xp /\ st' = st
  BY <1>1, <1>2
<1>3. CASE BeginTick
  <2>1. xp' = xp /\ st' \in {st, [st EXCEPT ![Minion] = IF @ = "in" THEN "dead" ELSE @]}
    BY <1>3 DEF BeginTick
  <2>2. \A f \in Foes : st[f] = "dead" => st'[f] # "out"
    BY <2>1 DEF Deaths, Actors
  <2> QED
    BY <1>1, <2>1, <2>2
<1>4. CASE Land
  <2>1. xp' = xp
    BY <1>4 DEF Land
  <2>2. st' = st \/ \E a : st' = [st EXCEPT ![a] = "dead"]
    BY <1>4 DEF Land
  <2>3. \A f \in Foes : st[f] = "dead" => st'[f] # "out"
    BY <2>2 DEF Deaths, Actors
  <2> QED
    BY <1>1, <2>1, <2>3
<1>5. CASE TickDoTs
  <2>1. xp' = xp
    BY <1>5 DEF TickDoTs
  <2>2. \E D : st' = [a \in Actors |-> IF a \in D THEN "dead" ELSE st[a]]
    BY <1>5 DEF TickDoTs
  <2>3. Foes \subseteq Actors
    BY DEF Actors
  <2> QED
    BY <1>1, <2>1, <2>2, <2>3
<1>6. CASE EndTick
  <2>1. PICK Born \in SUBSET UNION {Broods[f] : f \in Foes \cap {events[k].dier : k \in DOMAIN events}} :
          st' = [a \in Actors |-> IF a \in Born THEN "in" ELSE IF st[a] = "dead" THEN "out" ELSE st[a]]
    BY <1>6 DEF EndTick
  <2>2. phase # "idle" /\ xp' = [a \in {Hero, Minion} |-> xp[a] + Earned(a)]
    BY <1>6 DEF EndTick
  <2>3. ASSUME NEW a \in Born
        PROVE  st[a] = "unborn"
    <3>1. PICK k \in DOMAIN events : events[k].dier \in Foes /\ a \in Broods[events[k].dier]
      BY <2>3
    <3>2. st[events[k].dier] = "dead"
      BY <2>2 DEF Deaths
    <3> QED
      BY <3>1, <3>2 DEF Deaths
  <2>4. Foes \subseteq Actors
    BY DEF Actors
  <2>5. Swept = {f \in Foes : st[f] = "dead"}
    BY <2>1, <2>3, <2>4
  <2> HIDE DEF Swept
  <2> DEFINE c == Cardinality(Swept)
  <2>6. c = Cardinality({f \in Foes : st[f] = "dead"})
    BY <2>5
  <2> HIDE DEF c
  <2>7. /\ c \in Nat /\ Earned(Hero) \in Nat /\ Earned(Minion) \in Nat
        /\ Earned(Hero) + Earned(Minion) <= c
        /\ {Hero, Minion} \subseteq Living => Earned(Hero) = c
        /\ Hero \in Living => Earned(Minion) = 0
    BY <2>2, <2>6, Wages
  <2>8. xp'[Hero] = xp[Hero] + Earned(Hero) /\ xp'[Minion] = xp[Minion] + Earned(Minion)
    BY <2>2
  <2>9. /\ xp'[Hero] + xp'[Minion] <= xp[Hero] + xp[Minion] + c
        /\ {Hero, Minion} \subseteq Living => xp'[Hero] = xp[Hero] + c
        /\ Hero \in Living => xp'[Minion] = xp[Minion]
    BY <1>0, <2>7, <2>8
  <2> QED
    BY <2>9 DEF Pays, c, Swept
<1>7. CASE EndActions \/ FliesOn \/ FliesOut \/ Impact \/ ResolveBuff \/ Fizzle \/ TickStatuses
  BY <1>2, <1>7 DEF EndActions, FliesOn, FliesOut, Impact, ResolveBuff, Fizzle, TickStatuses
<1>8. ASSUME NEW a \in Actors, Strike(a) \/ LooseVolley(a) \/ Curse(a) \/ BuffSelf(a)
      PROVE  Pays
  BY <1>2, <1>8 DEF Strike, LooseVolley, Curse, BuffSelf, Acts
<1>9. CASE UNCHANGED vars
  BY <1>2, <1>9 DEF vars
<1> QED
  BY <1>3, <1>4, <1>5, <1>6, <1>7, <1>8, <1>9 DEF Next

(* A foe's death is paid at most once and in its own tick: to the hero,    *)
(* whoever killed, when hero and minion live, and to the minion only if    *)
(* the hero does not (progress.go: AwardXP, CreditFor), for any number of  *)
(* foes, splitting or not, however many fall in one tick.                  *)
THEOREM DeathsPayOnce == Spec => PaidOnceToTheRoot
<1>1. Init => QueuesTyped /\ Deaths /\ Bodies /\ Ledger
  BY QueuesInit, DeathsInit, BodiesInit, LedgerInit
<1>2. QueuesTyped /\ Deaths /\ Bodies /\ Ledger /\ [Next]_vars
        => (QueuesTyped /\ Deaths /\ Bodies /\ Ledger)'
  BY QueuesStep, DeathsStep, BodiesStep, LedgerStep
<1>3. Deaths /\ Ledger /\ [Next]_vars => [Pays]_vars
  BY PaysStep
<1> QED
  BY <1>1, <1>2, <1>3, PTL DEF Spec, PaidOnceToTheRoot, Pays
=============================================================================
