----------------------------- MODULE GemsProofs -----------------------------
(***************************************************************************)
(* Theorems about Gems, for any auras, supports, bars, levels and caps.    *)
(***************************************************************************)
EXTENDS Gems, FiniteSetTheorems, TLAPS

(***************************************************************************)
(* Selections.  Standing keeps entries, each once; where nobody is dead it *)
(* keeps all of them.                                                      *)
(***************************************************************************)
LEMMA Lists ==
  ASSUME NEW S, NEW n \in Nat, NEW f \in [1..n -> S]
  PROVE  f \in Seq(S) /\ Len(f) = n
OBVIOUS

LEMMA WiderSeq ==
  ASSUME NEW A, NEW B, A \subseteq B, NEW s \in Seq(A)
  PROVE  s \in Seq(B)
<1>1. Len(s) \in Nat /\ s \in [1..Len(s) -> A]
  OBVIOUS
<1> DEFINE n == Len(s)
<1>2. s \in [1..n -> B]
  BY <1>1
<1> HIDE DEF n
<1> QED
  BY <1>1, <1>2, Lists DEF n

(* The ranks of a finite set of numbers are 1, 2, up to its size.          *)
LEMMA Ranks ==
  ASSUME NEW K \in SUBSET Nat, IsFiniteSet(K)
  PROVE  /\ Cardinality(K) \in Nat
         /\ \A k \in K : Cardinality({j \in K : j <= k}) \in 1..Cardinality(K)
         /\ \A k, l \in K : Cardinality({j \in K : j <= k}) = Cardinality({j \in K : j <= l}) => k = l
         /\ \A n \in 1..Cardinality(K) : \E k \in K : Cardinality({j \in K : j <= k}) = n
<1> DEFINE B(k) == {j \in K : j <= k}
           c == Cardinality(K)
           r == [k \in K |-> Cardinality(B(k))]
<1>1. c \in Nat
  BY FS_CardinalityType
<1>2. \A k \in K : IsFiniteSet(B(k)) /\ Cardinality(B(k)) \in 1..c
  <2> SUFFICES ASSUME NEW k \in K
               PROVE  IsFiniteSet(B(k)) /\ Cardinality(B(k)) \in 1..c
    OBVIOUS
  <2>1. B(k) \in SUBSET K /\ k \in B(k)
    OBVIOUS
  <2>2. IsFiniteSet(B(k)) /\ Cardinality(B(k)) <= c /\ Cardinality(B(k)) \in Nat
    BY <2>1, FS_Subset, FS_CardinalityType
  <2>3. Cardinality(B(k)) # 0
    BY <2>1, <2>2, FS_EmptySet
  <2> QED
    BY <1>1, <2>2, <2>3
<1>3. \A k, l \in K : Cardinality(B(k)) = Cardinality(B(l)) => k = l
  <2>1. ASSUME NEW k \in K, NEW l \in K, Cardinality(B(k)) = Cardinality(B(l)), k < l
        PROVE  FALSE
    <3>1. B(k) \in SUBSET B(l)
      <4>1. \A j \in K : j <= k => j <= l
        BY <2>1
      <4> QED
        BY <4>1
    <3>2. l \in B(l) /\ l \notin B(k)
      BY <2>1
    <3> QED
      BY <1>2, <2>1, <3>1, <3>2, FS_Subset
  <2>2. \A k, l \in K : k = l \/ k < l \/ l < k
    OBVIOUS
  <2> HIDE DEF B
  <2> QED
    BY <2>1, <2>2
<1> HIDE DEF B
<1>4. r \in Injection(K, 1..c)
  BY <1>2, <1>3 DEF Injection, IsInjective
<1>5. IsFiniteSet(1..c) /\ Cardinality(1..c) = c
  BY <1>1, FS_Interval
<1>6. r \in Surjection(K, 1..c)
  BY <1>4, <1>5, FS_Injection
<1>7. \A n \in 1..c : \E k \in K : Cardinality(B(k)) = n
  BY <1>6 DEF Surjection
<1> QED
  BY <1>1, <1>2, <1>3, <1>7 DEF B

LEMMA Stands ==
  ASSUME NEW X, NEW ms \in Seq(X)
  PROVE  /\ Standing(ms) \in Seq(X)
         /\ \A n \in DOMAIN Standing(ms) : \E k \in DOMAIN ms : Standing(ms)[n] = ms[k] /\ ~ms[k].dead
         /\ \E at \in [DOMAIN Standing(ms) -> DOMAIN ms] :
              /\ \A i, j \in DOMAIN Standing(ms) : at[i] = at[j] => i = j
              /\ \A n \in DOMAIN Standing(ms) : Standing(ms)[n] = ms[at[n]]
         /\ (\A k \in DOMAIN ms : ~ms[k].dead) => Standing(ms) = ms
<1> DEFINE K == {k \in DOMAIN ms : ~ms[k].dead}
           c == Cardinality(K)
           rank(k) == Cardinality({j \in K : j <= k})
           pick(n) == CHOOSE k \in K : rank(k) = n
           at == [n \in 1..c |-> pick(n)]
<1>1. DOMAIN ms = 1..Len(ms) /\ Len(ms) \in Nat /\ \A k \in DOMAIN ms : ms[k] \in X
  OBVIOUS
<1>2. IsFiniteSet(K) /\ K \in SUBSET Nat
  <2>1. IsFiniteSet(1..Len(ms))
    BY <1>1, FS_Interval
  <2> QED
    BY <1>1, <2>1, FS_Subset
<1>3. /\ c \in Nat /\ \A n \in 1..c : pick(n) \in K /\ rank(pick(n)) = n
      /\ \A k, l \in K : rank(k) = rank(l) => k = l
  <2>1. /\ c \in Nat /\ \A n \in 1..c : \E k \in K : rank(k) = n
        /\ \A k, l \in K : rank(k) = rank(l) => k = l
    BY <1>2, Ranks
  <2> HIDE DEF K, c, rank
  <2> QED
    BY <2>1
<1>4. Standing(ms) = [n \in 1..c |-> ms[pick(n)]]
  BY DEF Standing
<1>5. \A k \in K : k \in DOMAIN ms /\ ~ms[k].dead
  OBVIOUS
<1>6. (\A k \in DOMAIN ms : ~ms[k].dead) => c = Len(ms) /\ \A n \in 1..c : pick(n) = n
  <2> SUFFICES ASSUME \A k \in DOMAIN ms : ~ms[k].dead
               PROVE  c = Len(ms) /\ \A n \in 1..c : pick(n) = n
    OBVIOUS
  <2>1. K = 1..Len(ms)
    BY <1>1
  <2>2. c = Len(ms)
    <3>1. Cardinality(1..Len(ms)) = Len(ms)
      BY <1>1, FS_Interval
    <3> QED
      BY <2>1, <3>1
  <2>3. ASSUME NEW n \in 1..c
        PROVE  n \in K /\ rank(n) = n
    <3>0. K = 1..Len(ms) /\ n \in 1..Len(ms) /\ Len(ms) \in Nat
      BY <1>1, <2>1, <2>2
    <3>1. {j \in K : j <= n} = 1..n /\ n \in Nat /\ n \in K
      <4> HIDE DEF K, c
      <4>1. \A j : j \in K /\ j <= n <=> j \in 1..n
        BY <3>0
      <4> QED
        BY <3>0, <4>1
    <3>2. Cardinality(1..n) = n
      BY <3>1, FS_Interval
    <3> QED
      BY <3>1, <3>2
  <2> HIDE DEF K, c, rank, pick
  <2>4. \A n \in 1..c : pick(n) = n
    BY <1>3, <2>3
  <2> QED
    BY <2>2, <2>4
<1> HIDE DEF K, c, rank, pick
<1>7. Standing(ms) \in [1..c -> X]
  BY <1>1, <1>3, <1>4, <1>5
<1>8. Standing(ms) \in Seq(X) /\ DOMAIN Standing(ms) = 1..c
  <2>1. DOMAIN Standing(ms) = 1..c
    BY <1>4
  <2> HIDE DEF Standing
  <2> QED
    BY <1>3, <1>7, <2>1, Lists
<1>9. at \in [1..c -> DOMAIN ms] /\ \A i, j \in 1..c : at[i] = at[j] => i = j
  BY <1>3, <1>5
<1>10. \A n \in 1..c : Standing(ms)[n] = ms[at[n]] /\ ~ms[at[n]].dead
  BY <1>3, <1>4, <1>5
<1>11. (\A k \in DOMAIN ms : ~ms[k].dead) => Standing(ms) = ms
  <2>1. ASSUME \A k \in DOMAIN ms : ~ms[k].dead
        PROVE  Standing(ms) = ms
    <3>1. Standing(ms) = [n \in 1..Len(ms) |-> ms[n]]
      BY <1>4, <1>6, <2>1
    <3> QED
      BY <1>1, <3>1
  <2> QED
    BY <2>1
<1> HIDE DEF at
<1>12. /\ at \in [DOMAIN Standing(ms) -> DOMAIN ms]
       /\ \A i, j \in DOMAIN Standing(ms) : at[i] = at[j] => i = j
       /\ \A n \in DOMAIN Standing(ms) : Standing(ms)[n] = ms[at[n]]
  BY <1>8, <1>9, <1>10
<1>13. \A n \in DOMAIN Standing(ms) : \E k \in DOMAIN ms : Standing(ms)[n] = ms[k] /\ ~ms[k].dead
  BY <1>8, <1>9, <1>10
<1> QED
  BY <1>8, <1>11, <1>12, <1>13

(***************************************************************************)
(* How many of a list are living minions of the hero: no more than of a    *)
(* list that it was taken from.                                            *)
(***************************************************************************)
LivingIn(ms) == {k \in DOMAIN ms : Mine(ms[k])}

LEMMA Countable ==
  ASSUME NEW X, NEW ms \in Seq(X), NEW K \in SUBSET DOMAIN ms
  PROVE  IsFiniteSet(K) /\ K \in SUBSET Nat /\ Cardinality(K) \in Nat
<1>1. DOMAIN ms = 1..Len(ms) /\ Len(ms) \in Nat
  OBVIOUS
<1>2. IsFiniteSet(1..Len(ms))
  BY <1>1, FS_Interval
<1>3. IsFiniteSet(K)
  BY <1>1, <1>2, FS_Subset
<1> QED
  BY <1>1, <1>3, FS_CardinalityType

LEMMA FewerLiving ==
  ASSUME NEW X, NEW ms \in Seq(X), NEW ns \in Seq(X),
         NEW at \in [DOMAIN ns -> DOMAIN ms],
         \A i, j \in DOMAIN ns : at[i] = at[j] => i = j,
         \A n \in DOMAIN ns : Mine(ns[n]) => Mine(ms[at[n]])
  PROVE  Cardinality(LivingIn(ns)) <= Cardinality(LivingIn(ms))
<1> DEFINE A == LivingIn(ns)
           B == LivingIn(ms)
           f == [n \in A |-> at[n]]
<1>1. A \in SUBSET DOMAIN ns /\ B \in SUBSET DOMAIN ms
  BY DEF LivingIn
<1>2. IsFiniteSet(B)
  BY <1>1, Countable
<1>3. \A n \in A : at[n] \in B
  BY DEF LivingIn
<1> HIDE DEF A, B
<1>4. f \in Injection(A, B)
  BY <1>1, <1>3 DEF Injection, IsInjective
<1> QED
  BY <1>2, <1>4, FS_Injection DEF A, B

(* The oldest n go: of c there remain c - n.                               *)
LEMMA OldestGo ==
  ASSUME NEW K \in SUBSET Nat, IsFiniteSet(K), NEW n \in 0..Cardinality(K)
  PROVE  Cardinality({k \in K : ~(Cardinality({j \in K : j < k}) < n)}) <= Cardinality(K) - n
<1> DEFINE c == Cardinality(K)
           R == {k \in K : ~(Cardinality({j \in K : j < k}) < n)}
           rank(k) == Cardinality({j \in K : j <= k})
           f == [k \in R |-> rank(k)]
<1>1. c \in Nat /\ \A k \in K : rank(k) \in 1..c
  BY Ranks
<1>2. \A k, l \in K : rank(k) = rank(l) => k = l
  BY Ranks
<1>3. ASSUME NEW k \in R
      PROVE  rank(k) \in (n + 1)..c
  <2> DEFINE L == {j \in K : j < k}
  <2>1. IsFiniteSet(L) /\ Cardinality(L) \in Nat /\ k \notin L
    BY FS_Subset, FS_CardinalityType
  <2>2. {j \in K : j <= k} = L \cup {k}
    <3>1. k \in K /\ \A j \in K : j <= k <=> j < k \/ j = k
      OBVIOUS
    <3> QED
      BY <3>1
  <2>3. k \in K /\ ~(Cardinality(L) < n)
    OBVIOUS
  <2>4. rank(k) = Cardinality(L \cup {k})
    BY <2>2
  <2> HIDE DEF L, rank
  <2>5. Cardinality(L \cup {k}) = Cardinality(L) + 1
    BY <2>1, FS_AddElement
  <2> QED
    BY <1>1, <2>1, <2>3, <2>4, <2>5
<1>4. R \subseteq K
  OBVIOUS
<1> HIDE DEF c, R, rank
<1>5. f \in Injection(R, (n + 1)..c)
  BY <1>2, <1>3, <1>4 DEF Injection, IsInjective
<1>6. IsFiniteSet((n + 1)..c) /\ Cardinality((n + 1)..c) = c - n
  <2>1. n \in Nat /\ n <= c /\ n + 1 \in Int /\ c \in Int
    BY <1>1 DEF c
  <2>2. /\ IsFiniteSet((n + 1)..c)
        /\ Cardinality((n + 1)..c) = IF n + 1 > c THEN 0 ELSE c - (n + 1) + 1
    BY <2>1, FS_Interval
  <2> QED
    BY <2>1, <2>2
<1>7. Cardinality(R) <= Cardinality((n + 1)..c)
  BY <1>5, <1>6, FS_Injection
<1> QED
  BY <1>6, <1>7 DEF c, R

(***************************************************************************)
(* Types.  A bar of good gems; a cast is of the hero in the world; what is *)
(* waiting to be born has been summoned in this tick.                      *)
(***************************************************************************)
GemSet == [skill : Skills, level : Levels, supports : Seq(Supports \cup {None}), on : BOOLEAN]
Casts == [skill : Skills, level : Levels, supports : SUBSET Supports]
Minions == [level : Levels, left : 0..SummonTTL, dead : BOOLEAN, owned : BOOLEAN, mods : [Auras -> Seq(Levels)]]

Good(g) ==
  /\ g \in GemSet /\ (g.on => g.skill \in Auras)
  /\ Len(g.supports) \in 1..MaxGemSockets
  /\ \A s \in Used(g) : g.skill \in Fits[s]
  /\ \A i, j \in DOMAIN g.supports : g.supports[i] = g.supports[j] /\ g.supports[i] # None => i = j

Bar ==
  /\ gems \in Seq(GemSet) /\ Len(gems) <= MaxSkillGems
  /\ \A k \in DOMAIN gems : Good(gems[k])
  /\ \A j, k \in DOMAIN gems : gems[j].skill = gems[k].skill => j = k

Typed ==
  /\ phase \in {"idle", "commands", "combat", "drain"}
  /\ hero \in {"alive", "dead", "away"}
  /\ cast \in Casts \cup {None} /\ (cast # None => hero = "alive")
  /\ sheet \in [Auras -> Seq(Levels)]
  /\ minions \in Seq(Minions) /\ spawns \in Seq(Levels)
  /\ phase \in {"idle", "commands"} => spawns = <<>>

LEMMA LevelsAreFew == Levels # {} /\ Levels \subseteq Nat /\ 1 \in Levels
BY GemsAssumption DEF Levels

LEMMA FreshIsGood ==
  ASSUME NEW sk \in Skills, NEW level \in Levels
  PROVE  Good(Fresh(sk, level)) /\ Fresh(sk, level).skill = sk /\ Fresh(sk, level).on = FALSE
<1>1. <<None>> \in Seq(Supports \cup {None}) /\ Len(<<None>>) = 1 /\ DOMAIN <<None>> = {1} /\ <<None>>[1] = None
  OBVIOUS
<1>2. 1 \in 1..MaxGemSockets
  BY GemsAssumption
<1>3. Used(Fresh(sk, level)) = {}
  BY <1>1 DEF Used, Fresh
<1> QED
  BY <1>1, <1>2, <1>3 DEF Good, Fresh, GemSet

(* The bar changes in one gem. *)
LEMMA OneGem ==
  ASSUME Bar, NEW k \in DOMAIN gems, NEW g, Good(g), gems' = [gems EXCEPT ![k] = g],
         g.skill = gems[k].skill \/ ~IsCut(g.skill)
  PROVE  Bar'
<1>1. gems' \in Seq(GemSet) /\ DOMAIN gems' = DOMAIN gems /\ Len(gems') = Len(gems)
  BY DEF Bar, Good
<1>2. \A j \in DOMAIN gems : gems'[j] = IF j = k THEN g ELSE gems[j]
  BY DEF Bar
<1>3. \A j \in DOMAIN gems : j # k => gems[j].skill # g.skill
  BY DEF Bar, IsCut, Skill
<1> QED
  BY <1>1, <1>2, <1>3 DEF Bar

LEMMA SupportGoesIn ==
  ASSUME NEW g, Good(g), NEW s \in Supports, NEW j \in DOMAIN g.supports,
         g.skill \in Fits[s], s \notin Used(g)
  PROVE  Good([g EXCEPT !.supports[j] = s])
<1> DEFINE new == [g.supports EXCEPT ![j] = s]
           h == [g EXCEPT !.supports = new]
<1>1. g.supports \in Seq(Supports \cup {None}) /\ g \in GemSet
  BY DEF Good, GemSet
<1>2. new \in Seq(Supports \cup {None}) /\ Len(new) = Len(g.supports) /\ DOMAIN new = DOMAIN g.supports
  BY <1>1
<1>3. \A i \in DOMAIN new : new[i] = IF i = j THEN s ELSE g.supports[i]
  BY <1>1, <1>2
<1> HIDE DEF new
<1>4. h \in GemSet /\ h.supports = new /\ h.skill = g.skill /\ h.on = g.on
  BY <1>1, <1>2 DEF GemSet
<1>5. \A t \in Used(h) : t = s \/ t \in Used(g)
  BY <1>2, <1>3, <1>4 DEF Used
<1>6. \A t \in Used(h) : h.skill \in Fits[t]
  BY <1>4, <1>5 DEF Good
<1>7. \A i \in DOMAIN g.supports : g.supports[i] # s
  <2>1. s # None
    BY GemsAssumption
  <2> QED
    BY <2>1 DEF Used
<1>8. \A i, l \in DOMAIN new : new[i] = new[l] /\ new[i] # None => i = l
  BY <1>2, <1>3, <1>7 DEF Good
<1>9. Good(h)
  BY <1>2, <1>4, <1>6, <1>8 DEF Good
<1>10. [g EXCEPT !.supports[j] = s] = h
  BY <1>1 DEF new, GemSet
<1> QED
  BY <1>9, <1>10

LEMMA SocketIsAdded ==
  ASSUME NEW g, Good(g), Len(g.supports) < MaxGemSockets
  PROVE  Good([g EXCEPT !.supports = Append(@, None)])
<1> DEFINE new == Append(g.supports, None)
           h == [g EXCEPT !.supports = new]
           n == Len(g.supports)
<1>1. g.supports \in Seq(Supports \cup {None}) /\ g \in GemSet /\ n \in Nat /\ MaxGemSockets \in Nat
  BY GemsAssumption DEF Good, GemSet
<1>2. /\ new \in Seq(Supports \cup {None}) /\ Len(new) = n + 1
      /\ DOMAIN new = 1..(n + 1) /\ DOMAIN g.supports = 1..n
      /\ \A i \in 1..n : new[i] = g.supports[i]
      /\ new[n + 1] = None
  BY <1>1
<1> HIDE DEF new, n
<1>3. \A i \in 1..(n + 1) : i \in 1..n \/ i = n + 1
  BY <1>1
<1>4. h \in GemSet /\ h.supports = new /\ h.skill = g.skill /\ h.on = g.on
  BY <1>1, <1>2 DEF GemSet
<1>5. Used(h) \subseteq Used(g)
  BY <1>2, <1>3, <1>4 DEF Used
<1>6. \A i, l \in DOMAIN new : new[i] = new[l] /\ new[i] # None => i = l
  BY <1>2, <1>3 DEF Good
<1>7. Len(new) \in 1..MaxGemSockets
  BY <1>1, <1>2 DEF n
<1>8. Good(h)
  BY <1>4, <1>5, <1>6, <1>7 DEF Good
<1> QED
  BY <1>8 DEF new

(***************************************************************************)
(* Saving and loading, field by field.                                     *)
(***************************************************************************)
LEMMA ModsComeBack ==
  ASSUME NEW mods \in [Auras -> Seq(Levels)]
  PROVE  LoadedMods(SavedMods(mods)) = mods
<1> DEFINE file == SavedMods(mods)
           entry(a, n) == [source |-> a, nth |-> n, value |-> mods[a][n]]
           own(a) == {m \in file : m.source = a}
<1>1. \A m : m \in file <=> \E a \in Auras : \E n \in DOMAIN mods[a] : m = entry(a, n)
  BY DEF SavedMods
<1>2. \A a, n : entry(a, n).source = a /\ entry(a, n).nth = n /\ entry(a, n).value = mods[a][n]
  OBVIOUS
<1> HIDE DEF file, entry
<1>3. ASSUME NEW a \in Auras
      PROVE  [n \in {m.nth : m \in own(a)} |-> (CHOOSE m \in own(a) : m.nth = n).value] = mods[a]
  <2>1. \A m : m \in own(a) <=> \E n \in DOMAIN mods[a] : m = entry(a, n)
    BY <1>1, <1>2
  <2> HIDE DEF own
  <2>2. {m.nth : m \in own(a)} = DOMAIN mods[a]
    BY <2>1, <1>2
  <2>3. ASSUME NEW n \in DOMAIN mods[a]
        PROVE  (CHOOSE m \in own(a) : m.nth = n).value = mods[a][n]
    <3> DEFINE e == CHOOSE m \in own(a) : m.nth = n
    <3>1. entry(a, n) \in own(a) /\ entry(a, n).nth = n
      BY <2>1, <1>2
    <3>2. e \in own(a) /\ e.nth = n
      BY <3>1
    <3> HIDE DEF e
    <3>3. e = entry(a, n)
      BY <3>2, <2>1, <1>2
    <3>4. e.value = mods[a][n]
      BY <3>3, <1>2
    <3> QED
      BY <3>4 DEF e
  <2>4. mods[a] = [n \in DOMAIN mods[a] |-> mods[a][n]]
    <3>1. mods[a] \in Seq(Levels)
      OBVIOUS
    <3> QED
      BY <3>1
  <2> QED
    BY <2>2, <2>3, <2>4
<1>4. LoadedMods(file) = [a \in Auras |-> mods[a]]
  BY <1>3 DEF LoadedMods
<1> QED
  BY <1>4 DEF file

LEMMA GemComesBack ==
  ASSUME NEW g \in GemSet
  PROVE  LoadedGem(SavedGem(g)) = g
<1> DEFINE names == [j \in DOMAIN g.supports |-> IF g.supports[j] = None THEN "" ELSE g.supports[j]]
<1>1. g.supports \in Seq(Supports \cup {None})
  BY DEF GemSet
<1>2. \A j \in DOMAIN g.supports : g.supports[j] \in Supports \cup {None}
  BY <1>1
<1>3. None \notin Supports /\ "" \notin Supports
  <2>1. None \notin Supports
    BY GemsAssumption
  <2>2. "" \notin Supports
    BY NamesAssumption
  <2> QED
    BY <2>1, <2>2
<1>4. \A j \in DOMAIN g.supports : (IF names[j] = "" THEN None ELSE names[j]) = g.supports[j]
  BY <1>2, <1>3
<1>5. g.supports = [j \in DOMAIN g.supports |-> g.supports[j]]
  BY <1>1
<1>6. LoadedSockets(names) = g.supports
  BY <1>4, <1>5 DEF LoadedSockets
<1>7. SavedGem(g) = [skill |-> g.skill, level |-> g.level, aura_on |-> g.on, supports |-> names]
  BY DEF SavedGem
<1> HIDE DEF names
<1>8. LoadedGem(SavedGem(g)) = [skill |-> g.skill, level |-> g.level, supports |-> g.supports, on |-> g.on]
  BY <1>6, <1>7 DEF LoadedGem
<1> QED
  BY <1>8 DEF GemSet

LEMMA ActionComesBack ==
  ASSUME Typed
  PROVE  LoadedAction(SavedAction) = cast
<1>1. CASE cast = None
  BY <1>1 DEF SavedAction, LoadedAction
<1>2. CASE cast # None
  <2>1. cast \in Casts
    BY <1>2 DEF Typed
  <2>2. cast.skill # ""
    BY <2>1, NamesAssumption DEF Casts
  <2> QED
    BY <1>2, <2>1, <2>2 DEF SavedAction, LoadedAction, Casts
<1> QED
  BY <1>1, <1>2

LEMMA MinionComesBack ==
  ASSUME NEW m \in Minions, ~m.dead
  PROVE  LoadedMinion(SavedMinion(m)) = m
<1>1. m.mods \in [Auras -> Seq(Levels)] /\ m.level \in Levels /\ m.dead = FALSE
  <2>1. m.mods \in [Auras -> Seq(Levels)] /\ m.level \in Levels
    BY DEF Minions
  <2>2. m.dead \in BOOLEAN
    BY DEF Minions
  <2> QED
    BY <2>1, <2>2
<1>2. ~(m.level < 1)
  BY <1>1, GemsAssumption DEF Levels
<1>3. LoadedMods(SavedMods(m.mods)) = m.mods
  BY <1>1, ModsComeBack
<1>4. LoadedMinion(SavedMinion(m)) =
        [level |-> m.level, left |-> m.left, dead |-> m.dead, owned |-> m.owned, mods |-> m.mods]
  <2>1. /\ SavedMinion(m).level = m.level /\ SavedMinion(m).lifespan = m.left
        /\ SavedMinion(m).owner = m.owned /\ SavedMinion(m).mods = SavedMods(m.mods)
    BY DEF SavedMinion
  <2> QED
    BY <1>1, <1>2, <1>3, <2>1 DEF LoadedMinion
<1> QED
  BY <1>4 DEF Minions

LEMMA Restored ==
  ASSUME Typed, Bar, Restore
  PROVE  /\ phase = "idle" /\ phase' = phase /\ spawns' = spawns
         /\ hero' = hero /\ gems' = gems /\ cast' = cast /\ sheet' = sheet
         /\ minions' = Standing(minions)
<1>1. phase = "idle" /\ phase' = phase /\ spawns' = spawns
  BY DEF Restore
<1>2. hero' = hero /\ gems' = gems /\ cast' = cast /\ sheet' = sheet
  <2>1. CASE hero = "alive"
    <3>1. Saved.hero = SavedHero
      BY <2>1 DEF Saved
    <3>2. LoadedMods(SavedMods(sheet)) = sheet
      BY ModsComeBack DEF Typed
    <3>3. [k \in DOMAIN SavedHero.gems |-> LoadedGem(SavedHero.gems[k])] = gems
      <4>1. gems \in Seq(GemSet)
        BY DEF Bar
      <4>2. SavedHero.gems = [k \in DOMAIN gems |-> SavedGem(gems[k])]
        BY DEF SavedHero
      <4>3. \A k \in DOMAIN gems : gems[k] \in GemSet
        BY <4>1
      <4>4. \A k \in DOMAIN gems : LoadedGem(SavedGem(gems[k])) = gems[k]
        BY <4>3, GemComesBack
      <4>5. [k \in DOMAIN SavedHero.gems |-> LoadedGem(SavedHero.gems[k])] = [k \in DOMAIN gems |-> gems[k]]
        BY <4>2, <4>4
      <4> QED
        BY <4>1, <4>5
    <3>4. LoadedAction(SavedHero.action) = cast
      BY ActionComesBack DEF SavedHero
    <3>5. SavedHero.mods = SavedMods(sheet)
      BY DEF SavedHero
    <3>6. CASE SavedHero = None
      BY <3>1, <3>6 DEF Restore
    <3>7. CASE SavedHero # None
      <4>1. LoadedHero(SavedHero)
        BY <3>1, <3>7 DEF Restore
      <4> QED
        BY <2>1, <3>2, <3>3, <3>4, <3>5, <4>1 DEF LoadedHero
    <3> QED
      BY <3>6, <3>7
  <2>2. CASE hero # "alive"
    <3>1. Saved.hero = None
      BY <2>2 DEF Saved
    <3> QED
      BY <3>1 DEF Restore
  <2> QED
    BY <2>1, <2>2
<1>3. minions' = Standing(minions)
  <2> PICK up : up = Standing(minions)
    OBVIOUS
  <2>1. /\ up \in Seq(Minions)
        /\ \A n \in DOMAIN up : \E k \in DOMAIN minions : up[n] = minions[k] /\ ~minions[k].dead
    BY Stands DEF Typed
  <2>2. Saved.minions = [k \in DOMAIN up |-> SavedMinion(up[k])]
    BY DEF Saved
  <2>3. \A k \in DOMAIN up : up[k] \in Minions /\ ~up[k].dead
    BY <2>1
  <2>4. \A k \in DOMAIN up : LoadedMinion(SavedMinion(up[k])) = up[k]
    BY <2>3, MinionComesBack
  <2>5. minions' = [k \in DOMAIN up |-> LoadedMinion(SavedMinion(up[k]))]
    BY <2>2 DEF Restore
  <2>6. minions' = [k \in DOMAIN up |-> up[k]]
    BY <2>4, <2>5
  <2> QED
    BY <2>1, <2>6
<1> QED
  BY <1>1, <1>2, <1>3

LEMMA BarStep ==
  ASSUME Typed, Bar, [Next]_vars
  PROVE  Bar'
<1> USE DEF Skill
<1>1. CASE UNCHANGED gems
  BY <1>1 DEF Bar
<1>2. ASSUME NEW sk \in Skills, NEW l \in Levels, CutSkill(sk, l)
      PROVE  Bar'
  <2>1. gems' = Append(gems, Fresh(sk, l)) /\ ~IsCut(sk) /\ Len(gems) < MaxSkillGems
    BY <1>2 DEF CutSkill
  <2> DEFINE g == Fresh(sk, l)
             n == Len(gems)
  <2>2. Good(g) /\ g \in GemSet /\ g.skill = sk
    BY FreshIsGood DEF Good
  <2> HIDE DEF g
  <2>3. n \in Nat /\ DOMAIN gems = 1..n /\ gems \in Seq(GemSet)
    BY DEF Bar
  <2>4. /\ gems' \in Seq(GemSet) /\ Len(gems') = n + 1 /\ DOMAIN gems' = 1..(n + 1)
        /\ gems'[n + 1] = g /\ \A k \in 1..n : gems'[k] = gems[k]
    BY <2>1, <2>2, <2>3 DEF g
  <2>5. \A k \in 1..n : gems[k].skill # sk
    BY <2>1, <2>3 DEF IsCut
  <2> HIDE DEF n
  <2>6. \A k \in 1..(n + 1) : k \in 1..n \/ k = n + 1
    BY <2>3
  <2>7. \A k \in DOMAIN gems' : Good(gems'[k])
    BY <2>2, <2>3, <2>4, <2>6 DEF Bar
  <2>8. \A j, k \in DOMAIN gems' : gems'[j].skill = gems'[k].skill => j = k
    BY <2>2, <2>3, <2>4, <2>5, <2>6 DEF Bar
  <2>9. Len(gems') <= MaxSkillGems
    BY <2>1, <2>3, <2>4, GemsAssumption DEF n
  <2> QED
    BY <2>4, <2>7, <2>8, <2>9 DEF Bar
<1>3. ASSUME NEW k \in DOMAIN gems, NEW sk \in Skills, NEW l \in Levels, CutSkillOver(sk, l, k)
      PROVE  Bar'
  <2>1. gems' = [gems EXCEPT ![k] = Fresh(sk, l)] /\ ~IsCut(sk)
    BY <1>3 DEF CutSkillOver
  <2> QED
    BY <2>1, FreshIsGood, OneGem
<1>4. ASSUME NEW k \in DOMAIN gems, NEW l \in Levels, LevelGem(l, k)
      PROVE  Bar'
  <2> DEFINE g == [gems[k] EXCEPT !.level = l]
  <2>1. gems' = [gems EXCEPT ![k] = g]
    BY <1>4 DEF LevelGem
  <2>2. Good(gems[k])
    BY DEF Bar
  <2>3. Good(g) /\ g.skill = gems[k].skill
    BY <2>2 DEF Good, GemSet, Used
  <2> HIDE DEF g
  <2> QED
    BY <2>1, <2>3, OneGem
<1>5. ASSUME NEW k \in DOMAIN gems, NEW s \in Supports, NEW j \in DOMAIN gems[k].supports, CutSupport(s, k, j)
      PROVE  Bar'
  <2> DEFINE g == [gems[k] EXCEPT !.supports[j] = s]
  <2>1. gems' = [gems EXCEPT ![k] = g] /\ gems[k].skill \in Fits[s] /\ s \notin Used(gems[k])
    BY <1>5 DEF CutSupport
  <2>2. Good(gems[k]) /\ gems[k] \in GemSet
    BY DEF Bar, Good
  <2>3. Good(g)
    BY <2>1, <2>2, SupportGoesIn
  <2>4. g.skill = gems[k].skill
    BY <2>2 DEF GemSet
  <2> HIDE DEF g
  <2> QED
    BY <2>1, <2>3, <2>4, OneGem
<1>6. ASSUME NEW k \in DOMAIN gems, AddSocket(k)
      PROVE  Bar'
  <2> DEFINE g == [gems[k] EXCEPT !.supports = Append(@, None)]
  <2>1. gems' = [gems EXCEPT ![k] = g] /\ Len(gems[k].supports) < MaxGemSockets
    BY <1>6 DEF AddSocket
  <2>2. Good(gems[k]) /\ gems[k] \in GemSet
    BY DEF Bar, Good
  <2>3. Good(g)
    BY <2>1, <2>2, SocketIsAdded
  <2>4. g.skill = gems[k].skill
    BY <2>2 DEF GemSet
  <2> HIDE DEF g
  <2> QED
    BY <2>1, <2>3, <2>4, OneGem
<1>7. CASE GemVerb
  BY <1>2, <1>3, <1>4, <1>5, <1>6, <1>7 DEF GemVerb
<1>8. ASSUME NEW k \in DOMAIN gems, gems[k].skill = cast.skill, cast.skill # SummonSkill, ToggleAura(k)
      PROVE  Bar'
  <2> DEFINE g == [gems[k] EXCEPT !.on = ~@]
  <2>1. gems' = [gems EXCEPT ![k] = g]
    BY <1>8 DEF ToggleAura
  <2>2. Good(gems[k]) /\ gems[k].skill \in Skills
    BY DEF Bar, Good, GemSet
  <2>3. Good(g) /\ g.skill = gems[k].skill
    BY <1>8, <2>2 DEF Good, GemSet, Used, Skills
  <2> HIDE DEF g
  <2> QED
    BY <2>1, <2>3, OneGem
<1>9. CASE AdvanceActions
  BY <1>1, <1>8, <1>9 DEF AdvanceActions, Fire, Summon
<1>10. ASSUME NEW k \in DOMAIN gems, UseSkill(k)
       PROVE  Bar'
  BY <1>1, <1>10 DEF UseSkill
<1>11. CASE BeginTick \/ ResolveCombat \/ EndTick \/ Leave \/ Enter
  BY <1>1, <1>11 DEF BeginTick, ResolveCombat, EndTick, Leave, Enter
<1>12. CASE Restore
  BY <1>1, <1>12, Restored
<1>13. CASE UNCHANGED vars
  BY <1>1, <1>13 DEF vars
<1> QED
  BY <1>7, <1>9, <1>10, <1>11, <1>12, <1>13 DEF Next

(***************************************************************************)
(* Auras.  What the sheet of a hero with these gems says.                  *)
(***************************************************************************)
On(gs, a) == {k \in DOMAIN gs : gs[k].skill = a /\ gs[k].on}
Package(gs) == [a \in Auras |-> IF On(gs, a) = {} THEN <<>> ELSE <<gs[CHOOSE k \in On(gs, a) : TRUE].level>>]

LEMMA Packaged == OwnerAuras = Package(gems)
BY DEF OwnerAuras, Running, Skill, Package, On

(* The same, without a choice: one gem of a skill.                         *)
LEMMA PackageIs ==
  ASSUME NEW gs, \A j, k \in DOMAIN gs : gs[j].skill = gs[k].skill => j = k,
         NEW Y, NEW f \in [Auras -> Y],
         \A k \in DOMAIN gs : gs[k].on => gs[k].skill \in Auras /\ f[gs[k].skill] = <<gs[k].level>>,
         \A a \in Auras : (\A k \in DOMAIN gs : gs[k].on => gs[k].skill # a) => f[a] = <<>>
  PROVE  f = Package(gs)
<1>1. ASSUME NEW a \in Auras
      PROVE  f[a] = Package(gs)[a]
  <2>1. CASE On(gs, a) = {}
    BY <2>1 DEF Package, On
  <2>2. ASSUME NEW k \in On(gs, a)
        PROVE  f[a] = Package(gs)[a]
    <3>1. On(gs, a) = {k}
      BY DEF On
    <3>2. (CHOOSE j \in On(gs, a) : TRUE) = k
      BY <3>1
    <3>3. Package(gs)[a] = <<gs[k].level>>
      BY <3>1, <3>2 DEF Package
    <3> QED
      BY <3>3 DEF On
  <2> QED
    BY <2>1, <2>2
<1> QED
  BY <1>1 DEF Package

LEMMA PackageHas ==
  ASSUME NEW gs, \A j, k \in DOMAIN gs : gs[j].skill = gs[k].skill => j = k
  PROVE  /\ \A k \in DOMAIN gs : gs[k].on /\ gs[k].skill \in Auras => Package(gs)[gs[k].skill] = <<gs[k].level>>
         /\ \A a \in Auras : (\A k \in DOMAIN gs : gs[k].on => gs[k].skill # a) => Package(gs)[a] = <<>>
<1>1. ASSUME NEW k \in DOMAIN gs, gs[k].on, gs[k].skill \in Auras
      PROVE  Package(gs)[gs[k].skill] = <<gs[k].level>>
  <2> DEFINE a == gs[k].skill
  <2>1. On(gs, a) = {k}
    BY <1>1 DEF On
  <2>2. (CHOOSE j \in On(gs, a) : TRUE) = k
    BY <2>1
  <2> QED
    BY <1>1, <2>1, <2>2 DEF Package
<1>2. \A a \in Auras : (\A k \in DOMAIN gs : gs[k].on => gs[k].skill # a) => Package(gs)[a] = <<>>
  BY DEF Package, On
<1> QED
  BY <1>1, <1>2

(* A gem is replaced by one of its skill, or by a new one that is off.     *)
LEMMA GemTurns ==
  ASSUME Bar, NEW P \in [Auras -> Seq(Levels)], P = Package(gems),
         NEW k \in DOMAIN gems, NEW g, Good(g),
         g.skill = gems[k].skill \/ (~IsCut(g.skill) /\ ~g.on),
         NEW gs, gs = [gems EXCEPT ![k] = g]
  PROVE  gems[k].skill \in Auras =>
           Package(gs) = [P EXCEPT ![gems[k].skill] = IF g.on THEN <<g.level>> ELSE <<>>]
<1> DEFINE a == gems[k].skill
           Q == [P EXCEPT ![a] = IF g.on THEN <<g.level>> ELSE <<>>]
<1>1. /\ \A j \in DOMAIN gems : gems[j].on => gems[j].skill \in Auras
      /\ \A i, j \in DOMAIN gems : gems[i].skill = gems[j].skill => i = j
      /\ g.on \in BOOLEAN /\ (g.on => g.skill = a /\ a \in Auras) /\ g.level \in Levels
      /\ \A j \in DOMAIN gems : gems[j].on \in BOOLEAN
  BY DEF Bar, Good, GemSet
<1>2. /\ DOMAIN gs = DOMAIN gems /\ gs[k] = g
      /\ \A j \in DOMAIN gems : j # k => gs[j] = gems[j]
  BY DEF Bar
<1>3. \A j \in DOMAIN gems : j # k => gems[j].skill # g.skill /\ gems[j].skill # a
  BY <1>1 DEF IsCut, Skill
<1>4. \A i, j \in DOMAIN gs : gs[i].skill = gs[j].skill => i = j
  BY <1>1, <1>2, <1>3
<1>5. /\ \A j \in DOMAIN gems : gems[j].on => P[gems[j].skill] = <<gems[j].level>>
      /\ \A b \in Auras : (\A j \in DOMAIN gems : gems[j].on => gems[j].skill # b) => P[b] = <<>>
  BY <1>1, PackageHas
<1>6. ASSUME a \in Auras
      PROVE  Package(gs) = Q
  <2>1. Q \in [Auras -> Seq(Levels)] /\ Q[a] = (IF g.on THEN <<g.level>> ELSE <<>>)
        /\ \A b \in Auras : b # a => Q[b] = P[b]
    BY <1>1, <1>6
  <2> HIDE DEF a, Q
  <2>2. ASSUME NEW j \in DOMAIN gs, gs[j].on
        PROVE  gs[j].skill \in Auras /\ Q[gs[j].skill] = <<gs[j].level>>
    <3>1. CASE j = k
      BY <1>1, <1>2, <2>1, <2>2, <3>1
    <3>2. CASE j # k
      BY <1>1, <1>2, <1>3, <1>5, <2>1, <2>2, <3>2 DEF a
    <3> QED
      BY <3>1, <3>2
  <2>3. ASSUME NEW b \in Auras, \A j \in DOMAIN gs : gs[j].on => gs[j].skill # b
        PROVE  Q[b] = <<>>
    <3>1. CASE b = a
      <4>1. ~g.on
        BY <1>1, <1>2, <2>3, <3>1
      <4> QED
        BY <2>1, <3>1, <4>1
    <3>2. CASE b # a
      <4>1. \A j \in DOMAIN gems : gems[j].on => gems[j].skill # b
        BY <1>2, <2>3, <3>2 DEF a
      <4> QED
        BY <1>5, <2>1, <3>2, <4>1
    <3> QED
      BY <3>1, <3>2
  <2>4. \A j \in DOMAIN gs : gs[j].on => gs[j].skill \in Auras /\ Q[gs[j].skill] = <<gs[j].level>>
    BY <2>2
  <2>5. \A b \in Auras : (\A j \in DOMAIN gs : gs[j].on => gs[j].skill # b) => Q[b] = <<>>
    BY <2>3
  <2>6. Q \in [Auras -> Seq(Levels)]
    BY <2>1
  <2>7. Q = Package(gs)
    BY ONLY <1>4, <2>4, <2>5, <2>6, PackageIs
  <2> QED
    BY <2>7
<1> QED
  BY <1>6 DEF Q

(* The same where its switch stays as it is, and its level if it is on.     *)
LEMMA GemStays ==
  ASSUME Bar, Package(gems) \in [Auras -> Seq(Levels)],
         NEW k \in DOMAIN gems, NEW g, Good(g),
         g.skill = gems[k].skill \/ (~IsCut(g.skill) /\ ~g.on),
         g.on = gems[k].on, g.on => g.level = gems[k].level,
         NEW gs, gs = [gems EXCEPT ![k] = g]
  PROVE  Package(gs) = Package(gems)
<1> DEFINE a == gems[k].skill
           P == Package(gems)
<1>1. /\ \A j \in DOMAIN gems : gems[j].on => gems[j].skill \in Auras
      /\ \A i, j \in DOMAIN gems : gems[i].skill = gems[j].skill => i = j
      /\ g.on \in BOOLEAN /\ (g.on => g.skill = a /\ a \in Auras) /\ g.level \in Levels
      /\ \A j \in DOMAIN gems : gems[j].on \in BOOLEAN
  BY DEF Bar, Good, GemSet
<1>2. /\ DOMAIN gs = DOMAIN gems /\ gs[k] = g
      /\ \A j \in DOMAIN gems : j # k => gs[j] = gems[j]
  BY DEF Bar
<1>3. \A j \in DOMAIN gems : j # k => gems[j].skill # g.skill /\ gems[j].skill # a
  BY <1>1 DEF IsCut, Skill
<1>4. \A i, j \in DOMAIN gs : gs[i].skill = gs[j].skill => i = j
  BY <1>1, <1>2, <1>3
<1>5. /\ \A j \in DOMAIN gems : gems[j].on => P[gems[j].skill] = <<gems[j].level>>
      /\ \A b \in Auras : (\A j \in DOMAIN gems : gems[j].on => gems[j].skill # b) => P[b] = <<>>
  BY <1>1, PackageHas
<1> HIDE DEF P
<1>6. ASSUME NEW j \in DOMAIN gs, gs[j].on
      PROVE  gs[j].skill \in Auras /\ P[gs[j].skill] = <<gs[j].level>>
  BY <1>1, <1>2, <1>5, <1>6
<1>7. ASSUME NEW b \in Auras, \A j \in DOMAIN gs : gs[j].on => gs[j].skill # b
      PROVE  P[b] = <<>>
  <2>1. \A j \in DOMAIN gems : gems[j].on => gems[j].skill # b
    BY <1>1, <1>2, <1>7
  <2> QED
    BY <1>5, <2>1
<1>8. \A j \in DOMAIN gs : gs[j].on => gs[j].skill \in Auras /\ P[gs[j].skill] = <<gs[j].level>>
  BY <1>6
<1>9. \A b \in Auras : (\A j \in DOMAIN gs : gs[j].on => gs[j].skill # b) => P[b] = <<>>
  BY <1>7
<1>10. P \in [Auras -> Seq(Levels)]
  BY DEF P
<1>11. P = Package(gs)
  BY ONLY <1>4, <1>8, <1>9, <1>10, PackageIs
<1> QED
  BY <1>11 DEF P

(***************************************************************************)
(* Minions.  Most steps leave a list of as many, none more alive and none  *)
(* more owned than before.                                                 *)
(***************************************************************************)
Ages ==
  /\ minions' \in Seq(Minions) /\ DOMAIN minions' = DOMAIN minions
  /\ \A k \in DOMAIN minions : /\ minions'[k].owned => minions[k].owned
                               /\ minions[k].dead => minions'[k].dead

Keeps == Ages /\ \A k \in DOMAIN minions : minions'[k].mods = minions[k].mods

LEMMA Mapped ==
  ASSUME Typed, DOMAIN minions' = DOMAIN minions,
         minions' = [k \in DOMAIN minions |-> minions'[k]],
         \A k \in DOMAIN minions : minions'[k] \in Minions
  PROVE  minions' \in Seq(Minions)
<1> PICK ns : ns = minions'
  OBVIOUS
<1> DEFINE n == Len(minions)
<1>1. n \in Nat /\ DOMAIN minions = 1..n
  BY DEF Typed
<1>2. ns \in [1..n -> Minions]
  BY <1>1
<1> HIDE DEF n
<1> QED
  BY <1>1, <1>2, Lists

LEMMA Unchanging == Typed /\ minions' = minions => Keeps
BY DEF Typed, Keeps, Ages

LEMMA Aging ==
  ASSUME Typed, BeginTick \/ ResolveCombat \/ Leave
  PROVE  Keeps
<1>1. \A k \in DOMAIN minions : minions[k] \in Minions
  BY DEF Typed
<1>2. CASE BeginTick
  <2>1. minions' = [k \in DOMAIN minions |->
          [minions[k] EXCEPT !.left = IF @ = 0 THEN 0 ELSE @ - 1, !.dead = @ \/ minions[k].left = 1]]
    BY <1>2 DEF BeginTick
  <2>2. ASSUME NEW k \in DOMAIN minions
        PROVE  /\ minions'[k] \in Minions /\ minions'[k].owned = minions[k].owned
               /\ (minions[k].dead => minions'[k].dead) /\ minions'[k].mods = minions[k].mods
    <3>1. (IF minions[k].left = 0 THEN 0 ELSE minions[k].left - 1) \in 0..SummonTTL
      BY <1>1, GemsAssumption DEF Minions
    <3> QED
      BY <1>1, <2>1, <3>1 DEF Minions
  <2>3. DOMAIN minions' = DOMAIN minions /\ minions' = [k \in DOMAIN minions |-> minions'[k]]
    BY <2>1
  <2>4. minions' \in Seq(Minions)
    BY <2>2, <2>3, Mapped
  <2> QED
    BY <2>2, <2>3, <2>4 DEF Keeps, Ages
<1>3. CASE ResolveCombat
  <2>1. PICK D : minions' = [k \in DOMAIN minions |-> IF k \in D THEN [minions[k] EXCEPT !.dead = TRUE]
                                                      ELSE minions[k]]
    BY <1>3 DEF ResolveCombat
  <2>2. ASSUME NEW k \in DOMAIN minions
        PROVE  /\ minions'[k] \in Minions /\ minions'[k].owned = minions[k].owned
               /\ (minions[k].dead => minions'[k].dead) /\ minions'[k].mods = minions[k].mods
    BY <1>1, <2>1 DEF Minions
  <2>3. DOMAIN minions' = DOMAIN minions /\ minions' = [k \in DOMAIN minions |-> minions'[k]]
    BY <2>1
  <2>4. minions' \in Seq(Minions)
    BY <2>2, <2>3, Mapped
  <2> QED
    BY <2>2, <2>3, <2>4 DEF Keeps, Ages
<1>4. CASE Leave
  <2>1. minions' = [k \in DOMAIN minions |-> [minions[k] EXCEPT !.owned = FALSE]]
    BY <1>4 DEF Leave
  <2>2. ASSUME NEW k \in DOMAIN minions
        PROVE  /\ minions'[k] \in Minions /\ minions'[k].owned = FALSE
               /\ minions'[k].dead = minions[k].dead /\ minions'[k].mods = minions[k].mods
    BY <1>1, <2>1 DEF Minions
  <2>3. DOMAIN minions' = DOMAIN minions /\ minions' = [k \in DOMAIN minions |-> minions'[k]]
    BY <2>1
  <2>4. minions' \in Seq(Minions)
    BY <2>2, <2>3, Mapped
  <2> QED
    BY <2>2, <2>3, <2>4 DEF Keeps, Ages
<1> QED
  BY <1>2, <1>3, <1>4

LEMMA Despawning ==
  ASSUME Typed, NEW n, minions' = Despawned(n)
  PROVE  Keeps
<1>1. \A k \in DOMAIN minions : minions[k] \in Minions
  BY DEF Typed
<1>2. ASSUME NEW k \in DOMAIN minions
      PROVE  /\ minions'[k] \in Minions /\ minions'[k].owned = minions[k].owned
             /\ (minions[k].dead => minions'[k].dead) /\ minions'[k].mods = minions[k].mods
  <2>1. minions'[k] = minions[k] \/ minions'[k] = [minions[k] EXCEPT !.dead = TRUE]
    BY DEF Despawned
  <2> QED
    BY <1>1, <2>1 DEF Minions
<1>3. DOMAIN minions' = DOMAIN minions /\ minions' = [k \in DOMAIN minions |-> minions'[k]]
  BY DEF Despawned
<1>4. minions' \in Seq(Minions)
  BY <1>2, <1>3, Mapped
<1> QED
  BY <1>2, <1>3, <1>4 DEF Keeps, Ages

(***************************************************************************)
(* Sheets.  The hero's and those of its living minions say what the bar    *)
(* says; a hero who is away owns nobody.                                   *)
(***************************************************************************)
Sheets ==
  /\ hero # "away" => sheet = OwnerAuras
  /\ hero # "away" => \A k \in DOMAIN minions : Mine(minions[k]) => minions[k].mods = OwnerAuras
  /\ hero = "away" => \A k \in DOMAIN minions : ~minions[k].owned

Spread == sheet' \in [Auras -> Seq(Levels)] /\ Ages /\ Sheets'

LEMMA SameBar == gems' = gems => OwnerAuras' = OwnerAuras
BY DEF OwnerAuras, Running, Skill

LEMMA NextBar ==
  ASSUME NEW gs, gs = gems'
  PROVE  OwnerAuras' = Package(gs)
BY DEF OwnerAuras, Running, Skill, Package, On

LEMMA SheetsKeep ==
  ASSUME Typed, Sheets, Keeps, OwnerAuras' = OwnerAuras, sheet' = sheet, hero' # "away" <=> hero # "away"
  PROVE  Spread
BY DEF Typed, Sheets, Keeps, Ages, Mine, Spread

(* An aura comes on, goes off, or changes its level, on every sheet.       *)
LEMMA AuraReaches ==
  ASSUME Typed, Sheets, hero = "alive", NEW a \in Auras, NEW l \in Levels,
         NEW Q \in [Auras -> Seq(Levels)],
         \/ ActivateAura(a, l) /\ Q = [OwnerAuras EXCEPT ![a] = Append(OwnerAuras[a], l)]
         \/ DeactivateAura(a) /\ Q = [OwnerAuras EXCEPT ![a] = <<>>]
         \/ ReactivateAura(a, l) /\ Q = [OwnerAuras EXCEPT ![a] = <<l>>]
  PROVE  /\ sheet' = Q /\ Ages
         /\ \A k \in DOMAIN minions : Mine(minions[k]) => minions'[k].mods = Q
<1> DEFINE P == OwnerAuras
<1>1. sheet = P /\ P \in [Auras -> Seq(Levels)]
      /\ \A k \in DOMAIN minions : Mine(minions[k]) => minions[k].mods = P
  BY DEF Sheets, Typed
<1> HIDE DEF P
<1>2. sheet' = Q /\ DOMAIN minions' = DOMAIN minions /\ minions' = [k \in DOMAIN minions |-> minions'[k]]
      /\ \A k \in DOMAIN minions :
           minions'[k] = IF Mine(minions[k]) THEN [minions[k] EXCEPT !.mods = Q] ELSE minions[k]
  <2>1. CASE ActivateAura(a, l) /\ Q = [P EXCEPT ![a] = Append(P[a], l)]
    BY <1>1, <2>1 DEF ActivateAura, OnMinions, Applied
  <2>2. CASE DeactivateAura(a) /\ Q = [P EXCEPT ![a] = <<>>]
    BY <1>1, <2>2 DEF DeactivateAura, OnMinions, Stripped
  <2>3. CASE ReactivateAura(a, l) /\ Q = [P EXCEPT ![a] = <<l>>]
    <3>1. Applied(Stripped(P, a), a, l) = Q
      <4> DEFINE R == [P EXCEPT ![a] = <<>>]
      <4>1. R \in [Auras -> Seq(Levels)] /\ R[a] = <<>>
        BY <1>1
      <4>2. Append(R[a], l) = <<l>>
        BY <4>1
      <4>3. [R EXCEPT ![a] = <<l>>] = [P EXCEPT ![a] = <<l>>]
        BY <1>1
      <4>4. Applied(R, a, l) = [R EXCEPT ![a] = <<l>>]
        <5> HIDE DEF R
        <5> QED
          BY <4>2 DEF Applied
      <4> QED
        BY <2>3, <4>3, <4>4 DEF Stripped
    <3> QED
      BY <1>1, <2>3, <3>1 DEF ReactivateAura, OnMinions
  <2> QED
    BY <2>1, <2>2, <2>3 DEF P
<1>3. ASSUME NEW k \in DOMAIN minions
      PROVE  /\ minions'[k] \in Minions /\ minions'[k].owned = minions[k].owned
             /\ minions'[k].dead = minions[k].dead
             /\ Mine(minions[k]) => minions'[k].mods = Q
  <2>1. minions[k] \in Minions
    BY DEF Typed
  <2> QED
    BY <1>2, <2>1 DEF Minions
<1>4. minions' \in Seq(Minions)
  BY <1>2, <1>3, Mapped
<1> QED
  BY <1>2, <1>3, <1>4 DEF Ages

(* A gem turns, and its aura with it. *)
LEMMA AuraTurns ==
  ASSUME Typed, Bar, Sheets, hero = "alive", hero' = "alive", NEW k \in DOMAIN gems, NEW g, Good(g),
         g.skill = gems[k].skill \/ (~IsCut(g.skill) /\ ~g.on),
         gems' = [gems EXCEPT ![k] = g], gems[k].skill \in Auras,
         \/ ~gems[k].on /\ g.on /\ ActivateAura(gems[k].skill, g.level)
         \/ gems[k].on /\ ~g.on /\ DeactivateAura(gems[k].skill)
         \/ gems[k].on /\ g.on /\ ReactivateAura(gems[k].skill, g.level)
  PROVE  Spread
<1> DEFINE a == gems[k].skill
           P == OwnerAuras
           x == IF g.on THEN <<g.level>> ELSE <<>>
           Q == [P EXCEPT ![a] = x]
<1> PICK gs : gs = gems'
  OBVIOUS
<1>1. P \in [Auras -> Seq(Levels)] /\ P = Package(gems)
  BY Packaged DEF Sheets, Typed
<1>2. Package(gs) = Q
  BY <1>1, GemTurns
<1>3. g.level \in Levels /\ g.on \in BOOLEAN /\ x \in Seq(Levels)
  BY DEF Good, GemSet
<1>4. Q \in [Auras -> Seq(Levels)]
  BY <1>1, <1>3
<1>5. ~gems[k].on => P[a] = <<>>
  <2>1. /\ \A i, j \in DOMAIN gems : gems[i].skill = gems[j].skill => i = j
        /\ a \in Auras
    BY DEF Bar
  <2>2. \A b \in Auras : (\A j \in DOMAIN gems : gems[j].on => gems[j].skill # b) => Package(gems)[b] = <<>>
    BY <2>1, PackageHas
  <2> QED
    BY <1>1, <2>1, <2>2
<1>6. \/ ActivateAura(a, g.level) /\ Q = [P EXCEPT ![a] = Append(P[a], g.level)]
      \/ DeactivateAura(a) /\ Q = [P EXCEPT ![a] = <<>>]
      \/ ReactivateAura(a, g.level) /\ Q = [P EXCEPT ![a] = <<g.level>>]
  <2>1. Append(<<>>, g.level) = <<g.level>>
    OBVIOUS
  <2> HIDE DEF P, a
  <2> QED
    BY <1>5, <2>1 DEF a
<1> HIDE DEF Q
<1>7. /\ sheet' = Q /\ Ages
      /\ \A j \in DOMAIN minions : Mine(minions[j]) => minions'[j].mods = Q
  <2>1. PICK b \in Auras, l \in Levels : b = a /\ l = g.level
    BY <1>3
  <2>2. \/ ActivateAura(b, l) /\ Q = [OwnerAuras EXCEPT ![b] = Append(OwnerAuras[b], l)]
        \/ DeactivateAura(b) /\ Q = [OwnerAuras EXCEPT ![b] = <<>>]
        \/ ReactivateAura(b, l) /\ Q = [OwnerAuras EXCEPT ![b] = <<l>>]
    BY <1>6, <2>1
  <2> QED
    BY <1>4, <2>2, AuraReaches
<1>8. OwnerAuras' = Q
  BY <1>2, NextBar
<1> QED
  BY <1>4, <1>7, <1>8 DEF Spread, Sheets, Ages, Mine

(* A gem turns that has no aura running, before or after. *)
LEMMA QuietTurn ==
  ASSUME Typed, Bar, Sheets, hero = "alive", hero' = "alive", NEW k \in DOMAIN gems, NEW g, Good(g),
         g.skill = gems[k].skill \/ (~IsCut(g.skill) /\ ~g.on),
         gems' = [gems EXCEPT ![k] = g], sheet' = sheet, minions' = minions,
         \/ ~gems[k].on /\ ~g.on
         \/ g.skill = gems[k].skill /\ g.on = gems[k].on /\ g.level = gems[k].level
  PROVE  Spread
<1> PICK gs : gs = gems'
  OBVIOUS
<1>1. OwnerAuras \in [Auras -> Seq(Levels)] /\ OwnerAuras = Package(gems)
  BY Packaged DEF Sheets, Typed
<1> PICK P : P = OwnerAuras
  OBVIOUS
<1>2. P \in [Auras -> Seq(Levels)] /\ P = Package(gems)
  BY <1>1
<1>3. gs = [gems EXCEPT ![k] = g]
  OBVIOUS
<1>4. Package(gs) = P
  <2>1. g.on = gems[k].on /\ (g.on => g.level = gems[k].level)
    BY DEF Bar, Good, GemSet
  <2> QED
    BY <1>1, <1>2, <1>3, <2>1, GemStays
<1>5. OwnerAuras' = OwnerAuras
  BY <1>4, NextBar
<1> QED
  BY <1>5, Unchanging, SheetsKeep

LEMMA BenchSpreads ==
  ASSUME Typed, Bar, Sheets, GemVerb
  PROVE  Spread
<1> USE DEF Skill
<1>0. hero = "alive" /\ hero' = "alive"
  BY DEF GemVerb, CutSkill, CutSkillOver, LevelGem, CutSupport, AddSocket, Bench
<1>1. ASSUME NEW sk \in Skills, NEW l \in Levels, CutSkill(sk, l)
      PROVE  Spread
  <2> PICK gs : gs = gems'
    OBVIOUS
  <2> DEFINE P == OwnerAuras
             g == Fresh(sk, l)
             n == Len(gems)
  <2>1. P \in [Auras -> Seq(Levels)] /\ P = Package(gems)
    BY <1>0, Packaged DEF Sheets, Typed
  <2>2. gs = Append(gems, g) /\ g.on = FALSE /\ g.skill = sk /\ g \in GemSet
    BY <1>1, FreshIsGood DEF CutSkill, Good
  <2> HIDE DEF P, g
  <2>3. /\ n \in Nat /\ DOMAIN gems = 1..n /\ DOMAIN gs = 1..(n + 1)
        /\ gs[n + 1] = g /\ \A k \in 1..n : gs[k] = gems[k]
    BY <2>2 DEF Bar
  <2>4. \A k \in 1..n : gems[k].skill # sk
    BY <1>1, <2>3 DEF CutSkill, IsCut
  <2> HIDE DEF n
  <2>5. \A k \in 1..(n + 1) : k \in 1..n \/ k = n + 1
    BY <2>3
  <2>6. \A i, j \in DOMAIN gs : gs[i].skill = gs[j].skill => i = j
    BY <2>2, <2>3, <2>4, <2>5 DEF Bar
  <2>7. /\ \A j \in DOMAIN gems : gems[j].on => gems[j].skill \in Auras
        /\ \A i, j \in DOMAIN gems : gems[i].skill = gems[j].skill => i = j
    BY DEF Bar, Good
  <2>8. /\ \A j \in DOMAIN gems : gems[j].on => P[gems[j].skill] = <<gems[j].level>>
        /\ \A b \in Auras : (\A j \in DOMAIN gems : gems[j].on => gems[j].skill # b) => P[b] = <<>>
    BY <2>1, <2>7, PackageHas
  <2>9. \A j \in DOMAIN gs : gs[j].on => gs[j].skill \in Auras /\ P[gs[j].skill] = <<gs[j].level>>
    BY <2>2, <2>3, <2>5, <2>7, <2>8
  <2>10. \A b \in Auras : (\A j \in DOMAIN gs : gs[j].on => gs[j].skill # b) => P[b] = <<>>
    <3>1. ASSUME NEW b \in Auras, \A j \in DOMAIN gs : gs[j].on => gs[j].skill # b
          PROVE  \A j \in DOMAIN gems : gems[j].on => gems[j].skill # b
      <4>1. \A j \in DOMAIN gems : j \in DOMAIN gs /\ gs[j] = gems[j]
        BY <2>3
      <4> QED
        BY <3>1, <4>1
    <3> QED
      BY <2>8, <3>1
  <2>11. P = Package(gs)
    BY ONLY <2>1, <2>6, <2>9, <2>10, PackageIs
  <2>12. OwnerAuras' = OwnerAuras
    BY <2>11, NextBar DEF P
  <2> QED
    BY <1>0, <1>1, <2>12, Unchanging, SheetsKeep DEF CutSkill
<1>2. ASSUME NEW k \in DOMAIN gems, NEW sk \in Skills, NEW l \in Levels, CutSkillOver(sk, l, k)
      PROVE  Spread
  <2> DEFINE g == Fresh(sk, l)
  <2>1. /\ gems' = [gems EXCEPT ![k] = g] /\ ~IsCut(sk)
        /\ IF gems[k].on THEN DeactivateAura(gems[k].skill) ELSE UNCHANGED <<sheet, minions>>
    BY <1>2 DEF CutSkillOver
  <2>2. Good(g) /\ g.skill = sk /\ ~g.on
    BY FreshIsGood
  <2>3. Good(gems[k])
    BY DEF Bar
  <2> HIDE DEF g
  <2>4. CASE gems[k].on
    <3>1. gems[k].skill \in Auras
      BY <2>3, <2>4 DEF Good
    <3> QED
      BY <1>0, <2>1, <2>2, <2>4, <3>1, AuraTurns
  <2>5. CASE ~gems[k].on
    BY <1>0, <2>1, <2>2, <2>5, QuietTurn
  <2> QED
    BY <2>4, <2>5
<1>3. ASSUME NEW k \in DOMAIN gems, NEW l \in Levels, LevelGem(l, k)
      PROVE  Spread
  <2> DEFINE g == [gems[k] EXCEPT !.level = l]
  <2>1. /\ gems' = [gems EXCEPT ![k] = g]
        /\ IF gems[k].on THEN ReactivateAura(gems[k].skill, l) ELSE UNCHANGED <<sheet, minions>>
    BY <1>3 DEF LevelGem
  <2>2. Good(gems[k])
    BY DEF Bar
  <2>3. Good(g) /\ g.skill = gems[k].skill /\ g.on = gems[k].on /\ g.level = l
    BY <2>2 DEF Good, GemSet, Used
  <2> HIDE DEF g
  <2>4. CASE gems[k].on
    <3>1. gems[k].skill \in Auras
      BY <2>2, <2>4 DEF Good
    <3> QED
      BY <1>0, <2>1, <2>3, <2>4, <3>1, AuraTurns
  <2>5. CASE ~gems[k].on
    BY <1>0, <2>1, <2>3, <2>5, QuietTurn
  <2> QED
    BY <2>4, <2>5
<1>4. ASSUME NEW k \in DOMAIN gems, NEW s \in Supports, NEW j \in DOMAIN gems[k].supports, CutSupport(s, k, j)
      PROVE  Spread
  <2> DEFINE g == [gems[k] EXCEPT !.supports[j] = s]
  <2>1. /\ gems' = [gems EXCEPT ![k] = g] /\ gems[k].skill \in Fits[s] /\ s \notin Used(gems[k])
        /\ sheet' = sheet /\ minions' = minions
    BY <1>4 DEF CutSupport
  <2>2. Good(gems[k]) /\ gems[k] \in GemSet
    BY DEF Bar, Good
  <2>3. Good(g)
    BY <2>1, <2>2, SupportGoesIn
  <2>4. g.skill = gems[k].skill /\ g.on = gems[k].on /\ g.level = gems[k].level
    BY <2>2 DEF GemSet
  <2> HIDE DEF g
  <2> QED
    BY <1>0, <2>1, <2>3, <2>4, QuietTurn
<1>5. ASSUME NEW k \in DOMAIN gems, AddSocket(k)
      PROVE  Spread
  <2> DEFINE g == [gems[k] EXCEPT !.supports = Append(@, None)]
  <2>1. /\ gems' = [gems EXCEPT ![k] = g] /\ Len(gems[k].supports) < MaxGemSockets
        /\ sheet' = sheet /\ minions' = minions
    BY <1>5 DEF AddSocket
  <2>2. Good(gems[k]) /\ gems[k] \in GemSet
    BY DEF Bar, Good
  <2>3. Good(g)
    BY <2>1, <2>2, SocketIsAdded
  <2>4. g.skill = gems[k].skill /\ g.on = gems[k].on /\ g.level = gems[k].level
    BY <2>2 DEF GemSet
  <2> HIDE DEF g
  <2> QED
    BY <1>0, <2>1, <2>3, <2>4, QuietTurn
<1> QED
  BY <1>1, <1>2, <1>3, <1>4, <1>5 DEF GemVerb

LEMMA EffectSpreads ==
  ASSUME Typed, Bar, Sheets, AdvanceActions
  PROVE  Spread
<1> USE DEF Skill
<1>1. hero' = hero
  BY DEF AdvanceActions
<1>2. CASE UNCHANGED <<gems, sheet, minions>>
  BY <1>1, <1>2, Unchanging, SameBar, SheetsKeep
<1>3. CASE Summon
  <2>1. PICK x \in Extra : minions' = Despawned(Over(SummonCap + x))
    BY <1>3 DEF Summon
  <2> QED
    BY <1>1, <1>3, <2>1, Despawning, SameBar, SheetsKeep DEF Summon
<1>4. ASSUME cast # None, NEW k \in DOMAIN gems, gems[k].skill = cast.skill, cast.skill # SummonSkill, ToggleAura(k)
      PROVE  Spread
  <2> DEFINE g == [gems[k] EXCEPT !.on = ~@]
  <2>1. /\ gems' = [gems EXCEPT ![k] = g]
        /\ IF gems[k].on THEN DeactivateAura(gems[k].skill) ELSE ActivateAura(gems[k].skill, gems[k].level)
    BY <1>4 DEF ToggleAura
  <2>2. Good(gems[k]) /\ gems[k].skill \in Auras /\ gems[k].on \in BOOLEAN
    BY <1>4 DEF Bar, Good, GemSet, Skills
  <2>3. Good(g) /\ g.skill = gems[k].skill /\ g.on = ~gems[k].on /\ g.level = gems[k].level
    BY <2>2 DEF Good, GemSet, Used, Skills
  <2>4. hero = "alive" /\ hero' = "alive"
    BY <1>1, <1>4 DEF Typed
  <2> HIDE DEF g
  <2>5. CASE gems[k].on
    BY <2>1, <2>2, <2>3, <2>4, <2>5, AuraTurns
  <2>6. CASE ~gems[k].on
    BY <2>1, <2>2, <2>3, <2>4, <2>6, AuraTurns
  <2> QED
    BY <2>5, <2>6
<1> QED
  BY <1>2, <1>3, <1>4 DEF AdvanceActions, Fire

(***************************************************************************)
(* The end of a tick.  The dead go; the newcomers wear what the bar says;  *)
(* where the hero is no longer alive the others are nobody's.              *)
(***************************************************************************)
LEMMA AurasTyped ==
  ASSUME Bar
  PROVE  OwnerAuras \in [Auras -> Seq(Levels)]
<1>1. ASSUME NEW a \in Auras, Running(a) # {}
      PROVE  <<gems[CHOOSE k \in Running(a) : TRUE].level>> \in Seq(Levels)
  <2> PICK k : k = CHOOSE j \in Running(a) : TRUE
    OBVIOUS
  <2>1. k \in Running(a)
    BY <1>1
  <2>2. k \in DOMAIN gems
    BY <2>1 DEF Running
  <2>3. gems[k].level \in Levels
    BY <2>2 DEF Bar, Good, GemSet
  <2> QED
    BY <2>3
<1> QED
  BY <1>1 DEF OwnerAuras

(* The list that the end of a tick leaves.                                 *)
Newborn(n) == [i \in 1..n |-> Born(spawns[i])]
Swept(ms) == [k \in DOMAIN ms |-> [ms[k] EXCEPT !.owned = @ /\ hero = "alive"]]

LEMMA Births ==
  ASSUME Typed, Bar, NEW n \in 0..Len(spawns)
  PROVE  /\ n \in Nat /\ n <= Len(spawns)
         /\ Newborn(n) \in Seq({m \in Minions : m.mods = OwnerAuras}) /\ Len(Newborn(n)) = n
<1>1. n \in Nat /\ n <= Len(spawns) /\ \A i \in 1..n : spawns[i] \in Levels
  BY DEF Typed
<1>2. \A i \in 1..n : Born(spawns[i]) \in {m \in Minions : m.mods = OwnerAuras}
  BY <1>1, AurasTyped, GemsAssumption DEF Born, Minions
<1> DEFINE S == {m \in Minions : m.mods = OwnerAuras}
<1>3. Newborn(n) \in [1..n -> S]
  BY <1>2 DEF Newborn
<1> HIDE DEF S
<1>4. Newborn(n) \in Seq(S) /\ Len(Newborn(n)) = n
  BY <1>1, <1>3, Lists
<1> QED
  BY <1>1, <1>4 DEF S

LEMMA TickEnds ==
  ASSUME EndTick
  PROVE  /\ phase' = "idle" /\ spawns' = <<>> /\ gems' = gems /\ cast' = cast
         /\ \E n \in 0..Len(spawns) : minions' = Swept(Standing(minions \o Newborn(n)))
         /\ hero' = IF hero = "alive" THEN "alive" ELSE "away"
         /\ sheet' = IF hero = "alive" THEN sheet ELSE Clean
BY DEF EndTick, Newborn, Swept

LEMMA Sweeping ==
  ASSUME NEW ms \in Seq(Minions)
  PROVE  /\ Swept(ms) \in Seq(Minions) /\ DOMAIN Swept(ms) = DOMAIN ms /\ Len(Swept(ms)) = Len(ms)
         /\ \A k \in DOMAIN ms :
              /\ Swept(ms)[k].owned = (ms[k].owned /\ hero = "alive")
              /\ Swept(ms)[k].dead = ms[k].dead /\ Swept(ms)[k].mods = ms[k].mods
<1> DEFINE n == Len(ms)
<1>1. n \in Nat /\ DOMAIN ms = 1..n /\ \A k \in 1..n : ms[k] \in Minions
  OBVIOUS
<1>2. ASSUME NEW k \in 1..n
      PROVE  LET m == [ms[k] EXCEPT !.owned = @ /\ hero = "alive"]
             IN  /\ m \in Minions /\ m.owned = (ms[k].owned /\ hero = "alive")
                 /\ m.dead = ms[k].dead /\ m.mods = ms[k].mods
  BY <1>1 DEF Minions
<1>3. Swept(ms) \in [1..n -> Minions]
  BY <1>1, <1>2 DEF Swept
<1> HIDE DEF n
<1>4. Swept(ms) \in Seq(Minions) /\ Len(Swept(ms)) = n
  BY <1>1, <1>3, Lists
<1>5. \A k \in DOMAIN ms : Swept(ms)[k] = [ms[k] EXCEPT !.owned = @ /\ hero = "alive"]
  BY DEF Swept
<1>6. ASSUME NEW k \in DOMAIN ms
      PROVE  /\ Swept(ms)[k].owned = (ms[k].owned /\ hero = "alive")
             /\ Swept(ms)[k].dead = ms[k].dead /\ Swept(ms)[k].mods = ms[k].mods
  <2>1. ms[k] \in Minions
    BY <1>1
  <2> QED
    BY <1>5, <2>1 DEF Minions
<1>7. DOMAIN Swept(ms) = DOMAIN ms
  BY DEF Swept
<1> QED
  BY <1>4, <1>6, <1>7 DEF n

LEMMA TickSpreads ==
  ASSUME Typed, Bar, Sheets, EndTick
  PROVE  /\ minions' \in Seq(Minions) /\ sheet' \in [Auras -> Seq(Levels)] /\ Sheets'
         /\ \A k \in DOMAIN minions' : ~minions'[k].dead
<1> PICK n \in 0..Len(spawns) : minions' = Swept(Standing(minions \o Newborn(n)))
  BY TickEnds
<1> DEFINE Y == {m \in Minions : hero # "away" => (Mine(m) => m.mods = OwnerAuras)}
           old == minions \o Newborn(n)
<1>1. minions \in Seq(Y)
  <2>1. minions \in Seq(Minions) /\ \A k \in DOMAIN minions : minions[k] \in Y
    BY DEF Typed, Sheets
  <2> HIDE DEF Y
  <2> QED
    BY <2>1
<1>2. Newborn(n) \in Seq(Y)
  <2>1. {m \in Minions : m.mods = OwnerAuras} \subseteq Y
    OBVIOUS
  <2> HIDE DEF Y
  <2> QED
    BY <2>1, Births, WiderSeq
<1>3. old \in Seq(Y)
  <2> HIDE DEF Y
  <2> QED
    BY <1>1, <1>2
<1>4. Standing(old) \in Seq(Y) /\ \A k \in DOMAIN Standing(old) : ~Standing(old)[k].dead
  <2> HIDE DEF Y, old
  <2> QED
    BY <1>3, Stands
<1> PICK ms : ms = Standing(old)
  OBVIOUS
<1>5. ms \in Seq(Y) /\ minions' = Swept(ms) /\ \A k \in DOMAIN ms : ~ms[k].dead
  BY <1>4
<1> HIDE DEF old
<1>6. ms \in Seq(Minions)
  <2>1. Y \subseteq Minions
    OBVIOUS
  <2> HIDE DEF Y
  <2> QED
    BY <1>5, <2>1, WiderSeq
<1>7. /\ Swept(ms) \in Seq(Minions) /\ DOMAIN Swept(ms) = DOMAIN ms
      /\ \A k \in DOMAIN ms :
           /\ Swept(ms)[k].owned = (ms[k].owned /\ hero = "alive")
           /\ Swept(ms)[k].dead = ms[k].dead /\ Swept(ms)[k].mods = ms[k].mods
  BY <1>6, Sweeping
<1>8. /\ hero' = IF hero = "alive" THEN "alive" ELSE "away"
      /\ sheet' = IF hero = "alive" THEN sheet ELSE Clean
      /\ OwnerAuras' = OwnerAuras
  BY TickEnds, SameBar
<1>9. sheet' \in [Auras -> Seq(Levels)]
  <2>1. Clean \in [Auras -> Seq(Levels)]
    BY DEF Clean
  <2> QED
    BY <1>8, <2>1 DEF Typed
<1>10. \A k \in DOMAIN ms : hero # "away" => (Mine(ms[k]) => ms[k].mods = OwnerAuras)
  BY <1>5
<1> HIDE DEF Y
<1>11. Sheets'
  <2>1. CASE hero = "alive"
    <3>1. \A k \in DOMAIN ms : Mine(Swept(ms)[k]) => Swept(ms)[k].mods = OwnerAuras
      BY <1>7, <1>10, <2>1 DEF Mine
    <3> QED
      BY <1>5, <1>7, <1>8, <2>1, <3>1 DEF Sheets, Mine
  <2>2. CASE hero # "alive"
    <3>1. \A k \in DOMAIN ms : Swept(ms)[k].owned = FALSE
      BY <1>7, <2>2
    <3> QED
      BY <1>5, <1>7, <1>8, <2>2, <3>1 DEF Sheets
  <2> QED
    BY <2>1, <2>2
<1> QED
  BY <1>5, <1>7, <1>9, <1>11

(***************************************************************************)
(* Every step.                                                             *)
(***************************************************************************)
LEMMA SheetsStep ==
  ASSUME Typed, Bar, Sheets, [Next]_vars
  PROVE  minions' \in Seq(Minions) /\ sheet' \in [Auras -> Seq(Levels)] /\ Sheets'
<1>1. CASE Spread
  BY <1>1 DEF Spread, Ages
<1>2. CASE GemVerb \/ AdvanceActions
  BY <1>1, <1>2, BenchSpreads, EffectSpreads
<1>3. CASE UNCHANGED <<hero, gems, sheet, minions>>
  BY <1>1, <1>3, Unchanging, SameBar, SheetsKeep
<1>4. CASE (\E k \in DOMAIN gems : UseSkill(k)) \/ UNCHANGED vars
  BY <1>3, <1>4 DEF UseSkill, vars
<1>5. CASE BeginTick
  BY <1>1, <1>5, Aging, SameBar, SheetsKeep DEF BeginTick
<1>6. CASE ResolveCombat
  <2>1. hero' # "away" <=> hero # "away"
    BY <1>6 DEF ResolveCombat
  <2> QED
    BY <1>1, <1>6, <2>1, Aging, SameBar, SheetsKeep DEF ResolveCombat
<1>7. CASE EndTick
  BY <1>7, TickSpreads
<1>8. CASE Leave
  <2>1. minions' = [k \in DOMAIN minions |-> [minions[k] EXCEPT !.owned = FALSE]]
        /\ hero' = "away" /\ sheet' = Clean
    BY <1>8 DEF Leave
  <2>2. \A k \in DOMAIN minions : minions[k] \in Minions
    BY DEF Typed
  <2>3. \A k \in DOMAIN minions' : minions'[k].owned = FALSE
    BY <2>1, <2>2 DEF Minions
  <2>4. minions' \in Seq(Minions)
    BY <1>8, Aging DEF Keeps, Ages
  <2> QED
    BY <2>1, <2>3, <2>4 DEF Sheets, Clean
<1>9. CASE Enter
  <2>1. /\ hero = "away" /\ hero' = "alive" /\ sheet' = OwnerAuras /\ OwnerAuras' = OwnerAuras
        /\ minions' = minions \/ minions' = <<>>
    BY <1>9, SameBar DEF Enter
  <2>2. /\ \A k \in DOMAIN minions' : ~minions'[k].owned
        /\ minions' \in Seq(Minions)
    <3> PICK ms : ms = minions'
      OBVIOUS
    <3>1. ms = minions \/ ms = <<>>
      BY <2>1
    <3>2. (\A k \in DOMAIN ms : ~ms[k].owned) /\ ms \in Seq(Minions)
      <4>1. CASE ms = minions
        BY <2>1, <4>1 DEF Sheets, Typed
      <4>2. CASE ms = <<>>
        BY <4>2
      <4> QED
        BY <3>1, <4>1, <4>2
    <3> QED
      BY <3>2
  <2> QED
    BY <2>1, <2>2, AurasTyped DEF Sheets, Mine
<1>10. CASE Restore
  <2>1. hero' = hero /\ sheet' = sheet /\ OwnerAuras' = OwnerAuras /\ minions' = Standing(minions)
    BY <1>10, SameBar, Restored
  <2>2. minions \in Seq(Minions)
    BY DEF Typed
  <2> PICK ms : ms = minions'
    OBVIOUS
  <2>3. ms \in Seq(Minions) /\ \A n \in DOMAIN ms : \E k \in DOMAIN minions : ms[n] = minions[k] /\ ~minions[k].dead
    BY <2>1, <2>2, Stands
  <2> QED
    BY <2>1, <2>3 DEF Sheets, Mine, Typed
<1> QED
  BY <1>2, <1>4, <1>5, <1>6, <1>7, <1>8, <1>9, <1>10 DEF Next

LEMMA TypedStep ==
  ASSUME Typed, Bar, Sheets, [Next]_vars
  PROVE  Typed'
<1>1. minions' \in Seq(Minions) /\ sheet' \in [Auras -> Seq(Levels)]
  BY SheetsStep
<1> DEFINE Rest == /\ phase' \in {"idle", "commands", "combat", "drain"}
                   /\ hero' \in {"alive", "dead", "away"}
                   /\ cast' \in Casts \cup {None} /\ (cast' # None => hero' = "alive")
                   /\ spawns' \in Seq(Levels)
                   /\ phase' \in {"idle", "commands"} => spawns' = <<>>
<1> SUFFICES Rest
  BY <1>1 DEF Typed
<1>2. CASE UNCHANGED <<phase, hero, cast, spawns>>
  BY <1>2 DEF Typed
<1>3. CASE GemVerb \/ UNCHANGED vars
  BY <1>2, <1>3 DEF GemVerb, CutSkill, CutSkillOver, LevelGem, CutSupport, AddSocket, vars
<1>4. ASSUME NEW k \in DOMAIN gems, UseSkill(k)
      PROVE  Rest
  <2>1. gems[k].skill \in Skills /\ gems[k].level \in Levels /\ Used(gems[k]) \subseteq Supports
    <3>1. gems[k] \in GemSet
      BY DEF Bar, Good
    <3> QED
      BY <3>1 DEF GemSet, Used
  <2>2. cast' \in Casts /\ UNCHANGED <<phase, hero, spawns>> /\ hero = "alive"
    BY <1>4, <2>1 DEF UseSkill, Skill, Casts
  <2> QED
    BY <2>2 DEF Typed
<1>5. CASE AdvanceActions
  <2>1. /\ phase = "commands" /\ phase' = "combat" /\ hero' = hero
        /\ cast' = None \/ cast' = cast
    BY <1>5 DEF AdvanceActions
  <2>2. spawns' \in Seq(Levels)
    <3>1. spawns \in Seq(Levels)
      BY DEF Typed
    <3>2. ASSUME cast # None, Summon
          PROVE  spawns' \in Seq(Levels)
      <4>1. cast.level \in Levels /\ SummonCount \in Nat
        BY <3>2, GemsAssumption DEF Typed, Casts
      <4>2. [i \in 1..SummonCount |-> cast.level] \in [1..SummonCount -> Levels]
        BY <4>1
      <4>3. [i \in 1..SummonCount |-> cast.level] \in Seq(Levels)
        BY <4>1, <4>2, Lists
      <4>4. spawns' = spawns \o [i \in 1..SummonCount |-> cast.level]
        BY <3>2 DEF Summon
      <4> QED
        BY <3>1, <4>3, <4>4
    <3>3. spawns' = spawns \/ (cast # None /\ Summon)
      BY <1>5 DEF AdvanceActions, Fire, ToggleAura
    <3> QED
      BY <3>1, <3>2, <3>3
  <2> QED
    BY <2>1, <2>2 DEF Typed
<1>6. CASE BeginTick
  BY <1>6 DEF BeginTick, Typed
<1>7. CASE ResolveCombat
  BY <1>7 DEF ResolveCombat, Typed
<1>8. CASE EndTick
  BY <1>8 DEF EndTick, Typed
<1>9. CASE Leave \/ Enter
  BY <1>9 DEF Leave, Enter, Typed
<1>10. CASE Restore
  BY <1>2, <1>10, Restored
<1> HIDE DEF Rest
<1> QED
  BY <1>3, <1>4, <1>5, <1>6, <1>7, <1>8, <1>9, <1>10 DEF Next

(***************************************************************************)
(* The crowd.  The living and those waiting to be born are no more than    *)
(* what one of the gears the hero has worn allows.                         *)
(***************************************************************************)
Crowded(ms, ss) == \E x \in Extra : Cardinality(LivingIn(ms)) + Len(ss) <= SummonCap + x

LEMMA CrowdIs ==
  ASSUME NEW ms, NEW ss, ms = minions', ss = spawns', Crowded(ms, ss)
  PROVE  Crowded(minions, spawns)'
BY DEF Crowded, LivingIn, Mine

LEMMA FewerCrowd ==
  ASSUME Typed, Crowded(minions, spawns), NEW ms \in Seq(Minions), NEW ss \in Seq(Levels),
         Cardinality(LivingIn(ms)) + Len(ss) <= Cardinality(LivingIn(minions)) + Len(spawns)
  PROVE  Crowded(ms, ss)
<1> PICK x \in Extra : Cardinality(LivingIn(minions)) + Len(spawns) <= SummonCap + x
  BY DEF Crowded
<1>1. /\ Cardinality(LivingIn(minions)) \in Nat /\ Cardinality(LivingIn(ms)) \in Nat
      /\ Len(ss) \in Nat /\ Len(spawns) \in Nat
  <2>1. LivingIn(minions) \in SUBSET DOMAIN minions /\ LivingIn(ms) \in SUBSET DOMAIN ms
        /\ minions \in Seq(Minions)
    BY DEF LivingIn, Typed
  <2>2. Cardinality(LivingIn(minions)) \in Nat /\ Cardinality(LivingIn(ms)) \in Nat
    BY <2>1, Countable
  <2> QED
    BY <2>2 DEF Typed
<1>2. x \in Nat /\ SummonCap \in Nat
  BY GemsAssumption
<1>3. Cardinality(LivingIn(ms)) + Len(ss) <= SummonCap + x
  BY <1>1, <1>2
<1> QED
  BY <1>3 DEF Crowded

LEMMA AgesFewer ==
  ASSUME Typed, Ages, NEW ms, ms = minions'
  PROVE  ms \in Seq(Minions) /\ Cardinality(LivingIn(ms)) <= Cardinality(LivingIn(minions))
<1>1. ms \in Seq(Minions) /\ DOMAIN ms = DOMAIN minions /\ minions \in Seq(Minions)
      /\ \A k \in DOMAIN ms : Mine(ms[k]) => Mine(minions[k])
  BY DEF Ages, Typed, Mine
<1> DEFINE at == [k \in DOMAIN ms |-> k]
<1>2. /\ at \in [DOMAIN ms -> DOMAIN minions]
      /\ \A i, j \in DOMAIN ms : at[i] = at[j] => i = j
      /\ \A k \in DOMAIN ms : Mine(ms[k]) => Mine(minions[at[k]])
  BY <1>1
<1> HIDE DEF at
<1> QED
  BY ONLY <1>1, <1>2, FewerLiving

(* What Standing keeps is fewer. *)
LEMMA StandingFewer ==
  ASSUME NEW old \in Seq(Minions), NEW ms, ms = Standing(old)
  PROVE  Cardinality(LivingIn(ms)) <= Cardinality(LivingIn(old))
<1>1. ms \in Seq(Minions)
  BY Stands
<1>0. \E at \in [DOMAIN Standing(old) -> DOMAIN old] :
        /\ \A i, j \in DOMAIN Standing(old) : at[i] = at[j] => i = j
        /\ \A n \in DOMAIN Standing(old) : Standing(old)[n] = old[at[n]]
  BY ONLY old \in Seq(Minions), Stands
<1> PICK at \in [DOMAIN ms -> DOMAIN old] :
      /\ \A i, j \in DOMAIN ms : at[i] = at[j] => i = j
      /\ \A n \in DOMAIN ms : ms[n] = old[at[n]]
  BY <1>0
<1>2. \A n \in DOMAIN ms : Mine(ms[n]) => Mine(old[at[n]])
  OBVIOUS
<1> QED
  BY <1>1, <1>2, FewerLiving

(* n are born: n more.                                                     *)
LEMMA BornMore ==
  ASSUME Typed, NEW n \in Nat, NEW new \in Seq(Minions), Len(new) = n
  PROVE  Cardinality(LivingIn(minions \o new)) <= Cardinality(LivingIn(minions)) + n
<1> DEFINE old == minions \o new
           m == Len(minions)
           L == LivingIn(minions)
           B == (m + 1)..(m + n)
<1>1. m \in Nat /\ minions \in Seq(Minions) /\ DOMAIN minions = 1..m
  BY DEF Typed
<1>2. /\ old \in Seq(Minions) /\ DOMAIN old = 1..(m + n)
      /\ \A k \in 1..m : old[k] = minions[k]
  BY <1>1
<1>3. LivingIn(old) \subseteq L \cup B
  <2>1. \A k \in 1..(m + n) : k \in 1..m \/ k \in B
    BY <1>1
  <2> HIDE DEF B, m, old
  <2> QED
    BY <1>1, <1>2, <2>1 DEF LivingIn
<1>4. IsFiniteSet(L) /\ Cardinality(L) \in Nat
  <2>1. L \in SUBSET DOMAIN minions
    BY DEF LivingIn
  <2> HIDE DEF L
  <2> QED
    BY <1>1, <2>1, Countable
<1>5. IsFiniteSet(B) /\ Cardinality(B) = n
  <2>1. m + 1 \in Int /\ m + n \in Int
    BY <1>1
  <2>2. IsFiniteSet(B) /\ Cardinality(B) = IF m + 1 > m + n THEN 0 ELSE (m + n) - (m + 1) + 1
    BY <2>1, FS_Interval
  <2> HIDE DEF B
  <2> QED
    BY <1>1, <2>2
<1> HIDE DEF L, B, old
<1>6. /\ IsFiniteSet(L \cup B)
      /\ Cardinality(L \cup B) = Cardinality(L) + Cardinality(B) - Cardinality(L \cap B)
  BY <1>4, <1>5, FS_Union
<1>7. Cardinality(L \cap B) \in Nat
  BY <1>4, FS_Intersection, FS_CardinalityType
<1>8. Cardinality(LivingIn(old)) <= Cardinality(L \cup B) /\ Cardinality(LivingIn(old)) \in Nat
  BY <1>3, <1>6, FS_Subset, FS_CardinalityType
<1> QED
  BY <1>4, <1>5, <1>6, <1>7, <1>8 DEF old, L

(* A batch: the oldest make room for it.                                   *)
LEMMA RoomIsMade ==
  ASSUME Typed, NEW cap \in Nat, cap >= SummonCount, NEW ms, ms = Despawned(Over(cap))
  PROVE  Cardinality(LivingIn(ms)) + SummonCount <= cap
<1> DEFINE n == Over(cap)
           c == Cardinality(Living)
           R == {k \in Living : ~(Cardinality({j \in Living : j < k}) < n)}
<1>1. IsFiniteSet(Living) /\ Living \in SUBSET Nat /\ c \in Nat
  <2>1. Living \in SUBSET DOMAIN minions /\ minions \in Seq(Minions)
    BY DEF Living, Typed
  <2> QED
    BY <2>1, Countable
<1>2. n \in 0..c /\ c - n + SummonCount <= cap
  <2>1. SummonCount \in Nat
    BY GemsAssumption
  <2> HIDE DEF c
  <2> QED
    BY <1>1, <2>1 DEF Over, c
<1> HIDE DEF n
<1>3. Cardinality(R) <= c - n
  BY <1>1, <1>2, OldestGo
<1>4. LivingIn(ms) \subseteq R
  <2>1. DOMAIN ms = DOMAIN minions
        /\ \A k \in DOMAIN minions :
             ms[k] = IF k \in Living /\ Cardinality({j \in Living : j < k}) < n
                     THEN [minions[k] EXCEPT !.dead = TRUE] ELSE minions[k]
    BY DEF Despawned, n
  <2>2. ASSUME NEW k \in DOMAIN minions, Mine(ms[k])
        PROVE  k \in R
    <3>1. minions[k] \in Minions
      BY DEF Typed
    <3>2. [minions[k] EXCEPT !.dead = TRUE].dead = TRUE
      BY <3>1 DEF Minions
    <3>3. ms[k] = minions[k] /\ ~(k \in Living /\ Cardinality({j \in Living : j < k}) < n)
      BY <2>1, <2>2, <3>2 DEF Mine
    <3> QED
      BY <2>2, <3>3 DEF Living
  <2> HIDE DEF R
  <2> QED
    BY <2>1, <2>2 DEF LivingIn
<1>5. IsFiniteSet(R)
  BY <1>1, FS_Subset
<1> HIDE DEF R
<1>6. Cardinality(LivingIn(ms)) <= Cardinality(R) /\ Cardinality(LivingIn(ms)) \in Nat /\ Cardinality(R) \in Nat
  BY <1>4, <1>5, FS_Subset, FS_CardinalityType
<1>7. SummonCount \in Nat
  BY GemsAssumption
<1> HIDE DEF c
<1> QED
  BY <1>1, <1>2, <1>3, <1>6, <1>7

LEMMA CrowdStep ==
  ASSUME Typed, Bar, Sheets, Crowded(minions, spawns), [Next]_vars
  PROVE  Crowded(minions, spawns)'
<1> PICK ms, ss : ms = minions' /\ ss = spawns'
  OBVIOUS
<1> SUFFICES Crowded(ms, ss)
  BY CrowdIs
<1>1. minions \in Seq(Minions) /\ spawns \in Seq(Levels) /\ ms \in Seq(Minions) /\ ss \in Seq(Levels)
  BY SheetsStep, TypedStep DEF Typed
<1>2. Len(spawns) \in Nat /\ Cardinality(LivingIn(minions)) \in Nat /\ Cardinality(LivingIn(ms)) \in Nat
  <2>1. LivingIn(minions) \in SUBSET DOMAIN minions /\ LivingIn(ms) \in SUBSET DOMAIN ms
    BY DEF LivingIn
  <2> QED
    BY <1>1, <2>1, Countable
<1>3. ASSUME Ages, ss = spawns
      PROVE  Crowded(ms, ss)
  <2>1. Cardinality(LivingIn(ms)) <= Cardinality(LivingIn(minions))
    BY <1>3, AgesFewer
  <2> QED
    BY <1>1, <1>2, <1>3, <2>1, FewerCrowd
<1>4. CASE GemVerb
  BY <1>3, <1>4, BenchSpreads DEF Spread, GemVerb, CutSkill, CutSkillOver, LevelGem, CutSupport, AddSocket
<1>5. CASE minions' = minions /\ spawns' = spawns
  BY <1>3, <1>5, Unchanging DEF Keeps
<1>6. CASE AdvanceActions
  <2>1. CASE spawns' = spawns
    BY <1>3, <1>6, <2>1, EffectSpreads DEF Spread
  <2>2. CASE spawns' # spawns
    <3>1. Summon /\ phase = "commands"
      BY <1>6, <2>2 DEF AdvanceActions, Fire, ToggleAura
    <3> PICK x \in Extra : ms = Despawned(Over(SummonCap + x))
      BY <3>1 DEF Summon
    <3>2. x \in Nat /\ SummonCap \in Nat /\ SummonCount \in Nat /\ SummonCap >= SummonCount
      BY GemsAssumption
    <3>3. SummonCap + x \in Nat /\ SummonCap + x >= SummonCount
      BY <3>2
    <3>4. Cardinality(LivingIn(ms)) + SummonCount <= SummonCap + x
      BY <3>3, RoomIsMade
    <3>5. Len(ss) = SummonCount
      <4>1. spawns = <<>>
        BY <3>1 DEF Typed
      <4>2. ss = <<>> \o [i \in 1..SummonCount |-> cast.level]
        BY <3>1, <4>1 DEF Summon
      <4>3. [i \in 1..SummonCount |-> cast.level] \in [1..SummonCount -> {cast.level}]
        OBVIOUS
      <4>4. [i \in 1..SummonCount |-> cast.level] \in Seq({cast.level})
            /\ Len([i \in 1..SummonCount |-> cast.level]) = SummonCount
        BY <3>2, <4>3, Lists
      <4> PICK fill : fill = [i \in 1..SummonCount |-> cast.level]
        OBVIOUS
      <4>5. fill \in Seq({cast.level}) /\ Len(fill) = SummonCount /\ ss = <<>> \o fill
        BY <4>2, <4>4
      <4> PICK S, none : S = {cast.level} /\ none = <<>>
        OBVIOUS
      <4>6. none \in Seq(S) /\ Len(none) = 0 /\ fill \in Seq(S) /\ SummonCount \in Nat
        BY <3>2, <4>5
      <4>7. Len(none \o fill) = SummonCount
        BY ONLY <4>5, <4>6
      <4> QED
        BY <4>5, <4>7
    <3> QED
      BY <3>4, <3>5 DEF Crowded
  <2> QED
    BY <2>1, <2>2
<1>7. CASE BeginTick \/ ResolveCombat \/ Leave
  BY <1>3, <1>7, Aging DEF Keeps, BeginTick, ResolveCombat, Leave
<1>8. CASE EndTick
  <2> PICK n \in 0..Len(spawns) : ms = Swept(Standing(minions \o Newborn(n))) /\ ss = <<>>
    BY <1>8, TickEnds
  <2> DEFINE new == Newborn(n)
             old == minions \o new
  <2>1. n \in Nat /\ n <= Len(spawns) /\ new \in Seq(Minions) /\ Len(new) = n
    <3>1. {m \in Minions : m.mods = OwnerAuras} \subseteq Minions
      OBVIOUS
    <3> DEFINE S == {m \in Minions : m.mods = OwnerAuras}
    <3>2. n \in Nat /\ n <= Len(spawns) /\ new \in Seq(S) /\ Len(new) = n
      BY Births
    <3> HIDE DEF S, new
    <3> QED
      BY <3>1, <3>2, WiderSeq DEF S
  <2> HIDE DEF new
  <2>2. old \in Seq(Minions) /\ Cardinality(LivingIn(old)) <= Cardinality(LivingIn(minions)) + n
    BY <1>1, <2>1, BornMore
  <2> HIDE DEF old
  <2> PICK up : up = Standing(old)
    OBVIOUS
  <2>3. up \in Seq(Minions) /\ Cardinality(LivingIn(up)) <= Cardinality(LivingIn(old))
    BY <2>2, Stands, StandingFewer
  <2>4. ms = Swept(up)
    BY DEF old, new
  <2>5. LivingIn(ms) \subseteq LivingIn(up)
    <3>1. /\ DOMAIN Swept(up) = DOMAIN up
          /\ \A k \in DOMAIN up : /\ Swept(up)[k].owned = (up[k].owned /\ hero = "alive")
                                  /\ Swept(up)[k].dead = up[k].dead
      BY <2>3, Sweeping
    <3>2. DOMAIN ms = DOMAIN up /\ \A k \in DOMAIN up : Mine(ms[k]) => Mine(up[k])
      BY <2>4, <3>1 DEF Mine
    <3> QED
      BY <3>2 DEF LivingIn
  <2>6. IsFiniteSet(LivingIn(up)) /\ Cardinality(LivingIn(up)) \in Nat /\ Cardinality(LivingIn(old)) \in Nat
    <3>1. LivingIn(up) \in SUBSET DOMAIN up /\ LivingIn(old) \in SUBSET DOMAIN old
      BY DEF LivingIn
    <3> QED
      BY <2>2, <2>3, <3>1, Countable
  <2>7. Cardinality(LivingIn(ms)) <= Cardinality(LivingIn(up))
    BY <2>5, <2>6, FS_Subset
  <2>8. Len(ss) = 0
    OBVIOUS
  <2>9. Cardinality(LivingIn(ms)) + Len(ss) <= Cardinality(LivingIn(minions)) + Len(spawns)
    BY <1>2, <2>1, <2>2, <2>3, <2>6, <2>7, <2>8
  <2> QED
    BY <1>1, <2>9, FewerCrowd
<1>9. CASE Enter
  <2>1. CASE minions' = minions
    BY <1>5, <1>9, <2>1 DEF Enter
  <2>2. CASE minions' = <<>>
    <3>1. LivingIn(ms) = {}
      BY <2>2 DEF LivingIn
    <3>2. Cardinality(LivingIn(ms)) = 0
      BY <3>1, FS_EmptySet
    <3>3. ss = spawns
      BY <1>9 DEF Enter
    <3>4. Cardinality(LivingIn(ms)) + Len(ss) <= Cardinality(LivingIn(minions)) + Len(spawns)
      BY <1>2, <3>2, <3>3
    <3> QED
      BY <1>1, <3>4, FewerCrowd
  <2> QED
    BY <1>9, <2>1, <2>2 DEF Enter
<1>10. CASE Restore
  <2>1. ms = Standing(minions) /\ ss = spawns
    BY <1>10, Restored
  <2>2. Cardinality(LivingIn(ms)) <= Cardinality(LivingIn(minions))
    BY <1>1, <2>1, StandingFewer
  <2>3. Cardinality(LivingIn(ms)) + Len(ss) <= Cardinality(LivingIn(minions)) + Len(spawns)
    BY <1>2, <2>1, <2>2
  <2> QED
    BY <1>1, <2>3, FewerCrowd
<1>11. CASE (\E k \in DOMAIN gems : UseSkill(k)) \/ UNCHANGED vars
  BY <1>5, <1>11 DEF UseSkill, vars
<1> QED
  BY <1>4, <1>6, <1>7, <1>8, <1>9, <1>10, <1>11 DEF Next

(***************************************************************************)
(* The cast.  From its use to its effect nobody works on the gems.         *)
(***************************************************************************)
LEMMA CastStep ==
  ASSUME Typed, Bar, CastHasItsGem, [Next]_vars
  PROVE  CastHasItsGem'
<1>1. CASE gems' = gems /\ (cast' = cast \/ cast' = None)
  BY <1>1 DEF CastHasItsGem, Skill
<1>2. CASE cast' = None
  BY <1>2 DEF CastHasItsGem
<1>3. CASE GemVerb
  BY <1>2, <1>3 DEF GemVerb, CutSkill, CutSkillOver, LevelGem, CutSupport, AddSocket, Bench
<1>4. ASSUME NEW k \in DOMAIN gems, UseSkill(k)
      PROVE  CastHasItsGem'
  <2>1. gems' = gems /\ cast' = [skill |-> gems[k].skill, level |-> gems[k].level, supports |-> Used(gems[k])]
    BY <1>4 DEF UseSkill, Skill
  <2> PICK c : c = cast'
    OBVIOUS
  <2>2. c.skill = gems[k].skill /\ c.level = gems[k].level /\ c.supports = Used(gems[k])
    BY <2>1
  <2>3. \E j \in DOMAIN gems' : gems'[j].skill = c.skill /\ gems'[j].level = c.level /\ Used(gems[j]) = c.supports
    BY <2>1, <2>2
  <2> QED
    BY <2>1, <2>3 DEF CastHasItsGem, Skill
<1>5. CASE AdvanceActions \/ UNCHANGED vars
  BY <1>1, <1>2, <1>5 DEF AdvanceActions, vars
<1>6. CASE BeginTick \/ ResolveCombat \/ EndTick \/ Leave \/ Enter
  BY <1>1, <1>6 DEF BeginTick, ResolveCombat, EndTick, Leave, Enter
<1>7. CASE Restore
  BY <1>1, <1>7, Restored
<1> QED
  BY <1>3, <1>4, <1>5, <1>6, <1>7 DEF Next

(***************************************************************************)
(* Between ticks nobody is dead: a save leaves nobody out.                 *)
(***************************************************************************)
NoneDead == phase = "idle" => \A k \in DOMAIN minions : ~minions[k].dead

LEMMA NoneDeadStep ==
  ASSUME Typed, Bar, Sheets, NoneDead, [Next]_vars
  PROVE  NoneDead'
<1>1. CASE phase' # "idle"
  BY <1>1 DEF NoneDead
<1>2. CASE UNCHANGED <<phase, minions>>
  BY <1>2 DEF NoneDead
<1>3. CASE GemVerb \/ BeginTick \/ AdvanceActions \/ ResolveCombat
  BY <1>1, <1>3 DEF GemVerb, CutSkill, CutSkillOver, LevelGem, CutSupport, AddSocket, Bench, BeginTick,
     AdvanceActions, ResolveCombat
<1>4. CASE (\E k \in DOMAIN gems : UseSkill(k)) \/ UNCHANGED vars
  BY <1>2, <1>4 DEF UseSkill, vars
<1>5. CASE EndTick
  BY <1>5, TickSpreads DEF NoneDead
<1>6. CASE Leave
  <2>1. /\ minions' = [k \in DOMAIN minions |-> [minions[k] EXCEPT !.owned = FALSE]]
        /\ phase = "idle" /\ phase' = "idle"
    BY <1>6 DEF Leave
  <2>2. \A k \in DOMAIN minions : minions[k] \in Minions
    BY DEF Typed
  <2>3. \A k \in DOMAIN minions' : ~minions'[k].dead
    BY <2>1, <2>2 DEF Minions, NoneDead
  <2> QED
    BY <2>3 DEF NoneDead
<1>7. CASE Enter
  <2> PICK ms : ms = minions'
    OBVIOUS
  <2>1. (ms = minions \/ ms = <<>>) /\ phase = "idle"
    BY <1>7 DEF Enter
  <2>2. \A k \in DOMAIN ms : ~ms[k].dead
    BY <2>1 DEF NoneDead
  <2> QED
    BY <2>2 DEF NoneDead
<1>8. CASE Restore
  <2> PICK ms : ms = minions'
    OBVIOUS
  <2>1. ms = Standing(minions) /\ minions \in Seq(Minions)
    BY <1>8, Restored DEF Typed
  <2>2. \A n \in DOMAIN ms : \E k \in DOMAIN minions : ms[n] = minions[k] /\ ~minions[k].dead
    BY <2>1, Stands
  <2> QED
    BY <2>2 DEF NoneDead
<1> QED
  BY <1>3, <1>4, <1>5, <1>6, <1>7, <1>8 DEF Next

(***************************************************************************)
(* The invariant.                                                          *)
(***************************************************************************)
IInv == Typed /\ Bar /\ Sheets /\ Crowded(minions, spawns) /\ CastHasItsGem /\ NoneDead

LEMMA Starts ==
  ASSUME Init
  PROVE  IInv
<1> USE DEF Init
<1>1. Typed
  BY DEF Typed, Clean
<1>2. Bar
  BY GemsAssumption DEF Bar
<1>3. Sheets
  BY DEF Sheets, OwnerAuras, Running, Clean
<1>4. Crowded(minions, spawns)
  <2>1. LivingIn(minions) = {}
    BY DEF LivingIn
  <2>2. Cardinality(LivingIn(minions)) = 0
    BY <2>1, FS_EmptySet
  <2> PICK x \in Extra : TRUE
    BY GemsAssumption
  <2>3. x \in Nat /\ SummonCap \in Nat /\ Len(spawns) = 0
    BY GemsAssumption
  <2>4. Cardinality(LivingIn(minions)) + Len(spawns) <= SummonCap + x
    BY <2>2, <2>3
  <2> QED
    BY <2>4 DEF Crowded
<1>5. CastHasItsGem /\ NoneDead
  BY DEF CastHasItsGem, NoneDead
<1> QED
  BY <1>1, <1>2, <1>3, <1>4, <1>5 DEF IInv

LEMMA IInvStep ==
  ASSUME IInv, [Next]_vars
  PROVE  IInv'
<1>1. Typed' /\ Bar' /\ Sheets'
  BY BarStep, SheetsStep, TypedStep DEF IInv
<1>2. Crowded(minions, spawns)' /\ CastHasItsGem' /\ NoneDead'
  BY CrowdStep, CastStep, NoneDeadStep DEF IInv
<1> QED
  BY <1>1, <1>2 DEF IInv

(* The invariant holds: every step of a hero's gems and minions keeps it.  *)
THEOREM IInvHolds == Spec => []IInv
<1>1. Init => IInv
  BY Starts
<1>2. IInv /\ [Next]_vars => IInv'
  BY IInvStep
<1> QED
  BY <1>1, <1>2, PTL DEF Spec

(* TypeOK says of a bar that no skill is in it twice and that its supports *)
(* fit and are in once, and of a hero that no more minions are alive or    *)
(* coming than the cap: so for every number of gems, sockets, levels and   *)
(* minions.                                                                *)
THEOREM TypeCorrect == Spec => []TypeOK
<1>1. ASSUME IInv
      PROVE  TypeOK
  <2>1. ASSUME NEW k \in DOMAIN gems
        PROVE  /\ Skill(k) \in Skills /\ gems[k].level \in Levels /\ gems[k].on \in BOOLEAN
               /\ gems[k].on => Skill(k) \in Auras
               /\ Len(gems[k].supports) \in 1..MaxGemSockets
               /\ \A s \in Used(gems[k]) :
                    /\ Skill(k) \in Fits[s]
                    /\ Cardinality({j \in DOMAIN gems[k].supports : gems[k].supports[j] = s}) = 1
    <3>1. Good(gems[k])
      BY <1>1 DEF IInv, Bar
    <3>2. ASSUME NEW s \in Used(gems[k])
          PROVE  Cardinality({j \in DOMAIN gems[k].supports : gems[k].supports[j] = s}) = 1
      <4> PICK i \in DOMAIN gems[k].supports : gems[k].supports[i] = s /\ s # None
        BY DEF Used
      <4>1. {j \in DOMAIN gems[k].supports : gems[k].supports[j] = s} = {i}
        BY <3>1 DEF Good
      <4> QED
        BY <4>1, FS_Singleton
    <3> QED
      BY <3>1, <3>2 DEF Good, GemSet, Skill
  <2>2. \A j, k \in DOMAIN gems : Skill(j) = Skill(k) => j = k
    BY <1>1 DEF IInv, Bar, Skill
  <2>3. /\ cast # None => hero = "alive" /\ cast.skill \in Skills
        /\ DOMAIN sheet = Auras
        /\ \A k \in DOMAIN minions : minions[k].left \in 0..SummonTTL /\ minions[k].level \in Levels
    <3>1. Typed
      BY <1>1 DEF IInv
    <3>2. DOMAIN sheet = Auras
      BY <3>1 DEF Typed
    <3>3. cast # None => hero = "alive" /\ cast.skill \in Skills
      BY <3>1 DEF Typed, Casts
    <3>4. \A k \in DOMAIN minions : minions[k] \in Minions
      BY <3>1 DEF Typed
    <3> QED
      BY <3>2, <3>3, <3>4 DEF Minions
  <2>4. \E x \in Extra : Cardinality(Living) + Len(spawns) <= SummonCap + x
    BY <1>1 DEF IInv, Crowded, LivingIn, Living
  <2> QED
    BY <1>1, <2>1, <2>2, <2>3, <2>4 DEF TypeOK, IInv, Typed, Bar
<1> QED
  BY <1>1, IInvHolds, PTL

(* The sheets of the hero and of its living minions say what the bar says. *)
THEOREM SheetIsBuild == Spec => []SheetIsTheBuild
<1>1. IInv => SheetIsTheBuild
  BY DEF IInv, Sheets, SheetIsTheBuild, Living
<1> QED
  BY <1>1, IInvHolds, PTL

(* What is in flight is a gem of the bar, as it is.                        *)
THEOREM CastsHaveGems == Spec => []CastHasItsGem
<1>1. IInv => CastHasItsGem
  BY DEF IInv
<1> QED
  BY <1>1, IInvHolds, PTL

(* A restored world is the one that was saved, hashed or not.              *)
THEOREM RestoreIsExact == Spec => RestoreKeepsTheWorld
<1>1. ASSUME IInv, Restore
      PROVE  Hash' = Hash /\ sheet' = sheet /\ cast' = cast /\ minions' = minions
  <2>1. /\ hero' = hero /\ gems' = gems /\ cast' = cast /\ sheet' = sheet
        /\ minions' = Standing(minions) /\ phase = "idle"
    BY <1>1, Restored DEF IInv
  <2>2. minions \in Seq(Minions) /\ \A k \in DOMAIN minions : ~minions[k].dead
    BY <1>1, <2>1 DEF IInv, Typed, NoneDead
  <2>3. minions' = minions
    BY <2>1, <2>2, Stands
  <2> QED
    BY <2>1, <2>3 DEF Hash
<1>2. IInv /\ [Next]_vars =>
        [Restore => Hash' = Hash /\ sheet' = sheet /\ cast' = cast /\ minions' = minions]_vars
  BY <1>1
<1> QED
  BY <1>2, IInvHolds, PTL DEF Spec, RestoreKeepsTheWorld
=============================================================================
