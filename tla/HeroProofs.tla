----------------------------- MODULE HeroProofs -----------------------------
(***************************************************************************)
(* Theorems about a hero: about what it carries (Gear), for any affixes,   *)
(* bases, slots, caps and bag, and then about what it does (Casting), for  *)
(* any skills and durations.                                               *)
(***************************************************************************)
EXTENDS Gear, Casting, FiniteSetTheorems, TLAPS

(***************************************************************************)
(* Numbers: a least element, and positions in their order.                 *)
(***************************************************************************)
LEMMA HasLeast ==
  ASSUME NEW S \in SUBSET Nat, S # {}
  PROVE  Least(S) \in S /\ \A m \in S : Least(S) <= m
<1> DEFINE T == {0..k : k \in S}
           R == StrictSubsetOrdering(Nat)
<1>1. IsWellFoundedOn(R, FiniteSubsetsOf(Nat))
  BY FS_StrictSubsetOrderingWellFounded
<1>2. \A k \in S : IsFiniteSet(0..k) /\ 0..k \in SUBSET Nat
  BY FS_Interval
<1>3. T \subseteq FiniteSubsetsOf(Nat)
  BY <1>2 DEF FiniteSubsetsOf
<1>4. T # {}
  <2>1. PICK k : k \in S
    OBVIOUS
  <2> QED
    BY <2>1
<1> HIDE DEF R
<1>5. PICK x \in T : \A y \in T : <<y, x>> \notin R
  BY <1>1, <1>3, <1>4, WFMin
<1>6. PICK k \in S : x = 0..k
  BY <1>5
<1>7. ASSUME NEW j \in S, ~(k <= j)
      PROVE  FALSE
  <2>1. k \in 0..k /\ k \notin 0..j /\ 0..j \subseteq 0..k
    BY <1>7
  <2>2. <<0..j, 0..k>> \in R
    BY <1>2, <2>1 DEF R, StrictSubsetOrdering
  <2> QED
    BY <1>5, <1>6, <2>2
<1> QED
  BY <1>7 DEF Least

LEMMA Ranks ==
  ASSUME NEW K \in SUBSET Nat, IsFiniteSet(K)
  PROVE  /\ Cardinality(K) \in Nat
         /\ \A n \in 1..Cardinality(K) :
              /\ (CHOOSE k \in K : Cardinality({j \in K : j <= k}) = n) \in K
              /\ Cardinality({j \in K : j <= (CHOOSE k \in K : Cardinality({i \in K : i <= k}) = n)}) = n
         /\ \A k \in K : Cardinality({j \in K : j <= k}) \in 1..Cardinality(K)
         /\ \A k, l \in K : Cardinality({j \in K : j <= k}) = Cardinality({j \in K : j <= l}) => k = l
<1> DEFINE B(k) == {j \in K : j <= k}
           c == Cardinality(K)
           r == [k \in K |-> Cardinality(B(k))]
<1>1. c \in Nat
  BY FS_CardinalityType
<1>2. \A k \in K : IsFiniteSet(B(k)) /\ Cardinality(B(k)) \in 1..c
  <2> SUFFICES ASSUME NEW k \in K
               PROVE  IsFiniteSet(B(k)) /\ Cardinality(B(k)) \in 1..c
    OBVIOUS
  <2>1. B(k) \in SUBSET K /\ k \in B(k)
    OBVIOUS
  <2>2. IsFiniteSet(B(k)) /\ Cardinality(B(k)) <= c /\ Cardinality(B(k)) \in Nat
    BY <2>1, FS_Subset, FS_CardinalityType
  <2>3. Cardinality(B(k)) # 0
    BY <2>1, <2>2, FS_EmptySet
  <2> QED
    BY <1>1, <2>2, <2>3
<1>3. \A k, l \in K : Cardinality(B(k)) = Cardinality(B(l)) => k = l
  <2>1. ASSUME NEW k \in K, NEW l \in K, Cardinality(B(k)) = Cardinality(B(l)), k < l
        PROVE  FALSE
    <3>1. k \in Nat /\ l \in Nat
      OBVIOUS
    <3>2. B(k) \in SUBSET B(l)
      <4>1. \A j \in K : j <= k => j <= l
        BY <2>1, <3>1
      <4> QED
        BY <4>1
    <3>3. l \in B(l) /\ l \notin B(k)
      BY <2>1, <3>1
    <3> QED
      BY <1>2, <2>1, <3>2, <3>3, FS_Subset
  <2>2. \A k, l \in K : k = l \/ k < l \/ l < k
    OBVIOUS
  <2> HIDE DEF B
  <2> QED
    BY <2>1, <2>2
<1> HIDE DEF B
<1>4. r \in Injection(K, 1..c)
  BY <1>2, <1>3 DEF Injection, IsInjective
<1>5. IsFiniteSet(1..c) /\ Cardinality(1..c) = c
  BY <1>1, FS_Interval
<1>6. r \in Surjection(K, 1..c)
  BY <1>4, <1>5, FS_Injection
<1>7. \A n \in 1..c : \E k \in K : Cardinality(B(k)) = n
  BY <1>6 DEF Surjection
<1> QED
  BY <1>1, <1>2, <1>3, <1>7 DEF B

(* What a selection is: the chosen entries, one at a time.                 *)
LEMMA Selected ==
  ASSUME NEW X, NEW s \in Seq(X), NEW K \in SUBSET DOMAIN s
  PROVE  /\ Only(s, K) \in Seq(X) /\ Len(Only(s, K)) = Cardinality(K)
         /\ DOMAIN Only(s, K) = 1..Cardinality(K) /\ Cardinality(K) \in Nat
         /\ \A n \in DOMAIN Only(s, K) : \E k \in K : Only(s, K)[n] = s[k]
         /\ \A k \in K : \E n \in DOMAIN Only(s, K) : Only(s, K)[n] = s[k]
         /\ (\A k, l \in K : s[k] = s[l] => k = l) =>
              \A m, n \in DOMAIN Only(s, K) : Only(s, K)[m] = Only(s, K)[n] => m = n
<1> DEFINE c == Cardinality(K)
           at(n) == CHOOSE k \in K : Cardinality({j \in K : j <= k}) = n
<1>1. DOMAIN s = 1..Len(s) /\ Len(s) \in Nat /\ \A k \in DOMAIN s : s[k] \in X
  OBVIOUS
<1>2. IsFiniteSet(K) /\ K \in SUBSET Nat
  <2>1. IsFiniteSet(1..Len(s))
    BY <1>1, FS_Interval
  <2> QED
    BY <1>1, <2>1, FS_Subset
<1>3. /\ c \in Nat
      /\ \A n \in 1..c : at(n) \in K /\ Cardinality({j \in K : j <= at(n)}) = n
      /\ \A k \in K : Cardinality({j \in K : j <= k}) \in 1..c
      /\ \A k, l \in K : Cardinality({j \in K : j <= k}) = Cardinality({j \in K : j <= l}) => k = l
  BY <1>2, Ranks
<1>4. Only(s, K) = [n \in 1..c |-> s[at(n)]]
  BY DEF Only
<1> HIDE DEF at, c
<1>5. \A k \in K : \E n \in 1..c : at(n) = k
  <2> SUFFICES ASSUME NEW k \in K
               PROVE  \E n \in 1..c : at(n) = k
    OBVIOUS
  <2>1. Cardinality({j \in K : j <= k}) \in 1..c
    BY <1>3
  <2> QED
    BY <1>3, <2>1
<1>6. Only(s, K) \in [1..c -> X]
  BY <1>1, <1>3, <1>4
<1>7. Only(s, K) \in Seq(X) /\ Len(Only(s, K)) = c
  <2> HIDE DEF Only
  <2>1. \A f \in [1..c -> X] : f \in Seq(X) /\ Len(f) = c
    BY <1>3
  <2> QED
    BY <1>6, <2>1
<1>8. \A m, n \in 1..c : at(m) = at(n) => m = n
  BY <1>3
<1>9. DOMAIN Only(s, K) = 1..c /\ \A n \in 1..c : Only(s, K)[n] = s[at(n)] /\ at(n) \in K
  BY <1>3, <1>4
<1>10. \A n \in 1..c : \E k \in K : Only(s, K)[n] = s[k]
  BY <1>9
<1>11. \A k \in K : \E n \in 1..c : Only(s, K)[n] = s[k]
  BY <1>5, <1>9
<1>12. (\A k, l \in K : s[k] = s[l] => k = l) =>
          \A m, n \in 1..c : Only(s, K)[m] = Only(s, K)[n] => m = n
  BY <1>8, <1>9
<1> QED
  BY <1>3, <1>7, <1>9, <1>10, <1>11, <1>12 DEF c

(***************************************************************************)
(* The invariant.  Everything is in one place: an item's id is nobody      *)
(* else's, and it is in the bag, on the hero or on the ground.  Counting   *)
(* follows from that.                                                      *)
(***************************************************************************)
Drops == [id : Ids, item : Items \cup {None}, taken : BOOLEAN]

Entries(b) == {b[k] : k \in DOMAIN b}
Lying(D) == {d.item : d \in {x \in D : ~x.taken}}
On(w) == {w[s] : s \in Slots} \ {None}
Everything == InBag \cup WornItems \cup OnGround

GoodDrops(D) ==
  /\ D \subseteq Drops
  /\ \A d \in D : IF d.taken THEN d.item = None ELSE d.item \in Items /\ d.id = d.item.id

GoodBag(b) ==
  /\ b \in Seq(Items) /\ Len(b) <= BagSize
  /\ \A k, l \in DOMAIN b : b[k] = b[l] => k = l

GoodWorn(w) ==
  /\ w \in [Slots -> Items \cup {None}]
  /\ \A s \in Slots : w[s] # None => ~IsGem(w[s]) /\ s \in Accepting(w[s].base)
  /\ \A s, t \in Slots : w[s] = w[t] /\ w[s] # None => s = t

Things == GoodDrops(drops) /\ GoodBag(bag) /\ GoodWorn(worn)

Placed(B, W, G, L) ==
  /\ \A i, j \in B \cup W \cup G : i.id = j.id => i = j
  /\ B \cap W = {} /\ B \cap G = {} /\ W \cap G = {}
  /\ L = {i.id : i \in B \cup W \cup G}

OneEach == Placed(InBag, WornItems, OnGround, live)

AllLawful == \A i \in Everything : Lawful(i)

Coins(w) == {p \in Orbs \X (1..MaxWealth) : p[2] <= w[p[1]]}
GoodWallet(w, n) ==
  w \in [Orbs -> 0..MaxWealth] /\ n \in 0..MaxWealth /\ n + Cardinality(Coins(w)) <= MaxWealth

(* The sheet copies what is worn, each item once.                          *)
Entry(i) == [source |-> i.id, mods |-> Mods(i)]
SheetEntries == [source : Ids, mods : SUBSET (Affixes \cup {"unique"})]

GoodSheet(sh) ==
  /\ sh \in Seq(SheetEntries)
  /\ \A k, l \in DOMAIN sh : sh[k].source = sh[l].source => k = l

Copies == GoodSheet(sheet) /\ Entries(sheet) = {Entry(i) : i \in WornItems}

LifeFits == life \in 0..MaxLife(sheet)

GearInv == Things /\ OneEach /\ AllLawful /\ GoodWallet(orbs, shards) /\ Copies /\ LifeFits

LEMMA Places == InBag = Entries(bag) /\ WornItems = On(worn) /\ OnGround = Lying(drops)
  BY DEF InBag, WornItems, OnGround, Entries, On, Lying

LEMMA BagGains ==
  ASSUME NEW b \in Seq(Items), NEW i \in Items
  PROVE  /\ Append(b, i) \in Seq(Items) /\ Len(Append(b, i)) = Len(b) + 1
         /\ Entries(Append(b, i)) = Entries(b) \cup {i}
         /\ GoodBag(b) /\ HasRoom(b) /\ i \notin Entries(b) => GoodBag(Append(b, i))
<1> DEFINE a == Append(b, i)
           n == Len(b)
<1>1. /\ a \in Seq(Items) /\ Len(a) = n + 1 /\ n \in Nat
      /\ DOMAIN a = 1..(n + 1) /\ DOMAIN b = 1..n /\ a[n + 1] = i
      /\ \A k \in 1..n : a[k] = b[k]
  OBVIOUS
<1> HIDE DEF a, n
<1>2. /\ \A k \in DOMAIN a : (k = n + 1 /\ a[k] = i) \/ (k \in DOMAIN b /\ a[k] = b[k])
      /\ \A k \in DOMAIN b : k \in DOMAIN a
      /\ n + 1 \in DOMAIN a
  BY <1>1
<1>3. Entries(a) = Entries(b) \cup {i}
  BY <1>1, <1>2 DEF Entries
<1>4. GoodBag(b) /\ HasRoom(b) /\ i \notin Entries(b) => GoodBag(a)
  <2> SUFFICES ASSUME GoodBag(b), HasRoom(b), i \notin Entries(b)
               PROVE  GoodBag(a)
    OBVIOUS
  <2>1. Len(a) <= BagSize
    BY <1>1, GearAssumption DEF HasRoom, n
  <2>2. \A k \in DOMAIN b : b[k] # i
    BY DEF Entries
  <2> QED
    BY <1>1, <1>2, <2>1, <2>2 DEF GoodBag
<1> QED
  BY <1>1, <1>3, <1>4 DEF a, n

LEMMA BagLoses ==
  ASSUME NEW b, GoodBag(b), NEW k \in DOMAIN b
  PROVE  /\ GoodBag(Without(b, k)) /\ HasRoom(Without(b, k)) /\ b[k] \in Items
         /\ Entries(Without(b, k)) = Entries(b) \ {b[k]}
<1> DEFINE a == Without(b, k)
           n == Len(b)
<1>1. n \in Nat /\ DOMAIN b = 1..n /\ b \in Seq(Items) /\ \A l \in 1..n : b[l] \in Items
  BY DEF GoodBag
<1>2. k \in 1..n
  BY <1>1
<1> DEFINE s == SubSeq(b, 1, k - 1)
           t == SubSeq(b, k + 1, n)
<1>3. /\ s \in Seq(Items) /\ Len(s) = k - 1 /\ \A l \in 1..(k - 1) : s[l] = b[l]
  BY <1>1, <1>2
<1>4. /\ t \in Seq(Items) /\ Len(t) = n - k /\ \A l \in 1..(n - k) : t[l] = b[l + k]
  <2>1. \A l \in 1..Len(t) : t[l] = b[(k + 1) + l - 1]
    BY <1>1, <1>2
  <2>2. t \in Seq(Items) /\ Len(t) = n - k
    BY <1>1, <1>2
  <2>3. \A l \in 1..(n - k) : (k + 1) + l - 1 = l + k
    BY <1>1, <1>2
  <2> HIDE DEF t
  <2> QED
    BY <2>1, <2>2, <2>3
<1>5. /\ a = s \o t
  BY DEF Without
<1> HIDE DEF s, t, a, n
<1>6. /\ a \in Seq(Items) /\ Len(a) = n - 1 /\ DOMAIN a = 1..(n - 1)
      /\ \A l \in 1..(n - 1) : a[l] = IF l <= k - 1 THEN s[l] ELSE t[l - (k - 1)]
  <2>1. s \in Seq(Items) /\ t \in Seq(Items) /\ Len(s) = k - 1 /\ Len(t) = n - k
    BY <1>3, <1>4
  <2>2. a \in Seq(Items) /\ Len(a) = Len(s) + Len(t)
    <3>1. \A S, p, q : p \in Seq(S) /\ q \in Seq(S) => p \o q \in Seq(S) /\ Len(p \o q) = Len(p) + Len(q)
      OBVIOUS
    <3> QED
      BY ONLY <1>5, <2>1, <3>1
  <2>3. \A l \in 1..(Len(s) + Len(t)) : a[l] = IF l <= Len(s) THEN s[l] ELSE t[l - Len(s)]
    BY <1>5, <2>1
  <2>4. Len(a) = n - 1 /\ n - 1 \in Nat /\ Len(s) + Len(t) = n - 1
    BY <1>1, <1>2, <2>1, <2>2
  <2>5. DOMAIN a = 1..(n - 1)
    BY <2>2, <2>4
  <2> QED
    BY <2>1, <2>2, <2>3, <2>4, <2>5
<1>7. \A l \in 1..(n - 1) : a[l] = IF l < k THEN b[l] ELSE b[l + 1]
  <2> SUFFICES ASSUME NEW l \in 1..(n - 1)
               PROVE  a[l] = IF l < k THEN b[l] ELSE b[l + 1]
    OBVIOUS
  <2>1. CASE l < k
    BY <1>1, <1>2, <1>3, <1>6, <2>1
  <2>2. CASE ~(l < k)
    <3>1. l - (k - 1) \in 1..(n - k) /\ l - (k - 1) + k = l + 1
      BY <1>1, <1>2, <2>2
    <3>2. a[l] = t[l - (k - 1)]
      BY <1>1, <1>2, <1>6, <2>2
    <3>3. t[l - (k - 1)] = b[l + 1]
      BY <1>4, <3>1
    <3> QED
      BY <2>2, <3>2, <3>3
  <2> QED
    BY <2>1, <2>2
<1>8. ASSUME NEW l \in 1..n, l # k
      PROVE  \E m \in 1..(n - 1) : a[m] = b[l]
  <2>1. CASE l < k
    BY <1>1, <1>2, <1>7, <2>1
  <2>2. CASE l > k
    <3>1. l - 1 \in 1..(n - 1) /\ ~(l - 1 < k) /\ (l - 1) + 1 = l
      BY <1>1, <1>2, <2>2
    <3> QED
      BY <1>7, <3>1
  <2> QED
    BY <1>1, <1>2, <1>8, <2>1, <2>2
<1>9. \A l \in 1..(n - 1) : \E m \in 1..n : m # k /\ a[l] = b[m] /\ m = IF l < k THEN l ELSE l + 1
  BY <1>1, <1>2, <1>7
<1>10. \A l, m \in 1..n : b[l] = b[m] => l = m
  BY <1>1 DEF GoodBag
<1>11. Entries(a) = Entries(b) \ {b[k]}
  <2>1. Entries(a) = {a[m] : m \in 1..(n - 1)}
    BY <1>6 DEF Entries
  <2>2. Entries(b) = {b[m] : m \in 1..n}
    BY <1>1 DEF Entries
  <2> QED
    BY <1>2, <1>8, <1>9, <1>10, <2>1, <2>2
<1>12. \A l, m \in DOMAIN a : a[l] = a[m] => l = m
  <2> SUFFICES ASSUME NEW l \in 1..(n - 1), NEW m \in 1..(n - 1), a[l] = a[m]
               PROVE  l = m
    BY <1>6
  <2>1. (IF l < k THEN l ELSE l + 1) = (IF m < k THEN m ELSE m + 1)
    BY <1>9, <1>10
  <2> QED
    BY <1>1, <1>2, <2>1
<1>13. Len(a) <= BagSize /\ Len(a) < BagSize
  BY <1>1, <1>2, <1>6, GearAssumption DEF GoodBag, n
<1> QED
  BY <1>1, <1>2, <1>6, <1>11, <1>12, <1>13 DEF GoodBag, HasRoom, a

LEMMA GroundGains ==
  ASSUME NEW D, GoodDrops(D), NEW i \in Items
  PROVE  GoodDrops(D \cup {Dropped(i)}) /\ Lying(D \cup {Dropped(i)}) = Lying(D) \cup {i}
<1>1. /\ Dropped(i) \in Drops /\ ~Dropped(i).taken /\ Dropped(i).item = i /\ Dropped(i).id = i.id
  BY DEF Dropped, Drops, Items
<1>2. \A d \in D : d.taken \in BOOLEAN
  BY DEF GoodDrops, Drops
<1> QED
  BY <1>1, <1>2 DEF GoodDrops, Lying

LEMMA GroundLoses ==
  ASSUME NEW D, GoodDrops(D), NEW i \in Lying(D)
  PROVE  GoodDrops(Taken(D, i)) /\ Lying(Taken(D, i)) = Lying(D) \ {i} /\ i \in Items
<1> DEFINE gone == [id |-> i.id, item |-> None, taken |-> TRUE]
<1>1. PICK d \in D : ~d.taken /\ d.item = i
  BY DEF Lying
<1>2. i \in Items /\ d.id = i.id /\ d \in Drops
  BY <1>1 DEF GoodDrops
<1>3. gone \in Drops /\ gone.taken /\ gone.item = None
  BY <1>2 DEF Drops, Items
<1>4. \A e \in D : ~e.taken /\ e.item = i => e = Dropped(i)
  BY DEF GoodDrops, Drops, Dropped
<1>5. Taken(D, i) = (D \ {Dropped(i)}) \cup {gone}
  BY DEF Taken
<1>6. ~Dropped(i).taken /\ Dropped(i).item = i
  BY DEF Dropped
<1> HIDE DEF gone
<1>7. GoodDrops(Taken(D, i))
  BY <1>3, <1>5 DEF GoodDrops
<1>8. Lying(Taken(D, i)) = Lying(D) \ {i}
  BY <1>3, <1>4, <1>5, <1>6 DEF Lying
<1> QED
  BY <1>2, <1>7, <1>8

LEMMA WornChanges ==
  ASSUME NEW w, GoodWorn(w), NEW s \in Slots
  PROVE  /\ GoodWorn([w EXCEPT ![s] = None]) /\ On([w EXCEPT ![s] = None]) = On(w) \ {w[s]}
         /\ \A i \in Items : ~IsGem(i) /\ s \in Accepting(i.base) /\ i \notin On(w) =>
              /\ GoodWorn([w EXCEPT ![s] = i])
              /\ On([w EXCEPT ![s] = i]) = (On(w) \ {w[s]}) \cup {i}
<1>1. w \in [Slots -> Items \cup {None}] /\ None \notin Items
  BY NothingIsNoItem DEF GoodWorn
<1>2. \A t \in Slots : w[t] # None /\ t # s => w[t] # w[s]
  BY DEF GoodWorn
<1>3. /\ GoodWorn([w EXCEPT ![s] = None]) /\ On([w EXCEPT ![s] = None]) = On(w) \ {w[s]}
  BY <1>1, <1>2 DEF GoodWorn, On
<1>4. ASSUME NEW i \in Items, ~IsGem(i), s \in Accepting(i.base), i \notin On(w)
      PROVE  /\ GoodWorn([w EXCEPT ![s] = i])
             /\ On([w EXCEPT ![s] = i]) = (On(w) \ {w[s]}) \cup {i}
  <2>1. \A t \in Slots : w[t] # i
    BY <1>1, <1>4 DEF On
  <2>2. GoodWorn([w EXCEPT ![s] = i])
    BY <1>1, <1>4, <2>1 DEF GoodWorn
  <2>3. On([w EXCEPT ![s] = i]) = (On(w) \ {w[s]}) \cup {i}
    BY <1>1, <1>2, <1>4, <2>1 DEF On
  <2> QED
    BY <2>2, <2>3
<1> QED
  BY <1>3, <1>4

LEMMA EntryTyped == \A i \in Items : Entry(i) \in SheetEntries /\ Entry(i).source = i.id
  BY DEF Entry, SheetEntries, Items, Mods

LEMMA SheetGains ==
  ASSUME NEW sh, GoodSheet(sh), NEW i \in Items, \A e \in Entries(sh) : e.source # i.id
  PROVE  GoodSheet(Granted(sh, i)) /\ Entries(Granted(sh, i)) = Entries(sh) \cup {Entry(i)}
<1> DEFINE a == Append(sh, Entry(i))
           n == Len(sh)
<1>1. Granted(sh, i) = a /\ Entry(i) \in SheetEntries /\ Entry(i).source = i.id
  BY EntryTyped DEF Granted, Entry
<1>2. /\ a \in Seq(SheetEntries) /\ n \in Nat /\ DOMAIN a = 1..(n + 1) /\ DOMAIN sh = 1..n
      /\ a[n + 1] = Entry(i) /\ \A k \in 1..n : a[k] = sh[k]
  BY <1>1 DEF GoodSheet
<1> HIDE DEF a, n
<1>3. /\ \A k \in DOMAIN a : (k = n + 1 /\ a[k] = Entry(i)) \/ (k \in DOMAIN sh /\ a[k] = sh[k])
      /\ \A k \in DOMAIN sh : k \in DOMAIN a
      /\ n + 1 \in DOMAIN a
  BY <1>2
<1>4. Entries(a) = Entries(sh) \cup {Entry(i)}
  BY <1>2, <1>3 DEF Entries
<1>5. \A k \in DOMAIN sh : sh[k].source # i.id
  BY DEF Entries
<1>6. GoodSheet(a)
  BY <1>1, <1>2, <1>3, <1>5 DEF GoodSheet
<1> QED
  BY <1>1, <1>4, <1>6

LEMMA SheetLoses ==
  ASSUME NEW sh, GoodSheet(sh), NEW i
  PROVE  /\ GoodSheet(Revoked(sh, i))
         /\ Entries(Revoked(sh, i)) = {e \in Entries(sh) : e.source # i.id}
<1> DEFINE K == {k \in DOMAIN sh : sh[k].source # i.id}
           a == Only(sh, K)
<1>1. K \in SUBSET DOMAIN sh /\ sh \in Seq(SheetEntries)
  BY DEF GoodSheet
<1>2. Revoked(sh, i) = a
  BY DEF Revoked
<1>3. \A k, l \in K : sh[k].source = sh[l].source => k = l
  BY DEF GoodSheet
<1>4. /\ a \in Seq(SheetEntries)
      /\ \A n \in DOMAIN a : \E k \in K : a[n] = sh[k]
      /\ \A k \in K : \E n \in DOMAIN a : a[n] = sh[k]
      /\ \A m, n \in DOMAIN a : a[m] = a[n] => m = n
  BY <1>1, <1>3, Selected
<1>5. \A k \in DOMAIN sh : k \in K <=> sh[k].source # i.id
  OBVIOUS
<1>6. \A k \in K : k \in DOMAIN sh
  OBVIOUS
<1> HIDE DEF K, a
<1>7. GoodSheet(a)
  BY <1>3, <1>4 DEF GoodSheet
<1>8. Entries(a) = {e \in Entries(sh) : e.source # i.id}
  BY <1>4, <1>5, <1>6 DEF Entries
<1> QED
  BY <1>2, <1>7, <1>8

LEMMA LifeIsPositive ==
  ASSUME NEW sh, GoodSheet(sh)
  PROVE  MaxLife(sh) \in Nat \ {0}
<1>1. DOMAIN sh = 1..Len(sh) /\ Len(sh) \in Nat
  BY DEF GoodSheet
<1>2. IsFiniteSet(DOMAIN sh)
  BY <1>1, FS_Interval
<1>3. IsFiniteSet({k \in DOMAIN sh : sh[k].mods \cap LifeAffix # {}})
  BY <1>2, FS_Subset
<1>4. Cardinality({k \in DOMAIN sh : sh[k].mods \cap LifeAffix # {}}) \in Nat
  BY <1>3, FS_CardinalityType
<1> QED
  BY <1>4, GearAssumption DEF MaxLife

(***************************************************************************)
(* Affixes: what fewer of them, none of them and the rolls are.            *)
(***************************************************************************)
LEMMA FewerAffixes ==
  ASSUME NEW s \in SUBSET Affixes, NEW t \in SUBSET s, NEW level, NEW cap \in Nat,
         WellFormed(s, level, cap)
  PROVE  WellFormed(t, level, cap)
<1>1. IsFiniteSet(s)
  BY GearAssumption, FS_Subset
<1>2. ASSUME NEW p \in BOOLEAN
      PROVE  Cardinality(OfKind(t, p)) <= cap
  <2>1. OfKind(t, p) \in SUBSET OfKind(s, p) /\ OfKind(s, p) \in SUBSET s
    BY DEF OfKind
  <2>2. IsFiniteSet(OfKind(s, p))
    BY <1>1, <2>1, FS_Subset
  <2>3. Cardinality(OfKind(t, p)) <= Cardinality(OfKind(s, p)) /\ IsFiniteSet(OfKind(t, p))
    BY <2>1, <2>2, FS_Subset
  <2>4. Cardinality(OfKind(t, p)) \in Nat /\ Cardinality(OfKind(s, p)) \in Nat
    BY <2>2, <2>3, FS_CardinalityType
  <2>5. Cardinality(OfKind(s, p)) <= cap
    BY DEF WellFormed
  <2> QED
    BY <2>3, <2>4, <2>5
<1> QED
  BY <1>2 DEF WellFormed

LEMMA NoAffixes ==
  ASSUME NEW level, NEW cap \in Nat
  PROVE  WellFormed({}, level, cap)
<1>1. \A p \in BOOLEAN : OfKind({}, p) = {}
  BY DEF OfKind
<1>2. Cardinality({}) = 0
  BY FS_EmptySet
<1> QED
  BY <1>1, <1>2 DEF WellFormed

LEMMA RollsAreLawful ==
  /\ \A have, n, level, cap : \A s \in Rolled(have, n, level, cap) :
       s \in SUBSET Affixes /\ WellFormed(s, level, cap)
  /\ \A rarity, level : \A s \in Filled(rarity, level) :
       s \in SUBSET Affixes /\ WellFormed(s, level, Cap(rarity))
  BY DEF Rolled, Filled

LEMMA CapsAreNumbers == \A r : Cap(r) \in Nat
  BY GearAssumption DEF Cap

LEMMA NewItemsAreGood ==
  ASSUME NEW n \in Ids, NEW i \in NewItems(n)
  PROVE  i \in Items /\ i.id = n /\ Lawful(i)
<1>0. Least(Levels) \in Levels /\ 0 \in Nat
  BY HasLeast, GearAssumption
<1>1. CASE i \in RolledItems(n)
  <2>1. PICK b \in Bases, r \in {"normal", "magic", "rare"}, l \in Levels :
          \E s \in Filled(r, l) : i = [id |-> n, base |-> b, rarity |-> r, level |-> l, affixes |-> s]
    BY <1>1 DEF RolledItems
  <2>2. PICK s \in Filled(r, l) :
          i = [id |-> n, base |-> b, rarity |-> r, level |-> l, affixes |-> s]
    BY <2>1
  <2>3. s \in SUBSET Affixes /\ WellFormed(s, l, Cap(r))
    BY RollsAreLawful
  <2>4. b # None
    BY GearAssumption DEF AllBases
  <2> QED
    BY <2>2, <2>3, <2>4 DEF Items, AllBases, Rarities, Lawful, IsGem
<1>2. CASE i \in UniqueItems(n)
  <2>1. i = [id |-> n, base |-> UniqueBase, rarity |-> "unique", level |-> Least(Levels), affixes |-> {}]
    BY <1>2 DEF UniqueItems
  <2>2. WellFormed({}, i.level, Cap(i.rarity))
    BY NoAffixes, CapsAreNumbers
  <2> QED
    BY <1>0, <2>1, <2>2 DEF Items, AllBases, Rarities, Lawful
<1>3. CASE i = UncutGem(n)
  <2>1. i = [id |-> n, base |-> None, rarity |-> "normal", level |-> Least(Levels), affixes |-> {}]
    BY <1>3 DEF UncutGem
  <2>2. WellFormed({}, i.level, Cap(i.rarity))
    BY NoAffixes, CapsAreNumbers
  <2> QED
    BY <1>0, <2>1, <2>2 DEF Items, Rarities, Lawful
<1> QED
  BY <1>1, <1>2, <1>3 DEF NewItems

LEMMA CraftedIsGood ==
  ASSUME NEW i \in Items, Lawful(i), ~IsGem(i), NEW o \in Orbs, NEW j \in Crafted(o, i)
  PROVE  j \in Items /\ j.id = i.id /\ j.base = i.base /\ Lawful(j)
<1> DEFINE Become(r, s) == [i EXCEPT !.rarity = r, !.affixes = s]
<1>1. ASSUME NEW r \in Rarities, NEW s \in SUBSET Affixes, WellFormed(s, i.level, Cap(r)),
             j = Become(r, s)
      PROVE  j \in Items /\ j.id = i.id /\ j.base = i.base /\ Lawful(j)
  BY <1>1 DEF Items, Lawful, IsGem
<1>2. "magic" \in Rarities /\ "rare" \in Rarities /\ "normal" \in Rarities /\ Cap("rare") = RareCap
  BY DEF Rarities, Cap
<1>3. i.affixes \in SUBSET Affixes /\ i.rarity \in Rarities /\ WellFormed(i.affixes, i.level, Cap(i.rarity))
  BY DEF Items, Lawful
<1> HIDE DEF Become
<1>4. \/ \E s \in Filled("magic", i.level) : j = Become("magic", s)
      \/ \E s \in Filled("rare", i.level) : j = Become("rare", s)
      \/ \E s \in Rolled(i.affixes, 1, i.level, RareCap) : j = Become("rare", s)
      \/ \E a \in i.affixes : j = Become(i.rarity, i.affixes \ {a})
      \/ j = Become("normal", {})
  BY DEF Crafted, Orbs, Become
<1>5. CASE \E s \in Filled("magic", i.level) : j = Become("magic", s)
  BY <1>1, <1>2, <1>5, RollsAreLawful
<1>6. CASE \E s \in Filled("rare", i.level) : j = Become("rare", s)
  BY <1>1, <1>2, <1>6, RollsAreLawful
<1>7. CASE \E s \in Rolled(i.affixes, 1, i.level, RareCap) : j = Become("rare", s)
  BY <1>1, <1>2, <1>7, RollsAreLawful
<1>8. CASE \E a \in i.affixes : j = Become(i.rarity, i.affixes \ {a})
  <2>1. PICK a \in i.affixes : j = Become(i.rarity, i.affixes \ {a})
    BY <1>8
  <2>2. WellFormed(i.affixes \ {a}, i.level, Cap(i.rarity))
    BY <1>3, FewerAffixes, CapsAreNumbers
  <2> QED
    BY <1>1, <1>3, <2>1, <2>2
<1>9. CASE j = Become("normal", {})
  <2>1. WellFormed({}, i.level, Cap("normal"))
    BY NoAffixes, CapsAreNumbers
  <2> QED
    BY <1>1, <1>2, <1>9, <2>1
<1> QED
  BY <1>4, <1>5, <1>6, <1>7, <1>8, <1>9

(***************************************************************************)
(* Wealth counts orbs one by one.                                          *)
(***************************************************************************)
LEMMA CoinsAreFinite ==
  ASSUME NEW w
  PROVE  IsFiniteSet(Coins(w)) /\ Cardinality(Coins(w)) \in Nat
<1>1. IsFiniteSet(Orbs)
  <2>1. IsFiniteSet({"transmutation"})
    BY FS_Singleton
  <2>2. IsFiniteSet({"transmutation"} \cup {"alchemy"})
    BY <2>1, FS_AddElement
  <2>3. IsFiniteSet({"transmutation"} \cup {"alchemy"} \cup {"chaos"})
    BY <2>2, FS_AddElement
  <2>4. IsFiniteSet({"transmutation"} \cup {"alchemy"} \cup {"chaos"} \cup {"regal"})
    BY <2>3, FS_AddElement
  <2>5. IsFiniteSet({"transmutation"} \cup {"alchemy"} \cup {"chaos"} \cup {"regal"} \cup {"exalt"})
    BY <2>4, FS_AddElement
  <2>6. IsFiniteSet({"transmutation"} \cup {"alchemy"} \cup {"chaos"} \cup {"regal"} \cup {"exalt"}
                    \cup {"annulment"})
    BY <2>5, FS_AddElement
  <2>7. IsFiniteSet({"transmutation"} \cup {"alchemy"} \cup {"chaos"} \cup {"regal"} \cup {"exalt"}
                    \cup {"annulment"} \cup {"scouring"})
    BY <2>6, FS_AddElement
  <2>8. Orbs = {"transmutation"} \cup {"alchemy"} \cup {"chaos"} \cup {"regal"} \cup {"exalt"}
               \cup {"annulment"} \cup {"scouring"}
    BY DEF Orbs
  <2> QED
    BY <2>7, <2>8
<1>2. IsFiniteSet(1..MaxWealth)
  BY GearAssumption, FS_Interval
<1>3. IsFiniteSet(Orbs \X (1..MaxWealth))
  BY <1>1, <1>2, FS_Product
<1>4. Coins(w) \in SUBSET (Orbs \X (1..MaxWealth))
  BY DEF Coins
<1>5. IsFiniteSet(Coins(w))
  BY <1>3, <1>4, FS_Subset
<1> QED
  BY <1>5, FS_CardinalityType

LEMMA CoinsBound ==
  ASSUME NEW w \in [Orbs -> 0..MaxWealth], NEW o \in Orbs
  PROVE  w[o] <= Cardinality(Coins(w))
<1> DEFINE f == [n \in 1..w[o] |-> <<o, n>>]
<1>1. w[o] \in 0..MaxWealth /\ MaxWealth \in Nat
  BY GearAssumption
<1>2. \A n \in 1..w[o] : <<o, n>> \in Coins(w)
  BY <1>1 DEF Coins
<1>3. f \in Injection(1..w[o], Coins(w))
  BY <1>2 DEF Injection, IsInjective
<1>4. Cardinality(1..w[o]) <= Cardinality(Coins(w))
  BY <1>3, CoinsAreFinite, FS_Injection
<1>5. Cardinality(1..w[o]) = w[o]
  BY <1>1, FS_Interval
<1> QED
  BY <1>4, <1>5

LEMMA OneCoinMore ==
  ASSUME NEW w \in [Orbs -> 0..MaxWealth], NEW o \in Orbs, NEW v \in [Orbs -> 0..MaxWealth],
         v = [w EXCEPT ![o] = @ + 1]
  PROVE  Cardinality(Coins(v)) = Cardinality(Coins(w)) + 1
<1> DEFINE new == <<o, w[o] + 1>>
<1>1. w[o] \in Nat /\ w[o] + 1 \in 1..MaxWealth /\ MaxWealth \in Nat
  <2>1. v[o] = w[o] + 1 /\ v[o] \in 0..MaxWealth /\ w[o] \in 0..MaxWealth
    OBVIOUS
  <2> QED
    BY <2>1, GearAssumption
<1>2. ASSUME NEW c \in Orbs, NEW n \in 1..MaxWealth
      PROVE  n <= v[c] <=> n <= w[c] \/ (c = o /\ n = w[o] + 1)
  <2>1. w[c] \in 0..MaxWealth
    OBVIOUS
  <2> QED
    BY <1>1, <2>1
<1>3. Coins(v) = Coins(w) \cup {new} /\ new \notin Coins(w)
  <2>1. new \notin Coins(w) /\ new \in Orbs \X (1..MaxWealth)
    BY <1>1 DEF Coins
  <2>2. ASSUME NEW p \in Orbs \X (1..MaxWealth)
        PROVE  p \in Coins(v) <=> p \in Coins(w) \/ p = new
    <3>1. p[1] \in Orbs /\ p[2] \in 1..MaxWealth /\ (p = new <=> p[1] = o /\ p[2] = w[o] + 1)
      OBVIOUS
    <3> HIDE DEF new
    <3> QED
      BY <1>2, <3>1 DEF Coins
  <2>3. Coins(v) \subseteq Orbs \X (1..MaxWealth) /\ Coins(w) \subseteq Orbs \X (1..MaxWealth)
    BY DEF Coins
  <2> HIDE DEF new
  <2> QED
    BY <2>1, <2>2, <2>3
<1> QED
  BY <1>3, CoinsAreFinite, FS_AddElement

LEMMA Buys ==
  ASSUME NEW w, NEW n, NEW m \in Nat, GoodWallet(w, n), NEW o \in Orbs,
         m < n \/ (m = n /\ n + Cardinality(Coins(w)) < MaxWealth)
  PROVE  GoodWallet([w EXCEPT ![o] = @ + 1], m)
<1> DEFINE v == [w EXCEPT ![o] = @ + 1]
<1>1. /\ w \in [Orbs -> 0..MaxWealth] /\ n \in 0..MaxWealth /\ MaxWealth \in Nat
      /\ n + Cardinality(Coins(w)) <= MaxWealth
  BY GearAssumption DEF GoodWallet
<1>2. w[o] <= Cardinality(Coins(w)) /\ Cardinality(Coins(w)) \in Nat /\ w[o] \in 0..MaxWealth
  BY <1>1, CoinsBound, CoinsAreFinite
<1>3. w[o] + 1 \in 0..MaxWealth
  BY <1>1, <1>2
<1>4. v \in [Orbs -> 0..MaxWealth]
  BY <1>1, <1>3
<1>5. Cardinality(Coins(v)) = Cardinality(Coins(w)) + 1
  BY <1>1, <1>4, OneCoinMore
<1> QED
  BY <1>1, <1>2, <1>4, <1>5 DEF GoodWallet

LEMMA Spends ==
  ASSUME NEW w, NEW n, GoodWallet(w, n), NEW o \in Orbs, w[o] > 0
  PROVE  GoodWallet([w EXCEPT ![o] = @ - 1], n)
<1> DEFINE v == [w EXCEPT ![o] = @ - 1]
<1>1. /\ w \in [Orbs -> 0..MaxWealth] /\ n \in 0..MaxWealth /\ MaxWealth \in Nat
      /\ n + Cardinality(Coins(w)) <= MaxWealth
  BY GearAssumption DEF GoodWallet
<1>2. w[o] \in 0..MaxWealth /\ w[o] - 1 \in 0..MaxWealth /\ w[o] - 1 + 1 = w[o]
  BY <1>1
<1>3. v \in [Orbs -> 0..MaxWealth]
  BY <1>1, <1>2
<1>4. w = [v EXCEPT ![o] = @ + 1]
  BY <1>1, <1>2
<1>5. Cardinality(Coins(w)) = Cardinality(Coins(v)) + 1
  BY <1>1, <1>3, <1>4, OneCoinMore
<1>6. Cardinality(Coins(v)) \in Nat
  BY CoinsAreFinite
<1> QED
  BY <1>1, <1>3, <1>5, <1>6 DEF GoodWallet

(***************************************************************************)
(* A step keeps the invariant if what it makes of the state is good.       *)
(***************************************************************************)
LEMMA Rebuilt ==
  ASSUME NEW b, NEW D, NEW w, NEW sh, NEW os, NEW n, NEW l, NEW L,
         bag' = b, drops' = D, worn' = w, sheet' = sh, orbs' = os, shards' = n, life' = l, live' = L,
         GoodBag(b), GoodDrops(D), GoodWorn(w), Placed(Entries(b), On(w), Lying(D), L),
         \A i \in Entries(b) \cup On(w) \cup Lying(D) : Lawful(i),
         GoodWallet(os, n),
         GoodSheet(sh), Entries(sh) = {Entry(i) : i \in On(w)},
         l \in 0..MaxLife(sh)
  PROVE  GearInv'
<1>1. InBag' = Entries(b) /\ WornItems' = On(w) /\ OnGround' = Lying(D)
  BY DEF InBag, WornItems, OnGround, Entries, On, Lying
<1>2. Things'
  BY DEF Things
<1>3. OneEach'
  BY <1>1 DEF OneEach
<1>4. AllLawful'
  BY <1>1 DEF AllLawful, Everything
<1>5. GoodWallet(orbs, shards)'
  OBVIOUS
<1>6. Copies'
  BY <1>1 DEF Copies
<1>7. LifeFits'
  BY DEF LifeFits
<1> QED
  BY <1>2, <1>3, <1>4, <1>5, <1>6, <1>7 DEF GearInv

(* What the invariant says, place by place.                                *)
LEMMA Unpacked ==
  ASSUME GearInv
  PROVE  /\ GoodBag(bag) /\ GoodDrops(drops) /\ GoodWorn(worn)
         /\ Placed(Entries(bag), On(worn), Lying(drops), live)
         /\ \A i \in Entries(bag) \cup On(worn) \cup Lying(drops) : i \in Items /\ Lawful(i)
         /\ GoodWallet(orbs, shards)
         /\ GoodSheet(sheet) /\ Entries(sheet) = {Entry(i) : i \in On(worn)}
         /\ life \in 0..MaxLife(sheet)
<1>1. \A i \in Entries(bag) : i \in Items
  BY DEF GearInv, Things, GoodBag, Entries
<1>2. \A i \in On(worn) : i \in Items
  BY DEF GearInv, Things, GoodWorn, On
<1>3. \A i \in Lying(drops) : i \in Items
  BY DEF GearInv, Things, GoodDrops, Lying
<1> QED
  BY <1>1, <1>2, <1>3, Places DEF GearInv, Things, OneEach, AllLawful, Everything, Copies, LifeFits

LEMMA GearInit == Init => GearInv
<1> SUFFICES ASSUME Init
             PROVE  GearInv
  OBVIOUS
<1> DEFINE g == UncutGem(1)
<1>0. 1 \in Ids
  BY GearAssumption DEF Ids
<1>1. g \in Items /\ g.id = 1 /\ Lawful(g)
  BY <1>0, NewItemsAreGood DEF NewItems
<1> HIDE DEF g
<1>2. bag = <<g>> /\ drops = {} /\ worn = [s \in Slots |-> None] /\ sheet = <<>> /\ live = {1}
  BY DEF Init, g
<1>3. Entries(bag) = {g} /\ Lying(drops) = {} /\ On(worn) = {}
  BY <1>2 DEF Entries, Lying, On
<1>4. GoodBag(bag) /\ GoodDrops(drops) /\ GoodWorn(worn)
  BY <1>1, <1>2, GearAssumption, NothingIsNoItem DEF GoodBag, GoodDrops, GoodWorn
<1>5. Placed(Entries(bag), On(worn), Lying(drops), live)
  BY <1>1, <1>2, <1>3 DEF Placed
<1>6. GoodSheet(sheet) /\ Entries(sheet) = {}
  BY <1>2 DEF GoodSheet, Entries
<1>7. GoodWallet(orbs, shards)
  <2>1. orbs = [o \in Orbs |-> 0] /\ shards = 0 /\ MaxWealth \in Nat
    BY GearAssumption DEF Init
  <2>2. Coins(orbs) = {}
    BY <2>1 DEF Coins
  <2>3. Cardinality(Coins(orbs)) = 0
    BY <2>2, FS_EmptySet
  <2> QED
    BY <2>1, <2>3 DEF GoodWallet
<1>8. LifeFits
  <2>1. {k \in DOMAIN sheet : sheet[k].mods \cap LifeAffix # {}} = {}
    BY <1>2
  <2>2. Cardinality({k \in DOMAIN sheet : sheet[k].mods \cap LifeAffix # {}}) = 0
    BY <2>1, FS_EmptySet
  <2> QED
    BY <2>2, GearAssumption DEF LifeFits, MaxLife, Init
<1> QED
  BY <1>1, <1>3, <1>4, <1>5, <1>6, <1>7, <1>8, Places
     DEF GearInv, Things, OneEach, AllLawful, Everything, Copies

LEMMA PickupStep == GearInv /\ (\E i \in OnGround : Pickup(i)) => GearInv'
<1> SUFFICES ASSUME GearInv, NEW i \in OnGround, Pickup(i)
             PROVE  GearInv'
  OBVIOUS
<1>1. i \in Lying(drops)
  BY Places
<1>2. /\ GoodBag(bag) /\ GoodDrops(drops) /\ GoodWorn(worn)
      /\ Placed(Entries(bag), On(worn), Lying(drops), live)
  BY Unpacked
<1> DEFINE b == Append(bag, i)
           D == Taken(drops, i)
<1>3. GoodDrops(D) /\ Lying(D) = Lying(drops) \ {i} /\ i \in Items
  BY <1>1, <1>2, GroundLoses
<1>4. i \notin Entries(bag) /\ HasRoom(bag) /\ bag \in Seq(Items)
  BY <1>1, <1>2 DEF Placed, Pickup, GoodBag
<1>5. GoodBag(b) /\ Entries(b) = Entries(bag) \cup {i}
  BY <1>2, <1>3, <1>4, BagGains
<1>6. Placed(Entries(b), On(worn), Lying(D), live)
  BY <1>1, <1>2, <1>3, <1>5 DEF Placed
<1>7. \A j \in Entries(b) \cup On(worn) \cup Lying(D) : Lawful(j)
  BY <1>1, <1>3, <1>5, Unpacked
<1>8. /\ bag' = b /\ drops' = D /\ worn' = worn /\ sheet' = sheet /\ orbs' = orbs
      /\ shards' = shards /\ life' = life /\ live' = live
  BY DEF Pickup
<1> HIDE DEF b, D
<1> QED
  BY <1>2, <1>3, <1>5, <1>6, <1>7, <1>8, Unpacked, Rebuilt

LEMMA DropItemStep == GearInv /\ (\E k \in DOMAIN bag : DropItem(k)) => GearInv'
<1> SUFFICES ASSUME GearInv, NEW k \in DOMAIN bag, DropItem(k)
             PROVE  GearInv'
  OBVIOUS
<1>1. /\ GoodBag(bag) /\ GoodDrops(drops) /\ GoodWorn(worn)
      /\ Placed(Entries(bag), On(worn), Lying(drops), live)
  BY Unpacked
<1> DEFINE b == Without(bag, k)
           i == bag[k]
           D == drops \cup {Dropped(i)}
<1>2. GoodBag(b) /\ i \in Items /\ Entries(b) = Entries(bag) \ {i} /\ i \in Entries(bag)
  BY <1>1, BagLoses DEF Entries
<1>3. GoodDrops(D) /\ Lying(D) = Lying(drops) \cup {i}
  BY <1>1, <1>2, GroundGains
<1>4. /\ bag' = b /\ drops' = D /\ worn' = worn /\ sheet' = sheet /\ orbs' = orbs
      /\ shards' = shards /\ life' = life /\ live' = live
  BY DEF DropItem
<1> HIDE DEF b, D, i
<1>5. Placed(Entries(b), On(worn), Lying(D), live)
  BY <1>1, <1>2, <1>3 DEF Placed
<1>6. \A j \in Entries(b) \cup On(worn) \cup Lying(D) : Lawful(j)
  BY <1>2, <1>3, Unpacked
<1> QED
  BY <1>1, <1>2, <1>3, <1>4, <1>5, <1>6, Unpacked, Rebuilt

(* What leaves the world: melted or cut.                                   *)
LEMMA Consumed ==
  ASSUME GearInv, NEW k \in DOMAIN bag, NEW n,
         bag' = Without(bag, k), live' = live \ {bag[k].id}, shards' = n, GoodWallet(orbs, n),
         UNCHANGED <<drops, worn, sheet, orbs, life>>
  PROVE  GearInv'
<1>1. /\ GoodBag(bag) /\ GoodDrops(drops) /\ GoodWorn(worn)
      /\ Placed(Entries(bag), On(worn), Lying(drops), live)
  BY Unpacked
<1> DEFINE b == Without(bag, k)
           i == bag[k]
           L == live \ {i.id}
<1>2. GoodBag(b) /\ i \in Items /\ Entries(b) = Entries(bag) \ {i} /\ i \in Entries(bag)
  BY <1>1, BagLoses DEF Entries
<1>3. bag' = b /\ live' = L
  OBVIOUS
<1>4. L = live \ {i.id}
  OBVIOUS
<1> HIDE DEF b, i, L
<1>5. Placed(Entries(b), On(worn), Lying(drops), L)
  BY <1>1, <1>2, <1>4 DEF Placed
<1>6. \A j \in Entries(b) \cup On(worn) \cup Lying(drops) : Lawful(j)
  BY <1>2, Unpacked
<1> QED
  BY <1>1, <1>2, <1>3, <1>5, <1>6, Unpacked, Rebuilt

LEMMA CutStep == GearInv /\ (\E k \in DOMAIN bag : Cut(k)) => GearInv'
<1> SUFFICES ASSUME GearInv, NEW k \in DOMAIN bag, Cut(k)
             PROVE  GearInv'
  OBVIOUS
<1>1. GoodWallet(orbs, shards)
  BY Unpacked
<1>2. /\ bag' = Without(bag, k) /\ live' = live \ {bag[k].id} /\ shards' = shards
      /\ UNCHANGED <<drops, worn, sheet, orbs, life>>
  BY DEF Cut
<1> QED
  BY <1>1, <1>2, Consumed

LEMMA ForgeMeltStep == GearInv /\ (\E k \in DOMAIN bag : ForgeMelt(k)) => GearInv'
<1> SUFFICES ASSUME GearInv, NEW k \in DOMAIN bag, ForgeMelt(k)
             PROVE  GearInv'
  OBVIOUS
<1> DEFINE kind == IF IsGem(bag[k]) THEN "gem" ELSE bag[k].rarity
           pay == Pay[kind]
           c == Cardinality(Coins(orbs))
<1>1. GoodWallet(orbs, shards) /\ MaxWealth \in Nat /\ c \in Nat
  BY Unpacked, GearAssumption, CoinsAreFinite
<1>2. bag[k] \in Items
  BY Unpacked DEF Entries
<1>3. kind \in Rarities \cup {"gem"}
  BY <1>2 DEF Items
<1>4. pay \in Nat
  BY <1>3, GearAssumption
<1>5. Wealth = shards + c
  BY DEF Wealth, Coins
<1>6. /\ Wealth + pay <= MaxWealth /\ shards' = shards + pay
      /\ bag' = Without(bag, k) /\ live' = live \ {bag[k].id}
      /\ UNCHANGED <<drops, worn, sheet, orbs, life>>
  BY DEF ForgeMelt
<1> HIDE DEF pay, c, kind
<1>7. GoodWallet(orbs, shards + pay)
  BY <1>1, <1>4, <1>5, <1>6 DEF GoodWallet, c
<1> QED
  BY <1>6, <1>7, Consumed

(* Only the wallet changes.                                                *)
LEMMA Paid ==
  ASSUME GearInv, NEW w, NEW n, orbs' = w, shards' = n, GoodWallet(w, n),
         UNCHANGED <<drops, bag, worn, sheet, life, live>>
  PROVE  GearInv'
<1>1. /\ GoodBag(bag) /\ GoodDrops(drops) /\ GoodWorn(worn)
      /\ Placed(Entries(bag), On(worn), Lying(drops), live)
      /\ \A i \in Entries(bag) \cup On(worn) \cup Lying(drops) : Lawful(i)
  BY Unpacked
<1> QED
  BY <1>1, Unpacked, Rebuilt

LEMMA BankOrbStep == GearInv /\ (\E o \in Orbs : BankOrb(o)) => GearInv'
<1> SUFFICES ASSUME GearInv, NEW o \in Orbs, BankOrb(o)
             PROVE  GearInv'
  OBVIOUS
<1> DEFINE v == [orbs EXCEPT ![o] = @ + 1]
<1>1. GoodWallet(orbs, shards)
  BY Unpacked
<1>2. shards \in Nat /\ Wealth = shards + Cardinality(Coins(orbs))
  BY <1>1, GearAssumption DEF GoodWallet, Wealth, Coins
<1>3. Wealth < MaxWealth /\ orbs' = v /\ shards' = shards /\ UNCHANGED <<drops, bag, worn, sheet, life, live>>
  BY DEF BankOrb
<1>4. GoodWallet(v, shards)
  BY <1>1, <1>2, <1>3, Buys
<1> HIDE DEF v
<1> QED
  BY <1>3, <1>4, Paid

LEMMA ForgeBuyStep == GearInv /\ (\E o \in Orbs : ForgeBuy(o)) => GearInv'
<1> SUFFICES ASSUME GearInv, NEW o \in Orbs, ForgeBuy(o)
             PROVE  GearInv'
  OBVIOUS
<1> DEFINE v == [orbs EXCEPT ![o] = @ + 1]
           m == shards - Price[o]
<1>1. GoodWallet(orbs, shards)
  BY Unpacked
<1>2. shards \in Nat /\ Price[o] \in Nat \ {0}
  BY <1>1, GearAssumption DEF GoodWallet
<1>3. /\ shards >= Price[o] /\ orbs' = v /\ shards' = m
      /\ UNCHANGED <<drops, bag, worn, sheet, life, live>>
  BY DEF ForgeBuy
<1>4. m \in Nat /\ m < shards
  BY <1>2, <1>3
<1> HIDE DEF m
<1>5. GoodWallet(v, m)
  BY <1>1, <1>4, Buys
<1> HIDE DEF v
<1> QED
  BY <1>3, <1>5, Paid

LEMMA EndTickStep == GearInv /\ EndTick => GearInv'
<1> SUFFICES ASSUME GearInv, EndTick
             PROVE  GearInv'
  OBVIOUS
<1> DEFINE D == {d \in drops : ~d.taken}
<1>1. /\ GoodBag(bag) /\ GoodDrops(drops) /\ GoodWorn(worn)
      /\ Placed(Entries(bag), On(worn), Lying(drops), live)
      /\ \A i \in Entries(bag) \cup On(worn) \cup Lying(drops) : Lawful(i)
  BY Unpacked
<1>2. GoodDrops(D) /\ Lying(D) = Lying(drops)
  BY <1>1 DEF GoodDrops, Lying
<1>3. /\ drops' = D /\ bag' = bag /\ worn' = worn /\ sheet' = sheet /\ orbs' = orbs
      /\ shards' = shards /\ life' = life /\ live' = live
  BY DEF EndTick
<1> HIDE DEF D
<1> QED
  BY <1>1, <1>2, <1>3, Unpacked, Rebuilt

LEMMA LifeChangesStep == GearInv /\ LifeChanges => GearInv'
<1> SUFFICES ASSUME GearInv, LifeChanges
             PROVE  GearInv'
  OBVIOUS
<1>1. /\ GoodBag(bag) /\ GoodDrops(drops) /\ GoodWorn(worn)
      /\ Placed(Entries(bag), On(worn), Lying(drops), live)
      /\ \A i \in Entries(bag) \cup On(worn) \cup Lying(drops) : Lawful(i)
  BY Unpacked
<1>2. MaxLife(sheet) \in Nat \ {0} /\ life \in 0..MaxLife(sheet)
  BY Unpacked, LifeIsPositive
<1>3. PICK l \in {life - 1, Min2(life + 1, MaxLife(sheet))} : life' = l
  BY DEF LifeChanges
<1>4. life > 0
  BY DEF LifeChanges, Alive
<1>5. l \in 0..MaxLife(sheet)
  BY <1>2, <1>3, <1>4 DEF Min2
<1>6. UNCHANGED <<drops, bag, worn, sheet, orbs, shards, live>>
  BY DEF LifeChanges
<1> QED
  BY <1>1, <1>3, <1>5, <1>6, Unpacked, Rebuilt

LEMMA DropLootStep == GearInv /\ DropLoot => GearInv'
<1> SUFFICES ASSUME GearInv, DropLoot
             PROVE  GearInv'
  OBVIOUS
<1> DEFINE n == Least(Unused)
<1>1. /\ GoodBag(bag) /\ GoodDrops(drops) /\ GoodWorn(worn)
      /\ Placed(Entries(bag), On(worn), Lying(drops), live)
  BY Unpacked
<1>2. Unused \in SUBSET Nat /\ Unused # {} /\ Unused \subseteq Ids
  <2>1. Unused # {} /\ Unused \subseteq Ids
    BY DEF Unused, DropLoot
  <2>2. Ids \subseteq Nat
    BY GearAssumption DEF Ids
  <2> QED
    BY <2>1, <2>2
<1>3. n \in Unused /\ n \in Ids
  BY <1>2, HasLeast
<1>4. PICK i \in NewItems(n) : drops' = drops \cup {Dropped(i)} /\ live' = live \cup {i.id}
  BY DEF DropLoot
<1>5. i \in Items /\ i.id = n /\ Lawful(i)
  BY <1>3, NewItemsAreGood
<1>6. \A j \in Entries(bag) \cup On(worn) : j.id # n
  BY <1>3, Places DEF Unused
<1>7. \A j \in Lying(drops) : j.id # n
  <2> SUFFICES ASSUME NEW d \in drops, ~d.taken
               PROVE  d.item.id # n
    BY DEF Lying
  <2>1. d.item.id = d.id
    BY <1>1 DEF GoodDrops
  <2> QED
    BY <1>3, <2>1 DEF Unused
<1> DEFINE D == drops \cup {Dropped(i)}
           L == live \cup {i.id}
<1>8. GoodDrops(D) /\ Lying(D) = Lying(drops) \cup {i}
  BY <1>1, <1>5, GroundGains
<1>9. /\ bag' = bag /\ drops' = D /\ worn' = worn /\ sheet' = sheet /\ orbs' = orbs
      /\ shards' = shards /\ life' = life /\ live' = L
  BY <1>4 DEF DropLoot
<1>10. L = live \cup {i.id}
  OBVIOUS
<1> HIDE DEF D, L, n
<1>11. Placed(Entries(bag), On(worn), Lying(D), L)
  BY <1>1, <1>5, <1>6, <1>7, <1>8, <1>10 DEF Placed
<1>12. \A j \in Entries(bag) \cup On(worn) \cup Lying(D) : Lawful(j)
  BY <1>5, <1>8, Unpacked
<1> QED
  BY <1>1, <1>8, <1>9, <1>11, <1>12, Unpacked, Rebuilt

LEMMA ApplyOrbStep == GearInv /\ (\E o \in Orbs : ApplyOrb(o)) => GearInv'
<1> SUFFICES ASSUME GearInv, NEW o \in Orbs, ApplyOrb(o)
             PROVE  GearInv'
  OBVIOUS
<1>1. /\ GoodBag(bag) /\ GoodDrops(drops) /\ GoodWorn(worn)
      /\ Placed(Entries(bag), On(worn), Lying(drops), live)
      /\ \A i \in Entries(bag) \cup On(worn) \cup Lying(drops) : Lawful(i)
  BY Unpacked
<1>2. PICK k \in DOMAIN bag : ~IsGem(bag[k]) /\ \E i \in Crafted(o, bag[k]) : bag' = [bag EXCEPT ![k] = i]
  BY DEF ApplyOrb
<1>3. PICK j \in Crafted(o, bag[k]) : bag' = [bag EXCEPT ![k] = j]
  BY <1>2
<1> DEFINE i == bag[k]
           b == [bag EXCEPT ![k] = j]
           v == [orbs EXCEPT ![o] = @ - 1]
<1>4. i \in Entries(bag) /\ i \in Items /\ Lawful(i)
  BY Unpacked DEF Entries
<1>5. j \in Items /\ j.id = i.id /\ Lawful(j)
  BY <1>2, <1>4, CraftedIsGood
<1>6. j \notin Entries(bag) \ {i}
  BY <1>1, <1>4, <1>5 DEF Placed
<1>7. GoodBag(b) /\ Entries(b) = (Entries(bag) \ {i}) \cup {j}
  <2>1. bag \in Seq(Items) /\ Len(bag) <= BagSize /\ \A l, m \in DOMAIN bag : bag[l] = bag[m] => l = m
    BY <1>1 DEF GoodBag
  <2>2. b \in Seq(Items) /\ Len(b) = Len(bag) /\ DOMAIN b = DOMAIN bag
    BY <1>5, <2>1
  <2>3. \A l \in DOMAIN bag : b[l] = IF l = k THEN j ELSE bag[l]
    BY <2>1
  <2>4. \A l \in DOMAIN bag : l # k => bag[l] # j
    BY <1>6, <2>1 DEF Entries
  <2> HIDE DEF b
  <2>5. GoodBag(b)
    BY <2>1, <2>2, <2>3, <2>4 DEF GoodBag
  <2>6. Entries(b) = (Entries(bag) \ {i}) \cup {j}
    BY <2>1, <2>2, <2>3 DEF Entries
  <2> QED
    BY <2>5, <2>6
<1>8. GoodWallet(v, shards)
  BY Unpacked, Spends DEF ApplyOrb
<1>9. /\ bag' = b /\ drops' = drops /\ worn' = worn /\ sheet' = sheet /\ orbs' = v
      /\ shards' = shards /\ life' = life /\ live' = live
  BY <1>3 DEF ApplyOrb
<1> HIDE DEF b, v, i
<1>10. Placed(Entries(b), On(worn), Lying(drops), live)
  BY <1>1, <1>4, <1>5, <1>7 DEF Placed
<1>11. \A l \in Entries(b) \cup On(worn) \cup Lying(drops) : Lawful(l)
  BY <1>1, <1>5, <1>7
<1> QED
  BY <1>1, <1>7, <1>8, <1>9, <1>10, <1>11, Unpacked, Rebuilt

LEMMA ChosenIsAccepted ==
  ASSUME NEW b \in AllBases
  PROVE  Chosen(b) \in Accepting(b) /\ Accepting(b) \subseteq Slots
<1> DEFINE open == {k \in DOMAIN SlotsFor[b] : worn[SlotsFor[b][k]] = None}
<1>1. SlotsFor[b] \in Seq(Slots) /\ SlotsFor[b] # <<>>
  BY GearAssumption
<1>2. DOMAIN SlotsFor[b] = 1..Len(SlotsFor[b]) /\ 1 \in DOMAIN SlotsFor[b]
  BY <1>1
<1>3. open \in SUBSET Nat
  BY <1>2
<1>4. open # {} => Least(open) \in open
  BY <1>3, HasLeast
<1>5. Chosen(b) = IF open = {} THEN SlotsFor[b][1] ELSE SlotsFor[b][Least(open)]
  BY DEF Chosen
<1>6. \A k \in open : k \in DOMAIN SlotsFor[b]
  OBVIOUS
<1> HIDE DEF open
<1> QED
  BY <1>1, <1>2, <1>4, <1>5, <1>6 DEF Accepting

(* Whatever is worn in a slot goes, and its lines of the sheet with it.    *)
LEMMA TakenOff ==
  ASSUME GearInv, NEW old \in On(worn)
  PROVE  /\ GoodSheet(Revoked(sheet, old))
         /\ Entries(Revoked(sheet, old)) = {Entry(i) : i \in On(worn) \ {old}}
<1>1. /\ GoodSheet(sheet) /\ Entries(sheet) = {Entry(i) : i \in On(worn)}
      /\ Placed(Entries(bag), On(worn), Lying(drops), live)
  BY Unpacked
<1>2. /\ GoodSheet(Revoked(sheet, old))
      /\ Entries(Revoked(sheet, old)) = {e \in Entries(sheet) : e.source # old.id}
  BY <1>1, SheetLoses
<1>3. \A i \in On(worn) : Entry(i).source = i.id
  BY DEF Entry
<1>4. \A i \in On(worn) : i.id = old.id => i = old
  BY <1>1 DEF Placed
<1>5. {e \in Entries(sheet) : e.source # old.id} = {Entry(i) : i \in On(worn) \ {old}}
  BY <1>1, <1>3, <1>4
<1> QED
  BY <1>2, <1>5

LEMMA UnequipStep == GearInv /\ (\E s \in Slots : Unequip(s)) => GearInv'
<1> SUFFICES ASSUME GearInv, NEW s \in Slots, Unequip(s)
             PROVE  GearInv'
  OBVIOUS
<1> DEFINE old == worn[s]
           b == Append(bag, old)
           w == [worn EXCEPT ![s] = None]
           sh == Revoked(sheet, old)
           l == Min2(life, MaxLife(sh))
<1>1. /\ GoodBag(bag) /\ GoodDrops(drops) /\ GoodWorn(worn)
      /\ Placed(Entries(bag), On(worn), Lying(drops), live)
      /\ \A i \in Entries(bag) \cup On(worn) \cup Lying(drops) : Lawful(i)
  BY Unpacked
<1>2. old \in On(worn) /\ HasRoom(bag)
  BY DEF Unequip, On
<1>3. old \in Items /\ old \notin Entries(bag) /\ bag \in Seq(Items)
  BY <1>1, <1>2, Unpacked DEF Placed, GoodBag
<1>4. GoodBag(b) /\ Entries(b) = Entries(bag) \cup {old}
  BY <1>1, <1>2, <1>3, BagGains
<1>5. GoodWorn(w) /\ On(w) = On(worn) \ {old}
  BY <1>1, WornChanges
<1>6. GoodSheet(sh) /\ Entries(sh) = {Entry(i) : i \in On(w)}
  BY <1>2, <1>5, TakenOff
<1>7. l \in 0..MaxLife(sh)
  <2>1. MaxLife(sh) \in Nat /\ MaxLife(sheet) \in Nat /\ life \in 0..MaxLife(sheet)
    BY <1>6, Unpacked, LifeIsPositive
  <2> HIDE DEF sh
  <2> QED
    BY <2>1 DEF Min2
<1>8. /\ bag' = b /\ drops' = drops /\ worn' = w /\ sheet' = sh /\ orbs' = orbs
      /\ shards' = shards /\ live' = live
  BY DEF Unequip
<1>9. life' = l
  BY <1>8 DEF Unequip, MaxLife
<1> HIDE DEF b, w, sh, l, old
<1>10. Placed(Entries(b), On(w), Lying(drops), live)
  BY <1>1, <1>2, <1>4, <1>5 DEF Placed
<1>11. \A i \in Entries(b) \cup On(w) \cup Lying(drops) : Lawful(i)
  BY <1>1, <1>2, <1>4, <1>5
<1> QED
  BY <1>1, <1>4, <1>5, <1>6, <1>7, <1>8, <1>9, <1>10, <1>11, Unpacked, Rebuilt

(* Wear, of an item that is neither in the bag nor on the ground as they   *)
(* are given, nor worn.                                                    *)
LEMMA Wears ==
  ASSUME GearInv, NEW i \in Items, ~IsGem(i), Lawful(i), NEW s \in Slots, s \in Accepting(i.base),
         NEW rb, NEW rd, GoodBag(rb), GoodDrops(rd),
         Entries(rb) \subseteq Entries(bag), Lying(rd) \subseteq Lying(drops), i \notin On(worn),
         Placed(Entries(rb), On(worn) \cup {i}, Lying(rd), live),
         Wear(i, s, rb, rd)
  PROVE  GearInv'
<1> DEFINE old == worn[s]
           kept == old # None /\ HasRoom(rb)
           b == IF kept THEN Append(rb, old) ELSE rb
           D == IF old # None /\ ~kept THEN rd \cup {Dropped(old)} ELSE rd
           w == [worn EXCEPT ![s] = i]
           off == IF old = None THEN sheet ELSE Revoked(sheet, old)
           sh == Granted(off, i)
           l == Min2(life, MaxLife(sh))
<1>1. /\ bag' = b /\ drops' = D /\ worn' = w /\ sheet' = sh /\ orbs' = orbs
      /\ shards' = shards /\ live' = live
  BY DEF Wear
<1>2. life' = l
  BY <1>1 DEF Wear, MaxLife
<1>3. /\ GoodBag(bag) /\ GoodDrops(drops) /\ GoodWorn(worn)
      /\ Placed(Entries(bag), On(worn), Lying(drops), live)
      /\ \A j \in Entries(bag) \cup On(worn) \cup Lying(drops) : j \in Items /\ Lawful(j)
      /\ GoodSheet(sheet) /\ Entries(sheet) = {Entry(j) : j \in On(worn)}
      /\ life \in 0..MaxLife(sheet)
  BY Unpacked
<1>4. old # None => old \in On(worn) /\ old \in Items
  BY <1>3 DEF On
<1>5. \A j \in On(worn) : j.id # i.id
  BY DEF Placed
<1>6. On(worn) \ {None} = On(worn)
  BY DEF On
<1>7. GoodWorn(w) /\ On(w) = (On(worn) \ {old}) \cup {i}
  BY <1>3, WornChanges
<1>8. GoodSheet(off) /\ Entries(off) = {Entry(j) : j \in On(worn) \ {old}}
  <2>1. CASE old = None
    BY <1>3, <1>6, <2>1
  <2>2. CASE old # None
    BY <1>4, <2>2, TakenOff
  <2> QED
    BY <2>1, <2>2
<1> HIDE DEF off
<1>9. \A e \in Entries(off) : e.source # i.id
  BY <1>5, <1>8 DEF Entry
<1>10. GoodSheet(sh) /\ Entries(sh) = Entries(off) \cup {Entry(i)}
  BY <1>8, <1>9, SheetGains
<1>11. Entries(sh) = {Entry(j) : j \in On(w)}
  BY <1>7, <1>8, <1>10
<1>12. l \in 0..MaxLife(sh)
  <2>1. MaxLife(sh) \in Nat /\ MaxLife(sheet) \in Nat
    BY <1>3, <1>10, LifeIsPositive
  <2> HIDE DEF sh
  <2> QED
    BY <1>3, <2>1 DEF Min2
<1>13. rb \in Seq(Items) /\ (old # None => old \notin Entries(rb))
  BY <1>4 DEF GoodBag, Placed
<1>14. GoodBag(b) /\ Entries(b) = IF kept THEN Entries(rb) \cup {old} ELSE Entries(rb)
  <2>1. CASE kept
    BY <1>4, <1>13, <2>1, BagGains
  <2>2. CASE ~kept
    BY <2>2
  <2> QED
    BY <2>1, <2>2
<1>15. GoodDrops(D) /\ Lying(D) = IF old # None /\ ~kept THEN Lying(rd) \cup {old} ELSE Lying(rd)
  <2>1. CASE old # None /\ ~kept
    BY <1>4, <2>1, GroundGains
  <2>2. CASE ~(old # None /\ ~kept)
    BY <2>2
  <2> QED
    BY <2>1, <2>2
<1>16. kept => old # None
  OBVIOUS
<1> HIDE DEF b, D, w, sh, l, kept, old
<1>17. \/ Entries(b) = Entries(rb) \cup {old} /\ Lying(D) = Lying(rd) /\ old \in On(worn)
       \/ Entries(b) = Entries(rb) /\ Lying(D) = Lying(rd) \cup {old} /\ old \in On(worn)
       \/ Entries(b) = Entries(rb) /\ Lying(D) = Lying(rd) /\ old \notin On(worn)
  BY <1>4, <1>6, <1>14, <1>15, <1>16
<1>18. Entries(b) \cup On(w) \cup Lying(D) = Entries(rb) \cup (On(worn) \cup {i}) \cup Lying(rd)
  BY <1>7, <1>17
<1>19. i \notin Entries(rb) /\ i \notin Lying(rd)
  BY DEF Placed
<1>20. /\ Entries(b) \cap On(w) = {} /\ Entries(b) \cap Lying(D) = {}
       /\ On(w) \cap Lying(D) = {}
  BY <1>7, <1>17, <1>19 DEF Placed
<1>21. Placed(Entries(b), On(w), Lying(D), live)
  BY <1>18, <1>20 DEF Placed
<1>22. \A j \in Entries(b) \cup On(w) \cup Lying(D) : Lawful(j)
  BY <1>3, <1>18
<1> QED
  BY <1>1, <1>2, <1>7, <1>10, <1>11, <1>12, <1>14, <1>15, <1>21, <1>22, Unpacked, Rebuilt

LEMMA EquipFromBagStep == GearInv /\ (\E k \in DOMAIN bag : EquipFromBag(k)) => GearInv'
<1> SUFFICES ASSUME GearInv, NEW k \in DOMAIN bag, EquipFromBag(k)
             PROVE  GearInv'
  OBVIOUS
<1> DEFINE i == bag[k]
           rb == Without(bag, k)
<1>1. /\ GoodBag(bag) /\ GoodDrops(drops)
      /\ Placed(Entries(bag), On(worn), Lying(drops), live)
      /\ \A j \in Entries(bag) \cup On(worn) \cup Lying(drops) : j \in Items /\ Lawful(j)
  BY Unpacked
<1>2. GoodBag(rb) /\ Entries(rb) = Entries(bag) \ {i} /\ i \in Entries(bag)
  BY <1>1, BagLoses DEF Entries
<1>3. ~IsGem(i) /\ \E s \in SlotNamed(i) : Wear(i, s, rb, drops)
  BY DEF EquipFromBag
<1> HIDE DEF i, rb
<1>4. i \in Items /\ Lawful(i) /\ i \notin On(worn)
  BY <1>1, <1>2 DEF Placed
<1>5. i.base \in AllBases
  BY <1>3, <1>4 DEF Items, IsGem
<1>6. PICK s \in Accepting(i.base) : s \in Slots /\ Wear(i, s, rb, drops)
  BY <1>3, <1>5, ChosenIsAccepted DEF SlotNamed
<1>7. Placed(Entries(rb), On(worn) \cup {i}, Lying(drops), live)
  BY <1>1, <1>2, <1>4 DEF Placed
<1> QED
  BY <1>1, <1>2, <1>3, <1>4, <1>6, <1>7, Wears

LEMMA EquipFromGroundStep == GearInv /\ (\E i \in OnGround : EquipFromGround(i)) => GearInv'
<1> SUFFICES ASSUME GearInv, NEW i \in OnGround, EquipFromGround(i)
             PROVE  GearInv'
  OBVIOUS
<1> DEFINE rd == Taken(drops, i)
<1>1. /\ GoodBag(bag) /\ GoodDrops(drops)
      /\ Placed(Entries(bag), On(worn), Lying(drops), live)
      /\ \A j \in Entries(bag) \cup On(worn) \cup Lying(drops) : j \in Items /\ Lawful(j)
  BY Unpacked
<1>2. i \in Lying(drops)
  BY Places
<1>3. GoodDrops(rd) /\ Lying(rd) = Lying(drops) \ {i}
  BY <1>1, <1>2, GroundLoses
<1>4. ~IsGem(i) /\ \E s \in SlotNamed(i) : Wear(i, s, bag, rd)
  BY DEF EquipFromGround
<1> HIDE DEF rd
<1>5. i \in Items /\ Lawful(i) /\ i \notin On(worn)
  BY <1>1, <1>2 DEF Placed
<1>6. i.base \in AllBases
  BY <1>4, <1>5 DEF Items, IsGem
<1>7. PICK s \in Accepting(i.base) : s \in Slots /\ Wear(i, s, bag, rd)
  BY <1>4, <1>6, ChosenIsAccepted DEF SlotNamed
<1>8. Placed(Entries(bag), On(worn) \cup {i}, Lying(rd), live)
  BY <1>1, <1>2, <1>3, <1>5 DEF Placed
<1> QED
  BY <1>1, <1>3, <1>4, <1>5, <1>7, <1>8, Wears

(***************************************************************************)
(* Travel: what arrives is what left, under ids of its own.                *)
(***************************************************************************)
LEMMA MintedAlike ==
  ASSUME NEW i \in Items, NEW n \in Ids
  PROVE  LET j == Minted(CharItem(i), n)
         IN  /\ j \in Items /\ j.id = n /\ j.base = i.base /\ CharItem(j) = CharItem(i)
             /\ Mods(j) = Mods(i) /\ (Lawful(i) => Lawful(j)) /\ (IsGem(j) <=> IsGem(i))
             /\ CharItem(i) # None
<1> DEFINE j == Minted(CharItem(i), n)
<1>1. /\ j \in Items /\ j.id = n /\ j.base = i.base /\ j.rarity = i.rarity /\ j.level = i.level
      /\ j.affixes = i.affixes /\ CharItem(j) = CharItem(i) /\ CharItem(i) \in CharItems
  BY DEF Minted, CharItem, Items, CharItems
<1> HIDE DEF j
<1> QED
  BY <1>1, NothingIsNoItem DEF Mods, Lawful, IsGem, Unique, j

(* The occupied slots, one after the other, and that ids suffice.          *)
Ordered(q, c) ==
  /\ c \in Nat /\ q \in [1..c -> Slots] /\ Len(q) = c
  /\ \A k, l \in 1..c : q[k] = q[l] => k = l
  /\ \A k \in 1..c : worn[q[k]] # None
  /\ \A s \in Slots : worn[s] # None => \E k \in 1..c : q[k] = s
  /\ Cardinality(On(worn)) = c
  /\ c + Len(bag) <= MaxItems

LEMMA InOrder ==
  ASSUME GearInv
  PROVE  \E c : Ordered(Occupied(Character), c)
<1> DEFINE K == {k \in DOMAIN SlotSeq : Character.equipment[SlotSeq[k]] # None}
           q == Only(SlotSeq, K)
           c == Cardinality(K)
           n == Len(bag)
<1>1. GoodWorn(worn) /\ GoodBag(bag) /\ Placed(Entries(bag), On(worn), Lying(drops), live)
  BY Unpacked
<1>2. n \in Nat /\ DOMAIN bag = 1..n /\ 1 \in Ids /\ MaxItems \in Nat
  BY <1>1, GearAssumption DEF GoodBag, Ids
<1>3. \A s \in Slots : Character.equipment[s] # None <=> worn[s] # None
  <2> SUFFICES ASSUME NEW s \in Slots
               PROVE  Character.equipment[s] # None <=> worn[s] # None
    OBVIOUS
  <2>1. Character.equipment[s] = IF worn[s] = None THEN None ELSE CharItem(worn[s])
    BY DEF Character
  <2>2. worn[s] # None => worn[s] \in Items
    BY <1>1 DEF GoodWorn
  <2> QED
    BY <1>2, <2>1, <2>2, MintedAlike
<1>4. /\ SlotSeq \in Seq(Slots) /\ \A k, l \in DOMAIN SlotSeq : SlotSeq[k] = SlotSeq[l] => k = l
      /\ \A k \in DOMAIN SlotSeq : SlotSeq[k] \in Slots
      /\ \A s \in Slots : \E k \in DOMAIN SlotSeq : SlotSeq[k] = s
  BY GearAssumption DEF Slots
<1>5. /\ K \in SUBSET DOMAIN SlotSeq
      /\ \A k, l \in K : SlotSeq[k] = SlotSeq[l] => k = l
      /\ \A k \in K : SlotSeq[k] \in Slots /\ worn[SlotSeq[k]] # None
      /\ \A s \in Slots : worn[s] # None => \E k \in K : SlotSeq[k] = s
  BY <1>3, <1>4
<1>6. Occupied(Character) = q
  BY DEF Occupied
<1> HIDE DEF K
<1>7. /\ q \in Seq(Slots) /\ Len(q) = c /\ DOMAIN q = 1..c /\ c \in Nat
      /\ \A m \in DOMAIN q : \E k \in K : q[m] = SlotSeq[k]
      /\ \A k \in K : \E m \in DOMAIN q : q[m] = SlotSeq[k]
      /\ \A l, m \in DOMAIN q : q[l] = q[m] => l = m
  BY <1>4, <1>5, Selected
<1> HIDE DEF c, q, n
<1>8. /\ q \in [1..c -> Slots]
      /\ \A k \in 1..c : worn[q[k]] # None
      /\ \A s \in Slots : worn[s] # None => \E k \in 1..c : q[k] = s
      /\ \A k, l \in 1..c : q[k] = q[l] => k = l
  <2>1. q \in [1..c -> Slots]
    BY <1>7
  <2>2. \A k \in 1..c : worn[q[k]] # None
    BY <1>5, <1>7
  <2>3. \A s \in Slots : worn[s] # None => \E k \in 1..c : q[k] = s
    BY <1>5, <1>7
  <2> QED
    BY <1>7, <2>1, <2>2, <2>3
<1> DEFINE f == [k \in 1..c |-> worn[q[k]]]
           g == [p \in 1..(c + n) |-> IF p <= c THEN worn[q[p]].id ELSE bag[p - c].id]
<1>9. \A k \in 1..c : worn[q[k]] \in On(worn) /\ worn[q[k]] \in Items
  BY <1>1, <1>8 DEF On, GoodWorn
<1>10. \A k, l \in 1..c : worn[q[k]] = worn[q[l]] => k = l
  BY <1>1, <1>8 DEF GoodWorn
<1>11. \A i \in On(worn) : \E k \in 1..c : worn[q[k]] = i
  BY <1>8 DEF On
<1>12. f \in Bijection(1..c, On(worn))
  BY <1>9, <1>10, <1>11 DEF Bijection, Injection, Surjection, IsInjective
<1>13. Cardinality(On(worn)) = c
  BY <1>7, <1>12, FS_CountingElements DEF ExistsBijection
<1>14. \A p \in 1..n : bag[p] \in Entries(bag) /\ bag[p] \in Items
  BY <1>1, <1>2 DEF Entries, GoodBag
<1>15. \A p \in 1..(c + n) : ~(p <= c) => p - c \in 1..n
  BY <1>2, <1>7
<1>16. \A p \in 1..(c + n) : p <= c => p \in 1..c
  BY <1>2, <1>7
<1>17. \A p \in 1..(c + n) : g[p] \in Ids
  BY <1>9, <1>14, <1>15, <1>16 DEF Items
<1>18. \A i, j \in Entries(bag) \cup On(worn) : i.id = j.id => i = j
  BY <1>1 DEF Placed
<1>19. \A p, r \in 1..(c + n) : g[p] = g[r] => p = r
  <2> SUFFICES ASSUME NEW p \in 1..(c + n), NEW r \in 1..(c + n), g[p] = g[r]
               PROVE  p = r
    OBVIOUS
  <2>1. CASE p <= c /\ r <= c
    BY <1>9, <1>10, <1>16, <1>18, <2>1
  <2>2. CASE ~(p <= c) /\ ~(r <= c)
    <3>1. bag[p - c].id = bag[r - c].id
      BY <2>2
    <3>2. bag[p - c] = bag[r - c]
      BY <1>14, <1>15, <1>18, <2>2, <3>1
    <3>3. p - c = r - c
      BY <1>1, <1>2, <1>15, <2>2, <3>2 DEF GoodBag
    <3> QED
      BY <1>2, <1>7, <3>3
  <2>3. CASE p <= c /\ ~(r <= c)
    <3>1. worn[q[p]] = bag[r - c]
      BY <1>9, <1>14, <1>15, <1>16, <1>18, <2>3
    <3> QED
      BY <1>1, <1>9, <1>14, <1>15, <1>16, <2>3, <3>1 DEF Placed
  <2>4. CASE ~(p <= c) /\ r <= c
    <3>1. worn[q[r]] = bag[p - c]
      BY <1>9, <1>14, <1>15, <1>16, <1>18, <2>4
    <3> QED
      BY <1>1, <1>9, <1>14, <1>15, <1>16, <2>4, <3>1 DEF Placed
  <2> QED
    BY <2>1, <2>2, <2>3, <2>4
<1>20. g \in Injection(1..(c + n), Ids)
  <2>1. DOMAIN g = 1..(c + n)
    OBVIOUS
  <2>2. g \in [1..(c + n) -> Ids]
    BY <1>17
  <2> HIDE DEF g
  <2> QED
    BY <1>19, <2>2 DEF Injection, IsInjective
<1>21. IsFiniteSet(Ids) /\ Cardinality(Ids) = MaxItems
  BY <1>2, FS_Interval DEF Ids
<1>22. Cardinality(1..(c + n)) = c + n
  BY <1>2, <1>7, FS_Interval
<1>23. c + n <= MaxItems
  BY <1>20, <1>21, <1>22, FS_Injection
<1> QED
  BY <1>6, <1>7, <1>8, <1>13, <1>23 DEF n, Ordered

(* What arrives, given the order q of the occupied slots.                  *)
Rank(q, s) == CHOOSE k \in DOMAIN q : q[k] = s
AsWorn(q) ==
  [s \in Slots |-> IF worn[s] = None THEN None ELSE Minted(CharItem(worn[s]), Rank(q, s))]
AsSheet(q) == [k \in DOMAIN q |-> [source |-> k, mods |-> Mods(AsWorn(q)[q[k]])]]
AsBag(q) == [k \in DOMAIN bag |-> Minted(CharItem(bag[k]), Len(q) + k)]
AsLife(q) ==
  IF life = 0 THEN MaxLife(AsSheet(q)) ELSE Min2(life, MaxLife(AsSheet(q)))

LEMMA Arrival ==
  ASSUME GearInv, Travel
  PROVE  \E q, c :
           /\ Ordered(q, c)
           /\ worn' = AsWorn(q) /\ sheet' = AsSheet(q) /\ bag' = AsBag(q) /\ life' = AsLife(q)
           /\ orbs' = orbs /\ shards' = shards /\ drops' = {} /\ live' = 1..(c + Len(bag))
<1> DEFINE q == Occupied(Character)
           item == [k \in DOMAIN q |-> Minted(Character.equipment[q[k]], k)]
<1>1. PICK c : Ordered(q, c)
  BY InOrder
<1>2. /\ DOMAIN q = 1..c /\ \A k \in 1..c : q[k] \in Slots /\ worn[q[k]] # None
      /\ \A k, l \in 1..c : q[k] = q[l] => k = l
      /\ \A s \in Slots : worn[s] # None => \E k \in 1..c : q[k] = s
  BY <1>1 DEF Ordered
<1>3. /\ \A s \in Slots : Character.equipment[s] = IF worn[s] = None THEN None ELSE CharItem(worn[s])
      /\ Character.inventory = [k \in DOMAIN bag |-> CharItem(bag[k])]
      /\ Character.orbs = orbs /\ Character.shards = shards /\ Character.life = life
  BY DEF Character
<1>4. /\ worn' = [s \in Slots |-> IF \E k \in DOMAIN q : q[k] = s
                                  THEN item[CHOOSE k \in DOMAIN q : q[k] = s] ELSE None]
      /\ sheet' = [k \in DOMAIN q |-> [source |-> k, mods |-> Mods(item[k])]]
      /\ bag' = [k \in DOMAIN Character.inventory |-> Minted(Character.inventory[k], Len(q) + k)]
      /\ orbs' = Character.orbs /\ shards' = Character.shards
      /\ drops' = {} /\ live' = 1..(Cardinality(WornItems) + Len(bag))
  BY DEF Travel, Inject
<1>5. life' = IF Character.life = 0 THEN MaxLife(sheet') ELSE Min2(Character.life, MaxLife(sheet'))
  BY DEF Travel, Inject
<1> HIDE DEF q
<1>6. \A k \in 1..c : item[k] = Minted(CharItem(worn[q[k]]), k)
  BY <1>2, <1>3
<1>7. \A s \in Slots : worn[s] # None => Rank(q, s) \in 1..c /\ q[Rank(q, s)] = s
  BY <1>2 DEF Rank
<1> HIDE DEF item
<1>8. worn' = AsWorn(q)
  <2>1. ASSUME NEW s \in Slots
        PROVE  (IF \E k \in DOMAIN q : q[k] = s THEN item[Rank(q, s)] ELSE None)
                 = IF worn[s] = None THEN None ELSE Minted(CharItem(worn[s]), Rank(q, s))
    BY <1>2, <1>6, <1>7
  <2>2. worn' = [s \in Slots |-> IF \E k \in DOMAIN q : q[k] = s THEN item[Rank(q, s)] ELSE None]
    BY <1>4 DEF Rank
  <2> QED
    BY <2>1, <2>2 DEF AsWorn
<1>9. \A k \in 1..c : item[k] = AsWorn(q)[q[k]]
  <2> SUFFICES ASSUME NEW k \in 1..c
               PROVE  item[k] = AsWorn(q)[q[k]]
    OBVIOUS
  <2>1. Rank(q, q[k]) = k
    BY <1>2, <1>7
  <2>2. AsWorn(q)[q[k]] = Minted(CharItem(worn[q[k]]), Rank(q, q[k]))
    BY <1>2 DEF AsWorn
  <2> QED
    BY <1>6, <2>1, <2>2
<1>10. sheet' = AsSheet(q)
  BY <1>2, <1>4, <1>9 DEF AsSheet
<1>11. bag' = AsBag(q)
  BY <1>3, <1>4 DEF AsBag
<1>12. life' = AsLife(q)
  BY <1>3, <1>5, <1>10 DEF AsLife, MaxLife
<1>13. Cardinality(WornItems) = c
  BY <1>1, Places DEF Ordered
<1> QED
  BY <1>1, <1>3, <1>4, <1>8, <1>10, <1>11, <1>12, <1>13

LEMMA GearArrives ==
  ASSUME GearInv, NEW q, NEW c, Ordered(q, c)
  PROVE  /\ GoodWorn(AsWorn(q)) /\ GoodBag(AsBag(q)) /\ GoodSheet(AsSheet(q))
         /\ On(AsWorn(q)) = {AsWorn(q)[q[k]] : k \in 1..c}
         /\ Entries(AsSheet(q)) = {Entry(i) : i \in On(AsWorn(q))}
         /\ Placed(Entries(AsBag(q)), On(AsWorn(q)), {}, 1..(c + Len(bag)))
         /\ \A i \in Entries(AsBag(q)) \cup On(AsWorn(q)) : Lawful(i)
<1> DEFINE w == AsWorn(q)
           b == AsBag(q)
           sh == AsSheet(q)
           n == Len(bag)
<1>1. /\ GoodWorn(worn) /\ GoodBag(bag) /\ n \in Nat /\ DOMAIN bag = 1..n
      /\ \A s \in Slots : worn[s] # None => worn[s] \in Items /\ Lawful(worn[s])
      /\ \A k \in 1..n : bag[k] \in Items /\ Lawful(bag[k])
  <2>1. GoodWorn(worn) /\ GoodBag(bag)
    BY Unpacked
  <2>2. n \in Nat /\ DOMAIN bag = 1..n
    BY <2>1 DEF GoodBag
  <2>3. \A s \in Slots : worn[s] # None => worn[s] \in On(worn)
    BY DEF On
  <2>4. \A k \in 1..n : bag[k] \in Entries(bag)
    BY <2>2 DEF Entries
  <2> QED
    BY <2>1, <2>2, <2>3, <2>4, Unpacked
<1>2. /\ c \in Nat /\ q \in [1..c -> Slots] /\ Len(q) = c /\ DOMAIN q = 1..c
      /\ \A k \in 1..c : q[k] \in Slots /\ worn[q[k]] # None
      /\ \A k, l \in 1..c : q[k] = q[l] => k = l
      /\ \A s \in Slots : worn[s] # None => \E k \in 1..c : q[k] = s
      /\ c + n <= MaxItems /\ MaxItems \in Nat
  BY GearAssumption DEF Ordered
<1>3. \A s \in Slots : worn[s] # None => Rank(q, s) \in 1..c /\ q[Rank(q, s)] = s
  BY <1>2 DEF Rank
<1>4. \A k \in 1..c : Rank(q, q[k]) = k
  BY <1>2, <1>3
<1>5. /\ \A k \in 1..c : k \in Ids
      /\ \A k \in 1..n : c + k \in Ids
  BY <1>1, <1>2 DEF Ids
<1>6. ASSUME NEW s \in Slots, worn[s] # None
      PROVE  /\ w[s] \in Items /\ w[s].id = Rank(q, s) /\ w[s].base = worn[s].base
             /\ Lawful(w[s]) /\ ~IsGem(w[s])
  <2>1. w[s] = Minted(CharItem(worn[s]), Rank(q, s))
    BY <1>6 DEF AsWorn
  <2>2. ~IsGem(worn[s])
    BY <1>1, <1>6 DEF GoodWorn
  <2> HIDE DEF w
  <2> QED
    BY <1>1, <1>3, <1>5, <1>6, <2>1, <2>2, MintedAlike
<1>7. ASSUME NEW s \in Slots, worn[s] = None
      PROVE  w[s] = None
  BY <1>7 DEF AsWorn
<1>8. DOMAIN w = Slots /\ w = [s \in Slots |-> w[s]]
  BY DEF AsWorn
<1>9. ASSUME NEW k \in 1..n
      PROVE  b[k] \in Items /\ b[k].id = c + k /\ Lawful(b[k])
  <2>1. b[k] = Minted(CharItem(bag[k]), c + k)
    BY <1>1, <1>2 DEF AsBag
  <2> HIDE DEF b
  <2> QED
    BY <1>1, <1>5, <1>9, <2>1, MintedAlike
<1>10. DOMAIN b = 1..n /\ b = [k \in 1..n |-> b[k]]
  BY <1>1 DEF AsBag
<1>11. DOMAIN sh = 1..c /\ \A k \in 1..c : sh[k] = [source |-> k, mods |-> Mods(w[q[k]])]
  BY <1>2 DEF AsSheet
<1>12. sh = [k \in 1..c |-> sh[k]]
  BY <1>2 DEF AsSheet
<1> HIDE DEF w, b, sh, n
<1>13. \A k \in 1..c : w[q[k]] \in Items /\ w[q[k]].id = k /\ Lawful(w[q[k]])
  BY <1>2, <1>4, <1>6
<1>14. On(w) = {w[q[k]] : k \in 1..c}
  <2>1. \A k \in 1..c : w[q[k]] # None
    BY <1>13, NothingIsNoItem
  <2>2. \A s \in Slots : w[s] # None => \E k \in 1..c : q[k] = s
    BY <1>2, <1>7
  <2> QED
    BY <1>2, <2>1, <2>2 DEF On
<1>15. GoodWorn(w)
  <2>1. w \in [Slots -> Items \cup {None}]
    BY <1>6, <1>7, <1>8
  <2>2. ASSUME NEW s \in Slots, w[s] # None
        PROVE  ~IsGem(w[s]) /\ s \in Accepting(w[s].base)
    BY <1>1, <1>6, <1>7, <2>2 DEF GoodWorn
  <2>3. ASSUME NEW s \in Slots, NEW t \in Slots, w[s] = w[t], w[s] # None
        PROVE  s = t
    <3>1. worn[s] # None /\ worn[t] # None
      BY <1>7, <2>3
    <3>2. Rank(q, s) = Rank(q, t)
      BY <1>6, <2>3, <3>1
    <3> QED
      BY <1>3, <3>1, <3>2
  <2> QED
    BY <2>1, <2>2, <2>3 DEF GoodWorn
<1>16. GoodBag(b)
  <2>1. b \in [1..n -> Items]
    BY <1>9, <1>10
  <2>2. b \in Seq(Items) /\ Len(b) = n
    BY <1>1, <1>10, <2>1
  <2>3. \A k, l \in 1..n : b[k] = b[l] => k = l
    <3> SUFFICES ASSUME NEW k \in 1..n, NEW l \in 1..n, b[k] = b[l]
                 PROVE  k = l
      OBVIOUS
    <3>1. c + k = c + l
      BY <1>9
    <3> QED
      BY <1>1, <1>2, <3>1
  <2> QED
    BY <1>1, <1>10, <2>2, <2>3 DEF GoodBag, n
<1>17. \A k \in 1..c : sh[k] = Entry(w[q[k]])
  BY <1>11, <1>13 DEF Entry
<1>18. GoodSheet(sh)
  <2>1. \A k \in 1..c : sh[k] \in SheetEntries /\ sh[k].source = k
    BY <1>11, <1>13, <1>17, EntryTyped
  <2>2. sh \in [1..c -> SheetEntries]
    BY <1>12, <2>1
  <2>3. sh \in Seq(SheetEntries)
    BY <1>2, <2>2
  <2> QED
    BY <1>11, <2>1, <2>3 DEF GoodSheet
<1>19. Entries(sh) = {Entry(i) : i \in On(w)}
  BY <1>11, <1>14, <1>17 DEF Entries
<1>20. Entries(b) = {b[k] : k \in 1..n}
  BY <1>10 DEF Entries
<1>21. Placed(Entries(b), On(w), {}, 1..(c + n))
  <2>1. \A i \in Entries(b) : \E k \in 1..n : i = b[k] /\ i.id = c + k
    BY <1>9, <1>20
  <2>2. \A i \in On(w) : \E k \in 1..c : i = w[q[k]] /\ i.id = k
    BY <1>13, <1>14
  <2>3. ASSUME NEW i \in Entries(b) \cup On(w), NEW j \in Entries(b) \cup On(w), i.id = j.id
        PROVE  i = j
    <3>1. CASE i \in Entries(b) /\ j \in Entries(b)
      <4>1. PICK k \in 1..n, l \in 1..n : i = b[k] /\ i.id = c + k /\ j = b[l] /\ j.id = c + l
        BY <2>1, <3>1
      <4>2. k = l
        BY <1>1, <1>2, <2>3, <4>1
      <4> QED
        BY <4>1, <4>2
    <3>2. CASE i \in On(w) /\ j \in On(w)
      BY <2>2, <2>3, <3>2
    <3>3. CASE i \in Entries(b) /\ j \in On(w)
      BY <1>1, <1>2, <2>1, <2>2, <2>3, <3>3
    <3>4. CASE i \in On(w) /\ j \in Entries(b)
      BY <1>1, <1>2, <2>1, <2>2, <2>3, <3>4
    <3> QED
      BY <3>1, <3>2, <3>3, <3>4
  <2>4. Entries(b) \cap On(w) = {}
    BY <1>1, <1>2, <2>1, <2>2
  <2>5. 1..(c + n) = {i.id : i \in Entries(b) \cup On(w)}
    <3>1. \A i \in Entries(b) \cup On(w) : i.id \in 1..(c + n)
      BY <1>1, <1>2, <2>1, <2>2
    <3>2. ASSUME NEW m \in 1..(c + n)
          PROVE  \E i \in Entries(b) \cup On(w) : i.id = m
      <4>1. CASE m <= c
        <5>1. m \in 1..c
          BY <1>1, <1>2, <4>1
        <5> QED
          BY <1>13, <1>14, <5>1
      <4>2. CASE ~(m <= c)
        <5>1. m - c \in 1..n /\ c + (m - c) = m
          BY <1>1, <1>2, <4>2
        <5> QED
          BY <1>9, <1>20, <5>1
      <4> QED
        BY <4>1, <4>2
    <3> QED
      BY <3>1, <3>2
  <2> QED
    BY <2>3, <2>4, <2>5 DEF Placed
<1>22. \A i \in Entries(b) \cup On(w) : Lawful(i)
  BY <1>9, <1>13, <1>14, <1>20
<1> QED
  BY <1>14, <1>15, <1>16, <1>18, <1>19, <1>21, <1>22 DEF w, b, sh, n

LEMMA TravelStep == GearInv /\ Travel => GearInv'
<1> SUFFICES ASSUME GearInv, Travel
             PROVE  GearInv'
  OBVIOUS
<1>1. PICK q, c :
        /\ Ordered(q, c)
        /\ worn' = AsWorn(q) /\ sheet' = AsSheet(q) /\ bag' = AsBag(q) /\ life' = AsLife(q)
        /\ orbs' = orbs /\ shards' = shards /\ drops' = {} /\ live' = 1..(c + Len(bag))
  BY Arrival
<1> DEFINE w == AsWorn(q)
           b == AsBag(q)
           sh == AsSheet(q)
           l == AsLife(q)
           L == 1..(c + Len(bag))
<1>2. /\ GoodWorn(w) /\ GoodBag(b) /\ GoodSheet(sh)
      /\ Entries(sh) = {Entry(i) : i \in On(w)}
      /\ Placed(Entries(b), On(w), {}, L)
      /\ \A i \in Entries(b) \cup On(w) : Lawful(i)
  BY <1>1, GearArrives
<1>3. GoodDrops({}) /\ Lying({}) = {}
  BY DEF GoodDrops, Lying
<1>4. l \in 0..MaxLife(sh)
  <2>1. MaxLife(sh) \in Nat \ {0} /\ MaxLife(sheet) \in Nat /\ life \in 0..MaxLife(sheet)
    BY <1>2, Unpacked, LifeIsPositive
  <2>2. l = IF life = 0 THEN MaxLife(sh) ELSE Min2(life, MaxLife(sh))
    BY DEF AsLife
  <2> HIDE DEF sh, l
  <2> QED
    BY <2>1, <2>2 DEF Min2
<1> HIDE DEF w, b, sh, l, L
<1>5. GoodWallet(orbs, shards)
  BY Unpacked
<1>6. Placed(Entries(b), On(w), Lying({}), L) /\ \A i \in Entries(b) \cup On(w) \cup Lying({}) : Lawful(i)
  BY <1>2, <1>3
<1>7. /\ bag' = b /\ drops' = {} /\ worn' = w /\ sheet' = sh /\ orbs' = orbs
      /\ shards' = shards /\ life' = l /\ live' = L
  BY <1>1 DEF b, w, sh, l, L
<1> QED
  BY <1>2, <1>3, <1>4, <1>5, <1>6, <1>7, Rebuilt

LEMMA ItemVerbStep == GearInv /\ ItemVerb => GearInv'
<1> SUFFICES ASSUME GearInv, ItemVerb
             PROVE  GearInv'
  OBVIOUS
<1>1. CASE \E i \in OnGround : Pickup(i)
  BY <1>1, PickupStep
<1>2. CASE \E i \in OnGround : EquipFromGround(i)
  BY <1>2, EquipFromGroundStep
<1>3. CASE \E k \in DOMAIN bag : EquipFromBag(k)
  BY <1>3, EquipFromBagStep
<1>4. CASE \E k \in DOMAIN bag : DropItem(k)
  BY <1>4, DropItemStep
<1>5. CASE \E k \in DOMAIN bag : ForgeMelt(k)
  BY <1>5, ForgeMeltStep
<1>6. CASE \E k \in DOMAIN bag : Cut(k)
  BY <1>6, CutStep
<1>7. CASE \E s \in Slots : Unequip(s)
  BY <1>7, UnequipStep
<1>8. CASE \E o \in Orbs : ApplyOrb(o)
  BY <1>8, ApplyOrbStep
<1>9. CASE \E o \in Orbs : ForgeBuy(o)
  BY <1>9, ForgeBuyStep
<1> QED
  BY <1>1, <1>2, <1>3, <1>4, <1>5, <1>6, <1>7, <1>8, <1>9 DEF ItemVerb

LEMMA GearStep == GearInv /\ [Next]_vars => GearInv'
<1> SUFFICES ASSUME GearInv, [Next]_vars
             PROVE  GearInv'
  OBVIOUS
<1>1. CASE ItemVerb
  BY <1>1, ItemVerbStep
<1>2. CASE DropLoot
  BY <1>2, DropLootStep
<1>3. CASE \E o \in Orbs : BankOrb(o)
  BY <1>3, BankOrbStep
<1>4. CASE EndTick
  BY <1>4, EndTickStep
<1>5. CASE LifeChanges
  BY <1>5, LifeChangesStep
<1>6. CASE Travel
  BY <1>6, TravelStep
<1>7. CASE UNCHANGED vars
  <2>1. /\ GoodBag(bag) /\ GoodDrops(drops) /\ GoodWorn(worn)
        /\ Placed(Entries(bag), On(worn), Lying(drops), live)
        /\ \A i \in Entries(bag) \cup On(worn) \cup Lying(drops) : Lawful(i)
    BY Unpacked
  <2>2. /\ bag' = bag /\ drops' = drops /\ worn' = worn /\ sheet' = sheet /\ orbs' = orbs
        /\ shards' = shards /\ life' = life /\ live' = live
    BY <1>7 DEF vars
  <2> QED
    BY <2>1, <2>2, Unpacked, Rebuilt
<1> QED
  BY <1>1, <1>2, <1>3, <1>4, <1>5, <1>6, <1>7 DEF Next

(* The invariant of the whole module holds in every state.                 *)
LEMMA GearInvariant == Spec => []GearInv
  BY GearInit, GearStep, PTL DEF Spec

(***************************************************************************)
(* Counting.                                                               *)
(***************************************************************************)
LEMMA Images ==
  ASSUME NEW S, IsFiniteSet(S), NEW T, NEW f \in [S -> T],
         \A x, y \in S : f[x] = f[y] => x = y, \A t \in T : \E x \in S : f[x] = t
  PROVE  IsFiniteSet(T) /\ Cardinality(T) = Cardinality(S)
<1>1. f \in Bijection(S, T)
  BY DEF Bijection, Injection, Surjection, IsInjective
<1> QED
  BY <1>1, FS_Bijection DEF ExistsBijection

LEMMA SlotsAreFinite == IsFiniteSet(Slots)
<1>1. SlotSeq \in Seq(Slots) /\ DOMAIN SlotSeq = 1..Len(SlotSeq) /\ Len(SlotSeq) \in Nat
  BY GearAssumption
<1>2. IsFiniteSet(DOMAIN SlotSeq)
  BY <1>1, FS_Interval
<1>3. SlotSeq \in [DOMAIN SlotSeq -> Slots]
  BY <1>1
<1>4. \A s \in Slots : \E k \in DOMAIN SlotSeq : SlotSeq[k] = s
  BY DEF Slots
<1>5. \A k, l \in DOMAIN SlotSeq : SlotSeq[k] = SlotSeq[l] => k = l
  BY GearAssumption
<1> QED
  BY <1>2, <1>3, <1>4, <1>5, Images

(* As many items as places that hold one.                                  *)
LEMMA Counted ==
  ASSUME GearInv
  PROVE  /\ IsFiniteSet(InBag) /\ Cardinality(InBag) = Len(bag)
         /\ IsFiniteSet(WornItems) /\ Cardinality(WornItems) = Cardinality({s \in Slots : worn[s] # None})
         /\ IsFiniteSet(OnGround) /\ Cardinality(OnGround) = Cardinality({d \in drops : ~d.taken})
         /\ IsFiniteSet(Everything) /\ Cardinality(live) = Cardinality(Everything)
<1>1. /\ GoodBag(bag) /\ GoodDrops(drops) /\ GoodWorn(worn)
      /\ Placed(InBag, WornItems, OnGround, live)
      /\ \A i \in Everything : i \in Items
  BY Unpacked, Places DEF Everything
<1>2. IsFiniteSet(InBag) /\ Cardinality(InBag) = Len(bag)
  <2>1. /\ Len(bag) \in Nat /\ DOMAIN bag = 1..Len(bag) /\ bag \in [1..Len(bag) -> InBag]
        /\ \A k, l \in 1..Len(bag) : bag[k] = bag[l] => k = l
    BY <1>1 DEF GoodBag, InBag
  <2>2. \A i \in InBag : \E k \in 1..Len(bag) : bag[k] = i
    BY <2>1 DEF InBag
  <2>3. IsFiniteSet(1..Len(bag)) /\ Cardinality(1..Len(bag)) = Len(bag)
    BY <2>1, FS_Interval
  <2> QED
    BY <2>1, <2>2, <2>3, Images
<1>3. IsFiniteSet(WornItems) /\ Cardinality(WornItems) = Cardinality({s \in Slots : worn[s] # None})
  <2> DEFINE S == {s \in Slots : worn[s] # None}
             f == [s \in S |-> worn[s]]
  <2>1. IsFiniteSet(S)
    BY SlotsAreFinite, FS_Subset
  <2>2. f \in [S -> WornItems]
    BY DEF WornItems
  <2>3. \A s, t \in S : f[s] = f[t] => s = t
    BY <1>1 DEF GoodWorn
  <2>4. \A i \in WornItems : \E s \in S : f[s] = i
    BY DEF WornItems
  <2> HIDE DEF f, S
  <2> QED
    BY <2>1, <2>2, <2>3, <2>4, Images DEF S
<1>4. IsFiniteSet(Everything) /\ Cardinality(live) = Cardinality(Everything)
  <2> DEFINE f == [i \in Everything |-> i.id]
  <2>1. f \in [Everything -> Ids]
    BY <1>1 DEF Items
  <2>2. \A i, j \in Everything : f[i] = f[j] => i = j
    BY <1>1 DEF Placed, Everything
  <2>3. live = {f[i] : i \in Everything}
    BY <1>1 DEF Placed, Everything
  <2> HIDE DEF f
  <2>4. IsFiniteSet(Ids)
    BY GearAssumption, FS_Interval DEF Ids
  <2>5. f \in Injection(Everything, Ids)
    BY <2>1, <2>2 DEF Injection, IsInjective
  <2>6. IsFiniteSet(Everything)
    BY <2>4, <2>5, FS_Injection
  <2>7. f \in [Everything -> live] /\ \A n \in live : \E i \in Everything : f[i] = n
    BY <2>1, <2>3
  <2> QED
    BY <2>2, <2>6, <2>7, Images
<1>5. IsFiniteSet(OnGround) /\ Cardinality(OnGround) = Cardinality({d \in drops : ~d.taken})
  <2> DEFINE S == {d \in drops : ~d.taken}
             f == [i \in OnGround |-> Dropped(i)]
  <2>1. IsFiniteSet(OnGround)
    <3>1. OnGround \in SUBSET Everything
      BY DEF Everything
    <3> QED
      BY <1>4, <3>1, FS_Subset
  <2>2. \A d \in S : d = Dropped(d.item) /\ d.item \in OnGround
    BY <1>1 DEF GoodDrops, Drops, Dropped, OnGround
  <2>3. \A i \in OnGround : Dropped(i) \in S
    BY <2>2 DEF OnGround
  <2>4. \A i, j \in OnGround : f[i] = f[j] => i = j
    BY DEF Dropped
  <2>5. f \in [OnGround -> S] /\ \A d \in S : \E i \in OnGround : f[i] = d
    BY <2>2, <2>3
  <2> HIDE DEF f, S
  <2>6. Cardinality(S) = Cardinality(OnGround)
    BY <2>1, <2>4, <2>5, Images
  <2> QED
    BY <2>1, <2>6 DEF S
<1> QED
  BY <1>2, <1>3, <1>4, <1>5

LEMMA InvImpliesTypeOK == GearInv => TypeOK
<1> SUFFICES ASSUME GearInv
             PROVE  TypeOK
  OBVIOUS
<1>1. GoodDrops(drops) /\ GoodBag(bag) /\ GoodWorn(worn)
  BY Unpacked
<1>2. \A i \in InBag \cup WornItems \cup OnGround : i \in Items /\ Lawful(i)
  BY Unpacked, Places
<1>3. \A d \in drops : d.taken \in BOOLEAN /\ IF d.taken THEN d.item = None ELSE d.item \in Items
  BY <1>1 DEF GoodDrops, Drops
<1>4. Len(bag) <= BagSize /\ DOMAIN worn = Slots
  BY <1>1 DEF GoodBag, GoodWorn
<1>5. \A s \in Slots : worn[s] # None =>
        ~IsGem(worn[s]) /\ \E k \in DOMAIN SlotsFor[worn[s].base] : SlotsFor[worn[s].base][k] = s
  BY <1>1 DEF GoodWorn, Accepting
<1>6. orbs \in [Orbs -> 0..MaxWealth] /\ shards \in 0..MaxWealth /\ Wealth <= MaxWealth
  BY Unpacked DEF GoodWallet, Wealth, Coins
<1>7. life \in 0..MaxLife(sheet)
  BY Unpacked
<1>8. live \subseteq Ids
  BY <1>2, Unpacked, Places DEF Placed, Items
<1> QED
  BY <1>2, <1>3, <1>4, <1>5, <1>6, <1>7, <1>8 DEF TypeOK

LEMMA InvImpliesConserved == GearInv => Conserved
<1> SUFFICES ASSUME GearInv
             PROVE  Conserved
  OBVIOUS
<1>1. Placed(InBag, WornItems, OnGround, live)
  BY Unpacked, Places
<1> DEFINE a == Cardinality(InBag)
           b == Cardinality(WornItems)
           c == Cardinality(OnGround)
<1>2. /\ IsFiniteSet(InBag) /\ IsFiniteSet(WornItems) /\ IsFiniteSet(OnGround)
      /\ a \in Nat /\ b \in Nat /\ c \in Nat
  BY Counted, FS_CardinalityType
<1>3. Cardinality({}) = 0
  BY FS_EmptySet
<1>4. InBag \cap WornItems = {} /\ (InBag \cup WornItems) \cap OnGround = {}
  BY <1>1 DEF Placed
<1>5. IsFiniteSet(InBag \cup WornItems) /\ Cardinality(InBag \cup WornItems) = a + b
  <2>1. /\ IsFiniteSet(InBag \cup WornItems)
        /\ Cardinality(InBag \cup WornItems) = a + b - Cardinality(InBag \cap WornItems)
    BY <1>2, FS_Union
  <2>2. Cardinality(InBag \cap WornItems) = 0
    BY <1>3, <1>4
  <2> HIDE DEF a, b
  <2> QED
    BY <1>2, <2>1, <2>2
<1>6. Cardinality(InBag \cup WornItems \cup OnGround) = a + b + c
  BY <1>2, <1>3, <1>4, <1>5, FS_Union
<1>7. Cardinality(live) = a + b + c
  BY <1>6, Counted DEF Everything
<1> QED
  BY <1>1, <1>7, Counted DEF Conserved, Placed

LEMMA InvImpliesSheet == GearInv => SheetIsTheGear
<1> SUFFICES ASSUME GearInv
             PROVE  SheetIsTheGear
  OBVIOUS
<1>1. /\ GoodSheet(sheet) /\ Entries(sheet) = {Entry(i) : i \in WornItems}
      /\ Placed(InBag, WornItems, OnGround, live)
  BY Unpacked, Places
<1>2. /\ \A k \in DOMAIN sheet : \E i \in WornItems : sheet[k] = Entry(i)
      /\ \A i \in WornItems : \E k \in DOMAIN sheet : sheet[k] = Entry(i)
  BY <1>1 DEF Entries
<1>3. \A i \in WornItems : Entry(i).source = i.id /\ Entry(i).mods = Mods(i)
  BY DEF Entry
<1>4. {<<sheet[k].source, sheet[k].mods>> : k \in DOMAIN sheet} = {<<i.id, Mods(i)>> : i \in WornItems}
  <2>1. ASSUME NEW k \in DOMAIN sheet
        PROVE  \E i \in WornItems : <<sheet[k].source, sheet[k].mods>> = <<i.id, Mods(i)>>
    BY <1>2, <1>3
  <2>2. ASSUME NEW i \in WornItems
        PROVE  \E k \in DOMAIN sheet : <<sheet[k].source, sheet[k].mods>> = <<i.id, Mods(i)>>
    BY <1>2, <1>3
  <2> QED
    BY <2>1, <2>2
<1>5. Len(sheet) = Cardinality(WornItems)
  <2> DEFINE ids == {i.id : i \in WornItems}
             f == [k \in DOMAIN sheet |-> sheet[k].source]
             g == [i \in WornItems |-> i.id]
  <2>1. /\ DOMAIN sheet = 1..Len(sheet) /\ Len(sheet) \in Nat
        /\ \A k, l \in DOMAIN sheet : sheet[k].source = sheet[l].source => k = l
    BY <1>1 DEF GoodSheet
  <2>2. IsFiniteSet(DOMAIN sheet) /\ Cardinality(DOMAIN sheet) = Len(sheet)
    BY <2>1, FS_Interval
  <2>3. f \in [DOMAIN sheet -> ids] /\ \A n \in ids : \E k \in DOMAIN sheet : f[k] = n
    BY <1>2, <1>3
  <2>4. \A k, l \in DOMAIN sheet : f[k] = f[l] => k = l
    BY <2>1
  <2>5. g \in [WornItems -> ids] /\ \A n \in ids : \E i \in WornItems : g[i] = n
    OBVIOUS
  <2>6. \A i, j \in WornItems : g[i] = g[j] => i = j
    BY <1>1 DEF Placed
  <2> HIDE DEF ids, f, g
  <2>7. Cardinality(ids) = Len(sheet)
    BY <2>2, <2>3, <2>4, Images
  <2>8. Cardinality(ids) = Cardinality(WornItems)
    BY <2>5, <2>6, Counted, Images
  <2> QED
    BY <2>7, <2>8
<1> QED
  BY <1>4, <1>5 DEF SheetIsTheGear

(***************************************************************************)
(* Theorems.                                                               *)
(***************************************************************************)

(* What is carried, worn and lies about is made of items their rarity      *)
(* allows, in slots their bases go to; the bag, the wallet and life keep   *)
(* within their limits.                                                    *)
THEOREM TypeCorrect == Spec => []TypeOK
  BY GearInvariant, InvImpliesTypeOK, PTL

(* No item is lost or doubled, whatever is equipped over what, from the    *)
(* bag or the ground, with a full bag, melted, cut or carried to a world.  *)
THEOREM NothingIsLost == Spec => []Conserved
  BY GearInvariant, InvImpliesConserved, PTL

(* The sheet holds the modifiers of exactly what is worn, each once.       *)
THEOREM SheetCopiesGear == Spec => []SheetIsTheGear
  BY GearInvariant, InvImpliesSheet, PTL

(***************************************************************************)
(* Maximum life depends on what is worn and not on the order of the sheet. *)
(***************************************************************************)
LifeSlots(w) == {s \in Slots : w[s] # None /\ Mods(w[s]) \cap LifeAffix # {}}

LEMMA LifeOfGear ==
  ASSUME NEW w, GoodWorn(w), \A i, j \in On(w) : i.id = j.id => i = j,
         NEW sh, GoodSheet(sh), Entries(sh) = {Entry(i) : i \in On(w)}
  PROVE  MaxLife(sh) = BaseLife + Cardinality(LifeSlots(w))
<1> DEFINE K == {k \in DOMAIN sh : sh[k].mods \cap LifeAffix # {}}
           S == LifeSlots(w)
           ids == {sh[k].source : k \in K}
           f == [k \in K |-> sh[k].source]
           g == [s \in S |-> w[s].id]
<1>1. /\ DOMAIN sh = 1..Len(sh) /\ Len(sh) \in Nat
      /\ \A k, l \in DOMAIN sh : sh[k].source = sh[l].source => k = l
  BY DEF GoodSheet
<1>2. IsFiniteSet(DOMAIN sh)
  BY <1>1, FS_Interval
<1>3. IsFiniteSet(K) /\ IsFiniteSet(S)
  <2>1. K \in SUBSET DOMAIN sh /\ S \in SUBSET Slots
    BY DEF LifeSlots
  <2> HIDE DEF K, S
  <2> QED
    BY <1>2, <2>1, SlotsAreFinite, FS_Subset
<1>4. /\ \A k \in DOMAIN sh : \E s \in Slots : w[s] # None /\ sh[k].source = w[s].id /\ sh[k].mods = Mods(w[s])
      /\ \A s \in Slots : w[s] # None =>
           \E k \in DOMAIN sh : sh[k].source = w[s].id /\ sh[k].mods = Mods(w[s])
  <2>1. \A i : Entry(i).source = i.id /\ Entry(i).mods = Mods(i)
    BY DEF Entry
  <2>2. \A k \in DOMAIN sh : \E i \in On(w) : sh[k] = Entry(i)
    BY DEF Entries
  <2>3. \A i \in On(w) : \E k \in DOMAIN sh : sh[k] = Entry(i)
    BY DEF Entries
  <2>4. /\ \A i \in On(w) : \E s \in Slots : w[s] # None /\ w[s] = i
        /\ \A s \in Slots : w[s] # None => w[s] \in On(w)
    BY DEF On
  <2> QED
    BY <2>1, <2>2, <2>3, <2>4
<1>5. \A s \in Slots : s \in S <=> w[s] # None /\ Mods(w[s]) \cap LifeAffix # {}
  BY DEF LifeSlots
<1>6. S \subseteq Slots
  BY DEF LifeSlots
<1>7. \A k \in DOMAIN sh : k \in K <=> sh[k].mods \cap LifeAffix # {}
  OBVIOUS
<1>8. K \subseteq DOMAIN sh
  OBVIOUS
<1>9. \A s, t \in S : w[s].id = w[t].id => s = t
  BY <1>5, <1>6 DEF GoodWorn, On
<1> HIDE DEF K, S
<1>10. \A s \in S : w[s].id \in ids
  BY <1>4, <1>5, <1>6, <1>7
<1>11. \A n \in ids : \E s \in S : w[s].id = n
  BY <1>4, <1>5, <1>7, <1>8
<1>12. f \in [K -> ids] /\ (\A n \in ids : \E k \in K : f[k] = n) /\ \A k, l \in K : f[k] = f[l] => k = l
  BY <1>1, <1>8
<1>13. g \in [S -> ids] /\ (\A n \in ids : \E s \in S : g[s] = n) /\ \A s, t \in S : g[s] = g[t] => s = t
  BY <1>9, <1>10, <1>11
<1> HIDE DEF ids, f, g
<1>14. Cardinality(ids) = Cardinality(K)
  BY <1>3, <1>12, Images
<1>15. Cardinality(ids) = Cardinality(S)
  BY <1>3, <1>13, Images
<1> QED
  BY <1>14, <1>15 DEF MaxLife, K, S

LEMMA TravelKeeps ==
  ASSUME GearInv, Travel
  PROVE  Character' = [Character EXCEPT !.life = IF Alive THEN @ ELSE life'] /\ life' > 0
<1>1. PICK q, c :
        /\ Ordered(q, c)
        /\ worn' = AsWorn(q) /\ sheet' = AsSheet(q) /\ bag' = AsBag(q) /\ life' = AsLife(q)
        /\ orbs' = orbs /\ shards' = shards /\ drops' = {} /\ live' = 1..(c + Len(bag))
  BY Arrival
<1> DEFINE w == AsWorn(q)
           b == AsBag(q)
           sh == AsSheet(q)
           n == Len(bag)
<1>2. /\ GoodWorn(w) /\ GoodSheet(sh) /\ Entries(sh) = {Entry(i) : i \in On(w)}
      /\ Placed(Entries(b), On(w), {}, 1..(c + n))
  BY <1>1, GearArrives
<1>3. /\ GoodWorn(worn) /\ GoodSheet(sheet) /\ Entries(sheet) = {Entry(i) : i \in On(worn)}
      /\ Placed(Entries(bag), On(worn), Lying(drops), live)
      /\ GoodBag(bag) /\ life \in 0..MaxLife(sheet)
  BY Unpacked
<1>4. /\ c \in Nat /\ n \in Nat /\ DOMAIN bag = 1..n /\ c + n <= MaxItems /\ MaxItems \in Nat
      /\ Len(q) = c /\ DOMAIN q = 1..c
      /\ \A s \in Slots : worn[s] # None => \E k \in 1..c : q[k] = s
  BY <1>1, <1>3, GearAssumption DEF Ordered, GoodBag
<1>5. \A s \in Slots : worn[s] # None => worn[s] \in Items /\ Rank(q, s) \in Ids
  <2>1. \A s \in Slots : worn[s] # None => Rank(q, s) \in 1..c
    BY <1>4 DEF Rank
  <2>2. \A k \in 1..c : k \in Ids
    BY <1>4 DEF Ids
  <2> QED
    BY <1>3, <2>1, <2>2 DEF GoodWorn
<1>6. \A s \in Slots : IF worn[s] = None THEN w[s] = None
                       ELSE w[s] # None /\ CharItem(w[s]) = CharItem(worn[s]) /\ Mods(w[s]) = Mods(worn[s])
  <2> SUFFICES ASSUME NEW s \in Slots
               PROVE  IF worn[s] = None THEN w[s] = None
                      ELSE w[s] # None /\ CharItem(w[s]) = CharItem(worn[s]) /\ Mods(w[s]) = Mods(worn[s])
    OBVIOUS
  <2>1. w[s] = IF worn[s] = None THEN None ELSE Minted(CharItem(worn[s]), Rank(q, s))
    BY DEF AsWorn
  <2> HIDE DEF w
  <2>2. CASE worn[s] = None
    BY <2>1, <2>2
  <2>3. CASE worn[s] # None
    BY <1>5, <2>1, <2>3, MintedAlike, NothingIsNoItem
  <2> QED
    BY <2>2, <2>3
<1>7. \A k \in 1..n : b[k] = Minted(CharItem(bag[k]), c + k) /\ c + k \in Ids /\ bag[k] \in Items
  BY <1>3, <1>4 DEF AsBag, Ids, GoodBag
<1>8. DOMAIN b = 1..n
  BY <1>4 DEF AsBag
<1>9. AsLife(q) = IF life = 0 THEN MaxLife(sh) ELSE Min2(life, MaxLife(sh))
  BY DEF AsLife
<1> HIDE DEF w, b, sh, n
<1>10. \A k \in 1..n : CharItem(b[k]) = CharItem(bag[k])
  BY <1>7, MintedAlike
<1>11. LifeSlots(w) = LifeSlots(worn)
  BY <1>6 DEF LifeSlots
<1>12. MaxLife(sh) = MaxLife(sheet)
  BY <1>2, <1>3, <1>11, LifeOfGear DEF Placed
<1>13. MaxLife(sheet) \in Nat \ {0}
  BY <1>3, LifeIsPositive
<1>14. life' = (IF life = 0 THEN MaxLife(sheet) ELSE life) /\ life' > 0
  BY <1>1, <1>3, <1>9, <1>12, <1>13 DEF Min2
<1>15. worn' = w /\ bag' = b /\ orbs' = orbs /\ shards' = shards
  BY <1>1 DEF w, b
<1>16. Character'.equipment = Character.equipment
  <2>1. Character'.equipment = [s \in Slots |-> IF w[s] = None THEN None ELSE CharItem(w[s])]
    BY <1>15 DEF Character, CharItem
  <2>2. Character.equipment = [s \in Slots |-> IF worn[s] = None THEN None ELSE CharItem(worn[s])]
    BY DEF Character
  <2> QED
    BY <1>6, <2>1, <2>2
<1>17. Character'.inventory = Character.inventory
  <2>1. Character'.inventory = [k \in 1..n |-> CharItem(b[k])]
    BY <1>8, <1>15 DEF Character, CharItem
  <2>2. Character.inventory = [k \in 1..n |-> CharItem(bag[k])]
    BY <1>4 DEF Character
  <2> QED
    BY <1>10, <2>1, <2>2
<1> DEFINE e == Character.equipment
           i == Character.inventory
<1>18. Character = [equipment |-> e, inventory |-> i, orbs |-> orbs, shards |-> shards, life |-> life]
  BY DEF Character
<1>19. Character' = [equipment |-> e, inventory |-> i, orbs |-> orbs, shards |-> shards, life |-> life']
  <2>1. Character' = [equipment |-> Character'.equipment, inventory |-> Character'.inventory,
                      orbs |-> orbs', shards |-> shards', life |-> life']
    BY DEF Character
  <2> QED
    BY <1>15, <1>16, <1>17, <2>1
<1>20. life' = IF Alive THEN life ELSE life'
  BY <1>3, <1>13, <1>14 DEF Alive
<1> HIDE DEF e, i
<1> QED
  BY <1>14, <1>18, <1>19, <1>20

(* Travel changes nothing of what the hero has: the gear, the bag, the     *)
(* wallet, and the life of one who lives, for pools are clamped only once  *)
(* the gear is on.                                                         *)
THEOREM TravelKeepsAll == Spec => TravelKeepsTheBuild
<1>1. GearInv /\ [Next]_vars =>
        [Travel => /\ Character' = [Character EXCEPT !.life = IF Alive THEN @ ELSE life']
                   /\ life' > 0]_vars
  BY TravelKeeps
<1> QED
  BY <1>1, GearInvariant, PTL DEF Spec, TravelKeepsTheBuild

USE CastingAssumption

(***************************************************************************)
(* What an actor does has a phase that fits it.                            *)
(***************************************************************************)
ActionTyped ==
  /\ action.kind \in {"idle", "move", "skill"}
  /\ action.phase \in {"windup", "recovery", "channel", "staged"}
  /\ action.more \in Seq(Durations)
  /\ action = [kind |-> action.kind, skill |-> action.skill, phase |-> action.phase,
               left |-> action.left, tail |-> action.tail, more |-> action.more]

(* The stages after the first are one fewer. *)
LEMMA StagesAfterTheFirst ==
  ASSUME NEW s \in Skills, NEW ts \in StageTimes(s)
  PROVE  /\ Tail(ts) \in Seq(Durations)
         /\ 1 + Len(Tail(ts)) = Stages[s]
<1>1. Stages[s] \in Nat /\ Stages[s] > 0
  OBVIOUS
<1>2. ts \in Seq(Durations) /\ Len(ts) = Stages[s]
  <2> HIDE CastingAssumption
  <2> DEFINE n == Stages[s]
  <2>1. n \in Nat /\ ts \in [1..n -> Durations]
    BY <1>1 DEF StageTimes
  <2> HIDE DEF n
  <2>2. ts \in Seq(Durations) /\ Len(ts) = n
    BY <2>1
  <2> QED
    BY <2>2 DEF n
<1>3. ts # <<>>
  BY <1>1, <1>2
<1> QED
  BY <1>1, <1>2, <1>3

(* What a skill begins with owes its effects. *)
LEMMA BegunOwes ==
  ASSUME NEW s \in Skills, NEW a \in Begun(s)
  PROVE  /\ a.kind = "skill" /\ a.phase \in {"windup", "staged"}
         /\ a.more \in Seq(Durations)
         /\ a = [kind |-> a.kind, skill |-> a.skill, phase |-> a.phase,
                 left |-> a.left, tail |-> a.tail, more |-> a.more]
         /\ a.phase = "windup" => Effects(s) = 1
         /\ a.phase = "staged" => Effects(s) = 1 + Len(a.more)
<1>1. CASE Kind[s] = "staged"
  <2>1. PICK ts \in StageTimes(s) :
          a = [kind |-> "skill", skill |-> s, phase |-> "staged", left |-> Head(ts), tail |-> 0,
               more |-> Tail(ts)]
    BY <1>1 DEF Begun
  <2> QED
    BY <1>1, <2>1, StagesAfterTheFirst DEF Effects
<1>2. CASE Kind[s] # "staged"
  <2>1. PICK l \in {0} \cup Durations, t \in Scaled(Kind[s] = "channel" \/ Recovers[s]) :
          a = [kind |-> "skill", skill |-> s, phase |-> "windup", left |-> l, tail |-> t, more |-> <<>>]
    BY <1>2 DEF Begun
  <2>2. <<>> \in Seq(Durations)
    OBVIOUS
  <2> QED
    BY <1>2, <2>1, <2>2 DEF Effects
<1> QED
  BY <1>1, <1>2

(***************************************************************************)
(* Debts.                                                                  *)
(***************************************************************************)
DebtInv == ActionTyped /\ PaidEffectsHappen

LEMMA IdleOwesNothing ==
  ASSUME action' \in {Idle, Moving}
  PROVE  ActionTyped' /\ Owed' = 0
<1>1. <<>> \in Seq(Durations)
  OBVIOUS
<1>2. CASE action' = Idle
  BY <1>1, <1>2 DEF ActionTyped, Owed, Casting, Idle
<1>3. CASE action' = Moving
  BY <1>1, <1>3 DEF ActionTyped, Owed, Casting, Idle, Moving
<1> QED
  BY <1>2, <1>3

(* Nothing is owed by an actor that is free to take an order. *)
LEMMA UncommittedOwesNothing ==
  ASSUME DebtInv, ~Committed
  PROVE  debt = 0
BY DEF DebtInv, PaidEffectsHappen, Owed, Committed, Channelling, Casting

LEMMA DebtInit == CastingInit => DebtInv
<1>1. <<>> \in Seq(Durations)
  OBVIOUS
<1> QED
  BY <1>1 DEF CastingInit, DebtInv, ActionTyped, PaidEffectsHappen, Owed, Casting, Idle

LEMMA DebtStep ==
  ASSUME DebtInv, [CastingNext]_castingVars
  PROVE  DebtInv'
<1> USE DEF DebtInv
<1>1. CASE UNCHANGED <<action, debt>>
  BY <1>1 DEF ActionTyped, PaidEffectsHappen, Owed, Casting
<1>2. CASE Command
  <2>1. CASE Move
    <3>1. CASE action' = action
      BY <2>1, <3>1, <1>1 DEF Move
    <3>2. CASE action' # action
      <4>1. action' \in {Idle, Moving} /\ debt' = debt
        BY <2>1, <3>2 DEF Move
      <4> QED
        BY <2>1, <4>1, IdleOwesNothing, UncommittedOwesNothing DEF Move, PaidEffectsHappen
    <3> QED
      BY <3>1, <3>2
  <2>2. CASE Stop
    <3>1. ~Committed /\ action' = Idle /\ debt' = debt
      BY <2>2 DEF Stop, Committed, Casting, Channelling
    <3> QED
      BY <3>1, IdleOwesNothing, UncommittedOwesNothing DEF PaidEffectsHappen
  <2>3. CASE Bench
    BY <2>3, <1>1 DEF Bench
  <2>4. ASSUME NEW s \in Skills, UseSkill(s)
        PROVE  DebtInv'
    <3>1. debt = 0
      BY <2>4, UncommittedOwesNothing DEF UseSkill
    <3>2. action' \in Begun(s) /\ debt' = Effects(s)
      <4>1. Effects(s) \in Nat
        BY DEF Effects
      <4> QED
        BY <2>4, <3>1, <4>1 DEF UseSkill
    <3>3. ActionTyped'
      BY <3>2, BegunOwes DEF ActionTyped
    <3>4. Owed' = Effects(s)
      BY <3>2, BegunOwes DEF Owed, Casting
    <3> QED
      BY <3>2, <3>3, <3>4 DEF PaidEffectsHappen
  <2>5. ASSUME NEW s \in Skills, UseRefused(s)
        PROVE  DebtInv'
    <3>1. ~Committed /\ action' = Idle /\ debt' = debt
      BY <2>5 DEF UseRefused, Committed
    <3> QED
      BY <3>1, IdleOwesNothing, UncommittedOwesNothing DEF PaidEffectsHappen
  <2> QED
    BY <1>2, <2>1, <2>2, <2>3, <2>4, <2>5 DEF Command
<1>3. CASE AdvanceActions
  <2>1. CASE StepMove
    <3>1. ~Committed /\ debt' = debt /\ action' \in {action, Idle}
      BY <2>1 DEF StepMove, Committed
    <3>2. CASE action' = action
      BY <3>1, <3>2, <1>1
    <3>3. CASE action' = Idle
      BY <3>1, <3>3, IdleOwesNothing, UncommittedOwesNothing DEF PaidEffectsHappen
    <3> QED
      BY <3>1, <3>2, <3>3
  <2>2. CASE CountDown
    BY <2>2 DEF CountDown, ActionTyped, PaidEffectsHappen, Owed, Casting
  <2>3. CASE Fire
    <3>1. Casting /\ action.phase = "windup" /\ debt' = debt - 1
      BY <2>3 DEF Fire, Due
    <3>2. debt' = 0
      BY <3>1 DEF PaidEffectsHappen, Owed
    <3>3. CASE action' = Idle
      BY <3>2, <3>3, IdleOwesNothing DEF PaidEffectsHappen
    <3>4. CASE action' # Idle
      BY <2>3, <3>2, <3>4 DEF Fire, ActionTyped, PaidEffectsHappen, Owed, Casting
    <3> QED
      BY <3>3, <3>4
  <2>4. CASE Repeat
    <3>1. Casting /\ action.phase = "channel" /\ debt' = debt
      BY <2>4 DEF Repeat, Due
    <3>2. debt' = 0
      BY <3>1 DEF PaidEffectsHappen, Owed
    <3>3. CASE action' = Idle
      BY <3>2, <3>3, IdleOwesNothing DEF PaidEffectsHappen
    <3>4. CASE action' = [action EXCEPT !.left = action.tail]
      BY <3>1, <3>2, <3>4 DEF ActionTyped, PaidEffectsHappen, Owed, Casting
    <3> QED
      BY <2>4, <3>3, <3>4 DEF Repeat
  <2>5. CASE Recover
    <3>1. Casting /\ action.phase = "recovery" /\ debt' = debt /\ action' = Idle
      BY <2>5 DEF Recover, Due
    <3>2. debt' = 0
      BY <3>1 DEF PaidEffectsHappen, Owed
    <3> QED
      BY <3>1, <3>2, IdleOwesNothing DEF PaidEffectsHappen
  <2>6. CASE FireStage
    <3>1. Casting /\ action.phase = "staged" /\ debt' = debt - 1
      BY <2>6 DEF FireStage, Due
    <3>2. debt' = Len(action.more)
      BY <3>1 DEF PaidEffectsHappen, Owed, ActionTyped
    <3>3. CASE action.more = <<>>
      <4>1. action' = Idle /\ debt' = 0
        BY <2>6, <3>2, <3>3 DEF FireStage
      <4> QED
        BY <4>1, IdleOwesNothing DEF PaidEffectsHappen
    <3>4. CASE action.more # <<>>
      <4>1. action' = [action EXCEPT !.left = Head(action.more), !.more = Tail(action.more)]
        BY <2>6, <3>4 DEF FireStage
      <4>2. Tail(action.more) \in Seq(Durations) /\ Len(action.more) = 1 + Len(Tail(action.more))
        BY <3>4 DEF ActionTyped
      <4> QED
        BY <3>1, <3>2, <4>1, <4>2 DEF ActionTyped, PaidEffectsHappen, Owed, Casting
    <3> QED
      BY <3>3, <3>4
  <2> QED
    BY <1>3, <2>1, <2>2, <2>3, <2>4, <2>5, <2>6 DEF AdvanceActions
<1>4. CASE TryStun \/ Transfer
  <2>1. action' = Idle /\ debt' = 0
    BY <1>4 DEF TryStun, Transfer
  <2> QED
    BY <2>1, IdleOwesNothing DEF PaidEffectsHappen
<1>5. CASE Upkeep \/ CommandsEnd \/ TickEnds
  BY <1>5, <1>1 DEF Upkeep, CommandsEnd, TickEnds
<1>6. CASE UNCHANGED castingVars
  BY <1>6, <1>1 DEF castingVars
<1> QED
  BY <1>2, <1>3, <1>4, <1>5, <1>6 DEF CastingNext, Tick

(* What is paid for happens, and happens once (sim.go: applyCommands,      *)
(* skills.go: AdvanceActions): for any skills, costs and durations.        *)
THEOREM PaidIsDone == CastingSpec => []PaidEffectsHappen
<1>1. DebtInv => PaidEffectsHappen
  BY DEF DebtInv
<1> QED
  BY <1>1, DebtInit, DebtStep, PTL DEF CastingSpec

(***************************************************************************)
(* Stuns.  The ticks that were dropped and those still to drop make up one *)
(* lockout, and the ticks that were heard since make up for the immunity   *)
(* that has been counted down.                                             *)
(***************************************************************************)
StunInv ==
  /\ stun \in 0..(StunLock + StunImmune) /\ free \in 0..StunImmune
  /\ shut = IF Stunned THEN StunLock + StunImmune - stun ELSE 0
  /\ ~Stunned => free >= StunImmune - stun
  /\ stun = StunLock + StunImmune => free = StunImmune

LEMMA StunInit == CastingInit => StunInv
BY DEF CastingInit, StunInv, Stunned

LEMMA StunStep ==
  ASSUME StunInv, [CastingNext]_castingVars
  PROVE  StunInv'
<1> USE DEF StunInv, Stunned
<1>1. CASE Upkeep
  BY <1>1 DEF Upkeep
<1>2. CASE TryStun
  BY <1>2 DEF TryStun
<1>3. CASE Transfer
  BY <1>3 DEF Transfer
<1>4. CASE UNCHANGED <<stun, shut, free>>
  BY <1>4
<1>5. CASE Command
  BY <1>4, <1>5 DEF Command, Move, Stop, Bench, UseSkill, UseRefused
<1>6. CASE CommandsEnd \/ AdvanceActions \/ TickEnds
  BY <1>4, <1>6 DEF CommandsEnd, TickEnds, AdvanceActions, StepMove, CountDown, Fire, Repeat,
                    Recover, FireStage, Due, Advance
<1>7. CASE UNCHANGED castingVars
  BY <1>4, <1>7 DEF castingVars
<1> QED
  BY <1>1, <1>2, <1>3, <1>5, <1>6, <1>7 DEF CastingNext, Tick

(* Stuns do not chain (entity.go: TryStun), however long lockout and       *)
(* immunity are.                                                           *)
THEOREM StunsDoNotLock == CastingSpec => []NoStunLock
<1>1. StunInv => NoStunLock
  BY DEF StunInv, Stunned, NoStunLock
<1> QED
  BY <1>1, StunInit, StunStep, PTL DEF CastingSpec
=============================================================================
