--------------------------- MODULE StashBankProofs ---------------------------
(* Theorems about StashBank, for any items, accounts, characters and sizes. *)
EXTENDS StashBank, FiniteSetTheorems, TLAPS

USE StashAssumption

(* How a move changes the size of a bag, a stash or a roster. *)
LEMMA RoomForOne ==
  ASSUME NEW T, IsFiniteSet(T), NEW S \in SUBSET T, NEW x \in T, NEW n \in Nat
  PROVE  /\ Cardinality(S) < n => Cardinality(S \cup {x}) <= n
         /\ Cardinality(S) <= n => Cardinality(S \ {x}) <= n
<1>1. IsFiniteSet(S) /\ Cardinality(S) \in Nat
  BY FS_Subset, FS_CardinalityType
<1>2. Cardinality(S \cup {x}) = IF x \in S THEN Cardinality(S) ELSE Cardinality(S) + 1
  BY <1>1, FS_AddElement
<1>3. Cardinality(S \ {x}) = IF x \in S THEN Cardinality(S) - 1 ELSE Cardinality(S)
  BY <1>1, FS_RemoveElement
<1> QED
  BY <1>1, <1>2, <1>3

LEMMA SmallSizes == Cardinality({}) = 0 /\ \A x : Cardinality({x}) = 1
BY FS_EmptySet, FS_Singleton

(***************************************************************************)
(* Types and capacities.                                                   *)
(***************************************************************************)
Fits(accounts) ==
  \A p \in Players : /\ Cardinality(accounts.stash[p]) <= StashCap
                     /\ Cardinality(accounts.roster[p]) <= RosterCap
                     /\ \A ch \in Chars : Cardinality(accounts.slot[p][ch]) <= BagSize

TypeInv == TypeOK /\ Fits(file)

LEMMA TypesInit == Init => TypeInv
<1> SUFFICES ASSUME Init PROVE TypeInv
  OBVIOUS
<1>1. Typed
  <2>1. /\ playing \in [Players -> Chars \cup {None}] /\ active \in [Players -> Chars \cup {None}]
        /\ bag \in [Players -> SUBSET Items] /\ lastChar \in [Players -> SUBSET Items]
        /\ dropped \in [Players -> SUBSET Items]
    BY DEF Init, Nobodys
  <2>2. store \in Accounts /\ file \in Accounts /\ moves \in 0..MaxMoves
    BY DEF Init
  <2>3. minted \in SUBSET Items /\ ground \in SUBSET Items /\ twice \in SUBSET Items
    BY DEF Init
  <2> QED
    BY <2>1, <2>2, <2>3 DEF Init, Typed, Rank
<1>2. Fits(Loaded)
  BY DEF Lawful, Fits
<1>3. WithinCapacity
  BY <1>2, SmallSizes DEF Init, WithinCapacity, Fits, Nobodys
<1> QED
  BY <1>1, <1>2, <1>3 DEF TypeInv, TypeOK, Init

(* The parts of a store replaced, one at a time. *)
LEMMA NewSlot ==
  ASSUME NEW a \in Accounts, Fits(a), NEW p \in Players, NEW ch \in Chars,
         NEW S \in SUBSET Items, Cardinality(S) <= BagSize
  PROVE  [a EXCEPT !.slot[p][ch] = S] \in Accounts /\ Fits([a EXCEPT !.slot[p][ch] = S])
<1> DEFINE b == [a EXCEPT !.slot[p][ch] = S]
<1>1. b \in Accounts /\ b.stash = a.stash /\ b.roster = a.roster
  BY DEF Accounts
<1>2. ASSUME NEW q \in Players, NEW dh \in Chars
      PROVE  b.slot[q][dh] = a.slot[q][dh] \/ b.slot[q][dh] = S
  BY DEF Accounts
<1> HIDE DEF b
<1>3. Fits(b)
  BY <1>1, <1>2 DEF Fits
<1> QED
  BY <1>1, <1>3 DEF b

LEMMA NewStash ==
  ASSUME NEW a \in Accounts, Fits(a), NEW p \in Players,
         NEW S \in SUBSET Items, Cardinality(S) <= StashCap
  PROVE  [a EXCEPT !.stash[p] = S] \in Accounts /\ Fits([a EXCEPT !.stash[p] = S])
BY DEF Accounts, Fits

LEMMA NewRoster ==
  ASSUME NEW a \in Accounts, Fits(a), NEW p \in Players, NEW L \in SUBSET Players,
         NEW R \in SUBSET Chars, Cardinality(R) <= RosterCap
  PROVE  /\ [a EXCEPT !.roster[p] = R] \in Accounts /\ Fits([a EXCEPT !.roster[p] = R])
         /\ [a EXCEPT !.live = L, !.roster[p] = R] \in Accounts
         /\ Fits([a EXCEPT !.live = L, !.roster[p] = R])
BY DEF Accounts, Fits

LEMMA SlotGone ==
  ASSUME Typed, Fits(store), NEW p \in Players, NEW ch \in Chars
  PROVE  WithoutSlot(p, ch) \in Accounts /\ Fits(WithoutSlot(p, ch))
<1> DEFINE R == store.roster[p] \ {ch}
<1>1. R \in SUBSET Chars /\ store.roster[p] \in SUBSET Chars /\ store \in Accounts
  BY DEF Typed, Accounts
<1>2. Cardinality(R) <= RosterCap
  BY <1>1, RoomForOne DEF Fits
<1> HIDE DEF R
<1> DEFINE a == [store EXCEPT !.roster[p] = R]
<1>3. a \in Accounts /\ Fits(a)
  BY <1>1, <1>2, NewRoster
<1>4. WithoutSlot(p, ch) = [a EXCEPT !.slot[p][ch] = {}]
  BY <1>1 DEF WithoutSlot, Accounts, R
<1> HIDE DEF a
<1>5. {} \in SUBSET Items /\ Cardinality({}) <= BagSize
  BY SmallSizes
<1>6. [a EXCEPT !.slot[p][ch] = {}] \in Accounts /\ Fits([a EXCEPT !.slot[p][ch] = {}])
  BY <1>3, <1>5, NewSlot
<1> QED
  BY <1>4, <1>6

LEMMA AccountGone ==
  ASSUME Typed, Fits(store), NEW p \in Players, NEW ch \in Chars
  PROVE  /\ [WithoutSlot(p, ch) EXCEPT !.live = @ \ {p}, !.stash[p] = {}] \in Accounts
         /\ Fits([WithoutSlot(p, ch) EXCEPT !.live = @ \ {p}, !.stash[p] = {}])
<1>1. PICK a : a = WithoutSlot(p, ch)
  OBVIOUS
<1>2. a \in Accounts /\ Fits(a)
  BY <1>1, SlotGone
<1> DEFINE b == [a EXCEPT !.live = @ \ {p}, !.stash[p] = {}]
<1>3. /\ b.live = a.live \ {p} /\ b.roster = a.roster /\ b.slot = a.slot
      /\ b.stash = [a.stash EXCEPT ![p] = {}] /\ b \in Accounts
  BY <1>2 DEF Accounts
<1>4. a.stash \in [Players -> SUBSET Items]
  BY <1>2 DEF Accounts
<1> HIDE DEF b
<1>5. \A q \in Players : Cardinality(b.stash[q]) <= StashCap
  BY <1>2, <1>3, <1>4, SmallSizes DEF Fits
<1>6. Fits(b)
  BY <1>2, <1>3, <1>5 DEF Fits
<1> QED
  BY <1>1, <1>3, <1>6 DEF b

LEMMA SlotBanked ==
  ASSUME TypeInv, NEW p \in Players
  PROVE  BankedWith(p) \in Accounts /\ Fits(BankedWith(p))
<1>1. /\ Carried(p) \in SUBSET Items /\ Cardinality(Carried(p)) <= BagSize
      /\ store \in Accounts /\ Fits(store) /\ active[p] \in Chars \cup {None}
  BY DEF TypeInv, TypeOK, Typed, WithinCapacity, Fits, Carried
<1> QED
  BY <1>1, NewSlot DEF BankedWith

(* Every step leaves in the store what is well formed and fits. *)
LEMMA StoreStep ==
  ASSUME TypeInv, [Next]_vars
  PROVE  store' \in Accounts /\ Fits(store') /\ file' \in Accounts /\ Fits(file')
<1>0. /\ store \in Accounts /\ Fits(store) /\ file \in Accounts /\ Fits(file) /\ Typed
      /\ SaveLocked => file' = store' \/ file' = file
  BY DEF TypeInv, TypeOK, Typed, WithinCapacity, Fits, SaveLocked
<1> DEFINE Good == store' \in Accounts /\ Fits(store') /\ file' \in Accounts /\ Fits(file')
<1>a. ASSUME store' \in Accounts, Fits(store'), SaveLocked \/ file' = file
      PROVE  Good
  BY <1>0, <1>a
<1> HIDE DEF Good
<1>b. ASSUME UNCHANGED <<store, file>>
      PROVE  Good
  BY <1>0, <1>b DEF Good
<1>1. ASSUME NEW p \in Players, NEW ch \in Chars, Claim(p, ch)
      PROVE  Good
  <2>1. /\ store' = [store EXCEPT !.live = store.live \cup {p}, !.roster[p] = {ch}]
        /\ SaveLocked /\ store.live \cup {p} \in SUBSET Players
    BY <1>0, <1>1 DEF Claim, Accounts
  <2>2. {ch} \in SUBSET Chars /\ Cardinality({ch}) <= RosterCap
    BY SmallSizes
  <2>3. store' \in Accounts /\ Fits(store')
    BY <1>0, <2>1, <2>2, NewRoster
  <2> QED
    BY <1>a, <2>1, <2>3
<1>2. ASSUME NEW p \in Players, NEW ch \in Chars, AddChar(p, ch)
      PROVE  Good
  <2>1. /\ store' = [store EXCEPT !.roster[p] = store.roster[p] \cup {ch}]
        /\ SaveLocked /\ store.roster[p] \in SUBSET Chars /\ Cardinality(store.roster[p]) < RosterCap
    BY <1>0, <1>2 DEF AddChar, Accounts
  <2>2. Cardinality(store.roster[p] \cup {ch}) <= RosterCap
    BY <2>1, RoomForOne
  <2>3. store' \in Accounts /\ Fits(store')
    BY <1>0, <2>1, <2>2, NewRoster
  <2> QED
    BY <1>a, <2>1, <2>3
<1>3. ASSUME NEW p \in Players, NEW ch \in Chars, DeleteChar(p, ch)
      PROVE  Good
  <2>1. store' \in Accounts /\ Fits(store') /\ SaveLocked
    BY <1>0, <1>3, SlotGone, AccountGone DEF DeleteChar
  <2> QED
    BY <1>a, <2>1
<1>4. ASSUME NEW p \in Players, Leave(p)
      PROVE  Good
  <2>1. CASE p \in store.live
    BY <1>a, <1>4, <2>1, SlotBanked DEF Leave
  <2>2. CASE p \notin store.live
    BY <1>b, <1>4, <2>2 DEF Leave, storeVars
  <2> QED
    BY <2>1, <2>2
<1>5. ASSUME NEW p \in Players, FellInBattle(p)
      PROVE  Good
  <2>1. active[p] \in Chars /\ store' = WithoutSlot(p, active[p]) /\ SaveLocked
    BY <1>0, <1>5 DEF FellInBattle, Falls, Typed
  <2> QED
    BY <1>0, <1>a, <2>1, SlotGone
<1>6. ASSUME NEW p \in Players, BankLive(p)
      PROVE  Good
  BY <1>a, <1>6, SlotBanked DEF BankLive
<1>7. ASSUME NEW p \in Players, NEW x \in Items, StashPut(p, x)
      PROVE  Good
  <2>1. /\ store' = [store EXCEPT !.stash[p] = store.stash[p] \cup {x}] /\ file' = file
        /\ store.stash[p] \in SUBSET Items /\ Cardinality(store.stash[p]) < StashCap
    BY <1>0, <1>7 DEF StashPut, Accounts
  <2>2. Cardinality(store.stash[p] \cup {x}) <= StashCap
    BY <2>1, RoomForOne
  <2>3. store' \in Accounts /\ Fits(store')
    BY <1>0, <2>1, <2>2, NewStash
  <2> QED
    BY <1>a, <2>1, <2>3
<1>8. ASSUME NEW p \in Players, NEW x \in Items, StashTake(p, x)
      PROVE  Good
  <2>1. /\ store' = [store EXCEPT !.stash[p] = store.stash[p] \ {x}] /\ file' = file
        /\ store.stash[p] \in SUBSET Items /\ Cardinality(store.stash[p]) <= StashCap
    BY <1>0, <1>8 DEF StashTake, Accounts, Fits
  <2>2. Cardinality(store.stash[p] \ {x}) <= StashCap
    BY <2>1, RoomForOne
  <2>3. store' \in Accounts /\ Fits(store')
    BY <1>0, <2>1, <2>2, NewStash
  <2> QED
    BY <1>a, <2>1, <2>3
<1>9. ASSUME Save \/ Crash PROVE Good
  BY <1>0, <1>9 DEF Save, Crash, Good
<1>10. ASSUME NEW p \in Players, NEW ch \in Chars, Connect(p, ch)
       PROVE  Good
  BY <1>b, <1>10 DEF Connect
<1>11. ASSUME NEW p \in Players, Join(p) \/ Dies(p)
       PROVE  Good
  BY <1>b, <1>11 DEF Join, Dies, storeVars
<1>12. ASSUME NEW p \in Players, NEW x \in Items, Pickup(p, x) \/ DropItem(p, x)
       PROVE  Good
  BY <1>b, <1>12 DEF Pickup, DropItem, storeVars
<1>13. ASSUME NEW x \in Items, Loot(x)
       PROVE  Good
  BY <1>b, <1>13 DEF Loot, storeVars
<1>14. ASSUME RunTick PROVE Good
  BY <1>b, <1>14 DEF RunTick, storeVars
<1>15. ASSUME UNCHANGED vars PROVE Good
  BY <1>b, <1>15 DEF vars, storeVars
<1>16. Good
  BY <1>1, <1>2, <1>3, <1>4, <1>5, <1>6, <1>7, <1>8, <1>9, <1>10, <1>11, <1>12, <1>13, <1>14,
     <1>15 DEF Next
<1> QED
  BY <1>16 DEF Good

LEMMA TypedStep ==
  ASSUME TypeInv, [Next]_vars
  PROVE  Typed'
<1> DEFINE World == /\ phase \in {"idle", "commands", "fight", "stash", "run"}
                    /\ floor \in {"hideout", "dungeon"}
                    /\ minted \in SUBSET Items /\ ground \in SUBSET Items /\ twice \in SUBSET Items
                    /\ dropped \in [Players -> SUBSET Items]
                    /\ spawned \in SUBSET Players /\ ghosts \in SUBSET Players
                    /\ dead \in SUBSET Players
                    /\ bag \in [Players -> SUBSET Items]
           Sessions == /\ playing \in [Players -> Chars \cup {None}]
                       /\ active \in [Players -> Chars \cup {None}]
                       /\ lastChar \in [Players -> SUBSET Items]
           Count == moves \in 0..MaxMoves
           Flags == dirty \in BOOLEAN /\ crashed \in BOOLEAN
<1>0. /\ World /\ Sessions /\ Count /\ Flags
      /\ \A p \in Players, ch \in Chars : store.slot[p][ch] \in SUBSET Items
  BY DEF TypeInv, TypeOK, Typed, Rank, Accounts
<1>00. /\ UNCHANGED worldVars => UNCHANGED <<floor, minted, ground, dropped, twice, spawned, ghosts, dead, bag>>
       /\ UNCHANGED sessionVars => UNCHANGED <<playing, active, lastChar>>
       /\ UNCHANGED storeVars => UNCHANGED <<store, file, dirty>>
  BY DEF worldVars, sessionVars, storeVars
<1>1. ASSUME NEW p \in Players, NEW ch \in Chars, Claim(p, ch)
      PROVE  World' /\ Sessions' /\ Count' /\ Flags'
  <2>1. World'
    BY <1>0, <1>00, <1>1 DEF Claim
  <2>2. Sessions'
    BY <1>0, <1>00, <1>1 DEF Claim
  <2>3. Count'
    BY <1>0, <1>00, <1>1 DEF Claim, Counted
  <2>4. Flags'
    BY <1>0, <1>00, <1>1 DEF Claim, SaveLocked
  <2> QED
    BY <2>1, <2>2, <2>3, <2>4
<1>2. ASSUME NEW p \in Players, NEW ch \in Chars, AddChar(p, ch)
      PROVE  World' /\ Sessions' /\ Count' /\ Flags'
  <2>1. World'
    BY <1>0, <1>00, <1>2 DEF AddChar
  <2>2. Sessions'
    BY <1>0, <1>00, <1>2 DEF AddChar
  <2>3. Count'
    BY <1>0, <1>00, <1>2 DEF AddChar, Counted
  <2>4. Flags'
    BY <1>0, <1>00, <1>2 DEF AddChar, SaveLocked
  <2> QED
    BY <2>1, <2>2, <2>3, <2>4
<1>3. ASSUME NEW p \in Players, NEW ch \in Chars, DeleteChar(p, ch)
      PROVE  World' /\ Sessions' /\ Count' /\ Flags'
  <2>1. World'
    BY <1>0, <1>00, <1>3 DEF DeleteChar
  <2>2. Sessions'
    BY <1>0, <1>00, <1>3 DEF DeleteChar, NotInPlay
  <2>3. Count'
    BY <1>0, <1>00, <1>3 DEF DeleteChar, Counted
  <2>4. Flags'
    BY <1>0, <1>00, <1>3 DEF DeleteChar, SaveLocked
  <2> QED
    BY <2>1, <2>2, <2>3, <2>4
<1>4. ASSUME NEW p \in Players, NEW ch \in Chars, Connect(p, ch)
      PROVE  World' /\ Sessions' /\ Count' /\ Flags'
  <2>1. World'
    BY <1>0, <1>00, <1>4 DEF Connect
  <2>2. Sessions'
    BY <1>0, <1>00, <1>4 DEF Connect
  <2>3. Count'
    BY <1>0, <1>00, <1>4 DEF Connect
  <2>4. Flags'
    BY <1>0, <1>00, <1>4 DEF Connect
  <2> QED
    BY <2>1, <2>2, <2>3, <2>4
<1>5. ASSUME NEW p \in Players, Join(p)
      PROVE  World' /\ Sessions' /\ Count' /\ Flags'
  <2>1. World'
    BY <1>0, <1>00, <1>5 DEF Join
  <2>2. Sessions'
    BY <1>0, <1>00, <1>5 DEF Join
  <2>3. Count'
    BY <1>0, <1>00, <1>5 DEF Join
  <2>4. Flags'
    BY <1>0, <1>00, <1>5 DEF Join
  <2> QED
    BY <2>1, <2>2, <2>3, <2>4
<1>6. ASSUME NEW p \in Players, Leave(p)
      PROVE  World' /\ Sessions' /\ Count' /\ Flags'
  <2>1. World'
    BY <1>0, <1>00, <1>6 DEF Leave
  <2>2. Sessions'
    BY <1>0, <1>00, <1>6 DEF Leave
  <2>3. Count'
    BY <1>0, <1>00, <1>6 DEF Leave, Counted
  <2>4. Flags'
    BY <1>0, <1>00, <1>6 DEF Leave, SaveLocked
  <2> QED
    BY <2>1, <2>2, <2>3, <2>4
<1>7. ASSUME NEW p \in Players, Dies(p)
      PROVE  World' /\ Sessions' /\ Count' /\ Flags'
  <2>1. World'
    BY <1>0, <1>00, <1>7 DEF Dies, Reaches
  <2>2. Sessions'
    BY <1>0, <1>00, <1>7 DEF Dies
  <2>3. Count'
    BY <1>0, <1>00, <1>7 DEF Dies
  <2>4. Flags'
    BY <1>0, <1>00, <1>7 DEF Dies
  <2> QED
    BY <2>1, <2>2, <2>3, <2>4
<1>8. ASSUME NEW p \in Players, FellInBattle(p)
      PROVE  World' /\ Sessions' /\ Count' /\ Flags'
  <2>1. World'
    BY <1>0, <1>00, <1>8 DEF FellInBattle, Reaches
  <2>2. Sessions'
    BY <1>0, <1>00, <1>8 DEF FellInBattle, NotInPlay
  <2>3. Count'
    BY <1>0, <1>00, <1>8 DEF FellInBattle
  <2>4. Flags'
    BY <1>0, <1>00, <1>8 DEF FellInBattle, SaveLocked
  <2> QED
    BY <2>1, <2>2, <2>3, <2>4
<1>9. ASSUME NEW p \in Players, BankLive(p)
      PROVE  World' /\ Sessions' /\ Count' /\ Flags'
  <2>1. World'
    BY <1>0, <1>00, <1>9 DEF BankLive
  <2>2. Sessions'
    BY <1>0, <1>00, <1>9 DEF BankLive
  <2>3. Count'
    BY <1>0, <1>00, <1>9 DEF BankLive
  <2>4. Flags'
    BY <1>0, <1>00, <1>9 DEF BankLive
  <2> QED
    BY <2>1, <2>2, <2>3, <2>4
<1>10. ASSUME NEW p \in Players, NEW x \in Items, Pickup(p, x)
      PROVE  World' /\ Sessions' /\ Count' /\ Flags'
  <2>1. World'
    BY <1>0, <1>00, <1>10 DEF Pickup, Acting, Reaches
  <2>2. Sessions'
    BY <1>0, <1>00, <1>10 DEF Pickup
  <2>3. Count'
    BY <1>0, <1>00, <1>10 DEF Pickup, Counted
  <2>4. Flags'
    BY <1>0, <1>00, <1>10 DEF Pickup
  <2> QED
    BY <2>1, <2>2, <2>3, <2>4
<1>11. ASSUME NEW p \in Players, NEW x \in Items, DropItem(p, x)
      PROVE  World' /\ Sessions' /\ Count' /\ Flags'
  <2>1. World'
    BY <1>0, <1>00, <1>11 DEF DropItem, Acting, Reaches
  <2>2. Sessions'
    BY <1>0, <1>00, <1>11 DEF DropItem
  <2>3. Count'
    BY <1>0, <1>00, <1>11 DEF DropItem, Counted
  <2>4. Flags'
    BY <1>0, <1>00, <1>11 DEF DropItem
  <2> QED
    BY <2>1, <2>2, <2>3, <2>4
<1>12. ASSUME NEW p \in Players, NEW x \in Items, StashPut(p, x)
      PROVE  World' /\ Sessions' /\ Count' /\ Flags'
  <2>1. World'
    BY <1>0, <1>00, <1>12 DEF StashPut, Stashing, Reaches
  <2>2. Sessions'
    BY <1>0, <1>00, <1>12 DEF StashPut
  <2>3. Count'
    BY <1>0, <1>00, <1>12 DEF StashPut, Counted
  <2>4. Flags'
    BY <1>0, <1>00, <1>12 DEF StashPut
  <2> QED
    BY <2>1, <2>2, <2>3, <2>4
<1>13. ASSUME NEW p \in Players, NEW x \in Items, StashTake(p, x)
      PROVE  World' /\ Sessions' /\ Count' /\ Flags'
  <2>1. World'
    BY <1>0, <1>00, <1>13 DEF StashTake, Stashing, Reaches
  <2>2. Sessions'
    BY <1>0, <1>00, <1>13 DEF StashTake
  <2>3. Count'
    BY <1>0, <1>00, <1>13 DEF StashTake, Counted
  <2>4. Flags'
    BY <1>0, <1>00, <1>13 DEF StashTake
  <2> QED
    BY <2>1, <2>2, <2>3, <2>4
<1>14. ASSUME NEW x \in Items, Loot(x)
      PROVE  World' /\ Sessions' /\ Count' /\ Flags'
  <2>1. World'
    BY <1>0, <1>00, <1>14 DEF Loot, Reaches
  <2>2. Sessions'
    BY <1>0, <1>00, <1>14 DEF Loot
  <2>3. Count'
    BY <1>0, <1>00, <1>14 DEF Loot
  <2>4. Flags'
    BY <1>0, <1>00, <1>14 DEF Loot
  <2> QED
    BY <2>1, <2>2, <2>3, <2>4
<1>15. ASSUME RunTick
      PROVE  World' /\ Sessions' /\ Count' /\ Flags'
  <2>1. World'
    BY <1>0, <1>00, <1>15 DEF RunTick, KeepWorld, SwapWorld, BuildFails, Freshest, BroughtBack, Nobodys
  <2>2. Sessions'
    BY <1>0, <1>00, <1>15 DEF RunTick, Freshest, Nobodys
  <2>3. Count'
    BY <1>0, <1>00, <1>15 DEF RunTick
  <2>4. Flags'
    BY <1>0, <1>00, <1>15 DEF RunTick
  <2> QED
    BY <2>1, <2>2, <2>3, <2>4
<1>16. ASSUME Save
      PROVE  World' /\ Sessions' /\ Count' /\ Flags'
  <2>1. World'
    BY <1>0, <1>00, <1>16 DEF Save
  <2>2. Sessions'
    BY <1>0, <1>00, <1>16 DEF Save
  <2>3. Count'
    BY <1>0, <1>00, <1>16 DEF Save
  <2>4. Flags'
    BY <1>0, <1>00, <1>16 DEF Save
  <2> QED
    BY <2>1, <2>2, <2>3, <2>4
<1>17. ASSUME Crash
      PROVE  World' /\ Sessions' /\ Count' /\ Flags'
  <2>1. World'
    BY <1>0, <1>00, <1>17 DEF Crash, Nobodys
  <2>2. Sessions'
    BY <1>0, <1>00, <1>17 DEF Crash, Nobodys
  <2>3. Count'
    BY <1>0, <1>00, <1>17 DEF Crash, Counted
  <2>4. Flags'
    BY <1>0, <1>00, <1>17 DEF Crash
  <2> QED
    BY <2>1, <2>2, <2>3, <2>4
<1>18. ASSUME UNCHANGED vars
      PROVE  World' /\ Sessions' /\ Count' /\ Flags'
  <2>1. World'
    BY <1>0, <1>00, <1>18 DEF vars
  <2>2. Sessions'
    BY <1>0, <1>00, <1>18 DEF vars
  <2>3. Count'
    BY <1>0, <1>00, <1>18 DEF vars
  <2>4. Flags'
    BY <1>0, <1>00, <1>18 DEF vars
  <2> QED
    BY <2>1, <2>2, <2>3, <2>4
<1> HIDE DEF World, Sessions, Count, Flags
<1>19. World' /\ Sessions' /\ Count' /\ Flags'
  BY <1>1, <1>2, <1>3, <1>4, <1>5, <1>6, <1>7, <1>8, <1>9, <1>10, <1>11, <1>12, <1>13, <1>14, <1>15, <1>16, <1>17, <1>18 DEF Next
<1> QED
  BY <1>19, StoreStep DEF Typed, World, Sessions, Count, Flags, Rank

(* The bags, and the copies they come back from. *)
BagsFit == \A p \in Players : Cardinality(bag[p]) <= BagSize /\ Cardinality(lastChar[p]) <= BagSize

LEMMA BagsStep ==
  ASSUME TypeInv, [Next]_vars
  PROVE  BagsFit'
<1>0. /\ BagsFit /\ bag \in [Players -> SUBSET Items] /\ lastChar \in [Players -> SUBSET Items]
      /\ \A p \in Players, ch \in Chars : Cardinality(store.slot[p][ch]) <= BagSize
  BY DEF TypeInv, TypeOK, Typed, WithinCapacity, BagsFit
<1>00. Cardinality({}) <= BagSize
  BY SmallSizes
<1>a. ASSUME UNCHANGED <<bag, lastChar>>
      PROVE  BagsFit'
  BY <1>0, <1>a DEF BagsFit
<1>b. ASSUME NEW p \in Players, NEW S, Cardinality(S) <= BagSize, bag' = [bag EXCEPT ![p] = S],
             lastChar' = lastChar
      PROVE  BagsFit'
  BY <1>0, <1>b DEF BagsFit
<1>1. ASSUME NEW p \in Players, NEW ch \in Chars, Claim(p, ch) \/ AddChar(p, ch) \/ DeleteChar(p, ch)
      PROVE  BagsFit'
  BY <1>a, <1>1 DEF Claim, AddChar, DeleteChar, worldVars, sessionVars
<1>2. ASSUME NEW p \in Players, NEW ch \in Chars, Connect(p, ch)
      PROVE  BagsFit'
  BY <1>0, <1>2 DEF Connect, worldVars, BagsFit
<1>3. ASSUME NEW p \in Players, Join(p)
      PROVE  BagsFit'
  BY <1>0, <1>3 DEF Join, sessionVars, BagsFit
<1>4. ASSUME NEW p \in Players, Leave(p)
      PROVE  BagsFit'
  BY <1>0, <1>00, <1>4 DEF Leave, BagsFit
<1>5. ASSUME NEW p \in Players, Dies(p) \/ FellInBattle(p) \/ BankLive(p)
      PROVE  BagsFit'
  BY <1>a, <1>5 DEF Dies, FellInBattle, BankLive, worldVars, sessionVars
<1>6. ASSUME NEW p \in Players, NEW x \in Items, Pickup(p, x)
      PROVE  BagsFit'
  <2>1. bag' = [bag EXCEPT ![p] = bag[p] \cup {x}] /\ Cardinality(bag[p]) < BagSize /\ lastChar' = lastChar
    BY <1>0, <1>6 DEF Pickup, sessionVars
  <2>2. Cardinality(bag[p] \cup {x}) <= BagSize
    BY <1>0, <2>1, RoomForOne
  <2> QED
    BY <1>b, <2>1, <2>2
<1>7. ASSUME NEW p \in Players, NEW x \in Items, StashTake(p, x)
      PROVE  BagsFit'
  <2>1. bag' = [bag EXCEPT ![p] = bag[p] \cup {x}] /\ Cardinality(bag[p]) < BagSize /\ lastChar' = lastChar
    BY <1>0, <1>7 DEF StashTake, sessionVars
  <2>2. Cardinality(bag[p] \cup {x}) <= BagSize
    BY <1>0, <2>1, RoomForOne
  <2> QED
    BY <1>b, <2>1, <2>2
<1>8. ASSUME NEW p \in Players, NEW x \in Items, DropItem(p, x) \/ StashPut(p, x)
      PROVE  BagsFit'
  <2>1. bag' = [bag EXCEPT ![p] = bag[p] \ {x}] /\ Cardinality(bag[p]) <= BagSize /\ lastChar' = lastChar
    BY <1>0, <1>8 DEF DropItem, StashPut, sessionVars, BagsFit
  <2>2. Cardinality(bag[p] \ {x}) <= BagSize
    BY <1>0, <2>1, RoomForOne
  <2> QED
    BY <1>b, <2>1, <2>2
<1>9. ASSUME NEW x \in Items, Loot(x)
      PROVE  BagsFit'
  BY <1>a, <1>9 DEF Loot, sessionVars
<1>10. ASSUME RunTick
       PROVE  BagsFit'
  <2>1. \A p \in Players : Cardinality(Freshest(p)) <= BagSize
    BY <1>0 DEF Freshest, BagsFit
  <2>2. \A p \in Players : bag'[p] = bag[p] \/ bag'[p] = Freshest(p) \/ bag'[p] = {}
    BY <1>10 DEF RunTick, KeepWorld, SwapWorld, BuildFails
  <2>3. lastChar' = [p \in Players |-> Freshest(p)]
    BY <1>10 DEF RunTick
  <2>4. ASSUME NEW p \in Players
        PROVE  Cardinality(bag'[p]) <= BagSize /\ Cardinality(lastChar'[p]) <= BagSize
    BY <1>0, <1>00, <2>1, <2>2, <2>3 DEF BagsFit
  <2> QED
    BY <2>4 DEF BagsFit
<1>11. ASSUME Save \/ UNCHANGED vars
       PROVE  BagsFit'
  BY <1>a, <1>11 DEF Save, vars, worldVars, sessionVars
<1>12. ASSUME Crash
       PROVE  BagsFit'
  BY <1>00, <1>12 DEF Crash, Nobodys, BagsFit
<1> QED
  BY <1>1, <1>2, <1>3, <1>4, <1>5, <1>6, <1>7, <1>8, <1>9, <1>10, <1>11, <1>12 DEF Next

LEMMA TypeStep == TypeInv /\ [Next]_vars => TypeInv'
<1> SUFFICES ASSUME TypeInv, [Next]_vars PROVE TypeInv'
  OBVIOUS
<1>1. Typed' /\ Fits(store') /\ Fits(file') /\ BagsFit'
  BY TypedStep, StoreStep, BagsStep
<1> QED
  BY <1>1 DEF TypeInv, TypeOK, WithinCapacity, BagsFit, Fits

(* Every variable keeps its type, and no bag, no stash, no roster and no   *)
(* banked character is ever over its size (stash.go: processStash;         *)
(* identity.go: AddChar, Connect, Disconnect; server.go: removeClient,     *)
(* spawnClient; descent.go: swapWorld), through crashes too.               *)
THEOREM TypeCorrect == Spec => []TypeOK
<1>1. TypeInv => TypeOK
  BY DEF TypeInv
<1> QED
  BY <1>1, TypesInit, TypeStep, PTL DEF Spec

(* A change of an account that is not on disk is marked: the file is the   *)
(* store whenever the store is clean (identity.go: saveLocked, SaveIfDue). *)
THEOREM CleanIsCurrent == Spec => []CleanFileIsCurrent
<1>1. Init => CleanFileIsCurrent
  BY DEF Init, CleanFileIsCurrent
<1>2. CleanFileIsCurrent /\ [Next]_vars => CleanFileIsCurrent'
  <2> SUFFICES ASSUME CleanFileIsCurrent, [Next]_vars PROVE CleanFileIsCurrent'
    OBVIOUS
  <2>0. SaveLocked => CleanFileIsCurrent'
    BY DEF SaveLocked, CleanFileIsCurrent
  <2>1. dirty' => CleanFileIsCurrent'
    BY DEF CleanFileIsCurrent
  <2>2. UNCHANGED storeVars => CleanFileIsCurrent'
    BY DEF CleanFileIsCurrent, storeVars
  <2>3. ASSUME NEW p \in Players, NEW ch \in Chars,
               Claim(p, ch) \/ AddChar(p, ch) \/ DeleteChar(p, ch) \/ Connect(p, ch)
        PROVE  CleanFileIsCurrent'
    BY <2>0, <2>1, <2>3 DEF Claim, AddChar, DeleteChar, Connect
  <2>4. ASSUME NEW p \in Players, Join(p) \/ Leave(p) \/ Dies(p) \/ FellInBattle(p) \/ BankLive(p)
        PROVE  CleanFileIsCurrent'
    BY <2>0, <2>1, <2>2, <2>4 DEF Join, Leave, Dies, FellInBattle, BankLive
  <2>5. ASSUME NEW p \in Players, NEW x \in Items,
               Pickup(p, x) \/ DropItem(p, x) \/ StashPut(p, x) \/ StashTake(p, x)
        PROVE  CleanFileIsCurrent'
    BY <2>1, <2>2, <2>5 DEF Pickup, DropItem, StashPut, StashTake
  <2>6. ASSUME NEW x \in Items, Loot(x)
        PROVE  CleanFileIsCurrent'
    BY <2>2, <2>6 DEF Loot
  <2>7. ASSUME RunTick
        PROVE  CleanFileIsCurrent'
    BY <2>2, <2>7 DEF RunTick
  <2>8. ASSUME Save \/ Crash \/ UNCHANGED vars
        PROVE  CleanFileIsCurrent'
    BY <2>2, <2>8 DEF Save, Crash, vars, CleanFileIsCurrent
  <2> QED
    BY <2>3, <2>4, <2>5, <2>6, <2>7, <2>8 DEF Next
<1> QED
  BY <1>1, <1>2, PTL DEF Spec

(***************************************************************************)
(* Who sits where.  Who has no session has no actor, no copy and no slot   *)
(* in play; a slot in play is on a roster; between ticks nobody is dead    *)
(* and every copy is what its actor carries.  This survives a crash.       *)
(***************************************************************************)
InWorld ==
  /\ dead \subseteq spawned /\ ghosts \cap spawned = {}
  /\ dead # {} => floor = "dungeon"
  /\ \A p \in Players : p \notin spawned => bag[p] = {}

InSession ==
  \A p \in Players : /\ p \in spawned \cup ghosts => playing[p] # None
                     /\ playing[p] = None => lastChar[p] = {} /\ active[p] = None

InPlay == \A p \in Players : active[p] # None => p \in store.live /\ active[p] \in store.roster[p]

Settled == phase = "idle" => /\ dead = {} /\ dropped = Nobodys
                             /\ \A p \in spawned : lastChar[p] = bag[p]

Sitting == InWorld /\ InSession /\ InPlay /\ Settled

LEMMA Phases ==
  /\ Rank["idle"] = 0 /\ Rank["commands"] = 1 /\ Rank["fight"] = 2 /\ Rank["stash"] = 3
  /\ Rank["run"] = 4
  /\ DOMAIN Rank = {"idle", "commands", "fight", "stash", "run"}
BY DEF Rank

LEMMA SittingInit == Init => Sitting
BY DEF Init, Sitting, InWorld, InSession, InPlay, Settled, Nobodys

LEMMA SittingStep ==
  ASSUME Typed, Sitting, [Next]_vars
  PROVE  Sitting'
<1>0. /\ UNCHANGED worldVars => UNCHANGED <<floor, minted, ground, dropped, twice, spawned, ghosts, dead, bag>>
      /\ UNCHANGED sessionVars => UNCHANGED <<playing, active, lastChar>>
      /\ UNCHANGED storeVars => UNCHANGED <<store, file, dirty>>
  BY DEF worldVars, sessionVars, storeVars
<1>00. /\ InWorld /\ InSession /\ InPlay /\ Settled
       /\ dropped \in [Players -> SUBSET Items]
       /\ playing \in [Players -> Chars \cup {None}] /\ active \in [Players -> Chars \cup {None}]
       /\ spawned \in SUBSET Players /\ ghosts \in SUBSET Players /\ dead \in SUBSET Players
       /\ bag \in [Players -> SUBSET Items] /\ lastChar \in [Players -> SUBSET Items]
       /\ store \in [live : SUBSET Players, roster : [Players -> SUBSET Chars],
                     stash : [Players -> SUBSET Items], slot : [Players -> [Chars -> SUBSET Items]]]
  BY DEF Typed, Sitting, Accounts
<1>000. phase \in {"idle", "commands", "fight", "stash", "run"}
  BY Phases DEF Typed
<1>1. ASSUME NEW p \in Players, NEW ch \in Chars, Claim(p, ch)
      PROVE  Sitting'
  <2>1. InWorld'
    BY <1>0, <1>00, <1>1 DEF Claim, Counted, InWorld
  <2>2. InSession'
    BY <1>0, <1>00, <1>1 DEF Claim, Counted, InSession, InWorld, InPlay
  <2>3. InPlay'
    BY <1>0, <1>00, <1>1 DEF Claim, Counted, InPlay, InSession
  <2>4. Settled'
    BY <1>0, <1>00, <1>1 DEF Claim, Counted, Settled, InWorld
  <2> QED
    BY <2>1, <2>2, <2>3, <2>4 DEF Sitting
<1>2. ASSUME NEW p \in Players, NEW ch \in Chars, AddChar(p, ch)
      PROVE  Sitting'
  <2>1. InWorld'
    BY <1>0, <1>00, <1>2 DEF AddChar, Counted, InWorld
  <2>2. InSession'
    BY <1>0, <1>00, <1>2 DEF AddChar, Counted, InSession, InWorld, InPlay
  <2>3. InPlay'
    BY <1>0, <1>00, <1>2 DEF AddChar, Counted, InPlay, InSession
  <2>4. Settled'
    BY <1>0, <1>00, <1>2 DEF AddChar, Counted, Settled, InWorld
  <2> QED
    BY <2>1, <2>2, <2>3, <2>4 DEF Sitting
<1>3. ASSUME NEW p \in Players, NEW ch \in Chars, DeleteChar(p, ch)
      PROVE  Sitting'
  <2>1. InWorld'
    BY <1>0, <1>00, <1>3 DEF DeleteChar, Counted, NotInPlay, WithoutSlot, InWorld
  <2>2. InSession'
    BY <1>0, <1>00, <1>3 DEF DeleteChar, Counted, NotInPlay, WithoutSlot, InSession, InWorld, InPlay
  <2>3. InPlay'
    BY <1>0, <1>00, <1>3 DEF DeleteChar, Counted, NotInPlay, WithoutSlot, InPlay, InSession
  <2>4. Settled'
    BY <1>0, <1>00, <1>3 DEF DeleteChar, Counted, NotInPlay, WithoutSlot, Settled, InWorld
  <2> QED
    BY <2>1, <2>2, <2>3, <2>4 DEF Sitting
<1>4. ASSUME NEW p \in Players, NEW ch \in Chars, Connect(p, ch)
      PROVE  Sitting'
  <2>1. InWorld'
    BY <1>0, <1>00, <1>4 DEF Connect, InWorld
  <2>2. InSession'
    BY <1>0, <1>00, <1>4 DEF Connect, InSession, InWorld, InPlay
  <2>3. InPlay'
    BY <1>0, <1>00, <1>4 DEF Connect, InPlay, InSession
  <2>4. Settled'
    BY <1>0, <1>00, <1>4 DEF Connect, Settled, InWorld, InSession
  <2> QED
    BY <2>1, <2>2, <2>3, <2>4 DEF Sitting
<1>5. ASSUME NEW p \in Players, Join(p)
      PROVE  Sitting'
  <2>1. InWorld'
    BY <1>0, <1>00, <1>5 DEF Join, Waiting, InWorld
  <2>2. InSession'
    BY <1>0, <1>00, <1>5 DEF Join, Waiting, InSession, InWorld, InPlay
  <2>3. InPlay'
    BY <1>0, <1>00, <1>5 DEF Join, Waiting, InPlay, InSession
  <2>4. Settled'
    BY <1>0, <1>00, <1>5 DEF Join, Waiting, Settled, InWorld
  <2> QED
    BY <2>1, <2>2, <2>3, <2>4 DEF Sitting
<1>6. ASSUME NEW p \in Players, Leave(p)
      PROVE  Sitting'
  <2>1. InWorld'
    BY <1>0, <1>00, <1>6 DEF Leave, BankedWith, InWorld, Settled
  <2>2. InSession'
    BY <1>0, <1>00, <1>6 DEF Leave, BankedWith, InSession, InWorld, InPlay
  <2>3. InPlay'
    BY <1>0, <1>00, <1>6 DEF Leave, BankedWith, InPlay, InSession
  <2>4. Settled'
    BY <1>0, <1>00, <1>6 DEF Leave, BankedWith, Settled, InWorld
  <2> QED
    BY <2>1, <2>2, <2>3, <2>4 DEF Sitting
<1>7. ASSUME NEW p \in Players, Dies(p)
      PROVE  Sitting'
  <2>1. InWorld'
    BY <1>0, <1>00, <1>7 DEF Dies, Reaches, InWorld
  <2>2. InSession'
    BY <1>0, <1>00, <1>7 DEF Dies, Reaches, InSession, InWorld, InPlay
  <2>3. InPlay'
    BY <1>0, <1>00, <1>7 DEF Dies, Reaches, InPlay, InSession
  <2>4. Settled'
    BY <1>0, <1>00, <1>000, Phases, <1>7 DEF Dies, Reaches, Settled, InWorld
  <2> QED
    BY <2>1, <2>2, <2>3, <2>4 DEF Sitting
<1>8. ASSUME NEW p \in Players, FellInBattle(p)
      PROVE  Sitting'
  <2>1. InWorld'
    BY <1>0, <1>00, <1>8 DEF FellInBattle, Falls, Reaches, NotInPlay, WithoutSlot, InWorld
  <2>2. InSession'
    BY <1>0, <1>00, <1>8 DEF FellInBattle, Falls, Reaches, NotInPlay, WithoutSlot, InSession, InWorld, InPlay
  <2>3. InPlay'
    BY <1>0, <1>00, <1>8 DEF FellInBattle, Falls, Reaches, NotInPlay, WithoutSlot, InPlay, InSession
  <2>4. Settled'
    BY <1>0, <1>00, <1>000, Phases, <1>8 DEF FellInBattle, Falls, Reaches, NotInPlay, WithoutSlot, Settled, InWorld
  <2> QED
    BY <2>1, <2>2, <2>3, <2>4 DEF Sitting
<1>9. ASSUME NEW p \in Players, BankLive(p)
      PROVE  Sitting'
  <2>1. InWorld'
    BY <1>0, <1>00, <1>9 DEF BankLive, BankedWith, InWorld
  <2>2. InSession'
    BY <1>0, <1>00, <1>9 DEF BankLive, BankedWith, InSession, InWorld, InPlay
  <2>3. InPlay'
    BY <1>0, <1>00, <1>9 DEF BankLive, BankedWith, InPlay, InSession
  <2>4. Settled'
    BY <1>0, <1>00, <1>9 DEF BankLive, BankedWith, Settled, InWorld
  <2> QED
    BY <2>1, <2>2, <2>3, <2>4 DEF Sitting
<1>10. ASSUME NEW p \in Players, NEW y \in Items, Pickup(p, y)
      PROVE  Sitting'
  <2>1. InWorld'
    BY <1>0, <1>00, <1>10 DEF Pickup, Acting, Reaches, InWorld
  <2>2. InSession'
    BY <1>0, <1>00, <1>10 DEF Pickup, Acting, Reaches, InSession, InWorld, InPlay
  <2>3. InPlay'
    BY <1>0, <1>00, <1>10 DEF Pickup, Acting, Reaches, InPlay, InSession
  <2>4. Settled'
    BY <1>0, <1>00, <1>000, Phases, <1>10 DEF Pickup, Acting, Reaches, Settled, InWorld
  <2> QED
    BY <2>1, <2>2, <2>3, <2>4 DEF Sitting
<1>11. ASSUME NEW p \in Players, NEW y \in Items, DropItem(p, y)
      PROVE  Sitting'
  <2>1. InWorld'
    BY <1>0, <1>00, <1>11 DEF DropItem, Acting, Reaches, InWorld
  <2>2. InSession'
    BY <1>0, <1>00, <1>11 DEF DropItem, Acting, Reaches, InSession, InWorld, InPlay
  <2>3. InPlay'
    BY <1>0, <1>00, <1>11 DEF DropItem, Acting, Reaches, InPlay, InSession
  <2>4. Settled'
    BY <1>0, <1>00, <1>000, Phases, <1>11 DEF DropItem, Acting, Reaches, Settled, InWorld
  <2> QED
    BY <2>1, <2>2, <2>3, <2>4 DEF Sitting
<1>12. ASSUME NEW p \in Players, NEW y \in Items, StashPut(p, y)
      PROVE  Sitting'
  <2>1. InWorld'
    BY <1>0, <1>00, <1>12 DEF StashPut, Stashing, Reaches, InWorld
  <2>2. InSession'
    BY <1>0, <1>00, <1>12 DEF StashPut, Stashing, Reaches, InSession, InWorld, InPlay
  <2>3. InPlay'
    BY <1>0, <1>00, <1>12 DEF StashPut, Stashing, Reaches, InPlay, InSession
  <2>4. Settled'
    BY <1>0, <1>00, <1>000, Phases, <1>12 DEF StashPut, Stashing, Reaches, Settled, InWorld
  <2> QED
    BY <2>1, <2>2, <2>3, <2>4 DEF Sitting
<1>13. ASSUME NEW p \in Players, NEW y \in Items, StashTake(p, y)
      PROVE  Sitting'
  <2>1. InWorld'
    BY <1>0, <1>00, <1>13 DEF StashTake, Stashing, Reaches, InWorld
  <2>2. InSession'
    BY <1>0, <1>00, <1>13 DEF StashTake, Stashing, Reaches, InSession, InWorld, InPlay
  <2>3. InPlay'
    BY <1>0, <1>00, <1>13 DEF StashTake, Stashing, Reaches, InPlay, InSession
  <2>4. Settled'
    BY <1>0, <1>00, <1>000, Phases, <1>13 DEF StashTake, Stashing, Reaches, Settled, InWorld
  <2> QED
    BY <2>1, <2>2, <2>3, <2>4 DEF Sitting
<1>14. ASSUME NEW y \in Items, Loot(y)
      PROVE  Sitting'
  <2>1. InWorld'
    BY <1>0, <1>00, <1>14 DEF Loot, Reaches, InWorld
  <2>2. InSession'
    BY <1>0, <1>00, <1>14 DEF Loot, Reaches, InSession, InWorld, InPlay
  <2>3. InPlay'
    BY <1>0, <1>00, <1>14 DEF Loot, Reaches, InPlay, InSession
  <2>4. Settled'
    BY <1>0, <1>00, <1>000, Phases, <1>14 DEF Loot, Reaches, Settled, InWorld
  <2> QED
    BY <2>1, <2>2, <2>3, <2>4 DEF Sitting
<1>15. ASSUME RunTick
      PROVE  Sitting'
  <2>1. InWorld'
    BY <1>0, <1>00, <1>15 DEF RunTick, KeepWorld, SwapWorld, BuildFails, Freshest, Nobodys, InWorld
  <2>2. InSession'
    BY <1>0, <1>00, <1>15 DEF RunTick, KeepWorld, SwapWorld, BuildFails, Freshest, Nobodys, InSession, InWorld, InPlay
  <2>3. InPlay'
    BY <1>0, <1>00, <1>15 DEF RunTick, KeepWorld, SwapWorld, BuildFails, Freshest, Nobodys, InPlay, InSession
  <2>4. Settled'
    BY <1>0, <1>00, <1>15 DEF RunTick, KeepWorld, SwapWorld, BuildFails, Freshest, Nobodys, Settled, InWorld
  <2> QED
    BY <2>1, <2>2, <2>3, <2>4 DEF Sitting
<1>16. ASSUME Save
      PROVE  Sitting'
  <2>1. InWorld'
    BY <1>0, <1>00, <1>16 DEF Save, InWorld
  <2>2. InSession'
    BY <1>0, <1>00, <1>16 DEF Save, InSession, InWorld, InPlay
  <2>3. InPlay'
    BY <1>0, <1>00, <1>16 DEF Save, InPlay, InSession
  <2>4. Settled'
    BY <1>0, <1>00, <1>16 DEF Save, Settled, InWorld
  <2> QED
    BY <2>1, <2>2, <2>3, <2>4 DEF Sitting
<1>17. ASSUME Crash
      PROVE  Sitting'
  <2>1. InWorld'
    BY <1>0, <1>00, <1>17 DEF Crash, Nobodys, InWorld
  <2>2. InSession'
    BY <1>0, <1>00, <1>17 DEF Crash, Nobodys, InSession, InWorld, InPlay
  <2>3. InPlay'
    BY <1>0, <1>00, <1>17 DEF Crash, Nobodys, InPlay, InSession
  <2>4. Settled'
    BY <1>0, <1>00, <1>17 DEF Crash, Nobodys, Settled, InWorld
  <2> QED
    BY <2>1, <2>2, <2>3, <2>4 DEF Sitting
<1>18. ASSUME UNCHANGED vars
      PROVE  Sitting'
  <2>1. InWorld'
    BY <1>0, <1>00, <1>18 DEF vars, InWorld
  <2>2. InSession'
    BY <1>0, <1>00, <1>18 DEF vars, InSession, InWorld, InPlay
  <2>3. InPlay'
    BY <1>0, <1>00, <1>18 DEF vars, InPlay, InSession
  <2>4. Settled'
    BY <1>0, <1>00, <1>18 DEF vars, Settled, InWorld
  <2> QED
    BY <2>1, <2>2, <2>3, <2>4 DEF Sitting
<1> QED
  BY <1>1, <1>2, <1>3, <1>4, <1>5, <1>6, <1>7, <1>8, <1>9, <1>10, <1>11, <1>12, <1>13, <1>14, <1>15, <1>16, <1>17, <1>18 DEF Next

(***************************************************************************)
(* One place for each item.  What a death may bring back: a player's copy  *)
(* holds what its actor has, or has dropped in this tick and somebody else *)
(* or nobody has taken; and no two players' copies share an item.          *)
(***************************************************************************)
Tracked == phase \in {"idle", "commands", "fight"} \/ dead # {}

InHand(x) == x \in ground \/ \E q \in spawned : x \in bag[q]

Shadowed(x) ==
  Tracked => \A p \in spawned : x \in lastChar[p] =>
    /\ x \in bag[p] \/ (x \in dropped[p] /\ InHand(x))
    /\ \A q \in spawned : x \in lastChar[q] => p = q

Known(x) == x \in ground \/ (\E p \in Players : Owns(p, x)) => x \in minted

Single(x) == OnePlace(x) /\ Known(x) /\ Shadowed(x)

PlaceInv == ~crashed => \A x \in Items \ twice : Single(x)

LEMMA PlaceInit == Init => PlaceInv
<1> SUFFICES ASSUME Init, NEW x \in Items PROVE Single(x)
  BY DEF PlaceInv
<1>1. \A p \in Players : /\ x \notin Carried(p)
                         /\ x \in store.stash[p] <=> x \in Loaded.stash[p]
                         /\ \A ch \in Chars : InSlot(p, ch, x) <=> x \in Loaded.slot[p][ch]
  BY DEF Init, Carried, InSlot, Nobodys
<1>2. \A p \in Players : Owns(p, x) <=> Holds(Loaded, p, x)
  BY <1>1 DEF Owns, Holds
<1>3. OnePlace(x)
  BY <1>1, <1>2 DEF OnePlace, Lawful, Init
<1>4. Known(x)
  BY <1>2 DEF Known, Init
<1>5. Shadowed(x)
  BY DEF Init, Shadowed, Nobodys
<1> QED
  BY <1>3, <1>4, <1>5 DEF Single

(* Nothing new for item x: it is where it was, or nowhere. *)
LEMMA NothingNew ==
  ASSUME NEW x \in Items, OnePlace(x), Known(x), minted' = minted, x \in ground' => x \in ground,
         \A p \in Players : /\ x \in Carried(p)' => x \in Carried(p)
                            /\ x \in store'.stash[p] => x \in store.stash[p]
                            /\ \A ch \in Chars : InSlot(p, ch, x)' => InSlot(p, ch, x)
  PROVE  OnePlace(x)' /\ Known(x)'
<1>1. \A p \in Players : Owns(p, x)' => Owns(p, x)
  BY DEF Owns
<1>2. OnePlace(x)'
  BY <1>1 DEF OnePlace
<1>3. Known(x)'
  BY <1>1 DEF Known
<1> QED
  BY <1>2, <1>3

(* The tick has not moved, or only the store and the waiting have. *)
LEMMA SameShadow ==
  ASSUME NEW x \in Items, Shadowed(x), dead \subseteq spawned,
         UNCHANGED <<phase, ground, dropped, spawned, dead, bag>>,
         \A p \in spawned : lastChar'[p] = lastChar[p]
  PROVE  Shadowed(x)'
BY DEF Shadowed, Tracked, InHand

(* The end of a tick gives the dead their copy back, and nobody else      *)
(* anything, whatever became of the world.                                 *)
LEMMA TickCarries ==
  ASSUME RunTick, InWorld,
         spawned \in SUBSET Players, ghosts \in SUBSET Players, dead \in SUBSET Players,
         bag \in [Players -> SUBSET Items], lastChar \in [Players -> SUBSET Items]
  PROVE  \A q \in Players : Carried(q)' = IF q \in dead THEN lastChar[q] ELSE Carried(q)
<1>0. lastChar' = [p \in Players |-> Freshest(p)] /\ dead \subseteq spawned
  BY DEF RunTick, InWorld
<1>1. CASE KeepWorld
  BY <1>0, <1>1 DEF KeepWorld, Carried, Freshest
<1>2. CASE SwapWorld
  BY <1>0, <1>2 DEF SwapWorld, Carried, Freshest, InWorld
<1>3. CASE BuildFails
  BY <1>0, <1>3 DEF BuildFails, Carried, Freshest
<1> QED
  BY <1>1, <1>2, <1>3 DEF RunTick

LEMMA PlaceStep ==
  ASSUME Typed, Sitting, PlaceInv, [Next]_vars
  PROVE  PlaceInv'
<1> SUFFICES ASSUME ~crashed', NEW x \in Items, x \notin twice' PROVE Single(x)'
  BY DEF PlaceInv
<1>0. /\ UNCHANGED worldVars => UNCHANGED <<floor, minted, ground, dropped, twice, spawned, ghosts, dead, bag>>
      /\ UNCHANGED sessionVars => UNCHANGED <<playing, active, lastChar>>
      /\ UNCHANGED storeVars => UNCHANGED <<store, file, dirty>>
  BY DEF worldVars, sessionVars, storeVars
<1>00. /\ InWorld /\ InSession /\ InPlay /\ Settled
       /\ dropped \in [Players -> SUBSET Items]
       /\ playing \in [Players -> Chars \cup {None}] /\ active \in [Players -> Chars \cup {None}]
       /\ spawned \in SUBSET Players /\ ghosts \in SUBSET Players /\ dead \in SUBSET Players
       /\ bag \in [Players -> SUBSET Items] /\ lastChar \in [Players -> SUBSET Items]
       /\ store \in [live : SUBSET Players, roster : [Players -> SUBSET Chars],
                     stash : [Players -> SUBSET Items], slot : [Players -> [Chars -> SUBSET Items]]]
  BY DEF Typed, Sitting, Accounts
<1>000. phase \in {"idle", "commands", "fight", "stash", "run"}
  BY Phases DEF Typed
<1>S. dead \subseteq spawned
  BY <1>00 DEF InWorld
<1>1. ASSUME NEW p \in Players, NEW ch \in Chars, Claim(p, ch), Single(x)
      PROVE  Single(x)'
  <2>1. \A q \in Players : /\ x \in Carried(q)' => x \in Carried(q)
                           /\ x \in store'.stash[q] => x \in store.stash[q]
    BY <1>0, <1>00, <1>1 DEF Claim, Carried, InWorld, InSession
  <2>2. \A q \in Players, dh \in Chars : InSlot(q, dh, x)' => InSlot(q, dh, x)
    BY <1>0, <1>00, <1>1 DEF Claim, InSlot, InSession, InPlay, Carried
  <2>3. minted' = minted /\ ground' = ground
    BY <1>0, <1>1 DEF Claim
  <2>4. OnePlace(x)' /\ Known(x)'
    BY <1>1, <2>1, <2>2, <2>3, NothingNew DEF Single
  <2>5. Shadowed(x)'
    BY <1>0, <1>00, <1>S, <1>1, SameShadow DEF Claim, Single
  <2> QED
    BY <2>4, <2>5 DEF Single
<1>2. ASSUME NEW p \in Players, NEW ch \in Chars, AddChar(p, ch), Single(x)
      PROVE  Single(x)'
  <2>1. \A q \in Players : /\ x \in Carried(q)' => x \in Carried(q)
                           /\ x \in store'.stash[q] => x \in store.stash[q]
    BY <1>0, <1>00, <1>2 DEF AddChar, Carried, InWorld, InSession
  <2>2. \A q \in Players, dh \in Chars : InSlot(q, dh, x)' => InSlot(q, dh, x)
    BY <1>0, <1>00, <1>2 DEF AddChar, InSlot, InSession, InPlay, Carried
  <2>3. minted' = minted /\ ground' = ground
    BY <1>0, <1>2 DEF AddChar
  <2>4. OnePlace(x)' /\ Known(x)'
    BY <1>2, <2>1, <2>2, <2>3, NothingNew DEF Single
  <2>5. Shadowed(x)'
    BY <1>0, <1>00, <1>S, <1>2, SameShadow DEF AddChar, Single
  <2> QED
    BY <2>4, <2>5 DEF Single
<1>3. ASSUME NEW p \in Players, NEW ch \in Chars, DeleteChar(p, ch), Single(x)
      PROVE  Single(x)'
  <2>1. \A q \in Players : /\ x \in Carried(q)' => x \in Carried(q)
                           /\ x \in store'.stash[q] => x \in store.stash[q]
    BY <1>0, <1>00, <1>3 DEF DeleteChar, WithoutSlot, NotInPlay, Carried, InWorld, InSession
  <2>2. \A q \in Players, dh \in Chars : InSlot(q, dh, x)' => InSlot(q, dh, x)
    BY <1>0, <1>00, <1>3 DEF DeleteChar, WithoutSlot, NotInPlay, InSlot, InSession, InPlay, Carried
  <2>3. minted' = minted /\ ground' = ground
    BY <1>0, <1>3 DEF DeleteChar, WithoutSlot, NotInPlay
  <2>4. OnePlace(x)' /\ Known(x)'
    BY <1>3, <2>1, <2>2, <2>3, NothingNew DEF Single
  <2>5. Shadowed(x)'
    BY <1>0, <1>00, <1>S, <1>3, SameShadow DEF DeleteChar, WithoutSlot, NotInPlay, Single
  <2> QED
    BY <2>4, <2>5 DEF Single
<1>4. ASSUME NEW p \in Players, NEW ch \in Chars, Connect(p, ch), Single(x)
      PROVE  Single(x)'
  <2>1. \A q \in Players : /\ x \in Carried(q)' <=> x \in Carried(q) \/ (q = p /\ InSlot(p, ch, x))
                           /\ x \in store'.stash[q] <=> x \in store.stash[q]
    BY <1>0, <1>00, <1>4 DEF Connect, InSlot, Carried, InWorld, InSession
  <2>2. \A q \in Players, dh \in Chars : InSlot(q, dh, x)' <=> InSlot(q, dh, x) /\ ~(q = p /\ dh = ch)
    BY <1>0, <1>00, <1>4 DEF Connect, InSlot, InSlot, InSession, InPlay, Carried
  <2>3. minted' = minted /\ (x \in ground' <=> x \in ground)
    BY <1>0, <1>4 DEF Connect, InSlot
  <2>4. OnePlace(x)'
    BY <1>00, <1>4, <2>1, <2>2, <2>3 DEF Single, OnePlace, Owns
  <2>5. Known(x)'
    BY <1>00, <1>4, <2>1, <2>2, <2>3 DEF Single, Known, Owns
  <2>6. Shadowed(x)'
    BY <1>0, <1>00, <1>000, <1>4, Phases DEF Single, Shadowed, Tracked, InHand, OnePlace, Owns, Carried, InWorld, InSession, Settled, Connect, InSlot
  <2> QED
    BY <2>4, <2>5, <2>6 DEF Single
<1>5. ASSUME NEW p \in Players, Join(p), Single(x)
      PROVE  Single(x)'
  <2>1. \A q \in Players : /\ x \in Carried(q)' => x \in Carried(q)
                           /\ x \in store'.stash[q] => x \in store.stash[q]
    BY <1>0, <1>00, <1>5 DEF Join, Waiting, Carried, InWorld, InSession
  <2>2. \A q \in Players, dh \in Chars : InSlot(q, dh, x)' => InSlot(q, dh, x)
    BY <1>0, <1>00, <1>5 DEF Join, Waiting, InSlot, InSession, InPlay, Carried
  <2>3. minted' = minted /\ ground' = ground
    BY <1>0, <1>5 DEF Join, Waiting
  <2>4. OnePlace(x)' /\ Known(x)'
    BY <1>5, <2>1, <2>2, <2>3, NothingNew DEF Single
  <2>5. Shadowed(x)'
    BY <1>0, <1>00, <1>000, <1>5, Phases DEF Single, Shadowed, Tracked, InHand, OnePlace, Owns, Carried, InWorld, InSession, Settled, Join, Waiting
  <2> QED
    BY <2>4, <2>5 DEF Single
<1>6. ASSUME NEW p \in Players, Leave(p), Single(x)
      PROVE  Single(x)'
  <2>1. \A q \in Players : /\ x \in Carried(q)' <=> x \in Carried(q) /\ q # p
                           /\ x \in store'.stash[q] <=> x \in store.stash[q]
    BY <1>0, <1>00, <1>6 DEF Leave, BankedWith, Carried, InWorld, InSession
  <2>2. \A q \in Players, dh \in Chars : InSlot(q, dh, x)' <=> InSlot(q, dh, x) \/ (q = p /\ dh = active[p] /\ x \in Carried(p))
    BY <1>0, <1>00, <1>6 DEF Leave, BankedWith, InSlot, InSession, InPlay, Carried
  <2>3. minted' = minted /\ (x \in ground' <=> x \in ground)
    BY <1>0, <1>6 DEF Leave, BankedWith
  <2>4. OnePlace(x)'
    BY <1>00, <1>6, <2>1, <2>2, <2>3 DEF Single, OnePlace, Owns
  <2>5. Known(x)'
    BY <1>00, <1>6, <2>1, <2>2, <2>3 DEF Single, Known, Owns
  <2>6. Shadowed(x)'
    BY <1>0, <1>00, <1>000, <1>6, Phases DEF Single, Shadowed, Tracked, InHand, OnePlace, Owns, Carried, InWorld, InSession, Settled, Leave, BankedWith
  <2> QED
    BY <2>4, <2>5, <2>6 DEF Single
<1>7. ASSUME NEW p \in Players, Dies(p), Single(x)
      PROVE  Single(x)'
  <2>1. \A q \in Players : /\ x \in Carried(q)' => x \in Carried(q)
                           /\ x \in store'.stash[q] => x \in store.stash[q]
    BY <1>0, <1>00, <1>7 DEF Dies, Carried, InWorld, InSession
  <2>2. \A q \in Players, dh \in Chars : InSlot(q, dh, x)' => InSlot(q, dh, x)
    BY <1>0, <1>00, <1>7 DEF Dies, InSlot, InSession, InPlay, Carried
  <2>3. minted' = minted /\ ground' = ground
    BY <1>0, <1>7 DEF Dies
  <2>4. OnePlace(x)' /\ Known(x)'
    BY <1>7, <2>1, <2>2, <2>3, NothingNew DEF Single
  <2>5. Shadowed(x)'
    BY <1>0, <1>00, <1>000, <1>7, Phases DEF Single, Shadowed, Tracked, InHand, OnePlace, Owns, Carried, InWorld, InSession, Settled, Dies, Reaches
  <2> QED
    BY <2>4, <2>5 DEF Single
<1>8. ASSUME NEW p \in Players, FellInBattle(p), Single(x)
      PROVE  Single(x)'
  <2>1. \A q \in Players : /\ x \in Carried(q)' => x \in Carried(q)
                           /\ x \in store'.stash[q] => x \in store.stash[q]
    BY <1>0, <1>00, <1>8 DEF FellInBattle, Falls, WithoutSlot, NotInPlay, Carried, InWorld, InSession
  <2>2. \A q \in Players, dh \in Chars : InSlot(q, dh, x)' => InSlot(q, dh, x)
    BY <1>0, <1>00, <1>8 DEF FellInBattle, Falls, WithoutSlot, NotInPlay, InSlot, InSession, InPlay, Carried
  <2>3. minted' = minted /\ ground' = ground
    BY <1>0, <1>8 DEF FellInBattle, Falls, WithoutSlot, NotInPlay
  <2>4. OnePlace(x)' /\ Known(x)'
    BY <1>8, <2>1, <2>2, <2>3, NothingNew DEF Single
  <2>5. Shadowed(x)'
    BY <1>0, <1>00, <1>000, <1>8, Phases DEF Single, Shadowed, Tracked, InHand, OnePlace, Owns, Carried, InWorld, InSession, Settled, FellInBattle, Falls, Reaches
  <2> QED
    BY <2>4, <2>5 DEF Single
<1>9. ASSUME NEW p \in Players, BankLive(p), Single(x)
      PROVE  Single(x)'
  <2>1. \A q \in Players : /\ x \in Carried(q)' => x \in Carried(q)
                           /\ x \in store'.stash[q] => x \in store.stash[q]
    BY <1>0, <1>00, <1>9 DEF BankLive, BankedWith, Carried, InWorld, InSession
  <2>2. \A q \in Players, dh \in Chars : InSlot(q, dh, x)' => InSlot(q, dh, x)
    BY <1>0, <1>00, <1>9 DEF BankLive, BankedWith, InSlot, InSession, InPlay, Carried
  <2>3. minted' = minted /\ ground' = ground
    BY <1>0, <1>9 DEF BankLive, BankedWith
  <2>4. OnePlace(x)' /\ Known(x)'
    BY <1>9, <2>1, <2>2, <2>3, NothingNew DEF Single
  <2>5. Shadowed(x)'
    BY <1>0, <1>00, <1>S, <1>9, SameShadow DEF BankLive, BankedWith, Single
  <2> QED
    BY <2>4, <2>5 DEF Single
<1>10. ASSUME NEW p \in Players, NEW y \in Items, Pickup(p, y), Single(x)
      PROVE  Single(x)'
  <2>1. \A q \in Players : /\ x \in Carried(q)' <=> x \in Carried(q) \/ (q = p /\ x = y)
                           /\ x \in store'.stash[q] <=> x \in store.stash[q]
    BY <1>0, <1>00, <1>10 DEF Pickup, Acting, Reaches, Carried, InWorld, InSession
  <2>2. \A q \in Players, dh \in Chars : InSlot(q, dh, x)' <=> InSlot(q, dh, x)
    BY <1>0, <1>00, <1>10 DEF Pickup, Acting, Reaches, InSlot, InSession, InPlay, Carried
  <2>3. minted' = minted /\ (x \in ground' <=> x \in ground /\ x # y)
    BY <1>0, <1>10 DEF Pickup, Acting, Reaches
  <2>4. OnePlace(x)'
    BY <1>00, <1>10, <2>1, <2>2, <2>3 DEF Single, OnePlace, Owns, Pickup
  <2>5. Known(x)'
    BY <1>00, <1>10, <2>1, <2>2, <2>3 DEF Single, Known, Owns, Pickup
  <2>6. Shadowed(x)'
    BY <1>0, <1>00, <1>000, <1>10, Phases DEF Single, Shadowed, Tracked, InHand, OnePlace, Owns, Carried, InWorld, InSession, Settled, Pickup, Acting, Reaches
  <2> QED
    BY <2>4, <2>5, <2>6 DEF Single
<1>11. ASSUME NEW p \in Players, NEW y \in Items, DropItem(p, y), Single(x)
      PROVE  Single(x)'
  <2>1. \A q \in Players : /\ x \in Carried(q)' <=> x \in Carried(q) /\ ~(q = p /\ x = y)
                           /\ x \in store'.stash[q] <=> x \in store.stash[q]
    BY <1>0, <1>00, <1>11 DEF DropItem, Acting, Reaches, Carried, InWorld, InSession
  <2>2. \A q \in Players, dh \in Chars : InSlot(q, dh, x)' <=> InSlot(q, dh, x)
    BY <1>0, <1>00, <1>11 DEF DropItem, Acting, Reaches, InSlot, InSession, InPlay, Carried
  <2>3. minted' = minted /\ (x \in ground' <=> x \in ground \/ x = y)
    BY <1>0, <1>11 DEF DropItem, Acting, Reaches
  <2>4. OnePlace(x)'
    BY <1>00, <1>11, <2>1, <2>2, <2>3 DEF Single, OnePlace, Owns, DropItem, Acting, Carried
  <2>5. Known(x)'
    BY <1>00, <1>11, <2>1, <2>2, <2>3 DEF Single, Known, Owns, DropItem, Acting, Carried
  <2>6. Shadowed(x)'
    BY <1>0, <1>00, <1>000, <1>11, Phases DEF Single, Shadowed, Tracked, InHand, OnePlace, Owns, Carried, InWorld, InSession, Settled, DropItem, Acting, Reaches
  <2> QED
    BY <2>4, <2>5, <2>6 DEF Single
<1>12. ASSUME NEW p \in Players, NEW y \in Items, StashPut(p, y), Single(x)
      PROVE  Single(x)'
  <2>1. \A q \in Players : /\ x \in Carried(q)' <=> x \in Carried(q) /\ ~(q = p /\ x = y)
                           /\ x \in store'.stash[q] <=> x \in store.stash[q] \/ (q = p /\ x = y)
    BY <1>0, <1>00, <1>12 DEF StashPut, Stashing, Reaches, Carried, InWorld, InSession
  <2>2. \A q \in Players, dh \in Chars : InSlot(q, dh, x)' <=> InSlot(q, dh, x)
    BY <1>0, <1>00, <1>12 DEF StashPut, Stashing, Reaches, InSlot, InSession, InPlay, Carried
  <2>3. minted' = minted /\ (x \in ground' <=> x \in ground)
    BY <1>0, <1>12 DEF StashPut, Stashing, Reaches
  <2>4. OnePlace(x)'
    BY <1>00, <1>12, <2>1, <2>2, <2>3 DEF Single, OnePlace, Owns, StashPut, Stashing, Carried
  <2>5. Known(x)'
    BY <1>00, <1>12, <2>1, <2>2, <2>3 DEF Single, Known, Owns, StashPut, Stashing, Carried
  <2>6. Shadowed(x)'
    BY <1>0, <1>00, <1>000, <1>12, Phases DEF Single, Shadowed, Tracked, InHand, OnePlace, Owns, Carried, InWorld, InSession, Settled, StashPut, Stashing, Reaches
  <2> QED
    BY <2>4, <2>5, <2>6 DEF Single
<1>13. ASSUME NEW p \in Players, NEW y \in Items, StashTake(p, y), Single(x)
      PROVE  Single(x)'
  <2>1. \A q \in Players : /\ x \in Carried(q)' <=> x \in Carried(q) \/ (q = p /\ x = y)
                           /\ x \in store'.stash[q] <=> x \in store.stash[q] /\ ~(q = p /\ x = y)
    BY <1>0, <1>00, <1>13 DEF StashTake, Stashing, Reaches, Carried, InWorld, InSession
  <2>2. \A q \in Players, dh \in Chars : InSlot(q, dh, x)' <=> InSlot(q, dh, x)
    BY <1>0, <1>00, <1>13 DEF StashTake, Stashing, Reaches, InSlot, InSession, InPlay, Carried
  <2>3. minted' = minted /\ (x \in ground' <=> x \in ground)
    BY <1>0, <1>13 DEF StashTake, Stashing, Reaches
  <2>4. OnePlace(x)'
    BY <1>00, <1>13, <2>1, <2>2, <2>3 DEF Single, OnePlace, Owns, StashTake
  <2>5. Known(x)'
    BY <1>00, <1>13, <2>1, <2>2, <2>3 DEF Single, Known, Owns, StashTake
  <2>6. Shadowed(x)'
    BY <1>0, <1>00, <1>000, <1>13, Phases DEF Single, Shadowed, Tracked, InHand, OnePlace, Owns, Carried, InWorld, InSession, Settled, StashTake, Stashing, Reaches
  <2> QED
    BY <2>4, <2>5, <2>6 DEF Single
<1>14. ASSUME NEW y \in Items, Loot(y), Single(x)
      PROVE  Single(x)'
  <2>1. \A q \in Players : /\ x \in Carried(q)' <=> x \in Carried(q)
                           /\ x \in store'.stash[q] <=> x \in store.stash[q]
                           /\ \A dh \in Chars : InSlot(q, dh, x)' <=> InSlot(q, dh, x)
    BY <1>0, <1>14 DEF Loot, Carried, InSlot
  <2>2. \A q \in Players : Owns(q, x)' <=> Owns(q, x)
    BY <2>1 DEF Owns
  <2>3. y \notin minted /\ minted' = minted \cup {y} /\ ground' = ground \cup {y}
    BY <1>14 DEF Loot
  <2>4. OnePlace(x)' /\ Known(x)'
    BY <1>14, <2>1, <2>2, <2>3 DEF Single, OnePlace, Known
  <2>5. Shadowed(x)'
    BY <1>0, <1>00, <1>000, <1>14, Phases DEF Single, Shadowed, Tracked, InHand, OnePlace, Owns, Carried, InWorld, InSession, Settled, Loot, Reaches
  <2> QED
    BY <2>4, <2>5 DEF Single
<1>15. ASSUME RunTick, Single(x)
      PROVE  Single(x)'
  <2>1. \A q \in Players : Carried(q)' = IF q \in dead THEN lastChar[q] ELSE Carried(q)
    BY <1>00, <1>15, TickCarries
  <2>2. \A q \in Players : /\ x \in store'.stash[q] <=> x \in store.stash[q]
                           /\ \A dh \in Chars : InSlot(q, dh, x)' <=> InSlot(q, dh, x)
    BY <1>0, <1>15 DEF RunTick, InSlot
  <2>3. minted' = minted /\ (x \in ground' => x \in ground)
    BY <1>15 DEF RunTick, KeepWorld, SwapWorld, BuildFails
  <2>4. /\ phase' = "idle" /\ dead' = {} /\ dropped' = Nobodys
        /\ \A q \in spawned' : q \in Players /\ bag'[q] = Carried(q)' /\ lastChar'[q] = Carried(q)'
    <3>1. Sitting' /\ spawned' \subseteq Players
      BY SittingStep, <1>00, <1>15 DEF RunTick, KeepWorld, SwapWorld, BuildFails
    <3> QED
      BY <1>15, <3>1 DEF RunTick, Sitting, Settled, Carried
  <2>5. CASE \A p \in dead : x \in lastChar[p] => x \in bag[p]
    <3>1. \A q \in Players : x \in Carried(q)' => x \in Carried(q)
      BY <1>S, <2>1, <2>5 DEF Carried
    <3>2. OnePlace(x)' /\ Known(x)'
      BY <1>15, <2>2, <2>3, <3>1, NothingNew DEF Single
    <3>3. Shadowed(x)'
      BY <2>4, <3>2 DEF Shadowed, OnePlace, Owns
    <3> QED
      BY <3>2, <3>3 DEF Single
  <2>6. ASSUME NEW p \in dead, x \in lastChar[p], x \notin bag[p]
        PROVE  Single(x)'
    <3>1. /\ p \in Players /\ Tracked /\ x \in dropped[p] /\ InHand(x)
          /\ \A q \in spawned : x \in lastChar[q] => p = q
      BY <1>00, <1>S, <1>15, <2>6 DEF Single, Shadowed, Tracked
    <3>2. x \notin ground' /\ \A q \in spawned \ dead : x \notin bag[q]
      <4>1. x \notin BroughtBack
        BY <1>15 DEF RunTick
      <4> QED
        BY <2>6, <3>1, <4>1 DEF BroughtBack
    <3>3. /\ \A q \in Players : x \notin store.stash[q] /\ \A dh \in Chars : ~InSlot(q, dh, x)
          /\ \A q \in Players \ spawned : x \notin Carried(q)
          /\ x \in minted
      <4>1. CASE x \in ground
        BY <1>15, <4>1 DEF Single, OnePlace, Known, Owns
      <4>2. ASSUME NEW q \in spawned, x \in bag[q]
            PROVE  /\ \A r \in Players : x \notin store.stash[r] /\ \A dh \in Chars : ~InSlot(r, dh, x)
                   /\ \A r \in Players \ spawned : x \notin Carried(r)
                   /\ x \in minted
        <5>1. q \in Players /\ x \in Carried(q) /\ Owns(q, x)
          BY <1>00, <4>2 DEF Carried, Owns
        <5> QED
          BY <1>00, <1>15, <5>1 DEF Single, OnePlace, Known, Owns
      <4> QED
        BY <3>1, <4>1, <4>2 DEF InHand
    <3>4. \A q \in Players : x \in Carried(q)' <=> q = p
      BY <1>S, <2>1, <2>6, <3>1, <3>2, <3>3 DEF Carried
    <3>5. OnePlace(x)' /\ Known(x)'
      BY <2>2, <2>3, <3>1, <3>2, <3>3, <3>4 DEF OnePlace, Known, Owns
    <3>6. Shadowed(x)'
      BY <2>4, <3>4 DEF Shadowed
    <3> QED
      BY <3>5, <3>6 DEF Single
  <2> QED
    BY <2>5, <2>6
<1>16. ASSUME Save, Single(x)
      PROVE  Single(x)'
  <2>1. \A q \in Players : /\ x \in Carried(q)' => x \in Carried(q)
                           /\ x \in store'.stash[q] => x \in store.stash[q]
    BY <1>0, <1>00, <1>16 DEF Save, Carried, InWorld, InSession
  <2>2. \A q \in Players, dh \in Chars : InSlot(q, dh, x)' => InSlot(q, dh, x)
    BY <1>0, <1>00, <1>16 DEF Save, InSlot, InSession, InPlay, Carried
  <2>3. minted' = minted /\ ground' = ground
    BY <1>0, <1>16 DEF Save
  <2>4. OnePlace(x)' /\ Known(x)'
    BY <1>16, <2>1, <2>2, <2>3, NothingNew DEF Single
  <2>5. Shadowed(x)'
    BY <1>0, <1>00, <1>S, <1>16, SameShadow DEF Save, Single
  <2> QED
    BY <2>4, <2>5 DEF Single
<1>17. ASSUME UNCHANGED vars, Single(x)
      PROVE  Single(x)'
  <2>1. \A q \in Players : /\ x \in Carried(q)' => x \in Carried(q)
                           /\ x \in store'.stash[q] => x \in store.stash[q]
    BY <1>0, <1>00, <1>17 DEF vars, Carried, InWorld, InSession
  <2>2. \A q \in Players, dh \in Chars : InSlot(q, dh, x)' => InSlot(q, dh, x)
    BY <1>0, <1>00, <1>17 DEF vars, InSlot, InSession, InPlay, Carried
  <2>3. minted' = minted /\ ground' = ground
    BY <1>0, <1>17 DEF vars
  <2>4. OnePlace(x)' /\ Known(x)'
    BY <1>17, <2>1, <2>2, <2>3, NothingNew DEF Single
  <2>5. Shadowed(x)'
    BY <1>0, <1>00, <1>S, <1>17, SameShadow DEF vars, Single
  <2> QED
    BY <2>4, <2>5 DEF Single
<1>18. CASE Crash
  BY <1>18 DEF Crash
<1>19. ASSUME ~Crash
       PROVE  Single(x)
  <2>1. (crashed' = crashed /\ twice \subseteq twice') => Single(x)
    BY DEF PlaceInv
  <2>2. ASSUME NEW p \in Players, NEW ch \in Chars,
               Claim(p, ch) \/ AddChar(p, ch) \/ DeleteChar(p, ch) \/ Connect(p, ch)
        PROVE  Single(x)
    BY <1>0, <2>1, <2>2 DEF Claim, AddChar, DeleteChar, Connect
  <2>3. ASSUME NEW p \in Players, Join(p) \/ Leave(p) \/ Dies(p) \/ FellInBattle(p) \/ BankLive(p)
        PROVE  Single(x)
    BY <1>0, <2>1, <2>3 DEF Join, Leave, Dies, FellInBattle, BankLive
  <2>4. ASSUME NEW p \in Players, NEW y \in Items,
               Pickup(p, y) \/ DropItem(p, y) \/ StashPut(p, y) \/ StashTake(p, y)
        PROVE  Single(x)
    BY <1>0, <2>1, <2>4 DEF Pickup, DropItem, StashPut, StashTake
  <2>5. ASSUME NEW y \in Items, Loot(y)
        PROVE  Single(x)
    BY <1>0, <2>1, <2>5 DEF Loot
  <2>6. ASSUME RunTick \/ Save \/ UNCHANGED vars
        PROVE  Single(x)
    BY <1>0, <2>1, <2>6 DEF RunTick, Save, vars
  <2> QED
    BY <1>19, <2>2, <2>3, <2>4, <2>5, <2>6 DEF Next
<1> HIDE DEF Single
<1> QED
  BY <1>1, <1>2, <1>3, <1>4, <1>5, <1>6, <1>7, <1>8, <1>9, <1>10, <1>11, <1>12, <1>13, <1>14, <1>15, <1>16, <1>17, <1>18, <1>19 DEF Next

(* Nothing is in two places in a run without a crash: whatever order the   *)
(* moves come in, an item is in one bag, one stash, one banked character   *)
(* or on the ground (stash.go, server.go: removeClient, spawnClient;       *)
(* descent.go: handleDeaths, swapWorld, runTick; identity.go), but for     *)
(* what the dead dropped and the living took in the tick of a death.       *)
THEOREM NeverTwice == Spec => []NothingTwice
<1>1. Init => TypeInv /\ Sitting /\ PlaceInv
  BY TypesInit, SittingInit, PlaceInit
<1>2. TypeInv /\ Sitting /\ PlaceInv /\ [Next]_vars => (TypeInv /\ Sitting /\ PlaceInv)'
  BY TypeStep, SittingStep, PlaceStep DEF TypeInv, TypeOK
<1>3. PlaceInv => NothingTwice
  BY DEF PlaceInv, NothingTwice, Single
<1> QED
  BY <1>1, <1>2, <1>3, PTL DEF Spec

(***************************************************************************)
(* What is lost.                                                           *)
(***************************************************************************)
Lost(x) ==
  \/ Crash
  \/ RunTick /\ (x \in ground \/ \E p \in dead : x \in bag[p] \ lastChar[p])
  \/ \E p \in Players, ch \in Chars :
       DeleteChar(p, ch) /\ (InSlot(p, ch, x) \/ (store.roster[p] = {ch} /\ x \in store.stash[p]))
  \/ \E p \in Players : Leave(p) /\ active[p] = None /\ x \in Carried(p)

LEMMA LossStep ==
  ASSUME Typed, Sitting, [Next]_vars, NEW x \in Items, Placed(x), ~Placed(x)'
  PROVE  Lost(x)
<1>0. /\ UNCHANGED worldVars => UNCHANGED <<floor, minted, ground, dropped, twice, spawned, ghosts, dead, bag>>
      /\ UNCHANGED sessionVars => UNCHANGED <<playing, active, lastChar>>
      /\ UNCHANGED storeVars => UNCHANGED <<store, file, dirty>>
  BY DEF worldVars, sessionVars, storeVars
<1>00. /\ InWorld /\ InSession /\ InPlay /\ Settled
       /\ playing \in [Players -> Chars \cup {None}] /\ active \in [Players -> Chars \cup {None}]
       /\ spawned \in SUBSET Players /\ ghosts \in SUBSET Players /\ dead \in SUBSET Players
       /\ bag \in [Players -> SUBSET Items] /\ lastChar \in [Players -> SUBSET Items]
       /\ store \in [live : SUBSET Players, roster : [Players -> SUBSET Chars],
                     stash : [Players -> SUBSET Items], slot : [Players -> [Chars -> SUBSET Items]]]
  BY DEF Typed, Sitting, Accounts
<1>S. dead \subseteq spawned
  BY <1>00 DEF InWorld
<1>K. ASSUME x \in ground => Placed(x)', \A q \in Players : Owns(q, x) => Placed(x)'
      PROVE  FALSE
  BY <1>K DEF Placed
<1>1. ASSUME NEW p \in Players, NEW ch \in Chars, Claim(p, ch) \/ AddChar(p, ch)
      PROVE  Lost(x)
  <2>1. \A q \in Players : /\ x \in Carried(q) => x \in Carried(q)'
                           /\ x \in store.stash[q] => x \in store'.stash[q]
    BY <1>0, <1>00, <1>1 DEF Claim, AddChar, Carried, InWorld, InSession
  <2>2. \A q \in Players, dh \in Chars : InSlot(q, dh, x) => InSlot(q, dh, x)'
    BY <1>0, <1>00, <1>1 DEF Claim, AddChar, InSlot, InSession, InPlay, Carried
  <2>3. x \in ground => x \in ground'
    BY <1>0, <1>00, <1>1 DEF Claim, AddChar, Carried
  <2> QED
    BY <1>K, <2>1, <2>2, <2>3 DEF Placed, Owns
<1>2. ASSUME NEW p \in Players, NEW ch \in Chars, DeleteChar(p, ch)
      PROVE  Lost(x)
  <2> SUFFICES ASSUME ~InSlot(p, ch, x), store.roster[p] = {ch} => x \notin store.stash[p]
               PROVE  FALSE
    BY <1>2 DEF Lost
  <2>1. \A q \in Players : /\ x \in Carried(q) => x \in Carried(q)'
                           /\ x \in store.stash[q] => x \in store'.stash[q]
    BY <1>0, <1>00, <1>2 DEF DeleteChar, WithoutSlot, Carried
  <2>2. \A q \in Players, dh \in Chars : InSlot(q, dh, x) => InSlot(q, dh, x)'
    BY <1>0, <1>00, <1>2 DEF DeleteChar, WithoutSlot, NotInPlay, InSlot
  <2>3. x \in ground => x \in ground'
    BY <1>0, <1>2 DEF DeleteChar
  <2> QED
    BY <1>K, <2>1, <2>2, <2>3 DEF Placed, Owns
<1>3. ASSUME NEW p \in Players, NEW ch \in Chars, Connect(p, ch)
      PROVE  Lost(x)
  <2>1. \A q \in Players : /\ x \in Carried(q) => x \in Carried(q)'
                           /\ x \in store.stash[q] => x \in store'.stash[q]
    BY <1>0, <1>00, <1>3 DEF Connect, Carried, InWorld, InSession
  <2>2. \A q \in Players, dh \in Chars : InSlot(q, dh, x) => InSlot(q, dh, x)' \/ x \in Carried(q)'
    BY <1>0, <1>00, <1>3 DEF Connect, InSlot, InSession, InPlay, Carried
  <2>3. x \in ground => x \in ground'
    BY <1>0, <1>00, <1>3 DEF Connect, Carried
  <2> QED
    BY <1>K, <2>1, <2>2, <2>3 DEF Placed, Owns
<1>4. ASSUME NEW p \in Players, Join(p)
      PROVE  Lost(x)
  <2>1. \A q \in Players : /\ x \in Carried(q) => x \in Carried(q)'
                           /\ x \in store.stash[q] => x \in store'.stash[q]
    BY <1>0, <1>00, <1>4 DEF Join, Waiting, Carried, InWorld, InSession
  <2>2. \A q \in Players, dh \in Chars : InSlot(q, dh, x) => InSlot(q, dh, x)'
    BY <1>0, <1>00, <1>4 DEF Join, Waiting, InSlot, InSession, InPlay, Carried
  <2>3. x \in ground => x \in ground'
    BY <1>0, <1>00, <1>4 DEF Join, Waiting, Carried
  <2> QED
    BY <1>K, <2>1, <2>2, <2>3 DEF Placed, Owns
<1>5. ASSUME NEW p \in Players, Leave(p)
      PROVE  Lost(x)
  <2> SUFFICES ASSUME ~(active[p] = None /\ x \in Carried(p))
               PROVE  FALSE
    BY <1>5 DEF Lost
  <2>1. \A q \in Players : /\ x \in Carried(q) => x \in Carried(q)' \/ \E dh \in Chars : InSlot(q, dh, x)'
                           /\ x \in store.stash[q] => x \in store'.stash[q]
    <3>1. \A q \in Players : /\ q # p /\ x \in Carried(q) => x \in Carried(q)'
                             /\ x \in store.stash[q] => x \in store'.stash[q]
      BY <1>0, <1>00, <1>5 DEF Leave, BankedWith, Carried
    <3>2. ASSUME x \in Carried(p)
          PROVE  \E dh \in Chars : InSlot(p, dh, x)'
      <4>1. active[p] \in Chars /\ p \in store.live
        BY <1>00, <3>2 DEF InPlay
      <4>2. /\ store' = [store EXCEPT !.slot[p][active[p]] = Carried(p)]
            /\ active'[p] = None
        BY <1>00, <1>5, <4>1 DEF Leave, BankedWith
      <4>3. x \in store'.slot[p][active[p]]
        BY <1>00, <3>2, <4>1, <4>2
      <4> QED
        BY <4>1, <4>2, <4>3 DEF InSlot
    <3> QED
      BY <3>1, <3>2
  <2>2. \A q \in Players, dh \in Chars : InSlot(q, dh, x) => InSlot(q, dh, x)'
    BY <1>0, <1>00, <1>5 DEF Leave, BankedWith, InSlot, InPlay
  <2>3. x \in ground => x \in ground'
    BY <1>5 DEF Leave
  <2> QED
    BY <1>K, <2>1, <2>2, <2>3 DEF Placed, Owns
<1>6. ASSUME NEW p \in Players, Dies(p)
      PROVE  Lost(x)
  <2>1. \A q \in Players : /\ x \in Carried(q) => x \in Carried(q)'
                           /\ x \in store.stash[q] => x \in store'.stash[q]
    BY <1>0, <1>00, <1>6 DEF Dies, Carried, InWorld, InSession
  <2>2. \A q \in Players, dh \in Chars : InSlot(q, dh, x) => InSlot(q, dh, x)'
    BY <1>0, <1>00, <1>6 DEF Dies, InSlot, InSession, InPlay, Carried
  <2>3. x \in ground => x \in ground'
    BY <1>0, <1>00, <1>6 DEF Dies, Carried
  <2> QED
    BY <1>K, <2>1, <2>2, <2>3 DEF Placed, Owns
<1>7. ASSUME NEW p \in Players, FellInBattle(p)
      PROVE  Lost(x)
  <2>1. \A q \in Players : /\ x \in Carried(q) => x \in Carried(q)'
                           /\ x \in store.stash[q] => x \in store'.stash[q]
    BY <1>0, <1>00, <1>7 DEF FellInBattle, Falls, WithoutSlot, NotInPlay, Carried, InWorld, InSession
  <2>2. \A q \in Players, dh \in Chars : InSlot(q, dh, x) => InSlot(q, dh, x)'
    BY <1>0, <1>00, <1>7 DEF FellInBattle, Falls, WithoutSlot, NotInPlay, InSlot, InSession, InPlay, Carried
  <2>3. x \in ground => x \in ground'
    BY <1>0, <1>00, <1>7 DEF FellInBattle, Falls, WithoutSlot, NotInPlay, Carried
  <2> QED
    BY <1>K, <2>1, <2>2, <2>3 DEF Placed, Owns
<1>8. ASSUME NEW p \in Players, BankLive(p)
      PROVE  Lost(x)
  <2>1. \A q \in Players : /\ x \in Carried(q) => x \in Carried(q)'
                           /\ x \in store.stash[q] => x \in store'.stash[q]
    BY <1>0, <1>00, <1>8 DEF BankLive, BankedWith, Carried, InWorld, InSession
  <2>2. \A q \in Players, dh \in Chars : InSlot(q, dh, x) => InSlot(q, dh, x)'
    BY <1>0, <1>00, <1>8 DEF BankLive, BankedWith, InSlot, InSession, InPlay, Carried
  <2>3. x \in ground => x \in ground'
    BY <1>0, <1>00, <1>8 DEF BankLive, BankedWith, Carried
  <2> QED
    BY <1>K, <2>1, <2>2, <2>3 DEF Placed, Owns
<1>9. ASSUME NEW p \in Players, NEW y \in Items, Pickup(p, y)
      PROVE  Lost(x)
  <2>1. \A q \in Players : /\ x \in Carried(q) => x \in Carried(q)'
                           /\ x \in store.stash[q] => x \in store'.stash[q]
    BY <1>0, <1>00, <1>9 DEF Pickup, Acting, Carried, InWorld, InSession
  <2>2. \A q \in Players, dh \in Chars : InSlot(q, dh, x) => InSlot(q, dh, x)'
    BY <1>0, <1>00, <1>9 DEF Pickup, Acting, InSlot, InSession, InPlay, Carried
  <2>3. x \in ground => x \in ground' \/ x \in Carried(p)'
    BY <1>0, <1>00, <1>9 DEF Pickup, Acting, Carried
  <2> QED
    BY <1>K, <2>1, <2>2, <2>3 DEF Placed, Owns
<1>10. ASSUME NEW p \in Players, NEW y \in Items, DropItem(p, y)
      PROVE  Lost(x)
  <2>1. \A q \in Players : /\ x \in Carried(q) => x \in Carried(q)' \/ x \in ground'
                           /\ x \in store.stash[q] => x \in store'.stash[q]
    BY <1>0, <1>00, <1>10 DEF DropItem, Acting, Carried, InWorld, InSession
  <2>2. \A q \in Players, dh \in Chars : InSlot(q, dh, x) => InSlot(q, dh, x)'
    BY <1>0, <1>00, <1>10 DEF DropItem, Acting, InSlot, InSession, InPlay, Carried
  <2>3. x \in ground => x \in ground'
    BY <1>0, <1>00, <1>10 DEF DropItem, Acting, Carried
  <2> QED
    BY <1>K, <2>1, <2>2, <2>3 DEF Placed, Owns
<1>11. ASSUME NEW p \in Players, NEW y \in Items, StashPut(p, y)
      PROVE  Lost(x)
  <2>1. \A q \in Players : /\ x \in Carried(q) => x \in Carried(q)' \/ x \in store'.stash[q]
                           /\ x \in store.stash[q] => x \in store'.stash[q]
    BY <1>0, <1>00, <1>11 DEF StashPut, Stashing, Carried, InWorld, InSession
  <2>2. \A q \in Players, dh \in Chars : InSlot(q, dh, x) => InSlot(q, dh, x)'
    BY <1>0, <1>00, <1>11 DEF StashPut, Stashing, InSlot, InSession, InPlay, Carried
  <2>3. x \in ground => x \in ground'
    BY <1>0, <1>00, <1>11 DEF StashPut, Stashing, Carried
  <2> QED
    BY <1>K, <2>1, <2>2, <2>3 DEF Placed, Owns
<1>12. ASSUME NEW p \in Players, NEW y \in Items, StashTake(p, y)
      PROVE  Lost(x)
  <2>1. \A q \in Players : /\ x \in Carried(q) => x \in Carried(q)'
                           /\ x \in store.stash[q] => x \in store'.stash[q] \/ x \in Carried(q)'
    BY <1>0, <1>00, <1>12 DEF StashTake, Stashing, Carried, InWorld, InSession
  <2>2. \A q \in Players, dh \in Chars : InSlot(q, dh, x) => InSlot(q, dh, x)'
    BY <1>0, <1>00, <1>12 DEF StashTake, Stashing, InSlot, InSession, InPlay, Carried
  <2>3. x \in ground => x \in ground'
    BY <1>0, <1>00, <1>12 DEF StashTake, Stashing, Carried
  <2> QED
    BY <1>K, <2>1, <2>2, <2>3 DEF Placed, Owns
<1>13. ASSUME NEW y \in Items, Loot(y)
      PROVE  Lost(x)
  <2>1. \A q \in Players : /\ x \in Carried(q) => x \in Carried(q)'
                           /\ x \in store.stash[q] => x \in store'.stash[q]
    BY <1>0, <1>00, <1>13 DEF Loot, Carried, InWorld, InSession
  <2>2. \A q \in Players, dh \in Chars : InSlot(q, dh, x) => InSlot(q, dh, x)'
    BY <1>0, <1>00, <1>13 DEF Loot, InSlot, InSession, InPlay, Carried
  <2>3. x \in ground => x \in ground'
    BY <1>0, <1>00, <1>13 DEF Loot, Carried
  <2> QED
    BY <1>K, <2>1, <2>2, <2>3 DEF Placed, Owns
<1>14. ASSUME RunTick
      PROVE  Lost(x)
  <2> SUFFICES ASSUME x \notin ground, \A p \in dead : x \in bag[p] => x \in lastChar[p]
               PROVE  FALSE
    BY <1>14 DEF Lost
  <2>1. \A q \in Players : Carried(q)' = IF q \in dead THEN lastChar[q] ELSE Carried(q)
    BY <1>00, <1>S, <1>14, TickCarries
  <2>2. \A q \in Players : x \in Carried(q) => x \in Carried(q)'
    BY <1>S, <2>1 DEF Carried
  <2>3. \A q \in Players : /\ x \in store.stash[q] => x \in store'.stash[q]
                           /\ \A dh \in Chars : InSlot(q, dh, x) => InSlot(q, dh, x)'
    BY <1>0, <1>14 DEF RunTick, InSlot
  <2> QED
    BY <1>K, <2>2, <2>3 DEF Placed, Owns
<1>15. ASSUME Save \/ UNCHANGED vars
      PROVE  Lost(x)
  <2>1. \A q \in Players : /\ x \in Carried(q) => x \in Carried(q)'
                           /\ x \in store.stash[q] => x \in store'.stash[q]
    BY <1>0, <1>00, <1>15 DEF Save, vars, Carried, InWorld, InSession
  <2>2. \A q \in Players, dh \in Chars : InSlot(q, dh, x) => InSlot(q, dh, x)'
    BY <1>0, <1>00, <1>15 DEF Save, vars, InSlot, InSession, InPlay, Carried
  <2>3. x \in ground => x \in ground'
    BY <1>0, <1>00, <1>15 DEF Save, vars, Carried
  <2> QED
    BY <1>K, <2>1, <2>2, <2>3 DEF Placed, Owns
<1>16. ASSUME Crash
       PROVE  Lost(x)
  BY <1>16 DEF Lost
<1> HIDE DEF Lost
<1> QED
  BY <1>1, <1>2, <1>3, <1>4, <1>5, <1>6, <1>7, <1>8, <1>9, <1>10, <1>11, <1>12, <1>13, <1>14, <1>15, <1>16 DEF Next

(* Items are lost by a crash, with the ground of a replaced world, with    *)
(* what the dead had picked up in their last tick, with a deleted slot or  *)
(* account, or with a session whose slot is gone, and by no other step: no *)
(* connect, join, bank, save, fall or stash verb loses one (server.go:     *)
(* spawnClient, removeClient; descent.go: handleDeaths, swapWorld;         *)
(* stash.go; identity.go: Connect, Bank, FellInBattle).                    *)
THEOREM LossesAccounted == Spec => NoOtherLoss
<1>1. Init => TypeInv /\ Sitting
  BY TypesInit, SittingInit
<1>2. TypeInv /\ Sitting /\ [Next]_vars => (TypeInv /\ Sitting)'
  BY TypeStep, SittingStep DEF TypeInv, TypeOK
<1>3. TypeInv /\ Sitting /\ [Next]_vars =>
        [\A x \in Items : Placed(x) /\ ~Placed(x)' =>
           \/ Crash
           \/ RunTick /\ (x \in ground \/ \E p \in dead : x \in bag[p] \ lastChar[p])
           \/ \E p \in Players, ch \in Chars :
                DeleteChar(p, ch) /\ (InSlot(p, ch, x) \/ (store.roster[p] = {ch} /\ x \in store.stash[p]))
           \/ \E p \in Players : Leave(p) /\ active[p] = None /\ x \in Carried(p)]_vars
  BY LossStep DEF TypeInv, TypeOK, Lost
<1> QED
  BY <1>1, <1>2, <1>3, PTL DEF Spec, NoOtherLoss
=============================================================================
