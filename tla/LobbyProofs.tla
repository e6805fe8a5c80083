----------------------------- MODULE LobbyProofs -----------------------------
(* Theorems about Lobby, for any accounts, connections and instances. *)
EXTENDS Lobby, FiniteSetTheorems, TLAPS

USE IdentityAssumption, LobbyAssumption

(***************************************************************************)
(* The inductive invariant.                                                *)
(***************************************************************************)

(* Who holds which account: a connection in play has its token, its        *)
(* account is online with its slot (or with none, once that was deleted),  *)
(* and a client object nobody uses carries nothing over.                   *)
TokenOfSlot ==
  \A c \in Conns : token[c] # None => plays[c] # None /\ plays[c][1] = token[c]

InPlayHasToken == \A c \in Conns : InPlay(c) => token[c] # None

PlayedWasMinted ==
  \A c \in Conns : plays[c] # None => account[plays[c][1]] # "unminted"

InPlayIsOnline ==
  \A c \in Conns : InPlay(c) /\ account[plays[c][1]] = "live" =>
    /\ plays[c][1] \in online
    /\ active[plays[c][1]] = IF c \in stale THEN None ELSE plays[c][2]

FreeIsBlank ==
  \A c \in Conns : at[c] = "free" =>
    token[c] = None /\ plays[c] = None /\ inst[c] = None /\ c \notin stale

Sessions == /\ TokenOfSlot /\ InPlayHasToken /\ PlayedWasMinted
            /\ InPlayIsOnline /\ FreeIsBlank /\ OneSession

(* Where a connection is: in the door it is in no queue and no instance,   *)
(* later in one instance at most, and a leave in progress is of a client   *)
(* that was there.                                                         *)
DoorIsOutside ==
  \A c \in Conns : at[c] \in {"free", "connected", "placed"} => ~Housed(c)

HousedWhereRouted ==
  \A c \in Conns, i \in Insts : c \in clients[i] \cup joins[i] =>
    inst[c] = i /\ ~(c \in clients[i] /\ c \in joins[i])

DoorHasInstance ==
  \A c \in Conns : /\ (at[c] = "placed" => inst[c] \in Insts)
                    /\ (at[c] = "queued" => Housed(c))

DoorNotLeaving ==
  \A c \in Conns, i \in Insts : at[c] \in {"free", "connected", "placed", "queued"} =>
    c \notin leaves[i] \cup todo[i] /\ departing[i] # c

TodoIsHere ==
  /\ \A i \in Insts : todo[i] \subseteq clients[i]
  /\ \A i \in Insts : i \notin busy => todo[i] = {} /\ departing[i] = None
  /\ \A i \in Insts : \A c \in todo[i] : token[c] # None

DepartingIsOut ==
  \A i \in Insts : departing[i] # None =>
    /\ ~Housed(departing[i])
    /\ inst[departing[i]] = i
    /\ token[departing[i]] # None

Places == /\ DoorIsOutside /\ HousedWhereRouted /\ DoorHasInstance
          /\ DoorNotLeaving /\ TodoIsHere /\ DepartingIsOut

(* What the reaper must not take: an instance that somebody is in, bound   *)
(* for or leaving is live and its grace has not run out.                   *)
Standing(i) == state[i] = "live" /\ emptyAt[i] # "old"

OccupiedStands ==
  /\ \A i \in Insts : clients[i] \cup joins[i] # {} => Standing(i)
  /\ \A i \in Insts : departing[i] # None => Standing(i)
  /\ \A c \in Conns : at[c] = "placed" => Standing(inst[c])

ClockMeansEmpty ==
  \A i \in Insts : emptyAt[i] = "recent" /\ i \notin busy => clients[i] = {}

Reaper == OccupiedStands /\ ClockMeansEmpty /\ HomesStand

(* Claim starts an account from nothing. *)
UnmintedIsEmpty == \A t \in Tokens : account[t] = "unminted" => roster[t] = {}

IInv == /\ TypeOK /\ Sessions /\ Places /\ Reaper /\ OnlineListAgrees
        /\ NameIndexAgrees /\ UnmintedIsEmpty /\ BankLandsHome

LEMMA CountIsNat == ASSUME NEW S \in SUBSET Conns PROVE Cardinality(S) \in Nat
  BY FS_Subset, FS_CardinalityType

LEMMA StoreInitType == StoreInit => StoreTypeOK
<1> SUFFICES ASSUME StoreInit PROVE StoreTypeOK
  OBVIOUS
<1>1. byName \in [Names -> Tokens \cup {None}]
  BY DEF StoreInit
<1>2. banked \in [Tokens -> [Names -> Character \cup {None}]]
  BY DEF StoreInit, Character
<1> QED  BY <1>1, <1>2 DEF StoreInit, StoreTypeOK

LEMMA ClaimType ==
  ASSUME StoreTypeOK, NEW t \in Tokens, NEW n \in Names, Claim(t, n) \/ AddChar(t, n)
  PROVE  StoreTypeOK'
<1>1. CASE Claim(t, n)
  BY <1>1 DEF Claim, StoreTypeOK
<1>2. CASE AddChar(t, n)
  BY <1>2 DEF AddChar, StoreTypeOK
<1> QED  BY <1>1, <1>2

LEMMA ConnectType ==
  ASSUME StoreTypeOK, NEW t \in Tokens, NEW n \in Names, Connect(t, n)
  PROVE  StoreTypeOK'
  BY DEF Connect, CanConnect, StoreTypeOK

LEMMA BankType ==
  ASSUME StoreTypeOK, NEW t \in Tokens, NEW ch \in Character \cup {None},
         Bank(t, ch) \/ Disconnect(t, ch)
  PROVE  StoreTypeOK'
<1>1. BankedWith(t, ch) \in [Tokens -> [Names -> Character \cup {None}]]
  BY DEF BankedWith, StoreTypeOK
<1> QED  BY <1>1 DEF Bank, Disconnect, StoreTypeOK, storeVars

LEMMA DropType ==
  ASSUME StoreTypeOK, NEW t \in Tokens,
         (\E n \in Names : DeleteChar(t, n)) \/ FellInBattle(t)
  PROVE  StoreTypeOK'
<1>1. ASSUME NEW n \in Names, DeleteChar(t, n) PROVE StoreTypeOK'
  BY <1>1 DEF DeleteChar, DropSlot, StoreTypeOK
<1>2. CASE FellInBattle(t)
  BY <1>2 DEF FellInBattle, DropSlot, StoreTypeOK
<1> QED  BY <1>1, <1>2

LEMMA TypeInit == Init => TypeOK
<1> SUFFICES ASSUME Init PROVE TypeOK
  OBVIOUS
<1> QED  BY StoreInitType DEF Init, TypeOK

(* What a connection with a token plays can be banked. *)
LEMMA CharOfType ==
  ASSUME TypeOK, TokenOfSlot, NEW c \in Conns, token[c] # None
  PROVE  token[c] \in Tokens /\ CharOf(c) \in Character
  BY DEF TypeOK, TokenOfSlot, CharOf, Character

LEMMA TransferType ==
  ASSUME TypeOK, NEW i \in Insts, NEW j \in Insts \cup {None}, NEW c \in Conns,
         Transfer(i, j, c)
  PROVE  /\ clients' \in [Insts -> SUBSET Conns]
         /\ joins' \in [Insts -> SUBSET Conns]
         /\ inst' \in [Conns -> Insts \cup {None}]
         /\ homes' \in [Tokens -> Insts \cup {None}]
         /\ clientN' \in [Insts -> Nat]
         /\ emptyAt' \in [Insts -> {"zero", "recent", "old"}]
<1>1. Cardinality(clients[i] \ {c}) \in Nat
  BY CountIsNat DEF TypeOK
<1>2. EmptyClock(i, clients[i] \ {c}) \in {"zero", "recent", "old"}
  BY DEF EmptyClock, TypeOK
<1>3. /\ clients' \in [Insts -> SUBSET Conns]
      /\ joins' \in [Insts -> SUBSET Conns]
  BY DEF Transfer, TypeOK
<1>4. /\ inst' \in [Conns -> Insts \cup {None}]
      /\ homes' \in [Tokens -> Insts \cup {None}]
  BY DEF Transfer, TypeOK
<1>5. /\ clientN' \in [Insts -> Nat]
      /\ emptyAt' \in [Insts -> {"zero", "recent", "old"}]
  BY <1>1, <1>2 DEF Transfer, TypeOK
<1> QED  BY <1>3, <1>4, <1>5

(* Every step keeps the types; those that bank need the token to be that   *)
(* of the slot in play.                                                    *)
LEMMA TypeStep ==
  ASSUME TypeOK, TokenOfSlot, TodoIsHere, [Next]_vars
  PROVE  TypeOK'
<1> USE DEF TypeOK, StoreTypeOK, connVars, instVars, lobbyVars, storeVars
<1>1. ASSUME NEW c \in Conns, NEW t \in Tokens, NEW n \in Names, ConnectNamed(c, t, n)
      PROVE TypeOK'
  <2>1. StoreTypeOK'
    BY <1>1, ConnectType DEF ConnectNamed, TypeOK
  <2> QED  BY <1>1, <2>1 DEF ConnectNamed
<1>2. ASSUME NEW c \in Conns, ConnectGuest(c) PROVE TypeOK'
  BY <1>2 DEF ConnectGuest
<1>3. ASSUME NEW c \in Conns, Place(c) PROVE TypeOK'
  <2>1. PICK i \in Insts :
          /\ (i \in HomeOf(c) /\ ClaimHome(i)) \/ (HomeOf(c) = {} /\ NewInstance(i))
          /\ inst' = [inst EXCEPT ![c] = i]
          /\ homes' = IF token[c] = None THEN homes ELSE [homes EXCEPT ![token[c]] = i]
    BY <1>3 DEF Place
  <2>2. /\ emptyAt' \in [Insts -> {"zero", "recent", "old"}]
        /\ state' \in [Insts -> {"none", "live", "reaped"}]
    BY <2>1 DEF ClaimHome, NewInstance, TypeOK
  <2> QED  BY <1>3, <2>1, <2>2 DEF Place
<1>4. ASSUME NEW c \in Conns, PlaceFails(c) PROVE TypeOK'
  <2>1. StoreTypeOK'
    <3>1. CASE token[c] = None
      BY <1>4, <3>1 DEF PlaceFails
    <3>2. CASE token[c] # None
      BY <1>4, <3>2, BankType DEF PlaceFails, TypeOK
    <3> QED  BY <3>1, <3>2
  <2> QED  BY <1>4, <2>1 DEF PlaceFails
<1>5. ASSUME NEW c \in Conns, QueueJoin(c) PROVE TypeOK'
  <2>1. joins' \in [Insts -> SUBSET Conns]
    <3>1. CASE inst[c] \in Insts
      BY <1>5, <3>1 DEF QueueJoin
    <3>2. CASE inst[c] \notin Insts
      <4>1. joins' = joins
        BY <1>5, <3>2 DEF QueueJoin
      <4> QED  BY <4>1
    <3> QED  BY <3>1, <3>2
  <2> QED  BY <1>5, <2>1 DEF QueueJoin
<1>6. ASSUME NEW c \in Conns, Announce(c) PROVE TypeOK'
  BY <1>6 DEF Announce
<1>7. ASSUME NEW c \in Conns, FileLeave(c) PROVE TypeOK'
  <2>1. leaves' \in [Insts -> SUBSET Conns]
    <3>1. CASE leaveTo[c] \in Insts
      BY <1>7, <3>1 DEF FileLeave
    <3>2. CASE leaveTo[c] \notin Insts
      <4>1. leaves' = leaves
        BY <1>7, <3>2 DEF FileLeave
      <4> QED  BY <4>1
    <3> QED  BY <3>1, <3>2
  <2> QED  BY <1>7, <2>1 DEF FileLeave
<1>8. ASSUME NEW c \in Conns, ReadExit(c) PROVE TypeOK'
  BY <1>8 DEF ReadExit
<1>9. ASSUME NEW c \in Conns, Retire(c) PROVE TypeOK'
  BY <1>9 DEF Retire
<1>10. ASSUME NEW i \in Insts, TickDrain(i) PROVE TypeOK'
  BY <1>10 DEF TickDrain
<1>11. ASSUME NEW i \in Insts, NEW c \in Conns, TickRemove(i, c) PROVE TypeOK'
  <2>1. StoreTypeOK'
    <3>1. token[c] # None
      BY <1>11 DEF TickRemove, TodoIsHere
    <3> QED  BY <1>11, <3>1, CharOfType, BankType DEF TickRemove, TypeOK
  <2> QED  BY <1>11, <2>1 DEF TickRemove
<1>12. ASSUME NEW i \in Insts, TickPlayerLeft(i) PROVE TypeOK'
  BY <1>12 DEF TickPlayerLeft
<1>13. ASSUME NEW i \in Insts, TickPublish(i) PROVE TypeOK'
  <2>1. Cardinality(clients[i]) \in Nat
    BY CountIsNat DEF TypeOK
  <2>2. EmptyClock(i, clients[i]) \in {"zero", "recent", "old"}
    BY DEF EmptyClock, TypeOK
  <2> QED  BY <1>13, <2>1, <2>2 DEF TickPublish
<1>14. ASSUME NEW i \in Insts, GracePasses(i) PROVE TypeOK'
  BY <1>14 DEF GracePasses
<1>15. ASSUME NEW i \in Insts, Reap(i) PROVE TypeOK'
  BY <1>15 DEF Reap
<1>16. ASSUME NEW i \in Insts, RunLoopEnds(i) PROVE TypeOK'
  BY <1>16 DEF RunLoopEnds
<1>17. ASSUME NEW i \in Insts, NEW c \in Conns, TickBank(i, c) PROVE TypeOK'
  <2>1. StoreTypeOK'
    BY <1>17, CharOfType, BankType DEF TickBank, TypeOK
  <2> QED  BY <1>17, <2>1 DEF TickBank
<1>18. ASSUME NEW i \in Insts, NEW c \in Conns, TickFall(i, c) PROVE TypeOK'
  <2>1. StoreTypeOK'
    BY <1>18, DropType DEF TickFall, TypeOK
  <2> QED  BY <1>18, <2>1 DEF TickFall, SlotDeleted
<1>19. ASSUME NEW i \in Insts, NEW c \in Conns, DoomCloses(i, c) PROVE TypeOK'
  BY <1>19 DEF DoomCloses
<1>20. ASSUME NEW i \in Insts, NEW c \in Conns, SendFails(i, c) PROVE TypeOK'
  BY <1>20 DEF SendFails
<1>21. ASSUME NEW i \in Insts, NEW c \in Conns, NEW n \in Names, Invite(i, c, n)
       PROVE TypeOK'
  BY <1>21 DEF Invite, SocialTurn
<1>22. ASSUME NEW i \in Insts, NEW c \in Conns, Accept(i, c) PROVE TypeOK'
  <2>1. CASE UNCHANGED <<inst, state, joins, leaves, clients, clientN, emptyAt, homes>>
    BY <1>22, <2>1 DEF Accept, SocialTurn
  <2>2. ASSUME NEW j \in Insts \cup {None}, Transfer(i, j, c), UNCHANGED <<state, leaves>>
        PROVE  TypeOK'
    BY <1>22, <2>2, TransferType DEF Accept, SocialTurn
  <2>3. invites[token[c]] \in Tokens
    BY <1>22 DEF Accept, SocialTurn, TypeOK
  <2>4. lbOnline[invites[token[c]]] # None =>
          inst[lbOnline[invites[token[c]]]] \in Insts \cup {None}
    BY <2>3 DEF TypeOK
  <2> QED  BY <1>22, <2>1, <2>2, <2>4 DEF Accept
<1>23. ASSUME NEW i \in Insts, NEW c \in Conns, Decline(i, c) PROVE TypeOK'
  BY <1>23 DEF Decline, SocialTurn
<1>24. ASSUME NEW i \in Insts, NEW c \in Conns, LeaveParty(i, c) PROVE TypeOK'
  <2>1. PICK j \in Insts :
          state' = [state EXCEPT ![j] = "live"] /\ Transfer(i, j, c)
    BY <1>24 DEF LeaveParty
  <2> QED  BY <1>24, <2>1, TransferType DEF LeaveParty, SocialTurn
<1>25. ASSUME NEW t \in Tokens, NEW n \in Names, ApiClaim(t, n) PROVE TypeOK'
  <2>1. StoreTypeOK'
    BY <1>25, ClaimType DEF ApiClaim, TypeOK
  <2> QED  BY <1>25, <2>1 DEF ApiClaim, Edit
<1>26. ASSUME NEW t \in Tokens, NEW n \in Names, ApiForget(t, n) PROVE TypeOK'
  <2>1. StoreTypeOK'
    BY <1>26, DropType DEF ApiForget, TypeOK
  <2> QED  BY <1>26, <2>1 DEF ApiForget, Edit, SlotDeleted
<1>27. ASSUME NEW t \in Tokens, KickToken(t) PROVE TypeOK'
  BY <1>27 DEF KickToken
<1>28. ASSUME UNCHANGED vars PROVE TypeOK'
  BY <1>28 DEF vars
<1> QED  BY <1>1, <1>2, <1>3, <1>4, <1>5, <1>6, <1>7, <1>8, <1>9, <1>10, <1>11, <1>12,
     <1>13, <1>14, <1>15, <1>16, <1>17, <1>18, <1>19, <1>20, <1>21, <1>22, <1>23,
     <1>24, <1>25, <1>26, <1>27, <1>28 DEF Next, Door, ConnStep, TickStep, Social,
     vars

-----------------------------------------------------------------------------
(* An accepted invitation moves the client to another standing instance,   *)
(* or nowhere: whoever the online list names is in an instance that stands, *)
(* or leaving one.                                                         *)
LEMMA AcceptCases ==
  ASSUME TypeOK, Places, Reaper, OnlineListAgrees,
         NEW i \in Insts, NEW c \in Conns, Accept(i, c)
  PROVE  \/ UNCHANGED <<inst, state, joins, leaves, clients, clientN, emptyAt, homes>>
         \/ \E j \in Insts \ {i} :
              Standing(j) /\ Transfer(i, j, c) /\ UNCHANGED <<state, leaves>>
<1> DEFINE inviter == lbOnline[invites[token[c]]]
<1>1. SUFFICES ASSUME inviter # None, inst[inviter] # i
               PROVE  /\ inst[inviter] \in Insts
                      /\ Standing(inst[inviter])
  BY DEF Accept
<1>2. invites[token[c]] \in Tokens /\ inviter \in Conns
  BY <1>1 DEF Accept, SocialTurn, TypeOK
<1>3. Housed(inviter) \/ \E k \in Insts : departing[k] = inviter
  BY <1>1, <1>2 DEF OnlineListAgrees, ListedIsThere
<1>4. CASE Housed(inviter)
  BY <1>2, <1>4 DEF Housed, Places, HousedWhereRouted, Reaper, OccupiedStands
<1>5. CASE \E k \in Insts : departing[k] = inviter
  BY <1>1, <1>2, <1>5 DEF Places, DepartingIsOut, Reaper, OccupiedStands
<1> QED  BY <1>3, <1>4, <1>5

(* A connection stays in one place at a time. *)
LEMMA PlacesStep ==
  ASSUME TypeOK, Sessions, Places, Reaper, OnlineListAgrees, [Next]_vars
  PROVE  Places'
<1> USE DEF TypeOK, StoreTypeOK, InPlay, Housed, Sessions, TokenOfSlot, Places,
     DoorIsOutside, HousedWhereRouted, TodoIsHere, DepartingIsOut, DoorNotLeaving,
     DoorHasInstance,
            connVars, instVars, lobbyVars, storeVars
<1>1. ASSUME NEW c \in Conns, NEW t \in Tokens, NEW n \in Names, ConnectNamed(c, t, n)
      PROVE Places'
  BY <1>1 DEF ConnectNamed, Connect, CanConnect
<1>2. ASSUME NEW c \in Conns, ConnectGuest(c) PROVE Places'
  BY <1>2 DEF ConnectGuest
<1>3. ASSUME NEW c \in Conns, Place(c) PROVE Places'
  BY <1>3 DEF Place, HomeOf, ClaimHome, NewInstance, Buildable
<1>4. ASSUME NEW c \in Conns, PlaceFails(c) PROVE Places'
  BY <1>4 DEF PlaceFails, Disconnect
<1>5. ASSUME NEW c \in Conns, QueueJoin(c) PROVE Places'
  BY <1>5 DEF QueueJoin
<1>6. ASSUME NEW c \in Conns, Announce(c) PROVE Places'
  BY <1>6 DEF Announce
<1>7. ASSUME NEW c \in Conns, FileLeave(c) PROVE Places'
  BY <1>7 DEF FileLeave
<1>8. ASSUME NEW c \in Conns, ReadExit(c) PROVE Places'
  BY <1>8 DEF ReadExit
<1>9. ASSUME NEW c \in Conns, Retire(c) PROVE Places'
  BY <1>9 DEF Retire
<1>10. ASSUME NEW i \in Insts, TickDrain(i) PROVE Places'
  BY <1>10 DEF TickDrain
<1>11. ASSUME NEW i \in Insts, NEW c \in Conns, TickRemove(i, c) PROVE Places'
  BY <1>11 DEF TickRemove, Disconnect
<1>12. ASSUME NEW i \in Insts, TickPlayerLeft(i) PROVE Places'
  BY <1>12 DEF TickPlayerLeft
<1>13. ASSUME NEW i \in Insts, TickPublish(i) PROVE Places'
  BY <1>13 DEF TickPublish, EmptyClock
<1>14. ASSUME NEW i \in Insts, GracePasses(i) PROVE Places'
  BY <1>14 DEF GracePasses
<1>15. ASSUME NEW i \in Insts, Reap(i) PROVE Places'
  BY <1>15 DEF Reap
<1>16. ASSUME NEW i \in Insts, RunLoopEnds(i) PROVE Places'
  BY <1>16 DEF RunLoopEnds
<1>17. ASSUME NEW i \in Insts, NEW c \in Conns, TickBank(i, c) PROVE Places'
  BY <1>17 DEF TickBank, Bank
<1>18. ASSUME NEW i \in Insts, NEW c \in Conns, TickFall(i, c) PROVE Places'
  BY <1>18 DEF TickFall, FellInBattle, DropSlot, SlotDeleted
<1>19. ASSUME NEW i \in Insts, NEW c \in Conns, DoomCloses(i, c) PROVE Places'
  BY <1>19 DEF DoomCloses
<1>20. ASSUME NEW i \in Insts, NEW c \in Conns, SendFails(i, c) PROVE Places'
  BY <1>20 DEF SendFails
<1>21. ASSUME NEW i \in Insts, NEW c \in Conns, NEW n \in Names, Invite(i, c, n)
       PROVE Places'
  BY <1>21 DEF Invite, SocialTurn
<1>22. ASSUME NEW i \in Insts, NEW c \in Conns, Accept(i, c) PROVE Places'
  <2>1. SocialTurn(i, c)
    BY <1>22 DEF Accept
  <2>2. CASE UNCHANGED <<inst, state, joins, leaves, clients, clientN, emptyAt, homes>>
    BY <2>1, <2>2 DEF SocialTurn
  <2>3. ASSUME NEW j \in Insts \ {i}, Standing(j), Transfer(i, j, c),
               UNCHANGED <<state, leaves>>
        PROVE  Places'
    BY <2>1, <2>3 DEF SocialTurn, Transfer
  <2> QED  BY <1>22, <2>2, <2>3, AcceptCases
<1>23. ASSUME NEW i \in Insts, NEW c \in Conns, Decline(i, c) PROVE Places'
  BY <1>23 DEF Decline, SocialTurn
<1>24. ASSUME NEW i \in Insts, NEW c \in Conns, LeaveParty(i, c) PROVE Places'
  BY <1>24 DEF LeaveParty, SocialTurn, Transfer, Buildable
<1>25. ASSUME NEW t \in Tokens, NEW n \in Names, ApiClaim(t, n) PROVE Places'
  BY <1>25 DEF ApiClaim, Claim, AddChar
<1>26. ASSUME NEW t \in Tokens, NEW n \in Names, ApiForget(t, n) PROVE Places'
  BY <1>26 DEF ApiForget, DeleteChar, DropSlot, SlotDeleted
<1>27. ASSUME NEW t \in Tokens, KickToken(t) PROVE Places'
  BY <1>27 DEF KickToken
<1>28. ASSUME UNCHANGED vars PROVE Places'
  BY <1>28 DEF vars
<1> QED  BY <1>1, <1>2, <1>3, <1>4, <1>5, <1>6, <1>7, <1>8, <1>9, <1>10, <1>11, <1>12,
     <1>13, <1>14, <1>15, <1>16, <1>17, <1>18, <1>19, <1>20, <1>21, <1>22, <1>23,
     <1>24, <1>25, <1>26, <1>27, <1>28 DEF Next, Door, ConnStep, TickStep, Social,
     vars

(* The reaper takes nothing that is used. *)
LEMMA ReaperStep ==
  ASSUME TypeOK, Places, Reaper, OnlineListAgrees, [Next]_vars
  PROVE  Reaper'
<1> USE DEF TypeOK, Housed, Places, DoorIsOutside, HousedWhereRouted, TodoIsHere,
     DepartingIsOut, DoorHasInstance, Reaper, OccupiedStands, ClockMeansEmpty,
     HomesStand, Standing, EmptyClock, OnlineListAgrees, ListedIsThere,
            connVars, instVars, lobbyVars, storeVars
<1>1. ASSUME NEW c \in Conns, NEW t \in Tokens, NEW n \in Names, ConnectNamed(c, t, n)
      PROVE Reaper'
  BY <1>1 DEF ConnectNamed, Connect, CanConnect
<1>2. ASSUME NEW c \in Conns, ConnectGuest(c) PROVE Reaper'
  BY <1>2 DEF ConnectGuest
<1>3. ASSUME NEW c \in Conns, Place(c) PROVE Reaper'
  BY <1>3 DEF Place, HomeOf, ClaimHome, NewInstance, Buildable
<1>4. ASSUME NEW c \in Conns, PlaceFails(c) PROVE Reaper'
  BY <1>4 DEF PlaceFails, Disconnect
<1>5. ASSUME NEW c \in Conns, QueueJoin(c) PROVE Reaper'
  BY <1>5 DEF QueueJoin
<1>6. ASSUME NEW c \in Conns, Announce(c) PROVE Reaper'
  BY <1>6 DEF Announce
<1>7. ASSUME NEW c \in Conns, FileLeave(c) PROVE Reaper'
  BY <1>7 DEF FileLeave
<1>8. ASSUME NEW c \in Conns, ReadExit(c) PROVE Reaper'
  BY <1>8 DEF ReadExit
<1>9. ASSUME NEW c \in Conns, Retire(c) PROVE Reaper'
  BY <1>9 DEF Retire
<1>10. ASSUME NEW i \in Insts, TickDrain(i) PROVE Reaper'
  BY <1>10 DEF TickDrain
<1>11. ASSUME NEW i \in Insts, NEW c \in Conns, TickRemove(i, c) PROVE Reaper'
  BY <1>11 DEF TickRemove, Disconnect
<1>12. ASSUME NEW i \in Insts, TickPlayerLeft(i) PROVE Reaper'
  BY <1>12 DEF TickPlayerLeft
<1>13. ASSUME NEW i \in Insts, TickPublish(i) PROVE Reaper'
  BY <1>13 DEF TickPublish, EmptyClock
<1>14. ASSUME NEW i \in Insts, GracePasses(i) PROVE Reaper'
  BY <1>14 DEF GracePasses
<1>15. ASSUME NEW i \in Insts, Reap(i) PROVE Reaper'
  BY <1>15 DEF Reap
<1>16. ASSUME NEW i \in Insts, RunLoopEnds(i) PROVE Reaper'
  BY <1>16 DEF RunLoopEnds
<1>17. ASSUME NEW i \in Insts, NEW c \in Conns, TickBank(i, c) PROVE Reaper'
  BY <1>17 DEF TickBank, Bank
<1>18. ASSUME NEW i \in Insts, NEW c \in Conns, TickFall(i, c) PROVE Reaper'
  BY <1>18 DEF TickFall, FellInBattle, DropSlot, SlotDeleted
<1>19. ASSUME NEW i \in Insts, NEW c \in Conns, DoomCloses(i, c) PROVE Reaper'
  BY <1>19 DEF DoomCloses
<1>20. ASSUME NEW i \in Insts, NEW c \in Conns, SendFails(i, c) PROVE Reaper'
  BY <1>20 DEF SendFails
<1>21. ASSUME NEW i \in Insts, NEW c \in Conns, NEW n \in Names, Invite(i, c, n)
       PROVE Reaper'
  BY <1>21 DEF Invite, SocialTurn
<1>22. ASSUME NEW i \in Insts, NEW c \in Conns, Accept(i, c) PROVE Reaper'
  <2>1. SocialTurn(i, c)
    BY <1>22 DEF Accept
  <2>2. CASE UNCHANGED <<inst, state, joins, leaves, clients, clientN, emptyAt, homes>>
    BY <2>1, <2>2 DEF SocialTurn
  <2>3. ASSUME NEW j \in Insts \ {i}, Standing(j), Transfer(i, j, c),
               UNCHANGED <<state, leaves>>
        PROVE  Reaper'
    BY <2>1, <2>3 DEF SocialTurn, Transfer
  <2> QED  BY <1>22, <2>2, <2>3, AcceptCases
<1>23. ASSUME NEW i \in Insts, NEW c \in Conns, Decline(i, c) PROVE Reaper'
  BY <1>23 DEF Decline, SocialTurn
<1>24. ASSUME NEW i \in Insts, NEW c \in Conns, LeaveParty(i, c) PROVE Reaper'
  BY <1>24 DEF LeaveParty, SocialTurn, Transfer, Buildable
<1>25. ASSUME NEW t \in Tokens, NEW n \in Names, ApiClaim(t, n) PROVE Reaper'
  BY <1>25 DEF ApiClaim, Claim, AddChar
<1>26. ASSUME NEW t \in Tokens, NEW n \in Names, ApiForget(t, n) PROVE Reaper'
  BY <1>26 DEF ApiForget, DeleteChar, DropSlot, SlotDeleted
<1>27. ASSUME NEW t \in Tokens, KickToken(t) PROVE Reaper'
  BY <1>27 DEF KickToken
<1>28. ASSUME UNCHANGED vars PROVE Reaper'
  BY <1>28 DEF vars
<1> QED  BY <1>1, <1>2, <1>3, <1>4, <1>5, <1>6, <1>7, <1>8, <1>9, <1>10, <1>11, <1>12,
     <1>13, <1>14, <1>15, <1>16, <1>17, <1>18, <1>19, <1>20, <1>21, <1>22, <1>23,
     <1>24, <1>25, <1>26, <1>27, <1>28 DEF Next, Door, ConnStep, TickStep, Social,
     vars

(* Nobody comes into play but by connecting. *)
LEMMA NoNewPlayer ==
  ASSUME TypeOK, Sessions, Places, Reaper, OnlineListAgrees, [Next]_vars,
         NEW d \in Conns, InPlay(d)'
  PROVE  \/ InPlay(d) /\ plays'[d] = plays[d]
         \/ \E t \in Tokens, n \in Names : ConnectNamed(d, t, n)
<1> USE DEF TypeOK, StoreTypeOK, InPlay, Housed, Places, DoorIsOutside,
     HousedWhereRouted,
            DoorHasInstance, TodoIsHere, connVars, instVars, lobbyVars, storeVars
<1>1. ASSUME NEW c \in Conns, NEW t \in Tokens, NEW n \in Names, ConnectNamed(c, t, n), c # d
      PROVE InPlay(d) /\ plays'[d] = plays[d]
  BY <1>1 DEF ConnectNamed, Connect, CanConnect
<1>2. ASSUME NEW c \in Conns, ConnectGuest(c) PROVE InPlay(d) /\ plays'[d] = plays[d]
  BY <1>2 DEF ConnectGuest, Sessions, FreeIsBlank
<1>3. ASSUME NEW c \in Conns, Place(c) PROVE InPlay(d) /\ plays'[d] = plays[d]
  BY <1>3 DEF Place, HomeOf, ClaimHome, NewInstance, Buildable
<1>4. ASSUME NEW c \in Conns, PlaceFails(c) PROVE InPlay(d) /\ plays'[d] = plays[d]
  BY <1>4 DEF PlaceFails, Disconnect
<1>5. ASSUME NEW c \in Conns, QueueJoin(c) PROVE InPlay(d) /\ plays'[d] = plays[d]
  BY <1>5 DEF QueueJoin
<1>6. ASSUME NEW c \in Conns, Announce(c) PROVE InPlay(d) /\ plays'[d] = plays[d]
  BY <1>6 DEF Announce
<1>7. ASSUME NEW c \in Conns, FileLeave(c) PROVE InPlay(d) /\ plays'[d] = plays[d]
  BY <1>7 DEF FileLeave
<1>8. ASSUME NEW c \in Conns, ReadExit(c) PROVE InPlay(d) /\ plays'[d] = plays[d]
  BY <1>8 DEF ReadExit
<1>9. ASSUME NEW c \in Conns, Retire(c) PROVE InPlay(d) /\ plays'[d] = plays[d]
  BY <1>9 DEF Retire
<1>10. ASSUME NEW i \in Insts, TickDrain(i) PROVE InPlay(d) /\ plays'[d] = plays[d]
  BY <1>10 DEF TickDrain
<1>11. ASSUME NEW i \in Insts, NEW c \in Conns, TickRemove(i, c)
       PROVE InPlay(d) /\ plays'[d] = plays[d]
  BY <1>11 DEF TickRemove, Disconnect
<1>12. ASSUME NEW i \in Insts, TickPlayerLeft(i) PROVE InPlay(d) /\ plays'[d] = plays[d]
  BY <1>12 DEF TickPlayerLeft
<1>13. ASSUME NEW i \in Insts, TickPublish(i) PROVE InPlay(d) /\ plays'[d] = plays[d]
  BY <1>13 DEF TickPublish, EmptyClock
<1>14. ASSUME NEW i \in Insts, GracePasses(i) PROVE InPlay(d) /\ plays'[d] = plays[d]
  BY <1>14 DEF GracePasses
<1>15. ASSUME NEW i \in Insts, Reap(i) PROVE InPlay(d) /\ plays'[d] = plays[d]
  BY <1>15 DEF Reap
<1>16. ASSUME NEW i \in Insts, RunLoopEnds(i) PROVE InPlay(d) /\ plays'[d] = plays[d]
  BY <1>16 DEF RunLoopEnds
<1>17. ASSUME NEW i \in Insts, NEW c \in Conns, TickBank(i, c)
       PROVE InPlay(d) /\ plays'[d] = plays[d]
  BY <1>17 DEF TickBank, Bank
<1>18. ASSUME NEW i \in Insts, NEW c \in Conns, TickFall(i, c)
       PROVE InPlay(d) /\ plays'[d] = plays[d]
  BY <1>18 DEF TickFall, FellInBattle, DropSlot, SlotDeleted
<1>19. ASSUME NEW i \in Insts, NEW c \in Conns, DoomCloses(i, c)
       PROVE InPlay(d) /\ plays'[d] = plays[d]
  BY <1>19 DEF DoomCloses
<1>20. ASSUME NEW i \in Insts, NEW c \in Conns, SendFails(i, c)
       PROVE InPlay(d) /\ plays'[d] = plays[d]
  BY <1>20 DEF SendFails
<1>21. ASSUME NEW i \in Insts, NEW c \in Conns, NEW n \in Names, Invite(i, c, n)
       PROVE InPlay(d) /\ plays'[d] = plays[d]
  BY <1>21 DEF Invite, SocialTurn
<1>22. ASSUME NEW i \in Insts, NEW c \in Conns, Accept(i, c)
       PROVE InPlay(d) /\ plays'[d] = plays[d]
  <2>1. SocialTurn(i, c)
    BY <1>22 DEF Accept
  <2>2. CASE UNCHANGED <<inst, state, joins, leaves, clients, clientN, emptyAt, homes>>
    BY <2>1, <2>2 DEF SocialTurn
  <2>3. ASSUME NEW j \in Insts \ {i}, Standing(j), Transfer(i, j, c),
               UNCHANGED <<state, leaves>>
        PROVE  InPlay(d) /\ plays'[d] = plays[d]
    BY <2>1, <2>3 DEF SocialTurn, Transfer
  <2> QED  BY <1>22, <2>2, <2>3, AcceptCases
<1>23. ASSUME NEW i \in Insts, NEW c \in Conns, Decline(i, c)
       PROVE InPlay(d) /\ plays'[d] = plays[d]
  BY <1>23 DEF Decline, SocialTurn
<1>24. ASSUME NEW i \in Insts, NEW c \in Conns, LeaveParty(i, c)
       PROVE InPlay(d) /\ plays'[d] = plays[d]
  BY <1>24 DEF LeaveParty, SocialTurn, Transfer, Buildable
<1>25. ASSUME NEW t \in Tokens, NEW n \in Names, ApiClaim(t, n)
       PROVE InPlay(d) /\ plays'[d] = plays[d]
  BY <1>25 DEF ApiClaim, Claim, AddChar
<1>26. ASSUME NEW t \in Tokens, NEW n \in Names, ApiForget(t, n)
       PROVE InPlay(d) /\ plays'[d] = plays[d]
  BY <1>26 DEF ApiForget, DeleteChar, DropSlot, SlotDeleted
<1>27. ASSUME NEW t \in Tokens, KickToken(t) PROVE InPlay(d) /\ plays'[d] = plays[d]
  BY <1>27 DEF KickToken
<1>28. ASSUME UNCHANGED vars PROVE InPlay(d) /\ plays'[d] = plays[d]
  BY <1>28 DEF vars
<1> QED  BY <1>1, <1>2, <1>3, <1>4, <1>5, <1>6, <1>7, <1>8, <1>9, <1>10, <1>11, <1>12,
     <1>13, <1>14, <1>15, <1>16, <1>17, <1>18, <1>19, <1>20, <1>21, <1>22, <1>23,
     <1>24, <1>25, <1>26, <1>27, <1>28 DEF Next, Door, ConnStep, TickStep, Social,
     vars

(* The steps that touch who plays what. *)
LEMMA PlaysFrame ==
  ASSUME [Next]_vars
  PROVE  \/ UNCHANGED <<token, plays>>
         \/ \E c \in Conns, t \in Tokens, n \in Names : ConnectNamed(c, t, n)
         \/ \E c \in Conns : Retire(c)
         \/ \E i \in Insts : TickPlayerLeft(i)
<1>1. CASE \E c \in Conns : Door(c) \/ ConnStep(c) \/ ReadExit(c) \/ Retire(c)
  BY <1>1 DEF connVars, Door, ConnStep, ConnectGuest, Place, PlaceFails, QueueJoin,
         Announce, FileLeave, ReadExit
<1>2. CASE \E i \in Insts : TickStep(i) \/ GracePasses(i) \/ Reap(i) \/ RunLoopEnds(i)
  BY <1>2 DEF connVars, TickStep, TickDrain, TickRemove, TickPublish, GracePasses,
         Reap, RunLoopEnds
<1>3. CASE \E i \in Insts, c \in Conns : TickBank(i, c) \/ TickFall(i, c) \/ DoomCloses(i, c) \/ SendFails(i, c)
  BY <1>3 DEF connVars, TickBank, TickFall, DoomCloses, SendFails
<1>4. CASE \E i \in Insts, c \in Conns : Social(i, c)
  BY <1>4 DEF connVars, Social, SocialTurn, Invite, Accept, Decline, LeaveParty
<1>5. CASE (\E t \in Tokens, n \in Names : ApiClaim(t, n) \/ ApiForget(t, n)) \/ \E t \in Tokens : KickToken(t)
  BY <1>5 DEF connVars, ApiClaim, ApiForget, KickToken
<1>6. CASE UNCHANGED vars
  BY <1>6 DEF connVars, vars
<1> QED  BY <1>1, <1>2, <1>3, <1>4, <1>5, <1>6 DEF Next

(* The steps that touch the store. *)
LEMMA StoreFrame ==
  ASSUME [Next]_vars
  PROVE  \/ UNCHANGED storeVars
         \/ \E c \in Conns, t \in Tokens, n \in Names : ConnectNamed(c, t, n)
         \/ \E c \in Conns : PlaceFails(c)
         \/ \E i \in Insts, c \in Conns : TickRemove(i, c) \/ TickBank(i, c)
         \/ \E i \in Insts, c \in Conns : TickFall(i, c)
         \/ \E t \in Tokens, n \in Names : ApiClaim(t, n)
         \/ \E t \in Tokens, n \in Names : ApiForget(t, n)
<1>1. CASE \E c \in Conns : Door(c) \/ ConnStep(c) \/ ReadExit(c) \/ Retire(c)
  BY <1>1 DEF storeVars, Door, ConnStep, ConnectGuest, Place, QueueJoin, Announce,
         FileLeave, ReadExit, Retire
<1>2. CASE \E i \in Insts : TickStep(i) \/ GracePasses(i) \/ Reap(i) \/ RunLoopEnds(i)
  BY <1>2 DEF storeVars, TickStep, TickDrain, TickPlayerLeft, TickPublish,
         GracePasses, Reap, RunLoopEnds
<1>3. CASE \E i \in Insts, c \in Conns : TickBank(i, c) \/ TickFall(i, c) \/ DoomCloses(i, c) \/ SendFails(i, c)
  BY <1>3 DEF storeVars, DoomCloses, SendFails
<1>4. CASE \E i \in Insts, c \in Conns : Social(i, c)
  BY <1>4 DEF storeVars, Social, SocialTurn, Invite, Accept, Decline, LeaveParty
<1>5. CASE (\E t \in Tokens, n \in Names : ApiClaim(t, n) \/ ApiForget(t, n)) \/ \E t \in Tokens : KickToken(t)
  BY <1>5 DEF storeVars, KickToken
<1>6. CASE UNCHANGED vars
  BY <1>6 DEF storeVars, vars
<1> QED  BY <1>1, <1>2, <1>3, <1>4, <1>5, <1>6 DEF Next

(* The token is that of the slot in play. *)
LEMMA TokenOfSlotStep ==
  ASSUME TypeOK, TokenOfSlot, [Next]_vars
  PROVE  TokenOfSlot'
<1> USE DEF TypeOK, TokenOfSlot
<1>1. CASE UNCHANGED <<token, plays>>
  BY <1>1
<1>2. ASSUME NEW c \in Conns, NEW t \in Tokens, NEW n \in Names, ConnectNamed(c, t, n)
      PROVE  TokenOfSlot'
  <2>1. <<t, n>> # None
    OBVIOUS
  <2> QED  BY <1>2, <2>1 DEF ConnectNamed
<1>3. CASE \E c \in Conns : Retire(c)
  BY <1>3 DEF Retire
<1>4. CASE \E i \in Insts : TickPlayerLeft(i)
  BY <1>4 DEF TickPlayerLeft
<1> QED  BY <1>1, <1>2, <1>3, <1>4, PlaysFrame

(* No two connections in play have the same token. *)
LEMMA TokenIsUnique ==
  ASSUME Sessions, NEW c \in Conns, NEW d \in Conns, InPlay(c), InPlay(d),
         token[c] = token[d]
  PROVE  c = d
  BY DEF Sessions, TokenOfSlot, InPlayHasToken, OneSession

(* Only a connection that is out of play forgets its token. *)
LEMMA InPlayHasTokenStep ==
  ASSUME TypeOK, Sessions, Places, Reaper, OnlineListAgrees, [Next]_vars
  PROVE  InPlayHasToken'
<1> SUFFICES ASSUME NEW d \in Conns, InPlay(d)'
             PROVE  token'[d] # None
  BY DEF InPlayHasToken
<1>1. CASE \E t \in Tokens, n \in Names : ConnectNamed(d, t, n)
  BY <1>1 DEF ConnectNamed, TypeOK
<1>2. CASE InPlay(d) /\ plays'[d] = plays[d]
  <2>0. token[d] # None /\ plays[d] # None
    BY <1>2 DEF InPlay, Sessions, InPlayHasToken
  <2>1. CASE UNCHANGED <<token, plays>>
    BY <2>0, <2>1
  <2>2. CASE \E c \in Conns, t \in Tokens, n \in Names : ConnectNamed(c, t, n)
    BY <2>0, <2>2 DEF ConnectNamed, TypeOK
  <2>3. CASE \E c \in Conns : Retire(c)
    BY <1>2, <2>0, <2>3 DEF Retire, TypeOK
  <2>4. ASSUME NEW i \in Insts, TickPlayerLeft(i) PROVE token'[d] # None
    <3>1. departing[i] # d
      BY <1>2, <2>4 DEF TickPlayerLeft, InPlay, Places, DoorNotLeaving, DepartingIsOut
    <3> QED  BY <2>0, <2>4, <3>1 DEF TickPlayerLeft, TypeOK
  <2> QED  BY <2>1, <2>2, <2>3, <2>4, PlaysFrame
<1> QED  BY <1>1, <1>2, NoNewPlayer

(* An account once minted stays minted. *)
LEMMA PlayedWasMintedStep ==
  ASSUME TypeOK, PlayedWasMinted, [Next]_vars
  PROVE  PlayedWasMinted'
<1>1. \A t \in Tokens : account'[t] = "unminted" => account[t] = "unminted"
  <2> USE DEF TypeOK, StoreTypeOK, storeVars
  <2>1. CASE \E c \in Conns, t \in Tokens, n \in Names : ConnectNamed(c, t, n)
    BY <2>1 DEF ConnectNamed, Connect
  <2>2. CASE \E c \in Conns : PlaceFails(c)
    BY <2>2 DEF PlaceFails, Disconnect
  <2>3. CASE \E i \in Insts, c \in Conns : TickRemove(i, c) \/ TickBank(i, c)
    BY <2>3 DEF TickRemove, TickBank, Disconnect, Bank
  <2>4. CASE \E i \in Insts, c \in Conns : TickFall(i, c)
    BY <2>4 DEF TickFall, FellInBattle
  <2>5. CASE \E t \in Tokens, n \in Names : ApiClaim(t, n)
    BY <2>5 DEF ApiClaim, Claim, AddChar
  <2>6. CASE \E t \in Tokens, n \in Names : ApiForget(t, n)
    BY <2>6 DEF ApiForget, DeleteChar
  <2> QED  BY <2>1, <2>2, <2>3, <2>4, <2>5, <2>6, StoreFrame
<1> USE DEF TypeOK, PlayedWasMinted
<1>2. CASE UNCHANGED <<token, plays>>
  BY <1>1, <1>2
<1>3. CASE \E c \in Conns, t \in Tokens, n \in Names : ConnectNamed(c, t, n)
  BY <1>1, <1>3 DEF ConnectNamed, Connect, CanConnect
<1>4. CASE \E c \in Conns : Retire(c)
  BY <1>1, <1>4 DEF Retire
<1>5. CASE \E i \in Insts : TickPlayerLeft(i)
  BY <1>1, <1>5 DEF TickPlayerLeft
<1> QED  BY <1>2, <1>3, <1>4, <1>5, PlaysFrame

(* A client object is handed back blank. *)
LEMMA FreeIsBlankStep ==
  ASSUME TypeOK, Sessions, Places, Reaper, OnlineListAgrees, [Next]_vars
  PROVE  FreeIsBlank'
<1> USE DEF TypeOK, StoreTypeOK, Housed, Sessions, FreeIsBlank, Places, DoorIsOutside,
     DoorNotLeaving,
            connVars, instVars, lobbyVars, storeVars
<1>1. ASSUME NEW c \in Conns, NEW t \in Tokens, NEW n \in Names, ConnectNamed(c, t, n)
      PROVE FreeIsBlank'
  BY <1>1 DEF ConnectNamed, Connect, CanConnect
<1>2. ASSUME NEW c \in Conns, ConnectGuest(c) PROVE FreeIsBlank'
  BY <1>2 DEF ConnectGuest
<1>3. ASSUME NEW c \in Conns, Place(c) PROVE FreeIsBlank'
  BY <1>3 DEF Place, HomeOf, ClaimHome, NewInstance, Buildable
<1>4. ASSUME NEW c \in Conns, PlaceFails(c) PROVE FreeIsBlank'
  BY <1>4 DEF PlaceFails, Disconnect
<1>5. ASSUME NEW c \in Conns, QueueJoin(c) PROVE FreeIsBlank'
  BY <1>5 DEF QueueJoin
<1>6. ASSUME NEW c \in Conns, Announce(c) PROVE FreeIsBlank'
  BY <1>6 DEF Announce
<1>7. ASSUME NEW c \in Conns, FileLeave(c) PROVE FreeIsBlank'
  BY <1>7 DEF FileLeave
<1>8. ASSUME NEW c \in Conns, ReadExit(c) PROVE FreeIsBlank'
  BY <1>8 DEF ReadExit
<1>9. ASSUME NEW c \in Conns, Retire(c) PROVE FreeIsBlank'
  BY <1>9 DEF Retire
<1>10. ASSUME NEW i \in Insts, TickDrain(i) PROVE FreeIsBlank'
  BY <1>10 DEF TickDrain
<1>11. ASSUME NEW i \in Insts, NEW c \in Conns, TickRemove(i, c) PROVE FreeIsBlank'
  BY <1>11 DEF TickRemove, Disconnect
<1>12. ASSUME NEW i \in Insts, TickPlayerLeft(i) PROVE FreeIsBlank'
  BY <1>12 DEF TickPlayerLeft
<1>13. ASSUME NEW i \in Insts, TickPublish(i) PROVE FreeIsBlank'
  BY <1>13 DEF TickPublish, EmptyClock
<1>14. ASSUME NEW i \in Insts, GracePasses(i) PROVE FreeIsBlank'
  BY <1>14 DEF GracePasses
<1>15. ASSUME NEW i \in Insts, Reap(i) PROVE FreeIsBlank'
  BY <1>15 DEF Reap
<1>16. ASSUME NEW i \in Insts, RunLoopEnds(i) PROVE FreeIsBlank'
  BY <1>16 DEF RunLoopEnds
<1>17. ASSUME NEW i \in Insts, NEW c \in Conns, TickBank(i, c) PROVE FreeIsBlank'
  BY <1>17 DEF TickBank, Bank
<1>18. ASSUME NEW i \in Insts, NEW c \in Conns, TickFall(i, c) PROVE FreeIsBlank'
  <2>1. <<token[c], active[token[c]]>> # None
    BY <1>18 DEF TickFall, FellInBattle
  <2> QED  BY <1>18, <2>1 DEF TickFall, SlotDeleted
<1>19. ASSUME NEW i \in Insts, NEW c \in Conns, DoomCloses(i, c) PROVE FreeIsBlank'
  BY <1>19 DEF DoomCloses
<1>20. ASSUME NEW i \in Insts, NEW c \in Conns, SendFails(i, c) PROVE FreeIsBlank'
  BY <1>20 DEF SendFails
<1>21. ASSUME NEW i \in Insts, NEW c \in Conns, NEW n \in Names, Invite(i, c, n)
       PROVE FreeIsBlank'
  BY <1>21 DEF Invite, SocialTurn
<1>22. ASSUME NEW i \in Insts, NEW c \in Conns, Accept(i, c) PROVE FreeIsBlank'
  <2>1. SocialTurn(i, c)
    BY <1>22 DEF Accept
  <2>2. CASE UNCHANGED <<inst, state, joins, leaves, clients, clientN, emptyAt, homes>>
    BY <2>1, <2>2 DEF SocialTurn
  <2>3. ASSUME NEW j \in Insts \ {i}, Standing(j), Transfer(i, j, c),
               UNCHANGED <<state, leaves>>
        PROVE  FreeIsBlank'
    BY <2>1, <2>3 DEF SocialTurn, Transfer
  <2> QED  BY <1>22, <2>2, <2>3, AcceptCases
<1>23. ASSUME NEW i \in Insts, NEW c \in Conns, Decline(i, c) PROVE FreeIsBlank'
  BY <1>23 DEF Decline, SocialTurn
<1>24. ASSUME NEW i \in Insts, NEW c \in Conns, LeaveParty(i, c) PROVE FreeIsBlank'
  BY <1>24 DEF LeaveParty, SocialTurn, Transfer, Buildable
<1>25. ASSUME NEW t \in Tokens, NEW n \in Names, ApiClaim(t, n) PROVE FreeIsBlank'
  BY <1>25 DEF ApiClaim, Claim, AddChar
<1>26. ASSUME NEW t \in Tokens, NEW n \in Names, ApiForget(t, n) PROVE FreeIsBlank'
  <2>1. <<t, n>> # None
    OBVIOUS
  <2> QED  BY <1>26, <2>1 DEF ApiForget, SlotDeleted
<1>27. ASSUME NEW t \in Tokens, KickToken(t) PROVE FreeIsBlank'
  BY <1>27 DEF KickToken
<1>28. ASSUME UNCHANGED vars PROVE FreeIsBlank'
  BY <1>28 DEF vars
<1> QED  BY <1>1, <1>2, <1>3, <1>4, <1>5, <1>6, <1>7, <1>8, <1>9, <1>10, <1>11, <1>12,
     <1>13, <1>14, <1>15, <1>16, <1>17, <1>18, <1>19, <1>20, <1>21, <1>22, <1>23,
     <1>24, <1>25, <1>26, <1>27, <1>28 DEF Next, Door, ConnStep, TickStep, Social,
     vars

(* A connection that comes into play finds its account offline, so nobody  *)
(* plays it.                                                               *)
LEMMA OneSessionStep ==
  ASSUME TypeOK, Sessions, Places, Reaper, OnlineListAgrees, [Next]_vars
  PROVE  OneSession'
<1> SUFFICES ASSUME NEW c \in Conns, NEW d \in Conns, InPlay(c)', InPlay(d)',
                    plays'[c][1] = plays'[d][1], c # d
             PROVE  FALSE
  BY DEF OneSession
<1>1. ASSUME NEW x \in Conns, NEW y \in Conns, NEW t \in Tokens, NEW n \in Names,
             ConnectNamed(x, t, n), x # y, InPlay(y)', plays'[x][1] = plays'[y][1]
      PROVE  FALSE
  <2>1. ~ \E u \in Tokens, m \in Names : ConnectNamed(y, u, m)
    BY <1>1 DEF ConnectNamed, TypeOK
  <2>2. InPlay(y) /\ plays'[y] = plays[y]
    BY <1>1, <2>1, NoNewPlayer
  <2>3. plays'[x] = <<t, n>> /\ account[t] = "live" /\ t \notin online
    BY <1>1 DEF ConnectNamed, Connect, CanConnect, TypeOK
  <2> QED  BY <1>1, <2>2, <2>3 DEF Sessions, InPlayIsOnline
<1>2. CASE \E t \in Tokens, n \in Names : ConnectNamed(c, t, n)
  BY <1>1, <1>2
<1>3. CASE \E t \in Tokens, n \in Names : ConnectNamed(d, t, n)
  BY <1>1, <1>3
<1>4. CASE (InPlay(c) /\ plays'[c] = plays[c]) /\ (InPlay(d) /\ plays'[d] = plays[d])
  BY <1>4 DEF Sessions, OneSession
<1> QED  BY <1>2, <1>3, <1>4, NoNewPlayer

(* An account is online with the slot in play for as long as it is played. *)
LEMMA InPlayIsOnlineStep ==
  ASSUME TypeOK, Sessions, Places, Reaper, OnlineListAgrees, [Next]_vars
  PROVE  InPlayIsOnline'
<1> SUFFICES ASSUME NEW d \in Conns, InPlay(d)', account'[plays'[d][1]] = "live"
             PROVE  /\ plays'[d][1] \in online'
                    /\ active'[plays'[d][1]] = IF d \in stale' THEN None ELSE plays'[d][2]
  BY DEF InPlayIsOnline
<1> USE DEF TypeOK, StoreTypeOK, connVars, instVars, lobbyVars, storeVars
<1> DEFINE Old == InPlay(d) /\ plays'[d] = plays[d]
           Goal == /\ plays'[d][1] \in online'
                   /\ active'[plays'[d][1]] = IF d \in stale' THEN None ELSE plays'[d][2]
<1>a. CASE \E t \in Tokens, n \in Names : ConnectNamed(d, t, n)
  BY <1>a DEF ConnectNamed, Connect, CanConnect, TypeOK, StoreTypeOK, Sessions,
       FreeIsBlank
<1>b. CASE Old
  <2> USE <1>b
  <2>0. /\ plays[d] \in Tokens \X Names
        /\ token[d] = plays[d][1]
        /\ \A e \in Conns : InPlay(e) /\ token[e] = token[d] => e = d
        /\ account[plays[d][1]] # "unminted"
        /\ account[plays[d][1]] = "live" =>
             /\ plays[d][1] \in online
             /\ active[plays[d][1]] = IF d \in stale THEN None ELSE plays[d][2]
    BY DEF InPlay, TypeOK, Sessions, TokenOfSlot, InPlayHasToken, OneSession,
           PlayedWasMinted, InPlayIsOnline
  <2>1. ASSUME NEW c \in Conns, NEW t \in Tokens, NEW n \in Names, ConnectNamed(c, t, n)
        PROVE Goal
    BY <2>0, <2>1 DEF ConnectNamed, Connect, CanConnect, Sessions, FreeIsBlank, InPlay
  <2>2. ASSUME NEW c \in Conns, ConnectGuest(c) PROVE Goal
    BY <2>0, <2>2 DEF ConnectGuest
  <2>3. ASSUME NEW c \in Conns, Place(c) PROVE Goal
    BY <2>0, <2>3 DEF Place
  <2>4. ASSUME NEW c \in Conns, PlaceFails(c) PROVE Goal
    <3>1. c # d
      BY <2>4 DEF PlaceFails, InPlay, Housed, TypeOK, Places, DoorIsOutside, instVars
    <3>2. token[c] # None => token[c] # token[d]
      BY <2>0, <2>4, <3>1 DEF PlaceFails, InPlay, Sessions, InPlayHasToken,
           TokenOfSlot, OneSession
    <3> QED  BY <2>0, <2>4, <3>2 DEF PlaceFails, Disconnect
  <2>5. ASSUME NEW c \in Conns, QueueJoin(c) PROVE Goal
    BY <2>0, <2>5 DEF QueueJoin
  <2>6. ASSUME NEW c \in Conns, Announce(c) PROVE Goal
    BY <2>0, <2>6 DEF Announce
  <2>7. ASSUME NEW c \in Conns, FileLeave(c) PROVE Goal
    BY <2>0, <2>7 DEF FileLeave
  <2>8. ASSUME NEW c \in Conns, ReadExit(c) PROVE Goal
    BY <2>0, <2>8 DEF ReadExit
  <2>9. ASSUME NEW c \in Conns, Retire(c) PROVE Goal
    BY <2>0, <2>9 DEF Retire
  <2>10. ASSUME NEW i \in Insts, TickDrain(i) PROVE Goal
    BY <2>0, <2>10 DEF TickDrain
  <2>11. ASSUME NEW i \in Insts, NEW c \in Conns, TickRemove(i, c) PROVE Goal
    <3>1. c # d
      BY <2>11 DEF TickRemove, InPlay, Housed, TypeOK, Places, DoorIsOutside,
           HousedWhereRouted, TodoIsHere, connVars
    <3>2. token[c] # None /\ token[c] # token[d]
      BY <2>0, <2>11, <3>1 DEF TickRemove, InPlay, Housed, Places, TodoIsHere,
           Sessions, TokenOfSlot, OneSession
    <3> QED  BY <2>0, <2>11, <3>2 DEF TickRemove, Disconnect
  <2>12. ASSUME NEW i \in Insts, TickPlayerLeft(i) PROVE Goal
    BY <2>0, <2>12 DEF TickPlayerLeft
  <2>13. ASSUME NEW i \in Insts, TickPublish(i) PROVE Goal
    BY <2>0, <2>13 DEF TickPublish, EmptyClock
  <2>14. ASSUME NEW i \in Insts, GracePasses(i) PROVE Goal
    BY <2>0, <2>14 DEF GracePasses
  <2>15. ASSUME NEW i \in Insts, Reap(i) PROVE Goal
    BY <2>0, <2>15 DEF Reap
  <2>16. ASSUME NEW i \in Insts, RunLoopEnds(i) PROVE Goal
    BY <2>0, <2>16 DEF RunLoopEnds
  <2>17. ASSUME NEW i \in Insts, NEW c \in Conns, TickBank(i, c) PROVE Goal
    BY <2>0, <2>17 DEF TickBank, Bank
  <2>18. ASSUME NEW i \in Insts, NEW c \in Conns, TickFall(i, c) PROVE Goal
    BY <2>0, <2>18 DEF TickFall, FellInBattle, DropSlot, SlotDeleted
  <2>19. ASSUME NEW i \in Insts, NEW c \in Conns, DoomCloses(i, c) PROVE Goal
    BY <2>0, <2>19 DEF DoomCloses
  <2>20. ASSUME NEW i \in Insts, NEW c \in Conns, SendFails(i, c) PROVE Goal
    BY <2>0, <2>20 DEF SendFails
  <2>21. ASSUME NEW i \in Insts, NEW c \in Conns, NEW n \in Names, Invite(i, c, n)
         PROVE Goal
    BY <2>0, <2>21 DEF Invite, SocialTurn
  <2>22. ASSUME NEW i \in Insts, NEW c \in Conns, Accept(i, c) PROVE Goal
    BY <2>0, <2>22 DEF Accept, SocialTurn
  <2>23. ASSUME NEW i \in Insts, NEW c \in Conns, Decline(i, c) PROVE Goal
    BY <2>0, <2>23 DEF Decline, SocialTurn
  <2>24. ASSUME NEW i \in Insts, NEW c \in Conns, LeaveParty(i, c) PROVE Goal
    BY <2>0, <2>24 DEF LeaveParty, SocialTurn
  <2>25. ASSUME NEW t \in Tokens, NEW n \in Names, ApiClaim(t, n) PROVE Goal
    BY <2>0, <2>25 DEF ApiClaim, Claim, AddChar
  <2>26. ASSUME NEW t \in Tokens, NEW n \in Names, ApiForget(t, n) PROVE Goal
    BY <2>0, <2>26 DEF ApiForget, DeleteChar, DropSlot, SlotDeleted
  <2>27. ASSUME NEW t \in Tokens, KickToken(t) PROVE Goal
    BY <2>0, <2>27 DEF KickToken
  <2>28. ASSUME UNCHANGED vars PROVE Goal
    BY <2>0, <2>28 DEF vars
  <2> QED  BY <2>1, <2>2, <2>3, <2>4, <2>5, <2>6, <2>7, <2>8, <2>9, <2>10, <2>11,
       <2>12, <2>13, <2>14, <2>15, <2>16, <2>17, <2>18, <2>19, <2>20, <2>21, <2>22,
       <2>23, <2>24, <2>25, <2>26, <2>27, <2>28 DEF Next, Door, ConnStep, TickStep,
       Social, vars
<1> QED  BY <1>a, <1>b, NoNewPlayer

(* An entry of the online list goes when its session does. *)
At(d, k) == d \in clients[k] \cup joins[k] \/ departing[k] = d

LEMMA ListedIsThereStep ==
  ASSUME TypeOK, Sessions, Places, Reaper, OnlineListAgrees, [Next]_vars
  PROVE  ListedIsThere'
<1> SUFFICES ASSUME NEW u \in Tokens, NEW d, d = lbOnline'[u], d # None
             PROVE  token'[d] = u /\ \E k \in Insts : At(d, k)'
  BY DEF ListedIsThere, Housed, At
<1> USE DEF At, TypeOK, StoreTypeOK, connVars, instVars
<1> DEFINE Goal == token'[d] = u /\ \E k \in Insts : At(d, k)'
<1>1. CASE \E c \in Conns : Announce(c) /\ lbOnline[u] # d
  <2>1. PICK c \in Conns : Announce(c) /\ lbOnline[u] # d
    BY <1>1
  <2>2. c = d /\ token[c] = u /\ Housed(c)
    BY <2>1 DEF Announce, TypeOK, Places, DoorHasInstance
  <2> QED  BY <2>1, <2>2 DEF Announce, Housed, At, instVars
<1>2. CASE lbOnline[u] = d
  <2>0. PICK k \in Insts : /\ d \in Conns /\ token[d] = u /\ At(d, k)
                           /\ at[d] \notin {"free", "connected", "placed"}
    <3>1. d \in Conns /\ token[d] = u /\ (Housed(d) \/ \E i \in Insts : departing[i] = d)
      BY <1>2 DEF OnlineListAgrees, ListedIsThere
    <3>2. at[d] \notin {"free", "connected", "placed"}
      BY <3>1 DEF Places, DoorIsOutside, DoorNotLeaving
    <3> QED  BY <3>1, <3>2 DEF Housed
  <2>1. ASSUME NEW c \in Conns, NEW t \in Tokens, NEW n \in Names, ConnectNamed(c, t, n)
        PROVE Goal
    BY <1>2, <2>0, <2>1 DEF ConnectNamed
  <2>2. ASSUME NEW c \in Conns, ConnectGuest(c) PROVE Goal
    BY <1>2, <2>0, <2>2 DEF ConnectGuest
  <2>3. ASSUME NEW c \in Conns, Place(c) PROVE Goal
    BY <1>2, <2>0, <2>3 DEF Place
  <2>4. ASSUME NEW c \in Conns, PlaceFails(c) PROVE Goal
    BY <1>2, <2>0, <2>4 DEF PlaceFails
  <2>5. ASSUME NEW c \in Conns, QueueJoin(c) PROVE Goal
    <3>1. At(d, k)'
      BY <1>2, <2>0, <2>5 DEF QueueJoin
    <3> QED  BY <1>2, <2>0, <2>5, <3>1 DEF QueueJoin
  <2>6. ASSUME NEW c \in Conns, Announce(c) PROVE Goal
    BY <1>2, <2>0, <2>6 DEF Announce
  <2>7. ASSUME NEW c \in Conns, FileLeave(c) PROVE Goal
    BY <1>2, <2>0, <2>7 DEF FileLeave
  <2>8. ASSUME NEW c \in Conns, ReadExit(c) PROVE Goal
    BY <1>2, <2>0, <2>8 DEF ReadExit
  <2>9. ASSUME NEW c \in Conns, Retire(c) PROVE Goal
    BY <1>2, <2>0, <2>9 DEF Retire
  <2>10. ASSUME NEW i \in Insts, TickDrain(i) PROVE Goal
    <3>1. At(d, k)'
      BY <1>2, <2>0, <2>10 DEF TickDrain
    <3> QED  BY <1>2, <2>0, <2>10, <3>1 DEF TickDrain
  <2>11. ASSUME NEW i \in Insts, NEW c \in Conns, TickRemove(i, c) PROVE Goal
    <3>1. At(d, k)'
      BY <1>2, <2>0, <2>11 DEF TickRemove
    <3> QED  BY <1>2, <2>0, <2>11, <3>1 DEF TickRemove
  <2>12. ASSUME NEW i \in Insts, TickPlayerLeft(i) PROVE Goal
    <3>1. departing[i] # d
      BY <1>2, <2>0, <2>12 DEF TickPlayerLeft, TypeOK
    <3>2. At(d, k)'
      BY <2>0, <2>12, <3>1 DEF TickPlayerLeft
    <3> QED  BY <2>0, <2>12, <3>1, <3>2 DEF TickPlayerLeft, TypeOK
  <2>13. ASSUME NEW i \in Insts, TickPublish(i) PROVE Goal
    BY <1>2, <2>0, <2>13 DEF TickPublish
  <2>14. ASSUME NEW i \in Insts, GracePasses(i) PROVE Goal
    BY <1>2, <2>0, <2>14 DEF GracePasses
  <2>15. ASSUME NEW i \in Insts, Reap(i) PROVE Goal
    BY <1>2, <2>0, <2>15 DEF Reap
  <2>16. ASSUME NEW i \in Insts, RunLoopEnds(i) PROVE Goal
    BY <1>2, <2>0, <2>16 DEF RunLoopEnds
  <2>17. ASSUME NEW i \in Insts, NEW c \in Conns, TickBank(i, c) PROVE Goal
    BY <1>2, <2>0, <2>17 DEF TickBank
  <2>18. ASSUME NEW i \in Insts, NEW c \in Conns, TickFall(i, c) PROVE Goal
    BY <1>2, <2>0, <2>18 DEF TickFall
  <2>19. ASSUME NEW i \in Insts, NEW c \in Conns, DoomCloses(i, c) PROVE Goal
    BY <1>2, <2>0, <2>19 DEF DoomCloses
  <2>20. ASSUME NEW i \in Insts, NEW c \in Conns, SendFails(i, c) PROVE Goal
    BY <1>2, <2>0, <2>20 DEF SendFails
  <2>21. ASSUME NEW i \in Insts, NEW c \in Conns, NEW n \in Names, Invite(i, c, n)
         PROVE Goal
    BY <1>2, <2>0, <2>21 DEF Invite, SocialTurn
  <2>22. ASSUME NEW i \in Insts, NEW c \in Conns, Accept(i, c) PROVE Goal
    <3>1. SocialTurn(i, c)
      BY <2>22 DEF Accept
    <3>2. CASE UNCHANGED <<inst, state, joins, leaves, clients, clientN, emptyAt, homes>>
      BY <2>0, <3>1, <3>2 DEF SocialTurn, At
    <3>3. ASSUME NEW j \in Insts \ {i}, Transfer(i, j, c) PROVE Goal
      <4>1. At(d, k)' \/ At(d, j)'
        BY <2>0, <3>1, <3>3 DEF SocialTurn, Transfer, At, TypeOK
      <4> QED  BY <2>0, <3>1, <4>1 DEF SocialTurn
    <3> QED  BY <2>22, <3>2, <3>3, AcceptCases
  <2>23. ASSUME NEW i \in Insts, NEW c \in Conns, Decline(i, c) PROVE Goal
    BY <1>2, <2>0, <2>23 DEF Decline, SocialTurn
  <2>24. ASSUME NEW i \in Insts, NEW c \in Conns, LeaveParty(i, c) PROVE Goal
    <3>1. PICK j \in Insts : Buildable(j) /\ Transfer(i, j, c)
      BY <2>24 DEF LeaveParty
    <3>2. At(d, k)' \/ At(d, j)'
      BY <2>0, <2>24, <3>1 DEF LeaveParty, SocialTurn, Transfer, Buildable, At, TypeOK
    <3> QED  BY <2>0, <2>24, <3>2 DEF LeaveParty, SocialTurn
  <2>25. ASSUME NEW t \in Tokens, NEW n \in Names, ApiClaim(t, n) PROVE Goal
    BY <1>2, <2>0, <2>25 DEF ApiClaim
  <2>26. ASSUME NEW t \in Tokens, NEW n \in Names, ApiForget(t, n) PROVE Goal
    BY <1>2, <2>0, <2>26 DEF ApiForget
  <2>27. ASSUME NEW t \in Tokens, KickToken(t) PROVE Goal
    BY <1>2, <2>0, <2>27 DEF KickToken
  <2>28. ASSUME UNCHANGED vars PROVE Goal
    BY <1>2, <2>0, <2>28 DEF vars
  <2> QED  BY <2>1, <2>2, <2>3, <2>4, <2>5, <2>6, <2>7, <2>8, <2>9, <2>10, <2>11,
       <2>12, <2>13, <2>14, <2>15, <2>16, <2>17, <2>18, <2>19, <2>20, <2>21, <2>22,
       <2>23, <2>24, <2>25, <2>26, <2>27, <2>28 DEF Next, Door, ConnStep, TickStep,
       Social, vars
<1>3. \/ \E c \in Conns : Announce(c)
      \/ lbOnline' = lbOnline
      \/ \E i \in Insts : TickPlayerLeft(i)
  <2>1. CASE \E c \in Conns : Door(c) \/ ConnStep(c) \/ ReadExit(c) \/ Retire(c)
    BY <2>1 DEF lobbyVars, Door, ConnStep, ConnectGuest, Place, PlaceFails, QueueJoin,
           FileLeave, ReadExit, Retire, ConnectNamed
  <2>2. CASE \E i \in Insts : TickStep(i) \/ GracePasses(i) \/ Reap(i) \/ RunLoopEnds(i)
    BY <2>2 DEF lobbyVars, TickStep, TickDrain, TickRemove, TickPublish, GracePasses,
           Reap, RunLoopEnds
  <2>3. CASE \E i \in Insts, c \in Conns : TickBank(i, c) \/ TickFall(i, c) \/ DoomCloses(i, c) \/ SendFails(i, c)
    BY <2>3 DEF lobbyVars, TickBank, TickFall, DoomCloses, SendFails
  <2>4. CASE \E i \in Insts, c \in Conns : Social(i, c)
    BY <2>4 DEF lobbyVars, Social, SocialTurn, Invite, Accept, Decline, LeaveParty
  <2>5. CASE (\E t \in Tokens, n \in Names : ApiClaim(t, n) \/ ApiForget(t, n)) \/ \E t \in Tokens : KickToken(t)
    BY <2>5 DEF lobbyVars, ApiClaim, ApiForget, KickToken
  <2>6. CASE UNCHANGED vars
    BY <2>6 DEF lobbyVars, vars
  <2> QED  BY <2>1, <2>2, <2>3, <2>4, <2>5, <2>6 DEF Next
<1>4. CASE \E i \in Insts : TickPlayerLeft(i)
  BY <1>2, <1>4 DEF TickPlayerLeft, TypeOK
<1> QED  BY <1>1, <1>2, <1>3, <1>4

(* A session is listed from the door on. *)
LEMMA ThereIsListedStep ==
  ASSUME TypeOK, Sessions, Places, Reaper, OnlineListAgrees, [Next]_vars
  PROVE  ThereIsListed'
<1> USE DEF TypeOK, StoreTypeOK, Housed, InPlay, OnlineListAgrees, ThereIsListed,
     Sessions, TokenOfSlot, InPlayHasToken, FreeIsBlank, OneSession, Places,
     DoorIsOutside, HousedWhereRouted, DoorHasInstance, DoorNotLeaving, TodoIsHere,
     DepartingIsOut,
            connVars, instVars, lobbyVars, storeVars
<1>1. ASSUME NEW c \in Conns, NEW t \in Tokens, NEW n \in Names, ConnectNamed(c, t, n)
      PROVE ThereIsListed'
  BY <1>1 DEF ConnectNamed, Connect, CanConnect
<1>2. ASSUME NEW c \in Conns, ConnectGuest(c) PROVE ThereIsListed'
  BY <1>2 DEF ConnectGuest
<1>3. ASSUME NEW c \in Conns, Place(c) PROVE ThereIsListed'
  BY <1>3 DEF Place, HomeOf, ClaimHome, NewInstance, Buildable
<1>4. ASSUME NEW c \in Conns, PlaceFails(c) PROVE ThereIsListed'
  BY <1>4 DEF PlaceFails, Disconnect
<1>5. ASSUME NEW c \in Conns, QueueJoin(c) PROVE ThereIsListed'
  BY <1>5 DEF QueueJoin
<1>6. ASSUME NEW c \in Conns, Announce(c) PROVE ThereIsListed'
  <2> SUFFICES ASSUME NEW d \in Conns, Housed(d), token[d] # None, at'[d] \notin {"placed", "queued"}
               PROVE  lbOnline'[token[d]] = d
    BY <1>6 DEF Announce, ThereIsListed, Housed, instVars
  <2>1. CASE d = c
    BY <1>6, <2>1 DEF Announce, TypeOK
  <2>2. CASE d # c
    <3>1. lbOnline[token[d]] = d
      BY <1>6, <2>2 DEF Announce, TypeOK, OnlineListAgrees, ThereIsListed
    <3>2. token[c] # None => token[c] # token[d]
      <4>1. Housed(c)
        BY <1>6 DEF Announce
      <4>2. CASE token[c] # None
        <5>1. plays[c] # None /\ plays[d] # None
          BY <4>2
        <5>2. InPlay(c) /\ InPlay(d)
          BY <4>1, <5>1
        <5> QED  BY <2>2, <5>2, TokenIsUnique
      <4> QED  BY <4>2
    <3> QED  BY <1>6, <3>1, <3>2 DEF Announce, TypeOK
  <2> QED  BY <2>1, <2>2
<1>7. ASSUME NEW c \in Conns, FileLeave(c) PROVE ThereIsListed'
  BY <1>7 DEF FileLeave
<1>8. ASSUME NEW c \in Conns, ReadExit(c) PROVE ThereIsListed'
  BY <1>8 DEF ReadExit
<1>9. ASSUME NEW c \in Conns, Retire(c) PROVE ThereIsListed'
  BY <1>9 DEF Retire
<1>10. ASSUME NEW i \in Insts, TickDrain(i) PROVE ThereIsListed'
  BY <1>10 DEF TickDrain
<1>11. ASSUME NEW i \in Insts, NEW c \in Conns, TickRemove(i, c) PROVE ThereIsListed'
  BY <1>11 DEF TickRemove, Disconnect
<1>12. ASSUME NEW i \in Insts, TickPlayerLeft(i) PROVE ThereIsListed'
  BY <1>12 DEF TickPlayerLeft
<1>13. ASSUME NEW i \in Insts, TickPublish(i) PROVE ThereIsListed'
  BY <1>13 DEF TickPublish, EmptyClock
<1>14. ASSUME NEW i \in Insts, GracePasses(i) PROVE ThereIsListed'
  BY <1>14 DEF GracePasses
<1>15. ASSUME NEW i \in Insts, Reap(i) PROVE ThereIsListed'
  BY <1>15 DEF Reap
<1>16. ASSUME NEW i \in Insts, RunLoopEnds(i) PROVE ThereIsListed'
  BY <1>16 DEF RunLoopEnds
<1>17. ASSUME NEW i \in Insts, NEW c \in Conns, TickBank(i, c) PROVE ThereIsListed'
  BY <1>17 DEF TickBank, Bank
<1>18. ASSUME NEW i \in Insts, NEW c \in Conns, TickFall(i, c) PROVE ThereIsListed'
  BY <1>18 DEF TickFall, FellInBattle, DropSlot, SlotDeleted
<1>19. ASSUME NEW i \in Insts, NEW c \in Conns, DoomCloses(i, c) PROVE ThereIsListed'
  BY <1>19 DEF DoomCloses
<1>20. ASSUME NEW i \in Insts, NEW c \in Conns, SendFails(i, c) PROVE ThereIsListed'
  BY <1>20 DEF SendFails
<1>21. ASSUME NEW i \in Insts, NEW c \in Conns, NEW n \in Names, Invite(i, c, n)
       PROVE ThereIsListed'
  BY <1>21 DEF Invite, SocialTurn
<1>22. ASSUME NEW i \in Insts, NEW c \in Conns, Accept(i, c) PROVE ThereIsListed'
  <2>1. SocialTurn(i, c)
    BY <1>22 DEF Accept
  <2>2. CASE UNCHANGED <<inst, state, joins, leaves, clients, clientN, emptyAt, homes>>
    BY <2>1, <2>2 DEF SocialTurn
  <2>3. ASSUME NEW j \in Insts \ {i}, Standing(j), Transfer(i, j, c),
               UNCHANGED <<state, leaves>>
        PROVE  ThereIsListed'
    BY <2>1, <2>3 DEF SocialTurn, Transfer
  <2> QED  BY <1>22, <2>2, <2>3, AcceptCases
<1>23. ASSUME NEW i \in Insts, NEW c \in Conns, Decline(i, c) PROVE ThereIsListed'
  BY <1>23 DEF Decline, SocialTurn
<1>24. ASSUME NEW i \in Insts, NEW c \in Conns, LeaveParty(i, c) PROVE ThereIsListed'
  BY <1>24 DEF LeaveParty, SocialTurn, Transfer, Buildable
<1>25. ASSUME NEW t \in Tokens, NEW n \in Names, ApiClaim(t, n) PROVE ThereIsListed'
  BY <1>25 DEF ApiClaim, Claim, AddChar
<1>26. ASSUME NEW t \in Tokens, NEW n \in Names, ApiForget(t, n) PROVE ThereIsListed'
  BY <1>26 DEF ApiForget, DeleteChar, DropSlot, SlotDeleted
<1>27. ASSUME NEW t \in Tokens, KickToken(t) PROVE ThereIsListed'
  BY <1>27 DEF KickToken
<1>28. ASSUME UNCHANGED vars PROVE ThereIsListed'
  BY <1>28 DEF vars
<1> QED  BY <1>1, <1>2, <1>3, <1>4, <1>5, <1>6, <1>7, <1>8, <1>9, <1>10, <1>11, <1>12,
     <1>13, <1>14, <1>15, <1>16, <1>17, <1>18, <1>19, <1>20, <1>21, <1>22, <1>23,
     <1>24, <1>25, <1>26, <1>27, <1>28 DEF Next, Door, ConnStep, TickStep, Social,
     vars

(* The name index: a name is free before it is put on a roster, and freed  *)
(* when it is taken off.                                                   *)
LEMMA NameIndexStep ==
  ASSUME TypeOK, NameIndexAgrees, UnmintedIsEmpty, [Next]_vars
  PROVE  NameIndexAgrees'
<1>1. CASE byName' = byName /\ roster' = roster
  BY <1>1 DEF NameIndexAgrees
<1>2. ASSUME NEW t \in Tokens, NEW n \in Names, Claim(t, n) \/ AddChar(t, n)
      PROVE  NameIndexAgrees'
  <2>1. byName[n] = None /\ byName' = [byName EXCEPT ![n] = t]
    BY <1>2 DEF Claim, AddChar
  <2>2. n \in roster'[t] /\ \A m \in Names : m # n => (m \in roster'[t] <=> m \in roster[t])
    <3>1. CASE Claim(t, n)
      <4>1. roster[t] = {}
        BY <3>1 DEF Claim, TypeOK, StoreTypeOK, NameIndexAgrees, UnmintedIsEmpty
      <4> QED  BY <3>1, <4>1 DEF Claim, TypeOK, StoreTypeOK
    <3>2. CASE AddChar(t, n)
      BY <3>2 DEF AddChar, TypeOK, StoreTypeOK
    <3> QED  BY <1>2, <3>1, <3>2
  <2>3. \A u \in Tokens : u # t => roster'[u] = roster[u]
    BY <1>2 DEF Claim, AddChar, TypeOK, StoreTypeOK
  <2> QED  BY <2>1, <2>2, <2>3 DEF NameIndexAgrees, TypeOK, StoreTypeOK
<1>3. ASSUME NEW t \in Tokens, NEW n \in Names, n \in roster[t], DropSlot(t, n)
      PROVE  NameIndexAgrees'
  BY <1>3 DEF DropSlot, NameIndexAgrees, TypeOK, StoreTypeOK
<1>4. CASE \E c \in Conns, t \in Tokens, n \in Names : ConnectNamed(c, t, n)
  BY <1>1, <1>4 DEF ConnectNamed, Connect
<1>5. CASE \E c \in Conns : PlaceFails(c)
  BY <1>1, <1>5 DEF PlaceFails, Disconnect, storeVars
<1>6. CASE \E i \in Insts, c \in Conns : TickRemove(i, c) \/ TickBank(i, c)
  BY <1>1, <1>6 DEF TickRemove, TickBank, Disconnect, Bank, storeVars
<1>7. ASSUME NEW i \in Insts, NEW c \in Conns, TickFall(i, c) PROVE NameIndexAgrees'
  <2>1. token[c] \in Tokens /\ active[token[c]] \in Names
    BY <1>7 DEF TickFall, FellInBattle, TypeOK, StoreTypeOK
  <2> QED  BY <1>3, <1>7, <2>1 DEF TickFall, FellInBattle
<1>8. CASE \E t \in Tokens, n \in Names : ApiClaim(t, n)
  BY <1>2, <1>8 DEF ApiClaim
<1>9. CASE \E t \in Tokens, n \in Names : ApiForget(t, n)
  BY <1>3, <1>9 DEF ApiForget, DeleteChar
<1> QED  BY <1>1, <1>4, <1>5, <1>6, <1>7, <1>8, <1>9, StoreFrame DEF storeVars

(* An account that is not minted has no roster: Claim starts from nothing. *)
LEMMA UnmintedStep ==
  ASSUME TypeOK, UnmintedIsEmpty, [Next]_vars
  PROVE  UnmintedIsEmpty'
<1>1. CASE UNCHANGED storeVars
  BY <1>1 DEF UnmintedIsEmpty, storeVars
<1>2. CASE \E c \in Conns, t \in Tokens, n \in Names : ConnectNamed(c, t, n)
  BY <1>2 DEF ConnectNamed, Connect, UnmintedIsEmpty
<1>3. CASE \E c \in Conns : PlaceFails(c)
  BY <1>3 DEF PlaceFails, Disconnect, storeVars, UnmintedIsEmpty
<1>4. CASE \E i \in Insts, c \in Conns : TickRemove(i, c) \/ TickBank(i, c)
  BY <1>4 DEF TickRemove, TickBank, Disconnect, Bank, storeVars, UnmintedIsEmpty
<1>5. CASE \E i \in Insts, c \in Conns : TickFall(i, c)
  BY <1>5 DEF TickFall, FellInBattle, DropSlot, UnmintedIsEmpty, TypeOK, StoreTypeOK
<1>6. CASE \E t \in Tokens, n \in Names : ApiClaim(t, n)
  BY <1>6 DEF ApiClaim, Claim, AddChar, UnmintedIsEmpty, TypeOK, StoreTypeOK
<1>7. CASE \E t \in Tokens, n \in Names : ApiForget(t, n)
  BY <1>7 DEF ApiForget, DeleteChar, DropSlot, UnmintedIsEmpty, TypeOK, StoreTypeOK
<1> QED  BY <1>1, <1>2, <1>3, <1>4, <1>5, <1>6, <1>7, StoreFrame

(* What a session banks is its character, in the slot it was loaded from:  *)
(* while the slot stands it is the one in play, and once it is deleted     *)
(* nothing is in play to bank into.                                        *)
LEMMA BankStep ==
  ASSUME TypeOK, Sessions, Places, BankLandsHome, [Next]_vars
  PROVE  BankLandsHome'
<1>1. CASE banked' = banked
  BY <1>1 DEF BankLandsHome
<1>2. ASSUME NEW t \in Tokens, NEW n \in Names, DropSlot(t, n)
      PROVE  BankLandsHome'
  BY <1>2 DEF DropSlot, BankLandsHome, TypeOK, StoreTypeOK
<1>3. ASSUME NEW c \in Conns, InPlay(c), token[c] # None, account[token[c]] = "live",
             banked' = BankedWith(token[c], CharOf(c))
      PROVE  BankLandsHome'
  <2> DEFINE u == token[c]
  <2>1. u \in Tokens /\ plays[c] \in Tokens \X Names /\ plays[c][1] = u
    BY <1>3 DEF TypeOK, Sessions, TokenOfSlot
  <2>2. active[u] = IF c \in stale THEN None ELSE plays[c][2]
    BY <1>3, <2>1 DEF Sessions, InPlayIsOnline
  <2>3. CASE active[u] \in roster[u]
    <3>1. active[u] \in Names
      BY <2>1, <2>3 DEF TypeOK, StoreTypeOK
    <3>2. CharOf(c) = [slot |-> <<u, active[u]>>, stale |-> FALSE]
      <4>1. c \notin stale /\ active[u] = plays[c][2]
        BY <2>2, <3>1
      <4>2. plays[c] = <<u, active[u]>>
        BY <2>1, <4>1
      <4>3. (c \in stale) = FALSE
        BY <4>1
      <4> QED  BY <4>2, <4>3, Zenon DEF CharOf
    <3>3. banked' \in {banked, [banked EXCEPT ![u][active[u]] = CharOf(c)]}
      BY <1>3 DEF BankedWith
    <3>4. ASSUME NEW t \in Tokens, NEW n \in Names
          PROVE  banked'[t][n] = banked[t][n] \/
                 (t = u /\ n = active[u] /\ banked'[t][n] = CharOf(c))
      BY <2>1, <3>1, <3>3 DEF TypeOK, StoreTypeOK
    <3>5. ASSUME NEW t \in Tokens, NEW n \in Names, banked'[t][n] # None
          PROVE  banked'[t][n] = [slot |-> <<t, n>>, stale |-> FALSE]
      <4>1. CASE banked'[t][n] = banked[t][n]
        BY <3>5, <4>1, Zenon DEF BankLandsHome
      <4>2. CASE t = u /\ n = active[u] /\ banked'[t][n] = CharOf(c)
        BY <3>2, <4>2, Zenon
      <4> QED  BY <3>4, <4>1, <4>2
    <3> QED  BY <3>5, Zenon DEF BankLandsHome
  <2>4. CASE active[u] \notin roster[u]
    BY <1>1, <1>3, <2>4 DEF BankedWith
  <2> QED  BY <2>3, <2>4
<1>4. CASE \E c \in Conns, t \in Tokens, n \in Names : ConnectNamed(c, t, n)
  BY <1>1, <1>4 DEF ConnectNamed, Connect
<1>5. CASE \E c \in Conns : PlaceFails(c)
  BY <1>1, <1>5 DEF PlaceFails, Disconnect, BankedWith, storeVars
<1>6. ASSUME NEW i \in Insts, NEW c \in Conns, TickRemove(i, c) \/ TickBank(i, c)
      PROVE  BankLandsHome'
  <2>1. token[c] # None /\ Housed(c)
    BY <1>6 DEF TickRemove, TickBank, Housed, Places, TodoIsHere
  <2>2. InPlay(c)
    BY <2>1 DEF InPlay, Sessions, TokenOfSlot
  <2>3. banked' = banked
        \/ (account[token[c]] = "live" /\ banked' = BankedWith(token[c], CharOf(c)))
    BY <1>6 DEF TickRemove, TickBank, Disconnect, Bank, storeVars
  <2> QED  BY <1>1, <1>3, <2>1, <2>2, <2>3
<1>7. ASSUME NEW i \in Insts, NEW c \in Conns, TickFall(i, c) PROVE BankLandsHome'
  <2>1. token[c] \in Tokens /\ active[token[c]] \in Names
    BY <1>7 DEF TickFall, FellInBattle, TypeOK, StoreTypeOK
  <2> QED  BY <1>2, <1>7, <2>1 DEF TickFall, FellInBattle
<1>8. CASE \E t \in Tokens, n \in Names : ApiClaim(t, n)
  BY <1>1, <1>8 DEF ApiClaim, Claim, AddChar
<1>9. CASE \E t \in Tokens, n \in Names : ApiForget(t, n)
  BY <1>2, <1>9 DEF ApiForget, DeleteChar
<1> QED  BY <1>1, <1>4, <1>5, <1>6, <1>7, <1>8, <1>9, StoreFrame DEF storeVars

LEMMA IInvInit == Init => IInv
<1> SUFFICES ASSUME Init PROVE IInv
  OBVIOUS
<1>1. TypeOK
  BY TypeInit
<1>2. Sessions
  BY DEF Init, Sessions, TokenOfSlot, InPlayHasToken, PlayedWasMinted, InPlayIsOnline,
         FreeIsBlank, OneSession, InPlay, Housed
<1>3. Places
  BY DEF Init, Places, DoorIsOutside, HousedWhereRouted, DoorHasInstance,
       DoorNotLeaving,
         TodoIsHere, DepartingIsOut, Housed
<1>4. Reaper
  BY DEF Init, Reaper, OccupiedStands, ClockMeansEmpty, HomesStand
<1>5. OnlineListAgrees
  BY DEF Init, OnlineListAgrees, ListedIsThere, ThereIsListed, Housed
<1>6. NameIndexAgrees
  BY DEF Init, StoreInit, NameIndexAgrees
<1>7. UnmintedIsEmpty /\ BankLandsHome
  BY DEF Init, StoreInit, UnmintedIsEmpty, BankLandsHome
<1> QED  BY <1>1, <1>2, <1>3, <1>4, <1>5, <1>6, <1>7 DEF IInv

LEMMA IInvStep == IInv /\ [Next]_vars => IInv'
<1> SUFFICES ASSUME IInv, [Next]_vars PROVE IInv'
  OBVIOUS
<1>0. /\ TypeOK /\ Sessions /\ Places /\ Reaper /\ OnlineListAgrees
      /\ NameIndexAgrees /\ UnmintedIsEmpty /\ BankLandsHome
  BY DEF IInv
<1>1. TypeOK'
  BY <1>0, TypeStep DEF Sessions, Places
<1>2. Sessions'
  BY <1>0, TokenOfSlotStep, InPlayHasTokenStep, PlayedWasMintedStep, InPlayIsOnlineStep,
     FreeIsBlankStep, OneSessionStep DEF Sessions
<1>3. Places' /\ Reaper'
  BY <1>0, PlacesStep, ReaperStep
<1>4. OnlineListAgrees'
  BY <1>0, ListedIsThereStep, ThereIsListedStep DEF OnlineListAgrees
<1>5. NameIndexAgrees' /\ UnmintedIsEmpty' /\ BankLandsHome'
  BY <1>0, NameIndexStep, UnmintedStep, BankStep
<1> QED  BY <1>1, <1>2, <1>3, <1>4, <1>5 DEF IInv

THEOREM Invariant == Spec => []IInv
  BY IInvInit, IInvStep, PTL DEF Spec

-----------------------------------------------------------------------------
(* Every variable keeps its type. *)
THEOREM TypeCorrect == Spec => []TypeOK
<1>1. IInv => TypeOK
  BY DEF IInv
<1> QED  BY <1>1, Invariant, PTL

(* One session per account, for any number of accounts, connections and    *)
(* instances: no order of leaves, transfers, reconnects, deletes and banks *)
(* clears an online flag under a session that still stands.                *)
THEOREM OneSessionPerAccount == Spec => []OneSession
<1>1. IInv => OneSession
  BY DEF IInv, Sessions
<1> QED  BY <1>1, Invariant, PTL

(* A connection is in at most one instance, the one its commands and its   *)
(* leave go to, and that instance is still ticking.                        *)
THEOREM HousedInOneLiveInstance == Spec => []HousedOnce
<1>1. IInv => HousedOnce
  BY DEF IInv, Places, HousedWhereRouted, Reaper, OccupiedStands, Standing, HousedOnce
<1> QED  BY <1>1, Invariant, PTL

(* The grace breadcrumb leads to a registered instance. *)
THEOREM HomesAreRegistered == Spec => []HomesStand
<1>1. IInv => HomesStand
  BY DEF IInv, Reaper
<1> QED  BY <1>1, Invariant, PTL

(* The lobby's online list is that of the sessions that stand. *)
THEOREM OnlineListIsRight == Spec => []OnlineListAgrees
<1>1. IInv => OnlineListAgrees
  BY DEF IInv
<1> QED  BY <1>1, Invariant, PTL

(* The name index holds the names of the rosters, no more and no fewer. *)
THEOREM NameIndexIsRight == Spec => []NameIndexAgrees
<1>1. IInv => NameIndexAgrees
  BY DEF IInv
<1> QED  BY <1>1, Invariant, PTL

(* A character is only ever banked in the slot it was loaded from. *)
THEOREM BanksLandHome == Spec => []BankLandsHome
<1>1. IInv => BankLandsHome
  BY DEF IInv
<1> QED  BY <1>1, Invariant, PTL
=============================================================================
