------------------------------ MODULE Identity ------------------------------
(***************************************************************************)
(* The identity store (server/identity.go): accounts, their rosters of     *)
(* named characters, the global name index, and which account is online    *)
(* with which character.  Every operation of the store runs under its one  *)
(* mutex, so each is one atomic step; the modules that use the store       *)
(* conjoin these operators with their own actions.                         *)
(*                                                                         *)
(* A character is known by the slot it was loaded from: [slot, stale],     *)
(* where stale says that slot has been deleted since.  It is all the       *)
(* properties need to know of what is banked.                              *)
(***************************************************************************)
EXTENDS Naturals, FiniteSets

CONSTANTS Tokens,     \* the secret account tokens
          Names,      \* character names (lower-cased: the store compares so)
          None,       \* "no token", "no name", "no client"
          RosterCap,  \* characters an account may hold
          Loaded      \* Loaded[t]: the roster the store file holds at boot

ASSUME IdentityAssumption ==
  /\ None \notin Tokens
  /\ None \notin Names /\ None \notin Tokens \X Names
  /\ Loaded \in [Tokens -> SUBSET Names]
  /\ \A t, u \in Tokens : t # u => Loaded[t] \cap Loaded[u] = {}
  /\ RosterCap \in Nat \ {0}

VARIABLES
  account,   \* account[t]: not minted yet, live, or deleted
  roster,    \* roster[t]: the names of the slots of account t
  byName,    \* byName[n]: the account that holds the name n, or None
  online,    \* the accounts with a session
  active,    \* active[t]: the slot in play, or None
  banked     \* banked[t][n]: the character saved in slot n, or None

storeVars == <<account, roster, byName, online, active, banked>>

Character == [slot : Tokens \X Names, stale : BOOLEAN]

StoreTypeOK ==
  /\ account \in [Tokens -> {"unminted", "live", "gone"}]
  /\ roster \in [Tokens -> SUBSET Names]
  /\ byName \in [Names -> Tokens \cup {None}]
  /\ online \in SUBSET Tokens
  /\ active \in [Tokens -> Names \cup {None}]
  /\ banked \in [Tokens -> [Names -> Character \cup {None}]]

(* NewIdentityStore: nobody online, the name index built from the rosters, *)
(* every loaded slot saved by an earlier session.                          *)
StoreInit ==
  /\ account = [t \in Tokens |-> IF Loaded[t] = {} THEN "unminted" ELSE "live"]
  /\ roster = Loaded
  /\ byName = [n \in Names |-> IF \E t \in Tokens : n \in Loaded[t]
                               THEN CHOOSE t \in Tokens : n \in Loaded[t]
                               ELSE None]
  /\ online = {}
  /\ active = [t \in Tokens |-> None]
  /\ banked = [t \in Tokens |-> [n \in Names |->
                 IF n \in Loaded[t] THEN [slot |-> <<t, n>>, stale |-> FALSE] ELSE None]]

(* Claim: a fresh account whose first character is n. *)
Claim(t, n) ==
  /\ account[t] = "unminted"
  /\ byName[n] = None
  /\ account' = [account EXCEPT ![t] = "live"]
  /\ roster' = [roster EXCEPT ![t] = {n}]
  /\ byName' = [byName EXCEPT ![n] = t]
  /\ UNCHANGED <<online, active, banked>>

(* AddChar: one more slot, empty until its first bank. *)
AddChar(t, n) ==
  /\ account[t] = "live"
  /\ byName[n] = None
  /\ Cardinality(roster[t]) < RosterCap
  /\ roster' = [roster EXCEPT ![t] = @ \cup {n}]
  /\ byName' = [byName EXCEPT ![n] = t]
  /\ UNCHANGED <<account, online, active, banked>>

(* Connect succeeds on a live account that is offline.  The client may     *)
(* name any slot, and a stale name falls back to the default slot: either  *)
(* way some slot of the roster is played.                                  *)
CanConnect(t, n) ==
  /\ account[t] = "live"
  /\ t \notin online
  /\ n \in roster[t]

Connect(t, n) ==
  /\ CanConnect(t, n)
  /\ online' = online \cup {t}
  /\ active' = [active EXCEPT ![t] = n]
  /\ UNCHANGED <<account, roster, byName, banked>>

(* What Bank and Disconnect write: the character goes to the slot in play, *)
(* and nowhere when that slot is no longer on the roster or there is no    *)
(* character (None) to write.                                              *)
BankedWith(t, ch) ==
  IF active[t] \in roster[t] /\ ch # None
  THEN [banked EXCEPT ![t][active[t]] = ch]
  ELSE banked

Bank(t, ch) ==
  /\ account[t] = "live"
  /\ t \in online
  /\ banked' = BankedWith(t, ch)
  /\ UNCHANGED <<account, roster, byName, online, active>>

Disconnect(t, ch) ==
  IF account[t] = "live"
  THEN /\ banked' = BankedWith(t, ch)
       /\ online' = online \ {t}
       /\ active' = [active EXCEPT ![t] = None]
       /\ UNCHANGED <<account, roster, byName>>
  ELSE UNCHANGED storeVars

(* Faulty: the name stays reserved. *)
DropSlotKeepsName(t, n) ==
  /\ roster' = [roster EXCEPT ![t] = @ \ {n}]
  /\ byName' = byName
  /\ banked' = [banked EXCEPT ![t][n] = None]
  /\ active' = [active EXCEPT ![t] = IF @ = n THEN None ELSE @]

(* Faulty: the session goes on playing the slot. *)
DropSlotStaysActive(t, n) ==
  /\ roster' = [roster EXCEPT ![t] = @ \ {n}]
  /\ byName' = [byName EXCEPT ![n] = None]
  /\ banked' = [banked EXCEPT ![t][n] = None]
  /\ active' = active

(* The slot and its name reservation go, with what was banked in it. *)
DropSlot(t, n) ==
  /\ roster' = [roster EXCEPT ![t] = @ \ {n}]
  /\ byName' = [byName EXCEPT ![n] = None]
  /\ banked' = [banked EXCEPT ![t][n] = None]
  /\ active' = [active EXCEPT ![t] = IF @ = n THEN None ELSE @]

(* DeleteChar: a manual delete; the last character takes the account along. *)
DeleteChar(t, n) ==
  /\ account[t] = "live"
  /\ n \in roster[t]
  /\ DropSlot(t, n)
  /\ IF roster[t] = {n}
     THEN /\ account' = [account EXCEPT ![t] = "gone"]
          /\ online' = online \ {t}
     ELSE UNCHANGED <<account, online>>

(* FellInBattle: a hardcore death ends the slot in play; an emptied roster *)
(* keeps the account, and the session stays online until it is closed.     *)
FellInBattle(t) ==
  /\ account[t] = "live"
  /\ t \in online
  /\ active[t] \in roster[t]
  /\ DropSlot(t, active[t])
  /\ UNCHANGED <<account, online>>

(* The name index holds exactly the names on the rosters: a name is never  *)
(* on two accounts, no dead name stays reserved, and an invitation by name *)
(* (TokenByName) reaches the account that plays it.                        *)
NameIndexAgrees ==
  \A n \in Names, t \in Tokens : byName[n] = t <=> n \in roster[t]

(* What is banked in a slot is a character that was loaded from that very  *)
(* slot: a session whose slot was deleted, even if the name was claimed    *)
(* again, never writes its character back.                                 *)
BankLandsHome ==
  \A t \in Tokens, n \in Names :
    banked[t][n] # None => banked[t][n] = [slot |-> <<t, n>>, stale |-> FALSE]
=============================================================================
