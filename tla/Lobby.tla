-------------------------------- MODULE Lobby --------------------------------
(***************************************************************************)
(* Sessions of the lobby (server/lobby.go, server/server.go): a WebSocket  *)
(* connection authenticates at the identity store, is placed in an         *)
(* instance, waits in its join queue, is spawned by its tick, and leaves   *)
(* through its leave queue; a party transfer moves it between instances.   *)
(*                                                                         *)
(* Goroutines interleave at their lock boundaries: the HTTP goroutine of   *)
(* each connection (HandleWS and readLoop), the tick goroutine of each     *)
(* instance, the reaper, and the /api/forget handlers.  A client object    *)
(* and an instance object are reused once nothing refers to them.          *)
(***************************************************************************)
EXTENDS Identity

CONSTANTS Conns,      \* client objects, one per live socket
          GuestConns, \* bound: the client objects that guests may use
          Reused,     \* bound: the client objects that serve one session after another
          Slow,       \* bound: the client objects that may read too slowly
          Insts,      \* instance objects
          Hardcore,   \* the names whose characters are hardcore
          SSF,        \* the names whose characters are solo-self-found
          MaxEdits    \* bound: claims, new characters and deletes

ASSUME LobbyAssumption ==
  /\ None \notin Conns /\ IsFiniteSet(Conns)
  /\ GuestConns \subseteq Conns
  /\ Reused \subseteq Conns
  /\ Slow \subseteq Conns
  /\ None \notin Insts
  /\ Hardcore \subseteq Names
  /\ SSF \subseteq Names
  /\ MaxEdits \in Nat

VARIABLES
  at,         \* at[c]: where connection c's goroutine stands
  sock,       \* the connections whose socket is open
  token,      \* client.token; cleared when the session has left
  plays,      \* client.name: the slot <<account, name>> it connected to
  stale,      \* history: connections whose slot was deleted since
  doomed,     \* client.doom > 0: a hardcore fall, close pending
  want,       \* connections that ended with a social verb waiting for the tick
  inst,       \* client.inst
  leaveTo,    \* the instance readLoop read before filing the leave
  state,      \* state[i]: not built, live, or reaped (cancelled)
  joins, leaves,  \* Instance.joins, Instance.leaves
  clients,    \* Instance.clients
  busy,       \* the tick is between draining its queues and publishing
  todo,       \* leaves drained by this tick, not handled yet
  departing,  \* the client between ids.Disconnect and lobby.playerLeft
  clientN,    \* published client count
  emptyAt,    \* published: occupied or claimed, recently empty, past grace
  lbOnline,   \* Lobby.online
  homes,      \* Lobby.homes
  invites,    \* Lobby.invites: invitee token -> inviter token
  kicks,      \* forget handlers between DeleteChar and kickToken
  edits       \* roster edits so far (bounded by MaxEdits)

connVars == <<at, sock, token, plays, stale, doomed, want, inst, leaveTo>>
instVars == <<state, joins, leaves, clients, busy, todo, departing, clientN, emptyAt>>
lobbyVars == <<lbOnline, homes, invites>>
vars == <<storeVars, connVars, instVars, lobbyVars, kicks, edits>>

TypeOK ==
  /\ StoreTypeOK
  /\ at \in [Conns -> {"free", "connected", "placed", "queued", "reading",
                       "leaving", "done"}]
  /\ sock \in SUBSET Conns
  /\ token \in [Conns -> Tokens \cup {None}]
  /\ plays \in [Conns -> (Tokens \X Names) \cup {None}]
  /\ stale \in SUBSET Conns
  /\ doomed \in SUBSET Conns
  /\ want \in SUBSET Conns
  /\ inst \in [Conns -> Insts \cup {None}]
  /\ leaveTo \in [Conns -> Insts \cup {None}]
  /\ state \in [Insts -> {"none", "live", "reaped"}]
  /\ joins \in [Insts -> SUBSET Conns]
  /\ leaves \in [Insts -> SUBSET Conns]
  /\ clients \in [Insts -> SUBSET Conns]
  /\ busy \in SUBSET Insts
  /\ todo \in [Insts -> SUBSET Conns]
  /\ departing \in [Insts -> Conns \cup {None}]
  /\ clientN \in [Insts -> Nat]
  /\ emptyAt \in [Insts -> {"zero", "recent", "old"}]
  /\ lbOnline \in [Tokens -> Conns \cup {None}]
  /\ homes \in [Tokens -> Insts \cup {None}]
  /\ invites \in [Tokens -> Tokens \cup {None}]
  /\ kicks \in SUBSET Tokens
  /\ edits \in 0..MaxEdits

Init ==
  /\ StoreInit
  /\ at = [c \in Conns |-> "free"]
  /\ sock = {} /\ stale = {} /\ doomed = {} /\ want = {}
  /\ token = [c \in Conns |-> None]
  /\ plays = [c \in Conns |-> None]
  /\ inst = [c \in Conns |-> None]
  /\ leaveTo = [c \in Conns |-> None]
  /\ state = [i \in Insts |-> "none"]
  /\ joins = [i \in Insts |-> {}]
  /\ leaves = [i \in Insts |-> {}]
  /\ clients = [i \in Insts |-> {}]
  /\ busy = {}
  /\ todo = [i \in Insts |-> {}]
  /\ departing = [i \in Insts |-> None]
  /\ clientN = [i \in Insts |-> 0]
  /\ emptyAt = [i \in Insts |-> "zero"]
  /\ lbOnline = [t \in Tokens |-> None]
  /\ homes = [t \in Tokens |-> None]
  /\ invites = [t \in Tokens |-> None]
  /\ kicks = {}
  /\ edits = 0

-----------------------------------------------------------------------------
Housed(c) == \E i \in Insts : c \in clients[i] \cup joins[i]

(* The character a client's live actor is banked as. *)
CharOf(c) == [slot |-> plays[c], stale |-> c \in stale]

IsSSF(c) == plays[c] # None /\ plays[c][2] \in SSF
IsHardcore(c) == plays[c] # None /\ plays[c][2] \in Hardcore

(* The connection goroutine: HandleWS, then readLoop. ----------------------*)

(* Faulty: the slot in play is read before Connect has chosen it. *)
ConnectNamedReadsEarly(c, t, n) ==
  /\ at[c] = "free"
  /\ Connect(t, n)
  /\ at' = [at EXCEPT ![c] = "connected"]
  /\ sock' = sock \cup {c}
  /\ token' = [token EXCEPT ![c] = t]
  /\ plays' = [plays EXCEPT ![c] = <<t, active[t]>>]
  /\ UNCHANGED <<stale, doomed, want, inst, leaveTo, instVars, lobbyVars, kicks, edits>>

(* The door.  With a known, offline account: connectWithGrace and          *)
(* ActiveFlags.  With an unknown token, an empty roster or ?guest=1: a     *)
(* guest.  A duplicate session is refused and changes nothing.             *)
ConnectNamed(c, t, n) ==
  /\ at[c] = "free"
  /\ Connect(t, n)
  /\ at' = [at EXCEPT ![c] = "connected"]
  /\ sock' = sock \cup {c}
  /\ token' = [token EXCEPT ![c] = t]
  /\ plays' = [plays EXCEPT ![c] = <<t, n>>]
  /\ UNCHANGED <<stale, doomed, want, inst, leaveTo, instVars, lobbyVars, kicks, edits>>

ConnectGuest(c) ==
  /\ at[c] = "free" /\ c \in GuestConns
  /\ at' = [at EXCEPT ![c] = "connected"]
  /\ sock' = sock \cup {c}
  /\ UNCHANGED <<storeVars, token, plays, stale, doomed, want, inst, leaveTo,
                 instVars, lobbyVars, kicks, edits>>

(* An instance object nothing refers to: newInstanceLocked may build it. *)
Buildable(i) ==
  /\ state[i] = "none"
  /\ joins[i] = {} /\ clients[i] = {}
  /\ i \notin busy
  /\ \A c \in Conns : i \notin {inst[c], leaveTo[c]}

(* The home a named player returns to, while it is still registered. *)
HomeOf(c) ==
  IF token[c] = None \/ homes[token[c]] = None THEN {}
  ELSE {i \in Insts : i = homes[token[c]] /\ state[i] = "live"}

NewInstance(i) ==
  /\ Buildable(i)
  /\ state' = [state EXCEPT ![i] = "live"]
  /\ emptyAt' = [emptyAt EXCEPT ![i] = "recent"]

(* Faulty: the empty clock of the home runs on. *)
ClaimHomeUnstopped(i) == UNCHANGED <<emptyAt, state>>

ClaimHome(i) ==
  /\ emptyAt' = [emptyAt EXCEPT ![i] = "zero"]
  /\ UNCHANGED state

Place(c) ==
  /\ at[c] = "connected"
  /\ \E i \in Insts :
       /\ \/ i \in HomeOf(c) /\ ClaimHome(i)
          \/ HomeOf(c) = {} /\ NewInstance(i)
       /\ inst' = [inst EXCEPT ![c] = i]
       /\ homes' = IF token[c] = None THEN homes
                   ELSE [homes EXCEPT ![token[c]] = i]
  /\ at' = [at EXCEPT ![c] = "placed"]
  /\ UNCHANGED <<storeVars, sock, token, plays, stale, doomed, want, leaveTo, joins,
                 leaves, clients, busy, todo, departing, clientN, lbOnline, invites,
                 kicks, edits>>

(* The world could not be built: the identity is released, unbanked. *)
PlaceFails(c) ==
  /\ at[c] = "connected"
  /\ HomeOf(c) = {}
  /\ IF token[c] = None THEN UNCHANGED storeVars ELSE Disconnect(token[c], None)
  /\ at' = [at EXCEPT ![c] = "done"]
  /\ sock' = sock \ {c}
  /\ UNCHANGED <<token, plays, stale, doomed, want, inst, leaveTo, instVars,
                 lobbyVars, kicks, edits>>

QueueJoin(c) ==
  /\ at[c] = "placed"
  /\ joins' = [joins EXCEPT ![inst[c]] = @ \cup {c}]
  /\ at' = [at EXCEPT ![c] = "queued"]
  /\ UNCHANGED <<storeVars, sock, token, plays, stale, doomed, want, inst, leaveTo,
                 state, leaves, clients, busy, todo, departing, clientN, emptyAt,
                 lobbyVars, kicks, edits>>

Announce(c) ==
  /\ at[c] = "queued"
  /\ lbOnline' = IF token[c] = None THEN lbOnline
                 ELSE [lbOnline EXCEPT ![token[c]] = c]
  /\ at' = [at EXCEPT ![c] = "reading"]
  /\ UNCHANGED <<storeVars, sock, token, plays, stale, doomed, want, inst, leaveTo,
                 instVars, homes, invites, kicks, edits>>

(* readLoop ends because the peer went away or the server closed the       *)
(* socket, perhaps with a social verb still waiting for the tick.  The     *)
(* instance is read under the client's lock, the leave filed under that    *)
(* instance's lock.                                                        *)
ReadExit(c) ==
  /\ at[c] = "reading"
  /\ at' = [at EXCEPT ![c] = "leaving"]
  /\ sock' = sock \ {c}
  /\ want' \in {want, want \cup ({c} \ {d \in Conns : token[d] = None})}
  /\ leaveTo' = [leaveTo EXCEPT ![c] = inst[c]]
  /\ UNCHANGED <<storeVars, token, plays, stale, doomed, inst,
                 instVars, lobbyVars, kicks, edits>>

(* Nobody drains the queue of an instance whose loop has ended. *)
FileLeave(c) ==
  /\ at[c] = "leaving"
  /\ leaves' = IF state[leaveTo[c]] = "none" THEN leaves
                ELSE [leaves EXCEPT ![leaveTo[c]] = @ \cup {c}]
  /\ leaveTo' = [leaveTo EXCEPT ![c] = None]
  /\ at' = [at EXCEPT ![c] = "done"]
  /\ UNCHANGED <<storeVars, sock, token, plays, stale, doomed, want, inst, state,
                 joins, clients, busy, todo, departing, clientN, emptyAt,
                 lobbyVars, kicks, edits>>

(* The client object is garbage: nothing refers to it any more. *)
Retire(c) ==
  /\ at[c] = "done" /\ c \in Reused
  /\ ~Housed(c)
  /\ \A i \in Insts : c \notin leaves[i] \cup todo[i] /\ departing[i] # c
  /\ \A t \in Tokens : lbOnline[t] # c
  /\ at' = [at EXCEPT ![c] = "free"]
  /\ token' = [token EXCEPT ![c] = None]
  /\ plays' = [plays EXCEPT ![c] = None]
  /\ inst' = [inst EXCEPT ![c] = None]
  /\ stale' = stale \ {c}
  /\ doomed' = doomed \ {c}
  /\ want' = want \ {c}
  /\ UNCHANGED <<storeVars, sock, leaveTo, instVars, lobbyVars, kicks, edits>>

-----------------------------------------------------------------------------
(* The tick goroutine of instance i. *)

(* The queues are drained and the joins spawned, before any leave.  Only a *)
(* client in this instance's list is acted on; a guest just goes, and the  *)
(* named ones are left to removeClient's exchange with the store.          *)
TickDrain(i) ==
  /\ state[i] # "none"
  /\ i \notin busy
  /\ joins[i] \cup leaves[i] # {}
  /\ busy' = busy \cup {i}
  /\ LET here == clients[i] \cup joins[i]
         named == {c \in Conns : token[c] # None}
     IN /\ clients' = [clients EXCEPT ![i] = here \ (leaves[i] \ named)]
        /\ todo' = [todo EXCEPT ![i] = leaves[i] \cap here \cap named]
  /\ joins' = [joins EXCEPT ![i] = {}]
  /\ leaves' = [leaves EXCEPT ![i] = {}]
  /\ UNCHANGED <<storeVars, connVars, state, departing, clientN, emptyAt, lobbyVars,
                 kicks, edits>>

(* removeClient of a named client, up to ids.Disconnect; one whose token   *)
(* is cleared has been through it.                                         *)
TickRemove(i, c) ==
  /\ i \in busy /\ departing[i] = None
  /\ c \in todo[i] /\ token[c] # None
  /\ todo' = [todo EXCEPT ![i] = @ \ {c}]
  /\ clients' = [clients EXCEPT ![i] = @ \ {c}]
  /\ Disconnect(token[c], CharOf(c))
  /\ departing' = [departing EXCEPT ![i] = c]
  /\ UNCHANGED <<connVars, state, joins, leaves, busy, clientN, emptyAt, lobbyVars,
                 kicks, edits>>

(* Faulty: the online entry is dropped whoever holds it now. *)
TickPlayerLeftUnchecked(i) ==
  /\ departing[i] # None
  /\ LET c == departing[i] IN
       /\ lbOnline' = [lbOnline EXCEPT ![token[c]] = None]
       /\ invites' = [invites EXCEPT ![token[c]] = None]
       /\ token' = [token EXCEPT ![c] = None]
  /\ departing' = [departing EXCEPT ![i] = None]
  /\ UNCHANGED <<storeVars, at, sock, plays, stale, doomed, want, inst, leaveTo,
                 state, joins, leaves, clients, busy, todo, clientN, emptyAt, homes,
                 kicks, edits>>

(* lobby.playerLeft, then the client forgets its token. *)
TickPlayerLeft(i) ==
  /\ departing[i] # None
  /\ LET c == departing[i] IN
       /\ lbOnline' = [lbOnline EXCEPT ![token[c]] = IF @ = c THEN None ELSE @]
       /\ invites' = [invites EXCEPT ![token[c]] = None]
       /\ token' = [token EXCEPT ![c] = None]
  /\ departing' = [departing EXCEPT ![i] = None]
  /\ UNCHANGED <<storeVars, at, sock, plays, stale, doomed, want, inst, leaveTo,
                 state, joins, leaves, clients, busy, todo, clientN, emptyAt, homes,
                 kicks, edits>>

(* Faulty: only occupancy moves the clock. *)
EmptyClockNeverStarts(i, cs) == IF cs # {} THEN "zero" ELSE emptyAt[i]

(* publishParty with cs in the instance: the clock of an instance that has *)
(* just emptied starts once, and occupancy stops it.                       *)
EmptyClock(i, cs) ==
  IF cs # {} THEN "zero" ELSE IF emptyAt[i] = "zero" THEN "recent" ELSE emptyAt[i]

TickPublish(i) ==
  /\ i \in busy /\ departing[i] = None /\ todo[i] = {}
  /\ busy' = busy \ {i}
  /\ clientN' = [clientN EXCEPT ![i] = Cardinality(clients[i])]
  /\ emptyAt' = [emptyAt EXCEPT ![i] = EmptyClock(i, clients[i])]
  /\ UNCHANGED <<storeVars, connVars, state, joins, leaves, clients, todo, departing,
                 lobbyVars, kicks, edits>>

(* The periodic bank of a live session's character. *)
TickBank(i, c) ==
  /\ state[i] # "none" /\ i \notin busy
  /\ c \in clients[i] /\ token[c] # None
  /\ Bank(token[c], CharOf(c))
  /\ UNCHANGED <<connVars, instVars, lobbyVars, kicks, edits>>

(* A hardcore death: the slot goes now, the socket when the fuse burns. *)
SlotDeleted(t, n) ==
  stale' = stale \cup {c \in Conns : plays[c] = <<t, n>>}

TickFall(i, c) ==
  /\ state[i] # "none" /\ i \notin busy
  /\ c \in clients[i] /\ token[c] # None /\ IsHardcore(c)
  /\ FellInBattle(token[c])
  /\ SlotDeleted(token[c], active[token[c]])
  /\ doomed' = doomed \cup {c}
  /\ UNCHANGED <<at, sock, token, plays, want, inst, leaveTo, instVars, lobbyVars,
                 kicks, edits>>

DoomCloses(i, c) ==
  /\ state[i] # "none"
  /\ c \in clients[i] /\ c \in doomed
  /\ doomed' = doomed \ {c}
  /\ sock' = sock \ {c}
  /\ UNCHANGED <<storeVars, at, token, plays, stale, want, inst, leaveTo, instVars,
                 lobbyVars, kicks, edits>>

(* Faulty: the tick leaves it to readLoop to file the leave. *)
SendFailsClosesOnly(i, c) ==
  /\ state[i] # "none" /\ i \notin busy
  /\ c \in clients[i] /\ c \in sock /\ at[c] = "reading"
  /\ sock' = sock \ {c}
  /\ UNCHANGED <<storeVars, at, token, plays, stale, doomed, want, inst, leaveTo,
                 instVars, lobbyVars, kicks, edits>>

(* A send finds the queue full: the client reads too slowly, or its writer *)
(* is gone.  The tick closes the socket and files the leave itself, beside *)
(* the one readLoop files or has filed.                                    *)
SendFails(i, c) ==
  /\ state[i] # "none" /\ i \notin busy
  /\ c \in clients[i] /\ c \notin leaves[i]
  /\ at[c] = "done" \/ (c \in Slow /\ at[c] \in {"reading", "leaving"})
  /\ leaves' = [leaves EXCEPT ![i] = @ \cup {c}]
  /\ sock' = sock \ {c}
  /\ UNCHANGED <<storeVars, at, token, plays, stale, doomed, want, inst, leaveTo, state,
                 joins, clients, busy, todo, departing, clientN, emptyAt, lobbyVars,
                 kicks, edits>>

-----------------------------------------------------------------------------
(* Social verbs: processSocial, on the tick goroutine of the client's      *)
(* instance i, under the lobby's lock.  A guest's verb is dropped.         *)

SocialTurn(i, c) ==
  /\ state[i] # "none" /\ i \notin busy
  /\ c \in clients[i] /\ token[c] # None
  /\ at[c] = "reading" \/ c \in want
  /\ want' = want \ {c}
  /\ UNCHANGED <<storeVars, at, sock, token, plays, stale, doomed, leaveTo, busy,
                 todo, departing, lbOnline, kicks, edits>>

Invite(i, c, n) ==
  /\ SocialTurn(i, c)
  /\ ~IsSSF(c)
  /\ byName[n] \notin {None, token[c]}
  /\ LET to == lbOnline[byName[n]] IN
       /\ to # None
       /\ ~IsSSF(to)
       /\ inst[to] # inst[c]
  /\ invites' = [invites EXCEPT ![byName[n]] = token[c]]
  /\ UNCHANGED <<inst, state, joins, leaves, clients, clientN, emptyAt, homes>>

(* Faulty: the source keeps the client in its list. *)
TransferKeepsClient(i, j, c) ==
  /\ UNCHANGED clients
  /\ joins' = [joins EXCEPT ![j] = @ \cup {c}]
  /\ inst' = [inst EXCEPT ![c] = j]
  /\ homes' = [homes EXCEPT ![token[c]] = j]
  /\ clientN' = [clientN EXCEPT ![i] = Cardinality(clients[i])]
  /\ emptyAt' = [emptyAt EXCEPT ![i] = EmptyClock(i, clients[i]), ![j] = "zero"]

(* transferLocked: releaseClient publishes the source's membership, the    *)
(* destination is claimed and gets the client in its join queue.           *)
Transfer(i, j, c) ==
  /\ clients' = [clients EXCEPT ![i] = @ \ {c}]
  /\ joins' = [joins EXCEPT ![j] = @ \cup {c}]
  /\ inst' = [inst EXCEPT ![c] = j]
  /\ homes' = [homes EXCEPT ![token[c]] = j]
  /\ clientN' = [clientN EXCEPT ![i] = Cardinality(clients[i] \ {c})]
  /\ emptyAt' = [emptyAt EXCEPT ![i] = EmptyClock(i, clients[i] \ {c}), ![j] = "zero"]

Accept(i, c) ==
  /\ SocialTurn(i, c)
  /\ ~IsSSF(c)
  /\ invites[token[c]] # None
  /\ invites' = [invites EXCEPT ![token[c]] = None]
  /\ LET inviter == lbOnline[invites[token[c]]] IN
       IF inviter = None \/ inst[inviter] = i
       THEN UNCHANGED <<inst, state, joins, leaves, clients, clientN, emptyAt, homes>>
       ELSE /\ Transfer(i, inst[inviter], c)
            /\ UNCHANGED <<state, leaves>>

Decline(i, c) ==
  /\ SocialTurn(i, c)
  /\ invites' = [invites EXCEPT ![token[c]] = None]
  /\ UNCHANGED <<inst, state, joins, leaves, clients, clientN, emptyAt, homes>>

LeaveParty(i, c) ==
  /\ SocialTurn(i, c)
  /\ clientN[i] > 1
  /\ \E j \in Insts :
       /\ Buildable(j)
       /\ state' = [state EXCEPT ![j] = "live"]
       /\ Transfer(i, j, c)
  /\ UNCHANGED <<leaves, invites>>

-----------------------------------------------------------------------------
(* The reaper, and the passing of the 60 s grace.  A tick, the door (place *)
(* to join queue) and the wait in a join queue are far shorter than that.  *)
GracePasses(i) ==
  /\ emptyAt[i] = "recent" /\ state[i] = "live"
  /\ i \notin busy /\ joins[i] = {}
  /\ \A c \in Conns : at[c] = "placed" => inst[c] # i
  /\ emptyAt' = [emptyAt EXCEPT ![i] = "old"]
  /\ UNCHANGED <<storeVars, connVars, state, joins, leaves, clients, busy, todo,
                 departing, clientN, lobbyVars, kicks, edits>>

(* Faulty: the breadcrumbs to the reaped instance stay. *)
ReapKeepsHomes(i) ==
  /\ state[i] = "live"
  /\ clientN[i] = 0 /\ emptyAt[i] = "old" /\ joins[i] = {}
  /\ state' = [state EXCEPT ![i] = "reaped"]
  /\ UNCHANGED <<storeVars, connVars, joins, leaves, clients, busy, todo, departing,
                 clientN, emptyAt, lobbyVars, kicks, edits>>

Reap(i) ==
  /\ state[i] = "live"
  /\ clientN[i] = 0 /\ emptyAt[i] = "old" /\ joins[i] = {}
  /\ state' = [state EXCEPT ![i] = "reaped"]
  /\ homes' = [t \in Tokens |-> IF homes[t] = i THEN None ELSE homes[t]]
  /\ UNCHANGED <<storeVars, connVars, joins, leaves, clients, busy, todo, departing,
                 clientN, emptyAt, lbOnline, invites, kicks, edits>>

(* The cancelled run loop closes whoever is left and returns; nothing      *)
(* reads its leave queue or its telemetry after that.                      *)
RunLoopEnds(i) ==
  /\ state[i] = "reaped" /\ i \notin busy
  /\ state' = [state EXCEPT ![i] = "none"]
  /\ sock' = sock \ clients[i]
  /\ leaves' = [leaves EXCEPT ![i] = {}]
  /\ clientN' = [clientN EXCEPT ![i] = 0]
  /\ emptyAt' = [emptyAt EXCEPT ![i] = "zero"]
  /\ UNCHANGED <<storeVars, at, token, plays, stale, doomed, want, inst, leaveTo,
                 joins, clients, busy, todo, departing, lobbyVars, kicks, edits>>

-----------------------------------------------------------------------------
(* The identity API. *)
Edit == edits < MaxEdits /\ edits' = edits + 1

ApiClaim(t, n) ==
  /\ Edit
  /\ Claim(t, n) \/ AddChar(t, n)
  /\ UNCHANGED <<connVars, instVars, lobbyVars, kicks>>

ApiForget(t, n) ==
  /\ Edit
  /\ DeleteChar(t, n)
  /\ SlotDeleted(t, n)
  /\ kicks' = IF t \in online /\ active[t] = n THEN kicks \cup {t} ELSE kicks
  /\ UNCHANGED <<at, sock, token, plays, doomed, want, inst, leaveTo, instVars,
                 lobbyVars>>

KickToken(t) ==
  /\ t \in kicks
  /\ kicks' = kicks \ {t}
  /\ sock' = sock \ {lbOnline[t]}
  /\ UNCHANGED <<storeVars, at, token, plays, stale, doomed, want, inst, leaveTo,
                 instVars, lobbyVars, edits>>

-----------------------------------------------------------------------------
Door(c) ==
  \/ \E t \in Tokens, n \in Names : ConnectNamed(c, t, n)
  \/ ConnectGuest(c)

ConnStep(c) ==
  \/ Place(c)
  \/ PlaceFails(c)
  \/ QueueJoin(c)
  \/ Announce(c)
  \/ FileLeave(c)

TickStep(i) ==
  \/ TickDrain(i)
  \/ \E c \in Conns : TickRemove(i, c)
  \/ TickPlayerLeft(i)
  \/ TickPublish(i)

Social(i, c) ==
  \/ \E n \in Names : Invite(i, c, n)
  \/ Accept(i, c)
  \/ Decline(i, c)
  \/ LeaveParty(i, c)

Next ==
  \/ \E c \in Conns : Door(c) \/ ConnStep(c) \/ ReadExit(c) \/ Retire(c)
  \/ \E i \in Insts : TickStep(i) \/ GracePasses(i) \/ Reap(i) \/ RunLoopEnds(i)
  \/ \E i \in Insts, c \in Conns :
       TickBank(i, c) \/ TickFall(i, c) \/ DoomCloses(i, c) \/ SendFails(i, c) \/ Social(i, c)
  \/ \E t \in Tokens, n \in Names : ApiClaim(t, n) \/ ApiForget(t, n)
  \/ \E t \in Tokens : KickToken(t)

Spec == Init /\ [][Next]_vars

(* Every goroutine keeps running: the ticker ticks, the reaper's ticker    *)
(* fires, an HTTP handler runs to its end.  A send goes to every client    *)
(* every few ticks, so it is not starved by ticks that drain queues; one   *)
(* whose writer has stopped fills its queue sooner or later.               *)
Fairness ==
  /\ \A c \in Conns :
       /\ WF_vars(ConnStep(c) \/ (c \notin sock /\ ReadExit(c)) \/ Retire(c))
       /\ WF_vars(\E i \in Insts : DoomCloses(i, c))
       /\ SF_vars(at[c] = "done" /\ \E i \in Insts : SendFails(i, c))
  /\ \A i \in Insts :
       /\ WF_vars(TickStep(i))
       /\ WF_vars(GracePasses(i) \/ Reap(i) \/ RunLoopEnds(i))
  /\ \A t \in Tokens : WF_vars(KickToken(t))

FairSpec == Spec /\ Fairness
-----------------------------------------------------------------------------
(* Safety. *)

InPlay(c) == plays[c] # None /\ (at[c] \in {"connected", "placed"} \/ Housed(c))

(* One session per account: two connections never play characters of the   *)
(* same account at once.  It rests on the online flag, which an old leave  *)
(* filed twice, or filed with an instance the client has been transferred  *)
(* out of, must not clear under a session that still stands.               *)
OneSession ==
  \A c, d \in Conns :
    InPlay(c) /\ InPlay(d) /\ plays[c][1] = plays[d][1] => c = d

(* A connection is in at most one instance, spawned or waiting, and it is  *)
(* the instance its commands and its leave are routed to, which is still   *)
(* ticking: neither a transfer nor a reconnect loses a race to the reaper. *)
HousedOnce ==
  \A c \in Conns, i \in Insts : c \in clients[i] \cup joins[i] =>
    /\ inst[c] = i /\ state[i] = "live"
    /\ ~(c \in clients[i] /\ c \in joins[i])

(* The grace breadcrumb always leads to a registered instance. *)
HomesStand == \A t \in Tokens : homes[t] # None => state[homes[t]] = "live"

ListedIsThere ==
  \A t \in Tokens : lbOnline[t] # None =>
    LET c == lbOnline[t] IN
      token[c] = t /\ (Housed(c) \/ \E i \in Insts : departing[i] = c)

ThereIsListed ==
  \A c \in Conns : Housed(c) /\ token[c] # None /\ at[c] \notin {"placed", "queued"}
    => lbOnline[token[c]] = c

(* The lobby's online list names, for every account, the session that      *)
(* plays it: the late playerLeft of an old session does not erase the      *)
(* entry of the one that reconnected in between, and an entry never        *)
(* outlives its session.                                                   *)
OnlineListAgrees == ListedIsThere /\ ThereIsListed

(* Liveness. *)

(* A connection whose socket has died leaves the world, whatever transfer  *)
(* its leave raced, and so frees the account's online slot.                *)
DeadSocketLeaves ==
  \A c \in Conns : (Housed(c) /\ c \notin sock) ~> ~Housed(c)

(* In the instance, in its join queue, or placed and on the way to it. *)
BoundFor(i) ==
  \E c \in Conns : c \in clients[i] \cup joins[i] \/ (at[c] = "placed" /\ inst[c] = i)

(* An instance nobody is in or bound for does not tick for ever: whether its *)
(* last player dropped, was transferred out or never arrived, the clock      *)
(* starts and the reaper comes, unless somebody is placed there before.      *)
EmptyInstanceReaped ==
  \A i \in Insts : (state[i] = "live" /\ ~BoundFor(i)) ~> (state[i] = "none" \/ BoundFor(i))
=============================================================================
