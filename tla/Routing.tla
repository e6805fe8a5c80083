------------------------------- MODULE Routing -------------------------------
(***************************************************************************)
(* How a client's commands find its actor (server/server.go: readLoop,     *)
(* tick, spawnClient; descent.go: swapWorld; lobby.go: transferLocked).    *)
(* A client's readLoop tags each command with the client's actor and       *)
(* appends it to the queue of the client's instance, under two locks one   *)
(* after the other; the instance's tick drains the queue and steps its     *)
(* world with it.  A floor swap gives everyone a new world and new ids, a  *)
(* party transfer another instance.  Ids are per world: the same number    *)
(* names another actor in another world.                                   *)
(***************************************************************************)
EXTENDS Naturals, Sequences, FiniteSets

CONSTANTS Clients, Insts,
          None,         \* nothing in hand
          Free, Dead,   \* an id no actor of a world has had yet, or has any more
          Monster,      \* an id worn by a monster
          MaxMoves,     \* bound: party transfers of a client
          MayPause,     \* the admin may pause an instance
          MaxId,        \* bound: ids of a world
          Senders,      \* bound: the clients that send commands
          MaxSent,      \* bound: commands of a client
          MaxSwaps      \* bound: floor swaps

ASSUME RoutingAssumption ==
  /\ MaxMoves \in Nat /\ MayPause \in BOOLEAN
  /\ MaxId \in Nat \ {0} /\ MaxSent \in Nat /\ MaxSwaps \in Nat
  /\ IsFiniteSet(Clients) /\ Senders \subseteq Clients
  /\ Clients \cap {Free, Dead, Monster} = {}

VARIABLES
  inst, actor,   \* client.inst, client.actor (0: not spawned)
  early,         \* client.early: commands of a client not spawned yet
  hand,          \* the command readLoop has tagged and not queued yet, or None
  sent,          \* how many commands the client has sent
  phase,         \* where instance i's tick stands
  joins, clients,
  pending,       \* Instance.pending
  cmds,          \* the commands this tick has drained
  spawning,      \* the joins this tick has drained
  flush,         \* the early commands spawnClient holds, or None
  moving,        \* the client a transfer has not queued at its new instance yet
  wearer,        \* wearer[i][id]: whose actor has the id in i's world
  uncut,         \* the clients swapWorld has not cut over yet
  heard,         \* history: the commands that reached their sender's actor
  moved,         \* how often a transfer has moved the client
  swaps          \* floor swaps so far

clientVars == <<inst, actor, early, hand, sent>>
queueVars == <<joins, pending>>
tickVars == <<phase, clients, cmds, spawning, flush, moving, wearer, uncut>>
vars == <<clientVars, queueVars, tickVars, heard, moved, swaps>>

Ids == 1..MaxId

(* A world whose ids up to m are monsters. *)
Fresh(m) == [id \in Ids |-> IF id <= m THEN Monster ELSE Free]

(* Ids are given out in ascending order. *)
Unused(i) == {id \in Ids : \A k \in Ids : k >= id => wearer[i][k] = Free}

(* Everyone is in a join queue, of a world with ids for all of them. *)
Init ==
  /\ inst \in [Clients -> Insts]
  /\ joins = [i \in Insts |-> {c \in Clients : inst[c] = i}]
  /\ actor = [c \in Clients |-> 0] /\ early = [c \in Clients |-> <<>>]
  /\ hand = [c \in Clients |-> None] /\ sent = [c \in Clients |-> 0]
  /\ phase = [i \in Insts |-> "idle"]
  /\ clients = [i \in Insts |-> {}]
  /\ pending = [i \in Insts |-> <<>>] /\ cmds = [i \in Insts |-> <<>>]
  /\ spawning = [i \in Insts |-> {}] /\ flush = [i \in Insts |-> None]
  /\ moving = [i \in Insts |-> None]
  /\ wearer \in [Insts -> {Fresh(m) : m \in 0..1}]
  /\ \A i \in Insts : Cardinality(joins[i]) <= Cardinality(Unused(i))
  /\ uncut = [i \in Insts |-> {}]
  /\ heard = [c \in Clients |-> {}] /\ moved = [c \in Clients |-> 0] /\ swaps = 0

-----------------------------------------------------------------------------
(* How many are on their way to instance i; the bound MaxId leaves room    *)
(* for them.                                                               *)
Coming(i) == Cardinality({c \in Clients : inst[c] = i} \ clients[i])

(* readLoop. *)

(* The client's next command, under the client's lock. *)
Read(c) ==
  /\ c \in Senders /\ sent[c] < MaxSent /\ hand[c] = None
  /\ sent' = [sent EXCEPT ![c] = @ + 1]
  /\ IF actor[c] # 0
     THEN /\ hand' = [hand EXCEPT ![c] =
                        [to |-> inst[c],
                         cmd |-> [by |-> c, id |-> actor[c], n |-> sent'[c], early |-> FALSE]]]
          /\ UNCHANGED early
     ELSE /\ early' = [early EXCEPT ![c] = Append(@, sent'[c])]
          /\ UNCHANGED hand
  /\ UNCHANGED <<inst, actor, queueVars, tickVars, heard, moved, swaps>>

(* Then, under the instance's lock, its queue. *)
Enqueue(c) ==
  /\ hand[c] # None
  /\ pending' = [pending EXCEPT ![hand[c].to] = Append(@, hand[c].cmd)]
  /\ hand' = [hand EXCEPT ![c] = None]
  /\ UNCHANGED <<inst, actor, early, sent, joins, tickVars, heard, moved, swaps>>

-----------------------------------------------------------------------------
(* The tick of instance i. *)

(* Faulty: the queue is read and not emptied. *)
DrainKeeps(i) ==
  /\ phase[i] = "idle"
  /\ phase' = [phase EXCEPT ![i] = "spawn"]
  /\ cmds' = [cmds EXCEPT ![i] = pending[i]]
  /\ spawning' = [spawning EXCEPT ![i] = joins[i]]
  /\ joins' = [joins EXCEPT ![i] = {}]
  /\ UNCHANGED <<clientVars, pending, clients, flush, moving, wearer, uncut, heard, moved, swaps>>

Drain(i) ==
  /\ phase[i] = "idle"
  /\ phase' = [phase EXCEPT ![i] = "spawn"]
  /\ cmds' = [cmds EXCEPT ![i] = pending[i]]
  /\ spawning' = [spawning EXCEPT ![i] = joins[i]]
  /\ pending' = [pending EXCEPT ![i] = <<>>]
  /\ joins' = [joins EXCEPT ![i] = {}]
  /\ UNCHANGED <<clientVars, clients, flush, moving, wearer, uncut, heard, moved, swaps>>

(* The early commands ns of client c, tagged with id. *)
Tag(c, id, ns) ==
  [k \in DOMAIN ns |-> [by |-> c, id |-> id, n |-> ns[k], early |-> TRUE]]

(* Faulty: the early commands are copied and stay. *)
SpawnKeepsEarly(i, c) ==
  /\ phase[i] = "spawn" /\ flush[i] = None /\ c \in spawning[i]
  /\ \E id \in Unused(i) :
       /\ \A k \in Unused(i) : id <= k
       /\ wearer' = [wearer EXCEPT ![i][id] = c]
       /\ actor' = [actor EXCEPT ![c] = id]
       /\ flush' = [flush EXCEPT ![i] = IF early[c] = <<>> THEN None ELSE Tag(c, id, early[c])]
  /\ spawning' = [spawning EXCEPT ![i] = @ \ {c}]
  /\ clients' = [clients EXCEPT ![i] = @ \cup {c}]
  /\ UNCHANGED <<inst, early, hand, sent, queueVars, phase, cmds, moving, uncut, heard, moved, swaps>>

(* spawnClient: the actor gets the world's next id; under the client's     *)
(* lock the id becomes known to readLoop and the early commands are taken. *)
Spawn(i, c) ==
  /\ phase[i] = "spawn" /\ flush[i] = None /\ c \in spawning[i]
  /\ \E id \in Unused(i) :
       /\ \A k \in Unused(i) : id <= k
       /\ wearer' = [wearer EXCEPT ![i][id] = c]
       /\ actor' = [actor EXCEPT ![c] = id]
       /\ flush' = [flush EXCEPT ![i] = IF early[c] = <<>> THEN None ELSE Tag(c, id, early[c])]
  /\ early' = [early EXCEPT ![c] = <<>>]
  /\ spawning' = [spawning EXCEPT ![i] = @ \ {c}]
  /\ clients' = [clients EXCEPT ![i] = @ \cup {c}]
  /\ UNCHANGED <<inst, hand, sent, queueVars, phase, cmds, moving, uncut, heard, moved, swaps>>

(* Then, under the instance's lock, they are queued for the next tick. *)
Flush(i) ==
  /\ flush[i] # None
  /\ pending' = [pending EXCEPT ![i] = @ \o flush[i]]
  /\ flush' = [flush EXCEPT ![i] = None]
  /\ UNCHANGED <<clientVars, joins, phase, clients, cmds, spawning, moving, wearer, uncut,
                 heard, moved, swaps>>

(* Step: a command moves whoever wears its id.  A paused instance drops    *)
(* the commands and skips its run logic.                                   *)
Spawned(i) == phase[i] = "spawn" /\ spawning[i] = {} /\ flush[i] = None

Reaching(i, c) == {k \in DOMAIN cmds[i] : cmds[i][k].by = c /\ wearer[i][cmds[i][k].id] = c}

Step(i) ==
  /\ Spawned(i)
  /\ heard' = [c \in Clients |->
       heard[c] \cup {[n |-> cmds[i][k].n, early |-> cmds[i][k].early] : k \in Reaching(i, c)}]
  /\ cmds' = [cmds EXCEPT ![i] = <<>>]
  /\ phase' = [phase EXCEPT ![i] = "run"]
  /\ UNCHANGED <<clientVars, queueVars, clients, spawning, flush, moving, wearer, uncut, moved, swaps>>

Paused(i) ==
  /\ MayPause /\ Spawned(i)
  /\ cmds' = [cmds EXCEPT ![i] = <<>>]
  /\ phase' = [phase EXCEPT ![i] = "social"]
  /\ UNCHANGED <<clientVars, queueVars, clients, spawning, flush, moving, wearer, uncut,
                 heard, moved, swaps>>

(* runTick leaves the world alone, or swapWorld replaces it: monsters      *)
(* first, then everyone.                                                   *)
KeepWorld(i) ==
  /\ phase[i] = "run"
  /\ phase' = [phase EXCEPT ![i] = "social"]
  /\ UNCHANGED <<clientVars, queueVars, clients, cmds, spawning, flush, moving, wearer,
                 uncut, heard, moved, swaps>>

SwapWorld(i) ==
  /\ phase[i] = "run" /\ clients[i] # {} /\ swaps < MaxSwaps
  /\ \E m \in 0..MaxId - Cardinality(clients[i]) - Coming(i) :
       \E ids \in [clients[i] -> m + 1..m + Cardinality(clients[i])] :
         /\ \A c, d \in clients[i] : ids[c] = ids[d] => c = d
         /\ wearer' = [wearer EXCEPT ![i] =
              [id \in Ids |-> IF \E c \in clients[i] : ids[c] = id
                              THEN CHOOSE c \in clients[i] : ids[c] = id
                              ELSE Fresh(m)[id]]]
  /\ uncut' = [uncut EXCEPT ![i] = clients[i]]
  /\ phase' = [phase EXCEPT ![i] = "cut"]
  /\ swaps' = swaps + 1
  /\ UNCHANGED <<clientVars, queueVars, clients, cmds, spawning, flush, moving, heard, moved>>

(* The id of c's actor in i's world. *)
IdIn(i, c) == CHOOSE id \in Ids : wearer[i][id] = c

(* One client after the other learns its new id, under its lock. *)
CutOver(i, c) ==
  /\ phase[i] = "cut" /\ c \in uncut[i]
  /\ actor' = [actor EXCEPT ![c] = IdIn(i, c)]
  /\ uncut' = [uncut EXCEPT ![i] = @ \ {c}]
  /\ UNCHANGED <<inst, early, hand, sent, queueVars, phase, clients, cmds, spawning, flush,
                 moving, wearer, heard, moved, swaps>>

(* Faulty: the queue is kept across the swap. *)
KeepPending(i) ==
  /\ phase[i] = "cut" /\ uncut[i] = {}
  /\ phase' = [phase EXCEPT ![i] = "social"]
  /\ UNCHANGED <<clientVars, queueVars, clients, cmds, spawning, flush, moving, wearer, uncut,
                 heard, moved, swaps>>

(* Then the instance's queue is dropped. *)
DropPending(i) ==
  /\ phase[i] = "cut" /\ uncut[i] = {}
  /\ pending' = [pending EXCEPT ![i] = <<>>]
  /\ phase' = [phase EXCEPT ![i] = "social"]
  /\ UNCHANGED <<clientVars, joins, clients, cmds, spawning, flush, moving, wearer, uncut,
                 heard, moved, swaps>>

(* transferLocked: out of this world and on to instance j, *)
TransferOut(i, j, c) ==
  /\ phase[i] = "social" /\ moving[i] = None
  /\ c \in clients[i] /\ j # i
  /\ moved[c] < MaxMoves /\ Coming(j) < Cardinality(Unused(j))
  /\ clients' = [clients EXCEPT ![i] = @ \ {c}]
  /\ wearer' = [wearer EXCEPT ![i][IdIn(i, c)] = Dead]
  /\ inst' = [inst EXCEPT ![c] = j]
  /\ moved' = [moved EXCEPT ![c] = @ + 1]
  /\ moving' = [moving EXCEPT ![i] = c]
  /\ UNCHANGED <<actor, early, hand, sent, queueVars, phase, cmds, spawning, flush, uncut,
                 heard, swaps>>

(* whose join queue is another lock. *)
TransferIn(i) ==
  /\ moving[i] # None
  /\ joins' = [joins EXCEPT ![inst[moving[i]]] = @ \cup {moving[i]}]
  /\ moving' = [moving EXCEPT ![i] = None]
  /\ UNCHANGED <<clientVars, pending, phase, clients, cmds, spawning, flush, wearer, uncut,
                 heard, moved, swaps>>

EndTick(i) ==
  /\ phase[i] = "social" /\ moving[i] = None
  /\ phase' = [phase EXCEPT ![i] = "idle"]
  /\ UNCHANGED <<clientVars, queueVars, clients, cmds, spawning, flush, moving, wearer,
                 uncut, heard, moved, swaps>>

Next ==
  \/ \E c \in Clients : Read(c) \/ Enqueue(c)
  \/ \E i \in Insts : \/ Drain(i) \/ Flush(i) \/ Step(i) \/ Paused(i)
                      \/ KeepWorld(i) \/ SwapWorld(i) \/ DropPending(i)
                      \/ TransferIn(i) \/ EndTick(i)
                      \/ \E c \in Clients : Spawn(i, c) \/ CutOver(i, c)
                      \/ \E c \in Clients, j \in Insts : TransferOut(i, j, c)

Spec == Init /\ [][Next]_vars

-----------------------------------------------------------------------------
(* No command is stranded: once a client has an actor nothing is left in   *)
(* its early buffer ("a spawn between them would flush the early buffer    *)
(* under our feet", readLoop).                                             *)
EarlyIsFlushed == \A c \in Clients : actor[c] # 0 => early[c] = <<>>

(* The commands of c that are tagged for an actor it does not wear in the  *)
(* world of instance i.                                                    *)
Stray(i, c, cmd) == cmd.by = c /\ wearer[i][cmd.id] # c

StraysQueued(i, c) ==
  LET queue == pending[i] \o cmds[i] IN {k \in DOMAIN queue : Stray(i, c, queue[k])}

StraysInHand(i, c) ==
  IF hand[c] # None /\ hand[c].to = i /\ Stray(i, c, hand[c].cmd) THEN {0} ELSE {}

(* When swapWorld is done, at most the one command its readLoop had in     *)
(* hand names another's actor, for each client: the cut drops every other. *)
(* (A client that a transfer has moved has sent under its old id since.)   *)
OneStrayAtMost ==
  \A i \in Insts : phase[i] # "cut" =>
    \A c \in clients[i] : moved[c] = 0 =>
      Cardinality(StraysQueued(i, c) \cup StraysInHand(i, c)) <= 1

(* No command reaches its sender's actor twice, and those sent with an     *)
(* actor reach it in the order they were sent, through swaps, pauses and a *)
(* transfer (the stable sort "preserves each client's own command order",  *)
(* server/server.go:844; the early ones may come late).  Once a client has *)
(* been moved twice, one tagged on the way may wait at an instance it      *)
(* comes back to, for an id it wears there by then.                        *)
HeardInOrder ==
  \A i \in Insts, c \in Clients : \A k \in Reaching(i, c) :
    LET cmd == cmds[i][k] IN
      /\ \A h \in heard[c] :
           /\ h.n # cmd.n
           /\ moved[c] <= 1 /\ h.n > cmd.n => h.early \/ cmd.early
      /\ \A l \in Reaching(i, c) : k < l =>
           /\ cmds[i][l].n # cmd.n
           /\ cmds[i][l].n < cmd.n => cmds[i][l].early \/ cmd.early
=============================================================================
