---------------------------- MODULE RoutingProofs ----------------------------
(* Theorems about Routing, for any clients, instances, swaps and moves. *)
EXTENDS Routing, FiniteSetTheorems, TLAPS

Phases == {"idle", "spawn", "run", "cut", "social"}

Shapes ==
  /\ actor \in [Clients -> Ids \cup {0}] /\ sent \in [Clients -> Nat]
  /\ early \in [Clients -> Seq(Nat)]
  /\ phase \in [Insts -> Phases]
  /\ clients \in [Insts -> SUBSET Clients] /\ uncut \in [Insts -> SUBSET Clients]
  /\ wearer \in [Insts -> [Ids -> Clients \cup {Free, Dead, Monster}]]

(***************************************************************************)
(* A client of an instance has an actor, so readLoop holds nothing back    *)
(* for it; and it keeps one, because the cut over to a new world finds an  *)
(* id for everyone it is still to tell.                                    *)
(***************************************************************************)
Known == \A i \in Insts : \A c \in clients[i] : actor[c] # 0

Cutting ==
  \A i \in Insts :
    /\ uncut[i] \subseteq clients[i]
    /\ uncut[i] # {} => phase[i] = "cut"
    /\ \A c \in uncut[i] : \E id \in Ids : wearer[i][id] = c

FlushInv == Shapes /\ Known /\ Cutting /\ EarlyIsFlushed

LEMMA FlushInit == Init => FlushInv
<1> SUFFICES ASSUME Init PROVE FlushInv
  OBVIOUS
<1>1. \A m \in 0..1 : Fresh(m) \in [Ids -> Clients \cup {Free, Dead, Monster}]
  BY DEF Fresh
<1>2. Shapes
  BY <1>1 DEF Init, Shapes, Phases
<1> QED
  BY <1>2 DEF Init, FlushInv, Known, Cutting, EarlyIsFlushed

(* swapWorld gives every client of the instance an id of the new world.    *)
LEMMA EveryoneHasAnId ==
  ASSUME Shapes, NEW i \in Insts, SwapWorld(i)
  PROVE  /\ wearer' \in [Insts -> [Ids -> Clients \cup {Free, Dead, Monster}]]
         /\ \A c \in clients[i] : \E id \in Ids : wearer'[i][id] = c
         /\ \A j \in Insts : j # i => wearer'[j] = wearer[j]
         /\ \A id \in Ids : wearer'[i][id] \in Clients =>
              /\ wearer'[i][id] \in clients[i]
              /\ \A k \in Ids : wearer'[i][k] = wearer'[i][id] => k = id
<1> DEFINE n == Cardinality(clients[i])
           k == Coming(i)
<1>1. n \in Nat /\ k \in Nat
  <2>1. IsFiniteSet(clients[i])
    BY RoutingAssumption, FS_Subset DEF Shapes
  <2>2. IsFiniteSet({c \in Clients : inst[c] = i} \ clients[i])
    BY RoutingAssumption, FS_Subset
  <2> QED
    BY <2>1, <2>2, FS_CardinalityType DEF Coming
<1> HIDE DEF n, k
<1> DEFINE World(m, ids) ==
             [id \in Ids |-> IF \E c \in clients[i] : ids[c] = id
                             THEN CHOOSE c \in clients[i] : ids[c] = id
                             ELSE Fresh(m)[id]]
<1>0. PICK m \in 0..MaxId - n - k : \E ids \in [clients[i] -> m + 1..m + n] :
        /\ \A c, d \in clients[i] : ids[c] = ids[d] => c = d
        /\ wearer' = [wearer EXCEPT ![i] = World(m, ids)]
  BY DEF SwapWorld, n, k
<1>2. PICK ids \in [clients[i] -> m + 1..m + n] :
        /\ \A c, d \in clients[i] : ids[c] = ids[d] => c = d
        /\ wearer' = [wearer EXCEPT ![i] = World(m, ids)]
  BY <1>0
<1> DEFINE world == World(m, ids)
<1>3. \A c \in clients[i] : ids[c] \in Ids
  <2>1. m \in Nat /\ m + n <= MaxId
    BY <1>1, <1>0, RoutingAssumption
  <2> QED
    BY <1>1, <1>2, <2>1, RoutingAssumption DEF Ids
<1>4. ASSUME NEW c \in clients[i]
      PROVE  world[ids[c]] = c
  <2>1. (CHOOSE d \in clients[i] : ids[d] = ids[c]) = c
    BY <1>2
  <2> QED
    BY <1>3, <2>1
<1>5. world \in [Ids -> Clients \cup {Free, Dead, Monster}]
  <2>1. ASSUME NEW id \in Ids
        PROVE  world[id] \in Clients \cup {Free, Dead, Monster}
    <3>1. CASE \E c \in clients[i] : ids[c] = id
      <4>1. PICK c \in clients[i] : ids[c] = id
        BY <3>1
      <4> QED
        BY <1>4, <4>1 DEF Shapes
    <3>2. CASE ~\E c \in clients[i] : ids[c] = id
      BY <3>2 DEF Fresh
    <3> QED
      BY <3>1, <3>2
  <2> QED
    BY <2>1
<1>8. ASSUME NEW id \in Ids, world[id] \in Clients
      PROVE  world[id] \in clients[i] /\ ids[world[id]] = id
  <2>1. CASE \E c \in clients[i] : ids[c] = id
    <3>1. PICK c \in clients[i] : ids[c] = id
      BY <2>1
    <3> QED
      BY <1>4, <3>1
  <2>2. CASE ~\E c \in clients[i] : ids[c] = id
    BY <1>8, <2>2, RoutingAssumption DEF Fresh
  <2> QED
    BY <2>1, <2>2
<1> HIDE DEF world
<1>6. wearer' = [wearer EXCEPT ![i] = world]
  BY <1>2 DEF world
<1>7. wearer'[i] = world
  BY <1>6 DEF Shapes
<1> QED
  BY <1>3, <1>4, <1>5, <1>6, <1>7, <1>8 DEF Shapes

LEMMA FlushStep ==
  ASSUME FlushInv, [Next]_vars
  PROVE  FlushInv'
<1> USE DEF FlushInv
<1> DEFINE Rest == UNCHANGED <<actor, early, sent, clients, uncut, wearer>>
<1>1. ASSUME NEW c \in Clients, Read(c)
      PROVE  FlushInv'
  <2>1. sent' \in [Clients -> Nat] /\ sent'[c] \in Nat
    BY <1>1 DEF Read, Shapes
  <2>2. UNCHANGED <<actor, phase, clients, uncut, wearer>>
    BY <1>1 DEF Read, tickVars
  <2>3. CASE actor[c] # 0
    BY <1>1, <2>1, <2>2, <2>3 DEF Read, Shapes, Known, Cutting, EarlyIsFlushed
  <2>4. CASE actor[c] = 0
    <3>1. early' = [early EXCEPT ![c] = Append(@, sent'[c])]
      BY <1>1, <2>4 DEF Read
    <3>2. early' \in [Clients -> Seq(Nat)]
      BY <2>1, <3>1 DEF Shapes
    <3> QED
      BY <2>1, <2>2, <2>4, <3>1, <3>2 DEF Shapes, Known, Cutting, EarlyIsFlushed
  <2> QED
    BY <2>3, <2>4
<1>2. ASSUME NEW i \in Insts, NEW c \in Clients, Spawn(i, c)
      PROVE  FlushInv'
  <2>1. PICK id \in Ids : /\ wearer' = [wearer EXCEPT ![i][id] = c]
                          /\ actor' = [actor EXCEPT ![c] = id]
    BY <1>2 DEF Spawn, Unused
  <2>2. /\ early' = [early EXCEPT ![c] = <<>>] /\ clients' = [clients EXCEPT ![i] = @ \cup {c}]
        /\ phase[i] = "spawn" /\ UNCHANGED <<sent, phase, uncut>>
    BY <1>2 DEF Spawn
  <2>3. id \in Nat /\ id # 0
    BY <2>1, RoutingAssumption DEF Ids
  <2>4. Shapes'
    <3>1. wearer' \in [Insts -> [Ids -> Clients \cup {Free, Dead, Monster}]]
      BY <2>1 DEF Shapes
    <3> QED
      BY <2>1, <2>2, <2>3, <3>1 DEF Shapes
  <2>5. Known'
    BY <2>1, <2>2, <2>3 DEF Shapes, Known
  <2>6. Cutting'
    <3>1. uncut[i] = {}
      BY <2>2 DEF Cutting
    <3>2. \A j \in Insts : j # i => wearer'[j] = wearer[j] /\ clients'[j] = clients[j]
      BY <2>1, <2>2 DEF Shapes
    <3> QED
      BY <2>2, <3>1, <3>2 DEF Cutting
  <2>7. EarlyIsFlushed'
    BY <2>1, <2>2 DEF Shapes, EarlyIsFlushed
  <2> QED
    BY <2>4, <2>5, <2>6, <2>7
<1>3. ASSUME NEW i \in Insts, SwapWorld(i)
      PROVE  FlushInv'
  <2>1. /\ phase' = [phase EXCEPT ![i] = "cut"] /\ uncut' = [uncut EXCEPT ![i] = clients[i]]
        /\ UNCHANGED <<actor, early, sent, clients>>
    BY <1>3 DEF SwapWorld, clientVars
  <2>2. Shapes'
    BY <1>3, <2>1, EveryoneHasAnId DEF Shapes, Phases
  <2>3. Cutting'
    BY <1>3, <2>1, EveryoneHasAnId DEF Cutting, Shapes
  <2> QED
    BY <2>1, <2>2, <2>3 DEF Known, EarlyIsFlushed
<1>4. ASSUME NEW i \in Insts, NEW c \in Clients, CutOver(i, c)
      PROVE  FlushInv'
  <2>1. /\ c \in uncut[i] /\ actor' = [actor EXCEPT ![c] = IdIn(i, c)]
        /\ uncut' = [uncut EXCEPT ![i] = @ \ {c}]
        /\ UNCHANGED <<early, sent, phase, clients, wearer>>
    BY <1>4 DEF CutOver
  <2>2. IdIn(i, c) \in Ids /\ IdIn(i, c) # 0
    <3>1. IdIn(i, c) \in Ids
      BY <2>1 DEF Cutting, IdIn
    <3> QED
      BY <3>1, RoutingAssumption DEF Ids
  <2>3. actor[c] # 0
    BY <2>1 DEF Known, Cutting
  <2>4. Shapes'
    BY <2>1, <2>2 DEF Shapes
  <2>5. Known' /\ EarlyIsFlushed'
    BY <2>1, <2>2, <2>3 DEF Shapes, Known, EarlyIsFlushed
  <2>6. Cutting'
    BY <2>1 DEF Shapes, Cutting
  <2> QED
    BY <2>4, <2>5, <2>6
<1>5. ASSUME NEW i \in Insts, NEW j \in Insts, NEW c \in Clients, TransferOut(i, j, c)
      PROVE  FlushInv'
  <2>1. /\ phase[i] = "social" /\ clients' = [clients EXCEPT ![i] = @ \ {c}]
        /\ wearer' = [wearer EXCEPT ![i][IdIn(i, c)] = Dead]
        /\ UNCHANGED <<actor, early, sent, phase, uncut>>
    BY <1>5 DEF TransferOut
  <2>2. \A k \in Insts : k # i => wearer'[k] = wearer[k] /\ clients'[k] = clients[k]
    BY <2>1 DEF Shapes
  <2>3. Shapes'
    BY <2>1 DEF Shapes
  <2>4. Cutting'
    <3>1. uncut[i] = {}
      BY <2>1 DEF Cutting
    <3> QED
      BY <2>1, <2>2, <3>1 DEF Cutting
  <2>5. Known'
    BY <2>1, <2>2 DEF Shapes, Known
  <2> QED
    BY <2>1, <2>3, <2>4, <2>5 DEF EarlyIsFlushed
<1>6. ASSUME Rest, NEW i \in Insts, NEW p \in Phases, phase' = [phase EXCEPT ![i] = p],
             phase[i] # "cut" \/ uncut[i] = {}
      PROVE  FlushInv'
  BY <1>6 DEF Shapes, Known, Cutting, EarlyIsFlushed
<1>7. ASSUME NEW i \in Insts, \/ Drain(i) \/ Step(i) \/ Paused(i) \/ KeepWorld(i)
                              \/ DropPending(i) \/ EndTick(i)
      PROVE  FlushInv'
  <2>1. Rest /\ (phase[i] # "cut" \/ uncut[i] = {})
    BY <1>7 DEF Drain, Step, Paused, KeepWorld, DropPending, EndTick, Spawned, clientVars
  <2>2. PICK p \in Phases : phase' = [phase EXCEPT ![i] = p]
    BY <1>7 DEF Drain, Step, Paused, KeepWorld, DropPending, EndTick, Phases
  <2> QED
    BY <1>6, <2>1, <2>2
<1>8. CASE Rest /\ phase' = phase
  BY <1>8 DEF Shapes, Known, Cutting, EarlyIsFlushed
<1>9. CASE \/ \E c \in Clients : Enqueue(c)
           \/ \E i \in Insts : Flush(i) \/ TransferIn(i)
           \/ UNCHANGED vars
  BY <1>8, <1>9 DEF Enqueue, Flush, TransferIn, vars, clientVars, tickVars
<1> HIDE DEF Rest
<1> QED
  BY <1>1, <1>2, <1>3, <1>4, <1>5, <1>7, <1>9 DEF Next

(* Once a client's actor is known, nothing it sent before waits in its     *)
(* early buffer: spawnClient takes the buffer and tells the id under one   *)
(* lock (server/server.go: readLoop, spawnClient; descent.go: swapWorld).  *)
THEOREM NothingHeldBack == Spec => []EarlyIsFlushed
<1>1. Init => FlushInv
  BY FlushInit
<1>2. FlushInv /\ [Next]_vars => FlushInv'
  BY FlushStep
<1>3. FlushInv => EarlyIsFlushed
  BY DEF FlushInv
<1> QED
  BY <1>1, <1>2, <1>3, PTL DEF Spec

(***************************************************************************)
(* Where a command may wait: drained, queued, or held by spawnClient.      *)
(***************************************************************************)
Cmd == [by : Clients, id : Ids, n : Nat, early : BOOLEAN]

Flushing(i) == IF flush[i] = None THEN <<>> ELSE flush[i]

Listed(s) == {s[k] : k \in DOMAIN s}
Queued(i) == Listed(cmds[i]) \cup Listed(pending[i]) \cup Listed(Flushing(i))

Lists ==
  /\ inst \in [Clients -> Insts] /\ moved \in [Clients -> Nat]
  /\ joins \in [Insts -> SUBSET Clients] /\ spawning \in [Insts -> SUBSET Clients]
  /\ moving \in [Insts -> Clients \cup {None}]
  /\ cmds \in [Insts -> Seq(Cmd)] /\ pending \in [Insts -> Seq(Cmd)]
  /\ flush \in [Insts -> Seq(Cmd) \cup {None}]
  /\ hand \in [Clients -> [to : Insts, cmd : Cmd] \cup {None}]
  /\ heard \in [Clients -> SUBSET [n : Nat, early : BOOLEAN]]

(***************************************************************************)
(* A client is in one place: a join queue, a tick's joins, a client list,  *)
(* or on the way between two instances.  Who wears an id of a world is in  *)
(* that world's client list, and wears one id there.                       *)
(***************************************************************************)
Here(i) == joins[i] \cup spawning[i] \cup clients[i]

Places ==
  \A i \in Insts :
    /\ \A c \in Here(i) : inst[c] = i
    /\ joins[i] \cap spawning[i] = {} /\ joins[i] \cap clients[i] = {}
    /\ spawning[i] \cap clients[i] = {}

Movers ==
  \A i \in Insts : moving[i] # None =>
    /\ moved[moving[i]] # 0
    /\ \A j \in Insts : moving[i] \notin Here(j)
    /\ \A j \in Insts : moving[j] = moving[i] => j = i

Unborn ==
  \A c \in Clients : moved[c] = 0 /\ c \in joins[inst[c]] \cup spawning[inst[c]] => actor[c] = 0

Housed == Places /\ Movers /\ Unborn

Worn ==
  \A i \in Insts : \A id \in Ids : wearer[i][id] \in Clients =>
    /\ wearer[i][id] \in clients[i]
    /\ \A k \in Ids : wearer[i][k] = wearer[i][id] => k = id

(***************************************************************************)
(* A client's commands keep their numbers: those that wait in one instance *)
(* are in line, those of two instances differ, and none has been heard.    *)
(* A client that was moved once has only commands of one instance behind   *)
(* it, and all it has heard was sent before.                               *)
(***************************************************************************)
Ahead(a, b) == a.by = b.by => a.n # b.n /\ (a.n > b.n => a.early \/ b.early)

InLine(s) == \A k, l \in DOMAIN s : k < l => Ahead(s[k], s[l])
Across(s, t) == \A k \in DOMAIN s, l \in DOMAIN t : Ahead(s[k], t[l])

LineAt(i) ==
  /\ InLine(cmds[i]) /\ InLine(pending[i]) /\ InLine(Flushing(i))
  /\ Across(cmds[i], pending[i]) /\ Across(cmds[i], Flushing(i))
  /\ Across(pending[i], Flushing(i))
  /\ \A m \in Listed(Flushing(i)) : m.early

Lined ==
  /\ \A i \in Insts : LineAt(i)
  /\ \A i, j \in Insts : i # j =>
       \A a \in Queued(i), b \in Queued(j) : a.by = b.by => a.n # b.n

Waiting(i, m) ==
  /\ actor[m.by] # 0
  /\ m.n <= sent[m.by] /\ (hand[m.by] # None => m.n < sent[m.by])
  /\ moved[m.by] = 0 => inst[m.by] = i
  /\ \A h \in heard[m.by] :
       /\ h.n # m.n
       /\ moved[m.by] <= 1 /\ inst[m.by] = i /\ h.n > m.n => h.early \/ m.early

InHand ==
  \A c \in Clients : hand[c] # None =>
    /\ hand[c].cmd.by = c /\ hand[c].cmd.n = sent[c] /\ ~hand[c].cmd.early
    /\ moved[c] = 0 => hand[c].to = inst[c]
    /\ actor[c] # 0

Told ==
  \A c \in Clients : \A h \in heard[c] :
    /\ actor[c] # 0
    /\ h.n <= sent[c] /\ (hand[c] # None => h.n < sent[c])

Held ==
  \A c \in Clients : \A k \in DOMAIN early[c] :
    /\ early[c][k] <= sent[c]
    /\ \A l \in DOMAIN early[c] : k < l => early[c][k] < early[c][l]

Numbered ==
  /\ \A i \in Insts : \A m \in Queued(i) : Waiting(i, m)
  /\ InHand /\ Told /\ Held

OrderInv == FlushInv /\ Lists /\ Housed /\ Worn /\ Lined /\ Numbered

LEMMA AppendList ==
  ASSUME NEW s \in Seq(Cmd), NEW e \in Cmd
  PROVE  /\ Append(s, e) \in Seq(Cmd) /\ Listed(Append(s, e)) = Listed(s) \cup {e}
         /\ DOMAIN Append(s, e) = 1..(Len(s) + 1) /\ DOMAIN s = 1..Len(s) /\ Len(s) \in Nat
         /\ Append(s, e)[Len(s) + 1] = e
         /\ \A k \in 1..Len(s) : Append(s, e)[k] = s[k]
<1>1. /\ Append(s, e) \in Seq(Cmd)
      /\ DOMAIN Append(s, e) = 1..(Len(s) + 1) /\ DOMAIN s = 1..Len(s) /\ Len(s) \in Nat
      /\ Append(s, e)[Len(s) + 1] = e
      /\ \A k \in 1..Len(s) : Append(s, e)[k] = s[k]
  OBVIOUS
<1>2. \A k \in 1..(Len(s) + 1) : k \in 1..Len(s) \/ k = Len(s) + 1
  BY <1>1
<1>3. \A k \in 1..Len(s) : k \in 1..(Len(s) + 1)
  BY <1>1
<1>4. Len(s) + 1 \in 1..(Len(s) + 1)
  BY <1>1
<1> QED
  BY <1>1, <1>2, <1>3, <1>4 DEF Listed

LEMMA ConcatList ==
  ASSUME NEW s \in Seq(Cmd), NEW t \in Seq(Cmd)
  PROVE  /\ s \o t \in Seq(Cmd) /\ Listed(s \o t) = Listed(s) \cup Listed(t)
         /\ \A k \in DOMAIN (s \o t) :
              \/ k \in DOMAIN s /\ (s \o t)[k] = s[k]
              \/ k - Len(s) \in DOMAIN t /\ (s \o t)[k] = t[k - Len(s)] /\ k \notin DOMAIN s
         /\ DOMAIN s = 1..Len(s) /\ Len(s) \in Nat /\ DOMAIN t = 1..Len(t) /\ Len(t) \in Nat
         /\ DOMAIN (s \o t) = 1..(Len(s) + Len(t))
<1>1. /\ s \o t \in Seq(Cmd) /\ DOMAIN (s \o t) = 1..(Len(s) + Len(t))
      /\ DOMAIN s = 1..Len(s) /\ Len(s) \in Nat /\ DOMAIN t = 1..Len(t) /\ Len(t) \in Nat
      /\ \A k \in 1..Len(s) : (s \o t)[k] = s[k]
      /\ \A k \in 1..(Len(s) + Len(t)) : k \notin 1..Len(s) => (s \o t)[k] = t[k - Len(s)]
  OBVIOUS
<1>2. ASSUME NEW k \in DOMAIN (s \o t)
      PROVE  \/ k \in DOMAIN s /\ (s \o t)[k] = s[k]
             \/ k - Len(s) \in DOMAIN t /\ (s \o t)[k] = t[k - Len(s)] /\ k \notin DOMAIN s
  <2>1. k \in 1..Len(s) \/ (k \notin 1..Len(s) /\ k - Len(s) \in 1..Len(t))
    BY <1>1
  <2> QED
    BY <1>1, <2>1
<1>3. \A k \in DOMAIN s : k \in DOMAIN (s \o t) /\ (s \o t)[k] = s[k]
  BY <1>1
<1>4. ASSUME NEW l \in DOMAIN t
      PROVE  l + Len(s) \in DOMAIN (s \o t) /\ (s \o t)[l + Len(s)] = t[l]
  <2>1. l + Len(s) \in 1..(Len(s) + Len(t)) /\ l + Len(s) \notin 1..Len(s) /\ (l + Len(s)) - Len(s) = l
    BY <1>1
  <2> QED
    BY <1>1, <2>1
<1>5. Listed(s \o t) \subseteq Listed(s) \cup Listed(t)
  BY <1>2 DEF Listed
<1>6. Listed(s) \cup Listed(t) \subseteq Listed(s \o t)
  BY <1>3, <1>4 DEF Listed
<1> QED
  BY <1>1, <1>2, <1>5, <1>6

LEMMA TagList ==
  ASSUME NEW c \in Clients, NEW id \in Ids, NEW ns \in Seq(Nat)
  PROVE  /\ Tag(c, id, ns) \in Seq(Cmd) /\ DOMAIN Tag(c, id, ns) = DOMAIN ns
         /\ \A k \in DOMAIN ns : Tag(c, id, ns)[k] = [by |-> c, id |-> id, n |-> ns[k], early |-> TRUE]
<1>1. DOMAIN ns = 1..Len(ns) /\ Len(ns) \in Nat
  OBVIOUS
<1>2. \A k \in DOMAIN ns : [by |-> c, id |-> id, n |-> ns[k], early |-> TRUE] \in Cmd
  BY DEF Cmd
<1>3. Tag(c, id, ns) \in [1..Len(ns) -> Cmd]
  BY <1>1, <1>2 DEF Tag
<1> QED
  BY <1>1, <1>3 DEF Tag

LEMMA EmptyList ==
  /\ Listed(<<>>) = {} /\ InLine(<<>>) /\ <<>> \in Seq(Cmd)
  /\ \A s : Across(<<>>, s) /\ Across(s, <<>>)
  BY DEF Listed, InLine, Across

(* One command more, behind or before all others of its client.             *)
LEMMA LineAppend ==
  ASSUME NEW s \in Seq(Cmd), NEW e \in Cmd
  PROVE  /\ InLine(s) /\ (\A m \in Listed(s) : Ahead(m, e)) => InLine(Append(s, e))
         /\ \A r : Across(r, s) /\ (\A m \in Listed(r) : Ahead(m, e)) => Across(r, Append(s, e))
         /\ \A t : Across(s, t) /\ (\A m \in Listed(t) : Ahead(e, m)) => Across(Append(s, e), t)
<1> DEFINE a == Append(s, e)
           n == Len(s)
<1>1. /\ DOMAIN a = 1..(n + 1) /\ DOMAIN s = 1..n /\ n \in Nat /\ a[n + 1] = e
      /\ \A k \in 1..n : a[k] = s[k]
  BY AppendList
<1> HIDE DEF a, n
<1>2. \A k \in DOMAIN a : (k = n + 1 /\ a[k] = e) \/ (k \in DOMAIN s /\ a[k] = s[k])
  BY <1>1
<1>3. ASSUME NEW k \in DOMAIN a, NEW l \in DOMAIN a, k < l, InLine(s), \A m \in Listed(s) : Ahead(m, e)
      PROVE  Ahead(a[k], a[l])
  <2>1. k \in DOMAIN s /\ a[k] = s[k]
    BY <1>1, <1>3
  <2>2. CASE l \in DOMAIN s /\ a[l] = s[l]
    BY <1>3, <2>1, <2>2 DEF InLine
  <2>3. CASE a[l] = e
    BY <1>3, <2>1, <2>3 DEF Listed
  <2> QED
    BY <1>2, <2>2, <2>3
<1>4. ASSUME NEW r, NEW k \in DOMAIN r, NEW l \in DOMAIN a, Across(r, s), \A m \in Listed(r) : Ahead(m, e)
      PROVE  Ahead(r[k], a[l])
  BY <1>2, <1>4 DEF Across, Listed
<1>5. ASSUME NEW t, NEW k \in DOMAIN a, NEW l \in DOMAIN t, Across(s, t), \A m \in Listed(t) : Ahead(e, m)
      PROVE  Ahead(a[k], t[l])
  BY <1>2, <1>5 DEF Across, Listed
<1>6. InLine(s) /\ (\A m \in Listed(s) : Ahead(m, e)) => InLine(a)
  BY <1>3 DEF InLine
<1>7. \A r : Across(r, s) /\ (\A m \in Listed(r) : Ahead(m, e)) => Across(r, a)
  BY <1>4 DEF Across
<1>8. \A t : Across(s, t) /\ (\A m \in Listed(t) : Ahead(e, m)) => Across(a, t)
  BY <1>5 DEF Across
<1> QED
  BY <1>6, <1>7, <1>8 DEF a

LEMMA LineConcat ==
  ASSUME NEW s \in Seq(Cmd), NEW t \in Seq(Cmd), NEW r
  PROVE  /\ InLine(s) /\ InLine(t) /\ Across(s, t) => InLine(s \o t)
         /\ Across(r, s) /\ Across(r, t) => Across(r, s \o t)
<1> DEFINE a == s \o t
           n == Len(s)
<1>1. /\ \A k \in DOMAIN a : \/ k \in DOMAIN s /\ a[k] = s[k]
                             \/ k - n \in DOMAIN t /\ a[k] = t[k - n] /\ k \notin DOMAIN s
      /\ DOMAIN s = 1..n /\ n \in Nat /\ DOMAIN t = 1..Len(t) /\ Len(t) \in Nat
      /\ DOMAIN a = 1..(n + Len(t))
  BY ConcatList
<1> HIDE DEF a, n
<1>2. ASSUME NEW k \in DOMAIN a, NEW l \in DOMAIN a, k < l, InLine(s), InLine(t), Across(s, t)
      PROVE  Ahead(a[k], a[l])
  <2>1. CASE l \in DOMAIN s
    <3>1. k \in DOMAIN s
      BY <1>1, <1>2, <2>1
    <3>2. a[k] = s[k] /\ a[l] = s[l]
      BY <1>1, <2>1, <3>1
    <3> QED
      BY <1>2, <2>1, <3>1, <3>2 DEF InLine
  <2>2. CASE l \notin DOMAIN s
    <3>1. l - n \in DOMAIN t /\ a[l] = t[l - n]
      BY <1>1, <2>2
    <3>2. CASE k \in DOMAIN s
      <4>1. a[k] = s[k]
        BY <1>1, <3>2
      <4> QED
        BY <1>2, <3>1, <3>2, <4>1 DEF Across
    <3>3. CASE k \notin DOMAIN s
      <4>1. k - n \in DOMAIN t /\ a[k] = t[k - n]
        BY <1>1, <3>3
      <4>2. k - n < l - n
        BY <1>1, <1>2
      <4> QED
        BY <1>2, <3>1, <4>1, <4>2 DEF InLine
    <3> QED
      BY <3>2, <3>3
  <2> QED
    BY <2>1, <2>2
<1>3. Across(r, s) /\ Across(r, t) => Across(r, a)
  BY <1>1 DEF Across
<1>4. InLine(s) /\ InLine(t) /\ Across(s, t) => InLine(a)
  BY <1>2 DEF InLine
<1> QED
  BY <1>3, <1>4 DEF a

LEMMA OrderInit == Init => Lists /\ Housed /\ Worn /\ Lined /\ Numbered
<1> SUFFICES ASSUME Init PROVE Lists /\ Housed /\ Worn /\ Lined /\ Numbered
  OBVIOUS
<1>1. Lists
  BY EmptyList DEF Init, Lists
<1>2. Housed
  BY DEF Init, Housed, Places, Movers, Unborn, Here
<1>3. Worn
  <2>1. \A m \in 0..1, id \in Ids : Fresh(m)[id] \notin Clients
    BY RoutingAssumption DEF Fresh
  <2> QED
    BY <2>1 DEF Init, Worn
<1>4. \A i \in Insts : cmds[i] = <<>> /\ pending[i] = <<>> /\ Flushing(i) = <<>>
  BY DEF Init, Flushing
<1>5. \A i \in Insts : Queued(i) = {}
  BY <1>4, EmptyList DEF Queued
<1>6. \A i \in Insts : LineAt(i)
  BY <1>4, EmptyList DEF LineAt
<1>7. Lined
  BY <1>5, <1>6 DEF Lined
<1>8. Numbered
  BY <1>5 DEF Init, Numbered, InHand, Told, Held
<1> QED
  BY <1>1, <1>2, <1>3, <1>7, <1>8

LEMMA ListsStep ==
  ASSUME FlushInv, Lists, [Next]_vars
  PROVE  Lists'
<1> USE DEF Lists
<1>1. ASSUME NEW c \in Clients, Read(c)
      PROVE  Lists'
  <2>3. hand' \in [Clients -> [to : Insts, cmd : Cmd] \cup {None}]
    <3>1. CASE actor[c] = 0
      BY <1>1, <3>1 DEF Read
    <3>2. CASE actor[c] # 0
      <4> DEFINE new == [to |-> inst[c], cmd |-> [by |-> c, id |-> actor[c], n |-> sent'[c], early |-> FALSE]]
      <4>1. sent'[c] \in Nat /\ actor[c] \in Ids
        BY <1>1, <3>2 DEF Read, FlushInv, Shapes
      <4>2. new \in [to : Insts, cmd : Cmd]
        BY <4>1 DEF Cmd
      <4>3. hand' = [hand EXCEPT ![c] = new]
        BY <1>1, <3>2 DEF Read
      <4> HIDE DEF new
      <4> QED
        BY <4>2, <4>3
    <3> QED
      BY <3>1, <3>2
  <2> QED
    BY <1>1, <2>3 DEF Read, queueVars, tickVars
<1>2. ASSUME NEW c \in Clients, Enqueue(c)
      PROVE  Lists'
  <2>1. hand[c] # None /\ hand[c].to \in Insts /\ hand[c].cmd \in Cmd
    BY <1>2 DEF Enqueue
  <2>2. Append(pending[hand[c].to], hand[c].cmd) \in Seq(Cmd)
    BY <2>1, AppendList
  <2>3. pending' \in [Insts -> Seq(Cmd)] /\ hand' \in [Clients -> [to : Insts, cmd : Cmd] \cup {None}]
    BY <1>2, <2>2 DEF Enqueue
  <2> QED
    BY <1>2, <2>3 DEF Enqueue, tickVars
<1>3. ASSUME NEW i \in Insts, Drain(i)
      PROVE  Lists'
  BY <1>3, EmptyList DEF Drain, clientVars
<1>4. ASSUME NEW i \in Insts, NEW c \in Clients, Spawn(i, c)
      PROVE  Lists'
  <2>1. PICK id \in Ids : flush' = [flush EXCEPT ![i] = IF early[c] = <<>> THEN None ELSE Tag(c, id, early[c])]
    BY <1>4 DEF Spawn, Unused
  <2>2. Tag(c, id, early[c]) \in Seq(Cmd)
    BY TagList, RoutingAssumption DEF Ids, FlushInv, Shapes
  <2>3. flush' \in [Insts -> Seq(Cmd) \cup {None}]
    BY <2>1, <2>2
  <2> QED
    BY <1>4, <2>3 DEF Spawn, queueVars
<1>5. ASSUME NEW i \in Insts, Flush(i)
      PROVE  Lists'
  <2>1. flush[i] \in Seq(Cmd)
    BY <1>5 DEF Flush
  <2>2. pending[i] \o flush[i] \in Seq(Cmd)
    BY <2>1, ConcatList
  <2> QED
    BY <1>5, <2>2 DEF Flush, clientVars
<1>6. ASSUME NEW i \in Insts, Step(i)
      PROVE  Lists'
  <2>1. ASSUME NEW c \in Clients, NEW k \in Reaching(i, c)
        PROVE  [n |-> cmds[i][k].n, early |-> cmds[i][k].early] \in [n : Nat, early : BOOLEAN]
    <3>1. k \in DOMAIN cmds[i] /\ cmds[i] \in Seq(Cmd)
      BY DEF Reaching
    <3>2. cmds[i][k] \in Cmd
      BY <3>1
    <3> QED
      BY <3>2 DEF Cmd
  <2>2. heard' \in [Clients -> SUBSET [n : Nat, early : BOOLEAN]]
    BY <1>6, <2>1 DEF Step
  <2> QED
    BY <1>6, <2>2, EmptyList DEF Step, clientVars, queueVars
<1>7. ASSUME NEW i \in Insts, Paused(i) \/ KeepWorld(i) \/ SwapWorld(i) \/ DropPending(i) \/ EndTick(i)
      PROVE  Lists'
  <2>1. /\ cmds' = cmds \/ cmds' = [cmds EXCEPT ![i] = <<>>]
        /\ pending' = pending \/ pending' = [pending EXCEPT ![i] = <<>>]
        /\ UNCHANGED <<inst, moved, joins, spawning, moving, flush, hand, heard>>
    BY <1>7 DEF Paused, KeepWorld, SwapWorld, DropPending, EndTick, clientVars, queueVars
  <2>2. cmds' \in [Insts -> Seq(Cmd)]
    BY <2>1, EmptyList
  <2>3. pending' \in [Insts -> Seq(Cmd)]
    BY <2>1, EmptyList
  <2> QED
    BY <2>1, <2>2, <2>3
<1>8. ASSUME NEW i \in Insts, NEW c \in Clients, CutOver(i, c)
      PROVE  Lists'
  BY <1>8 DEF CutOver, queueVars
<1>9. ASSUME NEW i \in Insts, NEW j \in Insts, NEW c \in Clients, TransferOut(i, j, c)
      PROVE  Lists'
  BY <1>9 DEF TransferOut, queueVars
<1>10. ASSUME NEW i \in Insts, TransferIn(i)
       PROVE  Lists'
  BY <1>10 DEF TransferIn, clientVars
<1>11. CASE UNCHANGED vars
  BY <1>11 DEF vars, clientVars, queueVars, tickVars
<1> QED
  BY <1>1, <1>2, <1>3, <1>4, <1>5, <1>6, <1>7, <1>8, <1>9, <1>10, <1>11 DEF Next

(* Clients move from place to place, one at a time. *)
LEMMA HousedStep ==
  ASSUME FlushInv, Lists, Housed, [Next]_vars
  PROVE  Housed'
<1> USE DEF Lists, Housed
<1>1. CASE UNCHANGED <<inst, joins, spawning, clients, moving, moved, actor>>
  BY <1>1 DEF Places, Movers, Unborn, Here
<1>2. ASSUME NEW i \in Insts, Drain(i)
      PROVE  Housed'
  <2>1. /\ spawning' = [spawning EXCEPT ![i] = joins[i]] /\ joins' = [joins EXCEPT ![i] = {}]
        /\ UNCHANGED <<inst, clients, moving, moved, actor>>
    BY <1>2 DEF Drain, clientVars
  <2>2. \A j \in Insts : Here(j)' \subseteq Here(j)
    BY <2>1 DEF Here
  <2> QED
    BY <2>1, <2>2 DEF Places, Movers, Unborn
<1>3. ASSUME NEW i \in Insts, NEW c \in Clients, Spawn(i, c)
      PROVE  Housed'
  <2>1. /\ c \in spawning[i] /\ spawning' = [spawning EXCEPT ![i] = @ \ {c}]
        /\ clients' = [clients EXCEPT ![i] = @ \cup {c}]
        /\ UNCHANGED <<inst, joins, moving, moved>>
    BY <1>3 DEF Spawn, queueVars
  <2>2. \A j \in Insts : Here(j)' = Here(j)
    BY <2>1 DEF Here, FlushInv, Shapes
  <2>3. \E id : actor' = [actor EXCEPT ![c] = id]
    BY <1>3 DEF Spawn
  <2>4. ASSUME NEW d \in Clients, d \in (joins[inst[d]] \cup spawning[inst[d]])'
        PROVE  d # c /\ d \in joins[inst[d]] \cup spawning[inst[d]]
    <3>1. d \in joins[inst[d]] \cup spawning[inst[d]]
      BY <2>1, <2>4
    <3>2. inst[c] = i /\ c \notin joins[i]
      BY <2>1 DEF Places, Movers, Unborn, Here
    <3>3. c \notin spawning'[i]
      BY <2>1
    <3> QED
      BY <2>1, <2>4, <3>1, <3>2, <3>3
  <2>5. \A d \in Clients : moved'[d] = 0 /\ d \in (joins[inst[d]] \cup spawning[inst[d]])' => actor'[d] = 0
    BY <2>1, <2>3, <2>4 DEF Places, Movers, Unborn, FlushInv, Shapes
  <2>6. \A j \in Insts : /\ joins'[j] \cap spawning'[j] = {} /\ joins'[j] \cap clients'[j] = {}
                         /\ spawning'[j] \cap clients'[j] = {}
    BY <2>1 DEF Places, Movers, Unborn, Here, FlushInv, Shapes
  <2> QED
    BY <2>1, <2>2, <2>5, <2>6 DEF Places, Movers, Unborn
<1>4. ASSUME NEW i \in Insts, NEW c \in Clients, CutOver(i, c)
      PROVE  Housed'
  <2>1. c \in clients[i] /\ UNCHANGED <<inst, joins, spawning, clients, moving, moved>>
    BY <1>4 DEF CutOver, queueVars, FlushInv, Cutting
  <2>2. inst[c] = i /\ c \notin joins[inst[c]] \cup spawning[inst[c]]
    BY <2>1 DEF Places, Movers, Unborn, Here
  <2>3. \E id : actor' = [actor EXCEPT ![c] = id]
    BY <1>4 DEF CutOver
  <2>4. \A d \in Clients : d # c => actor'[d] = actor[d]
    BY <2>3 DEF FlushInv, Shapes
  <2> QED
    BY <2>1, <2>2, <2>4 DEF Places, Movers, Unborn, Here
<1>5. ASSUME NEW i \in Insts, NEW j \in Insts, NEW c \in Clients, TransferOut(i, j, c)
      PROVE  Housed'
  <2>1. /\ moving[i] = None /\ c \in clients[i] /\ clients' = [clients EXCEPT ![i] = @ \ {c}]
        /\ inst' = [inst EXCEPT ![c] = j] /\ moved' = [moved EXCEPT ![c] = @ + 1]
        /\ moving' = [moving EXCEPT ![i] = c]
        /\ UNCHANGED <<joins, spawning, actor>>
    BY <1>5 DEF TransferOut, queueVars
  <2>2. inst[c] = i /\ c \in Here(i) /\ \A k \in Insts : moving[k] # None => moving[k] # c
    BY <2>1 DEF Places, Movers, Here
  <2>3. \A k \in Insts : c \notin Here(k)' /\ Here(k)' \subseteq Here(k)
    BY <2>1, <2>2 DEF Places, Movers, Unborn, Here, FlushInv, Shapes
  <2>4. \A k \in Insts : \A d \in Here(k)' : inst'[d] = k
    BY <2>1, <2>3 DEF Places, Movers, Unborn
  <2>5. \A k \in Insts : moving'[k] # None =>
          /\ moved'[moving'[k]] # 0
          /\ \A l \in Insts : moving'[k] \notin Here(l)' /\ (moving'[l] = moving'[k] => k = l)
    <3> SUFFICES ASSUME NEW k \in Insts, moving'[k] # None, NEW l \in Insts
                 PROVE  /\ moved'[moving'[k]] # 0
                        /\ moving'[k] \notin Here(l)' /\ (moving'[l] = moving'[k] => k = l)
      OBVIOUS
    <3>1. CASE k = i
      BY <2>1, <2>2, <2>3, <3>1
    <3>2. CASE k # i
      <4>1. moving'[k] = moving[k] /\ moving[k] # None
        BY <2>1, <3>2
      <4>2. moved[moving[k]] # 0 /\ moving[k] \in Clients /\ moving[k] # c
        BY <2>2, <4>1 DEF Movers
      <4>3. moved'[moving[k]] = moved[moving[k]]
        BY <2>1, <4>2
      <4>4. moving[k] \notin Here(l) /\ (moving[l] = moving[k] => k = l)
        BY <4>1 DEF Movers
      <4>5. moving'[l] = moving[l] \/ moving'[l] = c
        BY <2>1
      <4> QED
        BY <2>3, <4>1, <4>2, <4>3, <4>4, <4>5
    <3> QED
      BY <3>1, <3>2
  <2>6. \A d \in Clients : moved'[d] = 0 => d # c /\ moved[d] = 0
    BY <2>1
  <2>7. \A k \in Insts : clients'[k] \subseteq clients[k]
    BY <2>1 DEF FlushInv, Shapes
  <2> QED
    BY <2>1, <2>4, <2>5, <2>6, <2>7 DEF Places, Movers, Unborn
<1>6. ASSUME NEW i \in Insts, TransferIn(i)
      PROVE  Housed'
  <2>0. PICK c : c = moving[i]
    OBVIOUS
  <2>1. /\ c # None /\ c \in Clients /\ joins' = [joins EXCEPT ![inst[c]] = @ \cup {c}]
        /\ moving' = [moving EXCEPT ![i] = None]
        /\ UNCHANGED <<inst, spawning, clients, moved, actor>>
    BY <1>6, <2>0 DEF TransferIn, clientVars
  <2>2. \A k \in Insts : c \notin Here(k) /\ (moving[k] = c => k = i)
    BY <2>0, <2>1 DEF Movers
  <2>3. \A k \in Insts : Here(k)' \subseteq Here(k) \cup {c} /\ (c \in Here(k)' => inst[c] = k)
    BY <2>1, <2>2 DEF Here
  <2>4. \A k \in Insts : /\ joins'[k] \cap spawning'[k] = {} /\ joins'[k] \cap clients'[k] = {}
                         /\ spawning'[k] \cap clients'[k] = {}
    BY <2>1, <2>2 DEF Places, Movers, Unborn, Here
  <2>5. \A k \in Insts : moving'[k] # None => k # i /\ moving'[k] = moving[k] /\ moving[k] # c
    BY <2>1, <2>2
  <2>6. moved[c] = 0 => actor[c] = 0
    BY <2>0, <2>1 DEF Places, Movers, Unborn
  <2> QED
    BY <2>1, <2>2, <2>3, <2>4, <2>5, <2>6 DEF Places, Movers, Unborn
<1>7. CASE \/ \E c \in Clients : Read(c) \/ Enqueue(c)
           \/ \E i \in Insts : \/ Flush(i) \/ Step(i) \/ Paused(i) \/ KeepWorld(i)
                               \/ SwapWorld(i) \/ DropPending(i) \/ EndTick(i)
           \/ UNCHANGED vars
  BY <1>1, <1>7 DEF Read, Enqueue, Flush, Step, Paused, KeepWorld, SwapWorld, DropPending, EndTick,
                    vars, clientVars, queueVars, tickVars
<1> QED
  BY <1>2, <1>3, <1>4, <1>5, <1>6, <1>7 DEF Next

LEMMA WornStep ==
  ASSUME FlushInv, Lists, Housed, Worn, [Next]_vars
  PROVE  Worn'
<1> USE DEF FlushInv, Housed
<1>0. \A i \in Insts : wearer[i] \in [Ids -> Clients \cup {Free, Dead, Monster}] /\ clients[i] \subseteq Clients
  BY DEF Shapes
<1>1. ASSUME NEW i \in Insts,
             \A j \in Insts : j # i => wearer'[j] = wearer[j] /\ clients'[j] = clients[j],
             \A id \in Ids : wearer'[i][id] \in Clients =>
               /\ wearer'[i][id] \in clients'[i]
               /\ \A k \in Ids : wearer'[i][k] = wearer'[i][id] => k = id
      PROVE  Worn'
  BY <1>1 DEF Worn
<1>2. ASSUME NEW i \in Insts, NEW c \in Clients, Spawn(i, c)
      PROVE  Worn'
  <2>1. PICK id \in Ids : wearer' = [wearer EXCEPT ![i][id] = c] /\ wearer[i][id] = Free
    <3>1. PICK id \in Unused(i) : wearer' = [wearer EXCEPT ![i][id] = c]
      BY <1>2 DEF Spawn
    <3>2. id \in Ids /\ id >= id
      BY <3>1, RoutingAssumption DEF Unused, Ids
    <3> QED
      BY <3>1, <3>2 DEF Unused
  <2>2. c \in spawning[i] /\ clients' = [clients EXCEPT ![i] = @ \cup {c}]
    BY <1>2 DEF Spawn
  <2>3. c \notin clients[i]
    BY <2>2 DEF Places
  <2>4. \A k \in Ids : wearer[i][k] # c
    BY <2>3 DEF Worn
  <2>5. \A k \in Ids : wearer'[i][k] = IF k = id THEN c ELSE wearer[i][k]
    BY <1>0, <2>1 DEF Shapes
  <2>6. \A j \in Insts : j # i => wearer'[j] = wearer[j] /\ clients'[j] = clients[j]
    BY <2>1, <2>2 DEF Shapes
  <2>7. clients'[i] = clients[i] \cup {c}
    BY <2>2 DEF Shapes
  <2> QED
    BY <1>1, <2>4, <2>5, <2>6, <2>7 DEF Worn
<1>3. ASSUME NEW i \in Insts, SwapWorld(i)
      PROVE  Worn'
  <2>1. clients' = clients
    BY <1>3 DEF SwapWorld
  <2> QED
    BY <1>1, <1>3, <2>1, EveryoneHasAnId
<1>4. ASSUME NEW i \in Insts, NEW j \in Insts, NEW c \in Clients, TransferOut(i, j, c)
      PROVE  Worn'
  <2>0. PICK out : out = IdIn(i, c)
    OBVIOUS
  <2>1. clients' = [clients EXCEPT ![i] = @ \ {c}] /\ wearer' = [wearer EXCEPT ![i][out] = Dead]
    BY <1>4, <2>0 DEF TransferOut
  <2>2. \A k \in Ids : wearer[i][k] = c => k = out
    <3>1. ASSUME NEW k \in Ids, wearer[i][k] = c
          PROVE  \A l \in Ids : wearer[i][l] = c => l = k
      BY <3>1 DEF Worn
    <3> QED
      BY <2>0, <3>1 DEF IdIn
  <2>3. \A k \in Ids : wearer'[i][k] = IF k = out THEN Dead ELSE wearer[i][k]
    BY <1>0, <2>1 DEF Shapes
  <2>4. \A k \in Insts : k # i => wearer'[k] = wearer[k] /\ clients'[k] = clients[k]
    BY <2>1 DEF Shapes
  <2>5. clients'[i] = clients[i] \ {c} /\ Dead \notin Clients
    BY <2>1, RoutingAssumption DEF Shapes
  <2> QED
    BY <1>1, <2>2, <2>3, <2>4, <2>5 DEF Worn
<1>5. CASE UNCHANGED <<wearer, clients>>
  BY <1>5 DEF Worn
<1>6. CASE \/ \E c \in Clients : Read(c) \/ Enqueue(c)
           \/ \E i \in Insts : \/ Drain(i) \/ Flush(i) \/ Step(i) \/ Paused(i) \/ KeepWorld(i)
                               \/ DropPending(i) \/ TransferIn(i) \/ EndTick(i)
                               \/ \E c \in Clients : CutOver(i, c)
           \/ UNCHANGED vars
  BY <1>5, <1>6 DEF Read, Enqueue, Drain, Flush, Step, Paused, KeepWorld, DropPending, TransferIn, EndTick,
                    CutOver, vars, tickVars
<1> QED
  BY <1>2, <1>3, <1>4, <1>6 DEF Next

LEMMA QueuedCommands ==
  ASSUME Lists, NEW i \in Insts
  PROVE  /\ cmds[i] \in Seq(Cmd) /\ pending[i] \in Seq(Cmd) /\ Flushing(i) \in Seq(Cmd)
         /\ \A s \in Seq(Cmd) : Listed(s) \subseteq Cmd
         /\ Queued(i) \subseteq Cmd
<1>1. cmds[i] \in Seq(Cmd) /\ pending[i] \in Seq(Cmd) /\ Flushing(i) \in Seq(Cmd)
  BY EmptyList DEF Lists, Flushing
<1>2. ASSUME NEW s \in Seq(Cmd)
      PROVE  Listed(s) \subseteq Cmd
  BY <1>2 DEF Listed
<1> QED
  BY <1>1, <1>2 DEF Queued

(* What one instance does to its queues, or a client to one of them.       *)
LEMMA LinedOne ==
  ASSUME Lined, NEW i \in Insts,
         \A j \in Insts : j # i => /\ cmds'[j] = cmds[j] /\ pending'[j] = pending[j]
                                  /\ flush'[j] = flush[j],
         LineAt(i)',
         \A a \in Queued(i)' : a \in Queued(i) \/
           \A j \in Insts : j # i => \A b \in Queued(j) : a.by = b.by => a.n # b.n
  PROVE  Lined'
<1>1. \A j \in Insts : j # i => Queued(j)' = Queued(j) /\ (LineAt(j) => LineAt(j)')
  BY DEF Queued, Flushing, LineAt
<1>2. \A j \in Insts : LineAt(j)'
  BY <1>1 DEF Lined
<1>3. ASSUME NEW j \in Insts, j # i, NEW a \in Queued(i)', NEW b \in Queued(j), a.by = b.by
      PROVE  a.n # b.n
  BY <1>3 DEF Lined
<1>4. ASSUME NEW j \in Insts, NEW k \in Insts, j # k, NEW a \in Queued(j)', NEW b \in Queued(k)', a.by = b.by
      PROVE  a.n # b.n
  <2>1. CASE j # i /\ k # i
    BY <1>1, <1>4, <2>1 DEF Lined
  <2>2. CASE j = i
    <3>1. a \in Queued(i)' /\ b \in Queued(k) /\ k # i
      BY <1>1, <1>4, <2>2
    <3> QED
      BY <1>3, <1>4, <3>1
  <2>3. CASE k = i
    <3>1. b \in Queued(i)' /\ a \in Queued(j) /\ j # i
      BY <1>1, <1>4, <2>3
    <3> QED
      BY <1>3, <1>4, <3>1
  <2> QED
    BY <2>1, <2>2, <2>3
<1> QED
  BY <1>2, <1>4 DEF Lined

(* What spawnClient takes of a client's early commands.                    *)
LEMMA SpawnTakes ==
  ASSUME FlushInv, Lists, Numbered, NEW i \in Insts, NEW c \in Clients, Spawn(i, c)
  PROVE  \/ Flushing(i)' = <<>>
         \/ /\ actor[c] = 0 /\ hand[c] = None /\ heard[c] = {}
            /\ \A j \in Insts : \A m \in Queued(j) : m.by # c
            /\ Flushing(i)' \in Seq(Cmd) /\ InLine(Flushing(i)')
            /\ \A m \in Listed(Flushing(i)') : m.by = c /\ m.early /\ m.n <= sent[c]
<1>1. PICK id \in Ids : flush' = [flush EXCEPT ![i] = IF early[c] = <<>> THEN None ELSE Tag(c, id, early[c])]
  BY DEF Spawn, Unused
<1>2. flush'[i] = IF early[c] = <<>> THEN None ELSE Tag(c, id, early[c])
  BY <1>1 DEF Lists
<1>3. CASE early[c] = <<>> \/ flush'[i] = None
  BY <1>2, <1>3 DEF Flushing
<1>4. CASE early[c] # <<>> /\ flush'[i] # None
  <2>0. PICK ns, t : ns = early[c] /\ t = Tag(c, id, ns)
    OBVIOUS
  <2>1. Flushing(i)' = t
    BY <1>2, <1>4, <2>0 DEF Flushing
  <2>2. ns \in Seq(Nat)
    BY <2>0 DEF FlushInv, Shapes
  <2>3. /\ t \in Seq(Cmd) /\ DOMAIN t = DOMAIN ns
        /\ \A k \in DOMAIN t : t[k].by = c /\ t[k].n = ns[k] /\ t[k].early
    <3>1. /\ t \in Seq(Cmd) /\ DOMAIN t = DOMAIN ns
          /\ \A k \in DOMAIN ns : t[k] = [by |-> c, id |-> id, n |-> ns[k], early |-> TRUE]
      BY <2>0, <2>2, TagList
    <3> QED
      BY <3>1
  <2>4. \A k \in DOMAIN ns : ns[k] \in Nat /\ ns[k] <= sent[c] /\ \A l \in DOMAIN ns : k < l => ns[k] < ns[l]
    BY <2>0, <2>2 DEF Numbered, Held
  <2>5. InLine(t)
    <3>1. ASSUME NEW k \in DOMAIN t, NEW l \in DOMAIN t, k < l
          PROVE  Ahead(t[k], t[l])
      <4>1. ns[k] \in Nat /\ ns[l] \in Nat /\ ns[k] < ns[l]
        BY <2>3, <2>4, <3>1
      <4> QED
        BY <2>3, <3>1, <4>1 DEF Ahead
    <3> QED
      BY <3>1 DEF InLine
  <2>6. \A m \in Listed(t) : m.by = c /\ m.early /\ m.n <= sent[c]
    BY <2>3, <2>4 DEF Listed
  <2>7. actor[c] = 0
    BY <1>4 DEF FlushInv, EarlyIsFlushed
  <2>8. hand[c] = None /\ heard[c] = {}
    <3>1. hand[c] = None
      BY <2>7 DEF Numbered, InHand
    <3>2. ASSUME NEW h \in heard[c]
          PROVE  FALSE
      BY <2>7, <3>2 DEF Numbered, Told
    <3> QED
      BY <3>1, <3>2
  <2>9. \A j \in Insts : \A m \in Queued(j) : m.by # c
    BY <2>7 DEF Numbered, Waiting
  <2> QED
    BY <2>1, <2>3, <2>5, <2>6, <2>7, <2>8, <2>9
<1> QED
  BY <1>3, <1>4

LEMMA LinedStep ==
  ASSUME FlushInv, Lists, Housed, Worn, Lined, Numbered, [Next]_vars
  PROVE  Lined'
<1>1. ASSUME NEW c \in Clients, Enqueue(c)
      PROVE  Lined'
  <2>0. PICK i, e : i = hand[c].to /\ e = hand[c].cmd
    OBVIOUS
  <2>1. /\ hand[c] # None /\ i \in Insts /\ e \in Cmd
        /\ pending' = [pending EXCEPT ![i] = Append(@, e)] /\ UNCHANGED <<cmds, flush>>
    BY <1>1, <2>0 DEF Enqueue, Lists, tickVars
  <2>2. e.by = c /\ e.n = sent[c] /\ ~e.early
    BY <2>0, <2>1 DEF Numbered, InHand
  <2>3. ASSUME NEW j \in Insts, NEW m \in Queued(j), m.by = c
        PROVE  m.n # e.n /\ m.n < e.n /\ m.n \in Nat /\ e.n \in Nat
    <3>1. m.n < sent[c]
      BY <2>1, <2>3 DEF Numbered, Waiting
    <3>2. m.n \in Nat /\ e.n \in Nat
      BY <2>1, <2>3, QueuedCommands DEF Cmd
    <3> QED
      BY <2>2, <3>1, <3>2
  <2>4. \A m \in Queued(i) : Ahead(m, e)
    BY <2>1, <2>2, <2>3 DEF Ahead
  <2>5. \A m \in Listed(Flushing(i)) : Ahead(e, m)
    BY <2>1, <2>2, <2>3 DEF Ahead, Lined, LineAt, Queued
  <2>6. LineAt(i)
    BY <2>1 DEF Lined
  <2>7. /\ cmds'[i] = cmds[i] /\ Flushing(i)' = Flushing(i) /\ pending'[i] = Append(pending[i], e)
        /\ \A j \in Insts : j # i => pending'[j] = pending[j]
    BY <2>1 DEF Lists, Flushing
  <2>8. pending[i] \in Seq(Cmd)
    BY <2>1, QueuedCommands
  <2>9. Queued(i)' \subseteq Queued(i) \cup {e}
    BY <2>1, <2>7, <2>8, AppendList DEF Queued
  <2>10. LineAt(i)'
    <3>1. InLine(pending'[i])
      BY <2>1, <2>4, <2>6, <2>7, <2>8, LineAppend DEF LineAt, Queued
    <3>2. Across(cmds'[i], pending'[i])
      BY <2>1, <2>4, <2>6, <2>7, <2>8, LineAppend DEF LineAt, Queued
    <3>3. Across(pending'[i], Flushing(i)')
      BY <2>1, <2>5, <2>6, <2>7, <2>8, LineAppend DEF LineAt
    <3> QED
      BY <2>6, <2>7, <3>1, <3>2, <3>3 DEF LineAt
  <2>11. \A a \in Queued(i)' : a \in Queued(i) \/
           \A j \in Insts : j # i => \A b \in Queued(j) : a.by = b.by => a.n # b.n
    BY <2>2, <2>3, <2>9
  <2> QED
    BY <2>1, <2>7, <2>10, <2>11, LinedOne
<1>2. ASSUME NEW i \in Insts, NEW c \in Clients, Spawn(i, c)
      PROVE  Lined'
  <2>1. /\ UNCHANGED <<cmds, pending>>
        /\ \A j \in Insts : j # i => flush'[j] = flush[j]
    BY <1>2 DEF Spawn, queueVars, Lists
  <2>2. LineAt(i)
    BY DEF Lined
  <2>3. CASE Flushing(i)' = <<>>
    <3>1. LineAt(i)'
      BY <2>1, <2>2, <2>3, EmptyList DEF LineAt
    <3>2. Queued(i)' \subseteq Queued(i)
      BY <2>1, <2>3, EmptyList DEF Queued
    <3> QED
      BY <2>1, <3>1, <3>2, LinedOne
  <2>4. ASSUME \A j \in Insts : \A m \in Queued(j) : m.by # c,
               InLine(Flushing(i)'), \A m \in Listed(Flushing(i)') : m.by = c /\ m.early
        PROVE  Lined'
    <3>1. \A s : Listed(s) \subseteq Queued(i) => Across(s, Flushing(i)')
      BY <2>4 DEF Across, Ahead, Listed
    <3>2. LineAt(i)'
      BY <2>1, <2>2, <2>4, <3>1 DEF LineAt, Queued
    <3>3. Queued(i)' \subseteq Queued(i) \cup Listed(Flushing(i)')
      BY <2>1 DEF Queued
    <3> QED
      BY <2>1, <2>4, <3>2, <3>3, LinedOne
  <2> QED
    BY <1>2, <2>3, <2>4, SpawnTakes
<1>3. ASSUME NEW i \in Insts, Flush(i)
      PROVE  Lined'
  <2>1. /\ UNCHANGED cmds /\ flush[i] # None
        /\ pending' = [pending EXCEPT ![i] = @ \o flush[i]] /\ flush' = [flush EXCEPT ![i] = None]
    BY <1>3 DEF Flush
  <2>2. /\ Flushing(i) = flush[i] /\ Flushing(i)' = <<>> /\ pending'[i] = pending[i] \o Flushing(i)
        /\ \A j \in Insts : j # i => pending'[j] = pending[j] /\ flush'[j] = flush[j]
    BY <2>1 DEF Flushing, Lists
  <2>3. LineAt(i) /\ pending[i] \in Seq(Cmd) /\ Flushing(i) \in Seq(Cmd)
    BY QueuedCommands DEF Lined
  <2>4. LineAt(i)'
    BY <2>1, <2>2, <2>3, LineConcat, EmptyList DEF LineAt
  <2>5. Queued(i)' \subseteq Queued(i)
    BY <2>1, <2>2, <2>3, ConcatList, EmptyList DEF Queued
  <2> QED
    BY <2>1, <2>2, <2>4, <2>5, LinedOne
<1>4. ASSUME NEW i \in Insts, Drain(i)
      PROVE  Lined'
  <2>1. /\ UNCHANGED flush /\ cmds'[i] = pending[i] /\ pending'[i] = <<>>
        /\ \A j \in Insts : j # i => pending'[j] = pending[j] /\ cmds'[j] = cmds[j]
    BY <1>4 DEF Drain, Lists
  <2>2. LineAt(i) /\ Flushing(i)' = Flushing(i)
    BY <2>1 DEF Lined, Flushing
  <2>3. LineAt(i)'
    BY <2>1, <2>2, EmptyList DEF LineAt
  <2>4. Queued(i)' \subseteq Queued(i)
    BY <2>1, <2>2, EmptyList DEF Queued
  <2> QED
    BY <2>1, <2>3, <2>4, LinedOne
<1>5. ASSUME NEW i \in Insts, Step(i) \/ Paused(i) \/ DropPending(i)
      PROVE  Lined'
  <2>1. /\ UNCHANGED flush
        /\ cmds'[i] = cmds[i] \/ cmds'[i] = <<>>
        /\ pending'[i] = pending[i] \/ pending'[i] = <<>>
        /\ \A j \in Insts : j # i => pending'[j] = pending[j] /\ cmds'[j] = cmds[j]
    BY <1>5 DEF Step, Paused, DropPending, Lists, queueVars
  <2>2. LineAt(i) /\ Flushing(i)' = Flushing(i)
    BY <2>1 DEF Lined, Flushing
  <2>3. LineAt(i)'
    BY <2>1, <2>2, EmptyList DEF LineAt
  <2>4. Queued(i)' \subseteq Queued(i)
    BY <2>1, <2>2, EmptyList DEF Queued
  <2> QED
    BY <2>1, <2>3, <2>4, LinedOne
<1>6. CASE UNCHANGED <<cmds, pending, flush>>
  BY <1>6 DEF Lined, LineAt, Queued, Flushing
<1>7. CASE \/ \E c \in Clients : Read(c)
           \/ \E i \in Insts : \/ KeepWorld(i) \/ SwapWorld(i) \/ TransferIn(i) \/ EndTick(i)
                               \/ \E c \in Clients : CutOver(i, c)
                               \/ \E c \in Clients, j \in Insts : TransferOut(i, j, c)
           \/ UNCHANGED vars
  BY <1>6, <1>7 DEF Read, KeepWorld, SwapWorld, TransferIn, EndTick, CutOver, TransferOut,
                    vars, queueVars, tickVars
<1> QED
  BY <1>1, <1>2, <1>3, <1>4, <1>5, <1>7 DEF Next

(* Who is heard by an instance is in its client list. *)
LEMMA ReachedIsThere ==
  ASSUME Lists, Housed, Worn, NEW i \in Insts, NEW c \in Clients, NEW k \in Reaching(i, c)
  PROVE  /\ cmds[i][k] \in Cmd /\ cmds[i][k] \in Listed(cmds[i]) /\ cmds[i][k].by = c
         /\ c \in clients[i] /\ inst[c] = i
<1>1. k \in DOMAIN cmds[i] /\ cmds[i] \in Seq(Cmd) /\ cmds[i][k].by = c /\ wearer[i][cmds[i][k].id] = c
  BY DEF Reaching, Lists
<1>2. cmds[i][k] \in Cmd
  BY <1>1
<1>3. c \in clients[i]
  BY <1>1, <1>2 DEF Worn, Cmd
<1> QED
  BY <1>1, <1>2, <1>3 DEF Housed, Places, Here, Listed

(* What has been heard was ahead of all that still waits. *)
LEMMA NumberedHearing ==
  ASSUME FlushInv, Lists, Housed, Worn, Lined, Numbered, NEW i \in Insts, Step(i)
  PROVE  Numbered'
<1>1. /\ cmds'[i] = <<>> /\ \A j \in Insts : j # i => cmds'[j] = cmds[j]
      /\ UNCHANGED <<inst, actor, early, hand, sent, pending, flush, moved>>
  BY DEF Step, clientVars, queueVars, Lists
<1>2. ASSUME NEW c \in Clients, NEW h \in heard'[c], h \notin heard[c]
      PROVE  \E k \in Reaching(i, c) : h.n = cmds[i][k].n /\ h.early = cmds[i][k].early
  <2>1. heard'[c] = heard[c] \cup {[n |-> cmds[i][k].n, early |-> cmds[i][k].early] : k \in Reaching(i, c)}
    BY DEF Step
  <2> QED
    BY <1>2, <2>1
<1>3. \A j \in Insts : Flushing(j)' = Flushing(j)
  BY <1>1 DEF Flushing
<1>4. Queued(i)' = Listed(pending[i]) \cup Listed(Flushing(i)) /\ \A j \in Insts : Queued(j)' \subseteq Queued(j)
  BY <1>1, <1>3, EmptyList DEF Queued
<1>5. \A a \in Listed(cmds[i]), b \in Queued(i)' : Ahead(a, b)
  BY <1>4 DEF Lined, LineAt, Across, Listed
<1>6. ASSUME NEW j \in Insts, NEW m \in Queued(j)'
      PROVE  Waiting(j, m)'
  <2>1. Waiting(j, m) /\ m \in Queued(j) /\ m \in Cmd
    BY <1>4, <1>6, QueuedCommands DEF Numbered
  <2>2. m.by \in Clients /\ m.n \in Nat
    BY <2>1 DEF Cmd
  <2>3. ASSUME NEW h \in heard'[m.by]
        PROVE  h.n # m.n /\ (moved[m.by] <= 1 /\ inst[m.by] = j /\ h.n > m.n => h.early \/ m.early)
    <3>1. CASE h \in heard[m.by]
      BY <2>1, <3>1 DEF Waiting
    <3>2. CASE h \notin heard[m.by]
      <4>1. PICK k \in Reaching(i, m.by) : h.n = cmds[i][k].n /\ h.early = cmds[i][k].early
        BY <1>2, <2>2, <2>3, <3>2
      <4>2. /\ cmds[i][k] \in Listed(cmds[i]) /\ cmds[i][k].by = m.by /\ inst[m.by] = i
        BY <2>2, <4>1, ReachedIsThere
      <4>3. CASE j = i
        <5>1. Ahead(cmds[i][k], m)
          BY <1>5, <1>6, <4>2, <4>3
        <5> QED
          BY <4>1, <4>2, <5>1 DEF Ahead
      <4>4. CASE j # i
        <5>1. cmds[i][k] \in Queued(i)
          BY <4>2 DEF Queued
        <5>2. cmds[i][k].n # m.n
          BY <2>1, <4>2, <4>4, <5>1 DEF Lined
        <5> QED
          BY <4>1, <4>2, <4>4, <5>2
      <4> QED
        BY <4>3, <4>4
    <3> QED
      BY <3>1, <3>2
  <2> QED
    BY <1>1, <2>1, <2>3 DEF Waiting
<1>7. Told'
  <2> SUFFICES ASSUME NEW c \in Clients, NEW h \in heard'[c]
               PROVE  actor[c] # 0 /\ h.n <= sent[c] /\ (hand[c] # None => h.n < sent[c])
    BY <1>1 DEF Told
  <2>1. CASE h \in heard[c]
    BY <2>1 DEF Numbered, Told
  <2>2. CASE h \notin heard[c]
    <3>1. PICK k \in Reaching(i, c) : h.n = cmds[i][k].n
      BY <1>2, <2>2
    <3>2. cmds[i][k] \in Queued(i) /\ cmds[i][k].by = c
      BY <3>1, ReachedIsThere DEF Queued
    <3>3. Waiting(i, cmds[i][k])
      BY <3>2 DEF Numbered
    <3> QED
      BY <3>1, <3>2, <3>3 DEF Waiting
  <2> QED
    BY <2>1, <2>2
<1>8. InHand' /\ Held'
  BY <1>1 DEF Numbered, InHand, Held
<1> QED
  BY <1>6, <1>7, <1>8 DEF Numbered

LEMMA NumberedStep ==
  ASSUME FlushInv, FlushInv', Lists, Housed, Worn, Lined, Numbered, [Next]_vars
  PROVE  Numbered'
<1>0. \A c \in Clients : sent[c] \in Nat
  BY DEF FlushInv, Shapes
<1>1. ASSUME \A i \in Insts : Queued(i)' \subseteq Queued(i),
             UNCHANGED <<inst, early, hand, sent, heard, moved>>, \A c \in Clients : actor[c] # 0 => actor'[c] # 0
      PROVE  Numbered'
  <2>1. ASSUME NEW i \in Insts, NEW m \in Queued(i)'
        PROVE  Waiting(i, m)'
    <3>1. Waiting(i, m) /\ m \in Cmd
      BY <1>1, <2>1, QueuedCommands DEF Numbered
    <3> QED
      BY <1>1, <3>1 DEF Waiting, Cmd
  <2>2. InHand' /\ Told' /\ Held'
    BY <1>1 DEF Numbered, InHand, Told, Held
  <2> QED
    BY <2>1, <2>2 DEF Numbered
<1>2. ASSUME NEW c \in Clients, Read(c)
      PROVE  Numbered'
  <2>1. /\ hand[c] = None /\ sent' = [sent EXCEPT ![c] = @ + 1]
        /\ UNCHANGED <<inst, actor, pending, cmds, flush, heard, moved>>
    BY <1>2 DEF Read, queueVars, tickVars
  <2>2. sent'[c] = sent[c] + 1 /\ \A d \in Clients : d # c => sent'[d] = sent[d]
    BY <2>1 DEF FlushInv, Shapes
  <2>3. /\ \A d \in Clients : d # c => hand'[d] = hand[d] /\ early'[d] = early[d]
        /\ hand'[c] # None =>
              /\ actor[c] # 0 /\ hand'[c].to = inst[c] /\ hand'[c].cmd.by = c
              /\ hand'[c].cmd.n = sent'[c] /\ ~hand'[c].cmd.early
        /\ early'[c] = early[c] \/ early'[c] = Append(early[c], sent'[c])
    <3>1. CASE actor[c] # 0
      <4>1. PICK e : /\ hand' = [hand EXCEPT ![c] = e] /\ early' = early /\ e.to = inst[c] /\ e.cmd.by = c
                     /\ e.cmd.n = sent'[c] /\ ~e.cmd.early
        <5> DEFINE new == [to |-> inst[c], cmd |-> [by |-> c, id |-> actor[c], n |-> sent'[c], early |-> FALSE]]
        <5>1. hand' = [hand EXCEPT ![c] = new] /\ early' = early
          BY <1>2, <3>1 DEF Read
        <5>2. new.to = inst[c] /\ new.cmd.by = c /\ new.cmd.n = sent'[c] /\ ~new.cmd.early
          OBVIOUS
        <5> HIDE DEF new
        <5> QED
          BY <5>1, <5>2
      <4> QED
        BY <3>1, <4>1 DEF Lists
    <3>2. CASE actor[c] = 0
      BY <1>2, <2>1, <3>2 DEF Read, FlushInv, Shapes
    <3> QED
      BY <3>1, <3>2
  <2>4. ASSUME NEW i \in Insts, NEW m \in Queued(i)'
        PROVE  Waiting(i, m)'
    <3>1. m \in Queued(i)
      BY <2>1, <2>4 DEF Queued, Flushing
    <3>2. Waiting(i, m) /\ m \in Cmd
      BY <3>1, QueuedCommands DEF Numbered
    <3>3. m.n \in Nat /\ m.by \in Clients
      BY <3>2 DEF Cmd
    <3>4. m.n <= sent'[m.by] /\ (hand'[m.by] # None => m.n < sent'[m.by])
      <4>1. CASE m.by = c
        <5>1. m.n <= sent[c]
          BY <3>2, <4>1 DEF Waiting
        <5> QED
          BY <1>0, <2>2, <3>3, <4>1, <5>1
      <4>2. CASE m.by # c
        BY <2>2, <2>3, <3>2, <3>3, <4>2 DEF Waiting
      <4> QED
        BY <4>1, <4>2
    <3> QED
      BY <2>1, <3>2, <3>4 DEF Waiting
  <2>5. InHand'
    BY <2>1, <2>2, <2>3 DEF Numbered, InHand
  <2>6. Told'
    <3> SUFFICES ASSUME NEW d \in Clients, NEW h \in heard[d]
                 PROVE  actor[d] # 0 /\ h.n <= sent'[d] /\ (hand'[d] # None => h.n < sent'[d])
      BY <2>1 DEF Told
    <3>1. actor[d] # 0 /\ h.n <= sent[d] /\ (hand[d] # None => h.n < sent[d])
      BY DEF Numbered, Told
    <3>2. h.n \in Nat
      BY DEF Lists
    <3> QED
      BY <1>0, <2>2, <2>3, <3>1, <3>2
  <2>7. Held'
    <3> SUFFICES ASSUME NEW d \in Clients, NEW k \in DOMAIN early'[d]
                 PROVE  /\ early'[d][k] <= sent'[d]
                        /\ \A l \in DOMAIN early'[d] : k < l => early'[d][k] < early'[d][l]
      BY DEF Held
    <3>0. early[d] \in Seq(Nat)
      BY DEF FlushInv, Shapes
    <3>1. \A x \in DOMAIN early[d] : /\ early[d][x] \in Nat /\ early[d][x] <= sent[d]
                                     /\ \A y \in DOMAIN early[d] : x < y => early[d][x] < early[d][y]
      BY <3>0 DEF Numbered, Held
    <3>2. sent[d] <= sent'[d] /\ sent'[d] \in Nat
      BY <1>0, <2>2
    <3>3. CASE early'[d] = early[d]
      BY <1>0, <3>1, <3>2, <3>3
    <3>4. CASE d = c /\ early'[c] = Append(early[c], sent'[c])
      <4> DEFINE n == Len(early[c])
      <4>1. /\ n \in Nat /\ DOMAIN early[c] = 1..n /\ DOMAIN early'[c] = 1..(n + 1)
            /\ early'[c][n + 1] = sent'[c] /\ \A x \in 1..n : early'[c][x] = early[c][x]
        BY <3>0, <3>2, <3>4
      <4> HIDE DEF n
      <4>2. CASE k = n + 1
        BY <3>2, <3>4, <4>1, <4>2
      <4>3. CASE k # n + 1
        <5>1. k \in 1..n /\ early'[c][k] = early[c][k] /\ early[c][k] \in Nat /\ early[c][k] < sent'[c]
          BY <1>0, <2>2, <3>1, <3>4, <4>1, <4>3
        <5>2. ASSUME NEW l \in DOMAIN early'[c], k < l
              PROVE  early'[c][k] < early'[c][l]
          <6>1. l = n + 1 \/ l \in 1..n
            BY <4>1
          <6> QED
            BY <3>1, <3>4, <4>1, <5>1, <5>2, <6>1
        <5>3. early'[c][k] <= sent'[c]
          BY <3>2, <3>4, <5>1
        <5> QED
          BY <3>4, <5>2, <5>3
      <4> QED
        BY <4>2, <4>3
    <3> QED
      BY <2>3, <3>3, <3>4
  <2> QED
    BY <2>4, <2>5, <2>6, <2>7 DEF Numbered
<1>3. ASSUME NEW c \in Clients, Enqueue(c)
      PROVE  Numbered'
  <2>0. PICK i, e : i = hand[c].to /\ e = hand[c].cmd
    OBVIOUS
  <2>1. /\ hand[c] # None /\ i \in Insts /\ e \in Cmd
        /\ pending' = [pending EXCEPT ![i] = Append(@, e)] /\ hand' = [hand EXCEPT ![c] = None]
        /\ UNCHANGED <<cmds, flush, inst, actor, early, sent, heard, moved>>
    BY <1>3, <2>0 DEF Enqueue, Lists, tickVars
  <2>2. /\ e.by = c /\ e.n = sent[c] /\ ~e.early /\ actor[c] # 0
        /\ moved[c] = 0 => i = inst[c]
    BY <2>0, <2>1 DEF Numbered, InHand
  <2>3. \A d \in Clients : hand'[d] # None => hand'[d] = hand[d] /\ d # c
    BY <2>1 DEF Lists
  <2>4. hand'[c] = None
    BY <2>1 DEF Lists
  <2>5. \A j \in Insts : \A m \in Queued(j)' : m \in Queued(j) \/ (j = i /\ m = e)
    <3>1. pending[i] \in Seq(Cmd)
      BY <2>1, QueuedCommands
    <3>2. Listed(pending'[i]) = Listed(pending[i]) \cup {e} /\ \A j \in Insts : j # i => pending'[j] = pending[j]
      BY <2>1, <3>1, AppendList DEF Lists
    <3>3. \A j \in Insts : cmds'[j] = cmds[j] /\ Flushing(j)' = Flushing(j)
      BY <2>1 DEF Flushing
    <3> QED
      BY <3>2, <3>3 DEF Queued
  <2>6. ASSUME NEW j \in Insts, NEW m \in Queued(j)'
        PROVE  Waiting(j, m)'
    <3>1. CASE m \in Queued(j)
      <4>1. Waiting(j, m) /\ m \in Cmd
        BY <3>1, QueuedCommands DEF Numbered
      <4> QED
        BY <2>1, <2>3, <4>1 DEF Waiting, Cmd
    <3>2. CASE j = i /\ m = e
      <4>1. \A h \in heard[c] : h.n < e.n /\ h.n \in Nat /\ e.n \in Nat
        BY <1>0, <2>1, <2>2 DEF Numbered, Told, Lists
      <4>2. e.n <= sent[c]
        BY <1>0, <2>2
      <4>3. \A h \in heard[c] : h.n # e.n /\ ~(h.n > e.n)
        BY <4>1
      <4> QED
        BY <2>1, <2>2, <2>4, <3>2, <4>2, <4>3 DEF Waiting
    <3> QED
      BY <2>5, <2>6, <3>1, <3>2
  <2>7. InHand' /\ Told' /\ Held'
    BY <2>1, <2>3 DEF Numbered, InHand, Told, Held
  <2> QED
    BY <2>6, <2>7 DEF Numbered
<1>4. ASSUME NEW i \in Insts, NEW c \in Clients, Spawn(i, c)
      PROVE  Numbered'
  <2>1. /\ early' = [early EXCEPT ![c] = <<>>] /\ UNCHANGED <<cmds, pending, inst, hand, sent, heard, moved>>
        /\ c \in spawning[i]
        /\ \A j \in Insts : j # i => flush'[j] = flush[j]
    BY <1>4 DEF Spawn, queueVars, Lists
  <2>2. inst[c] = i
    BY <2>1 DEF Housed, Places, Here
  <2>3. c \in clients'[i]
    BY <1>4 DEF Spawn, FlushInv, Shapes
  <2>4. \A d \in Clients : (actor[d] # 0 => actor'[d] # 0) /\ actor'[c] # 0
    <3>1. actor'[c] # 0
      BY <2>3 DEF FlushInv, Known
    <3>2. PICK id : actor' = [actor EXCEPT ![c] = id]
      BY <1>4 DEF Spawn
    <3> QED
      BY <3>1, <3>2 DEF FlushInv, Shapes
  <2>5. \A j \in Insts : Queued(j)' \subseteq Queued(j) \cup (IF j = i THEN Listed(Flushing(i)') ELSE {})
    BY <2>1 DEF Queued, Flushing
  <2>6. ASSUME NEW j \in Insts, NEW m \in Queued(j)'
        PROVE  Waiting(j, m)'
    <3>1. CASE m \in Queued(j)
      <4>1. Waiting(j, m) /\ m \in Cmd
        BY <3>1, QueuedCommands DEF Numbered
      <4> QED
        BY <2>1, <2>4, <4>1 DEF Waiting, Cmd
    <3>2. CASE m \notin Queued(j)
      <4>1. j = i /\ m \in Listed(Flushing(i)')
        BY <2>5, <2>6, <3>2
      <4>2. Flushing(i)' # <<>>
        BY <4>1, EmptyList
      <4>3. hand[c] = None /\ heard[c] = {} /\ m.by = c /\ m.n <= sent[c]
        BY <1>4, <4>1, <4>2, SpawnTakes
      <4> QED
        BY <2>1, <2>2, <2>4, <4>1, <4>3 DEF Waiting
    <3> QED
      BY <3>1, <3>2
  <2>7. InHand' /\ Told'
    BY <2>1, <2>4 DEF Numbered, InHand, Told
  <2>8. Held'
    <3>1. \A d \in Clients : early'[d] = early[d] \/ DOMAIN early'[d] = {}
      BY <2>1 DEF FlushInv, Shapes
    <3> QED
      BY <2>1, <3>1 DEF Numbered, Held
  <2> QED
    BY <2>6, <2>7, <2>8 DEF Numbered
<1>5. ASSUME NEW i \in Insts, Flush(i)
      PROVE  Numbered'
  <2>1. /\ UNCHANGED <<cmds, inst, actor, early, hand, sent, heard, moved>> /\ flush[i] # None
        /\ pending' = [pending EXCEPT ![i] = @ \o flush[i]] /\ flush' = [flush EXCEPT ![i] = None]
    BY <1>5 DEF Flush, clientVars
  <2>2. /\ Flushing(i) = flush[i] /\ Flushing(i)' = <<>> /\ pending'[i] = pending[i] \o Flushing(i)
        /\ \A j \in Insts : j # i => pending'[j] = pending[j] /\ flush'[j] = flush[j]
    BY <2>1 DEF Flushing, Lists
  <2>3. pending[i] \in Seq(Cmd) /\ Flushing(i) \in Seq(Cmd)
    BY QueuedCommands
  <2>4. Listed(pending'[i]) = Listed(pending[i]) \cup Listed(Flushing(i))
    BY <2>2, <2>3, ConcatList
  <2>5. \A j \in Insts : Queued(j)' \subseteq Queued(j)
    BY <2>1, <2>2, <2>4, EmptyList DEF Queued, Flushing
  <2> QED
    BY <1>1, <2>1, <2>5
<1>6. ASSUME NEW i \in Insts, Drain(i) \/ Paused(i) \/ DropPending(i)
      PROVE  Numbered'
  <2>1. /\ UNCHANGED <<flush, inst, actor, early, hand, sent, heard, moved>>
        /\ cmds'[i] = pending[i] \/ cmds'[i] = cmds[i] \/ cmds'[i] = <<>>
        /\ pending'[i] = pending[i] \/ pending'[i] = <<>>
        /\ \A j \in Insts : j # i => pending'[j] = pending[j] /\ cmds'[j] = cmds[j]
    BY <1>6 DEF Drain, Paused, DropPending, Lists, clientVars, queueVars
  <2>2. \A j \in Insts : Queued(j)' \subseteq Queued(j)
    BY <2>1, EmptyList DEF Queued, Flushing
  <2> QED
    BY <1>1, <2>1, <2>2
<1>7. ASSUME NEW i \in Insts, NEW c \in Clients, CutOver(i, c)
      PROVE  Numbered'
  <2>1. /\ UNCHANGED <<flush, cmds, pending, inst, early, hand, sent, heard, moved, clients>>
        /\ \E id : actor' = [actor EXCEPT ![c] = id]
        /\ c \in uncut[i]
    BY <1>7 DEF CutOver, queueVars
  <2>2. actor'[c] # 0
    <3>1. c \in clients'[i]
      BY <2>1 DEF FlushInv, Cutting
    <3> QED
      BY <3>1 DEF FlushInv, Known
  <2>3. \A d \in Clients : actor[d] # 0 => actor'[d] # 0
    BY <2>1, <2>2 DEF FlushInv, Shapes
  <2>4. \A j \in Insts : Queued(j)' \subseteq Queued(j)
    BY <2>1 DEF Queued, Flushing
  <2> QED
    BY <1>1, <2>1, <2>3, <2>4
<1>8. ASSUME NEW i \in Insts, NEW j \in Insts, NEW c \in Clients, TransferOut(i, j, c)
      PROVE  Numbered'
  <2>1. /\ c \in clients[i] /\ j # i
        /\ inst' = [inst EXCEPT ![c] = j] /\ moved' = [moved EXCEPT ![c] = @ + 1]
        /\ UNCHANGED <<flush, cmds, pending, actor, early, hand, sent, heard>>
    BY <1>8 DEF TransferOut, queueVars
  <2>2. inst[c] = i
    BY <2>1 DEF Housed, Places, Here
  <2>3. /\ \A d \in Clients : d # c => inst'[d] = inst[d] /\ moved'[d] = moved[d]
        /\ inst'[c] = j /\ moved'[c] = moved[c] + 1 /\ moved[c] \in Nat
    BY <2>1 DEF Lists
  <2>4. ASSUME NEW k \in Insts, NEW m \in Queued(k)'
        PROVE  Waiting(k, m)'
    <3>1. m \in Queued(k)
      BY <2>1, <2>4 DEF Queued, Flushing
    <3>2. Waiting(k, m) /\ m.by \in Clients
      BY <3>1, QueuedCommands DEF Numbered, Cmd
    <3>3. CASE m.by # c
      BY <2>1, <2>3, <3>2, <3>3 DEF Waiting
    <3>4. CASE m.by = c
      <4>1. moved'[c] # 0 /\ (moved'[c] <= 1 => moved[c] = 0)
        BY <2>3
      <4>2. moved'[c] <= 1 => k # inst'[c]
        BY <2>1, <2>2, <2>3, <3>2, <3>4, <4>1 DEF Waiting
      <4> QED
        BY <2>1, <3>2, <3>4, <4>1, <4>2 DEF Waiting
    <3> QED
      BY <3>3, <3>4
  <2>5. InHand' /\ Told' /\ Held'
    BY <2>1, <2>3 DEF Numbered, InHand, Told, Held
  <2> QED
    BY <2>4, <2>5 DEF Numbered
<1>9. CASE \/ \E i \in Insts : KeepWorld(i) \/ SwapWorld(i) \/ TransferIn(i) \/ EndTick(i)
           \/ UNCHANGED vars
  <2>1. UNCHANGED <<flush, cmds, pending, inst, actor, early, hand, sent, heard, moved>>
    BY <1>9 DEF KeepWorld, SwapWorld, TransferIn, EndTick, vars, clientVars, queueVars, tickVars
  <2>2. \A j \in Insts : Queued(j)' \subseteq Queued(j)
    BY <2>1 DEF Queued, Flushing
  <2> QED
    BY <1>1, <2>1, <2>2
<1> QED
  BY <1>2, <1>3, <1>4, <1>5, <1>6, <1>7, <1>8, <1>9, NumberedHearing DEF Next

THEOREM Orders == Spec => []OrderInv
<1>1. Init => OrderInv
  BY FlushInit, OrderInit DEF OrderInv
<1>2. OrderInv /\ [Next]_vars => OrderInv'
  BY FlushStep, ListsStep, HousedStep, WornStep, LinedStep, NumberedStep DEF OrderInv
<1> QED
  BY <1>1, <1>2, PTL DEF Spec

(* No command reaches its sender's actor twice, and until a client has     *)
(* been moved twice its commands reach it in the order it sent them        *)
(* (server/server.go: readLoop, tick, spawnClient; lobby.go:               *)
(* transferLocked).                                                        *)
THEOREM HeardOnceInOrder == Spec => []HeardInOrder
<1>1. OrderInv => HeardInOrder
  <2> SUFFICES ASSUME OrderInv, NEW i \in Insts, NEW c \in Clients, NEW k \in Reaching(i, c)
               PROVE  /\ \A h \in heard[c] :
                           /\ h.n # cmds[i][k].n
                           /\ moved[c] <= 1 /\ h.n > cmds[i][k].n => h.early \/ cmds[i][k].early
                      /\ \A l \in Reaching(i, c) : k < l =>
                           /\ cmds[i][l].n # cmds[i][k].n
                           /\ cmds[i][l].n < cmds[i][k].n => cmds[i][l].early \/ cmds[i][k].early
    BY DEF HeardInOrder
  <2>1. cmds[i][k] \in Queued(i) /\ cmds[i][k].by = c /\ inst[c] = i /\ cmds[i][k] \in Cmd
    BY ReachedIsThere DEF OrderInv, Queued
  <2>2. Waiting(i, cmds[i][k])
    BY <2>1 DEF OrderInv, Numbered
  <2>3. ASSUME NEW l \in Reaching(i, c), k < l
        PROVE  /\ cmds[i][l].n # cmds[i][k].n
               /\ cmds[i][l].n < cmds[i][k].n => cmds[i][l].early \/ cmds[i][k].early
    <3>1. k \in DOMAIN cmds[i] /\ l \in DOMAIN cmds[i] /\ cmds[i][l].by = c
      BY DEF Reaching
    <3>2. Ahead(cmds[i][k], cmds[i][l])
      BY <2>3, <3>1 DEF OrderInv, Lined, LineAt, InLine
    <3>3. cmds[i][l] \in Cmd
      BY ReachedIsThere DEF OrderInv
    <3> QED
      BY <2>1, <3>1, <3>2, <3>3 DEF Ahead, Cmd
  <2> QED
    BY <2>1, <2>2, <2>3 DEF Waiting
<1> QED
  BY <1>1, Orders, PTL

(***************************************************************************)
(* Outside a swap a client's actor is the one it wears; so what it sends   *)
(* is not stray, and one stray at most is left of what it sent before.     *)
(***************************************************************************)
StraysOf(i, c, s) == {k \in DOMAIN s : Stray(i, c, s[k])}

Single(S) == \A k, l \in S : k = l

Lone(P, C, F, H) ==
  /\ Single(P) /\ Single(C) /\ F = {}
  /\ P = {} \/ C = {}
  /\ H # {} => P = {} /\ C = {}

LoneAt(i, c) ==
  Lone(StraysOf(i, c, pending[i]), StraysOf(i, c, cmds[i]), StraysOf(i, c, Flushing(i)),
       StraysInHand(i, c))

Quiet == \A i \in Insts : phase[i] # "spawn" => cmds[i] = <<>> /\ flush[i] = None

Wearing ==
  \A i \in Insts : \A c \in clients[i] \ uncut[i] : actor[c] \in Ids /\ wearer[i][actor[c]] = c

Scarce ==
  \A i \in Insts : phase[i] # "cut" => \A c \in clients[i] : moved[c] = 0 => LoneAt(i, c)

Calm == Quiet /\ Wearing /\ Scarce

LEMMA QuietStep ==
  ASSUME FlushInv, Lists, Quiet, [Next]_vars
  PROVE  Quiet'
<1> USE DEF Quiet, FlushInv, Shapes, Lists
<1>1. ASSUME NEW i \in Insts, NEW c \in Clients, Spawn(i, c)
      PROVE  Quiet'
  BY <1>1 DEF Spawn
<1>2. ASSUME NEW i \in Insts, NEW c \in Clients, CutOver(i, c)
      PROVE  Quiet'
  BY <1>2 DEF CutOver
<1>3. ASSUME NEW i \in Insts, NEW j \in Insts, NEW c \in Clients, TransferOut(i, j, c)
      PROVE  Quiet'
  BY <1>3 DEF TransferOut
<1>4. ASSUME NEW i \in Insts, Drain(i)
      PROVE  Quiet'
  BY <1>4 DEF Drain
<1>5. ASSUME NEW i \in Insts, Flush(i)
      PROVE  Quiet'
  BY <1>5 DEF Flush
<1>6. ASSUME NEW i \in Insts, Step(i) \/ Paused(i)
      PROVE  Quiet'
  BY <1>6 DEF Step, Paused, Spawned
<1>7. ASSUME NEW i \in Insts, KeepWorld(i) \/ SwapWorld(i) \/ DropPending(i) \/ EndTick(i)
      PROVE  Quiet'
  BY <1>7 DEF KeepWorld, SwapWorld, DropPending, EndTick
<1>8. CASE UNCHANGED <<cmds, flush, phase>>
  BY <1>8
<1>9. CASE \/ \E c \in Clients : Read(c) \/ Enqueue(c)
           \/ \E i \in Insts : TransferIn(i)
           \/ UNCHANGED vars
  BY <1>8, <1>9 DEF Read, Enqueue, TransferIn, vars, tickVars
<1> QED
  BY <1>1, <1>2, <1>3, <1>4, <1>5, <1>6, <1>7, <1>9 DEF Next

(* The id a spawn gives is nobody's, and a transfer retires the mover's own. *)
LEMMA OthersKeepTheirIds ==
  ASSUME OrderInv, Wearing, [Next]_vars,
         NEW i \in Insts, NEW c \in clients[i], c \in clients'[i],
         phase'[i] = "cut" => phase[i] = "cut", NEW id \in Ids, wearer[i][id] = c
  PROVE  wearer'[i][id] = c
<1> USE DEF OrderInv, FlushInv, Shapes
<1>1. CASE wearer'[i] = wearer[i]
  BY <1>1
<1>2. ASSUME NEW j \in Insts, NEW d \in Clients, Spawn(j, d)
      PROVE  wearer'[i][id] = c
  <2>1. PICK k \in Unused(j) : wearer' = [wearer EXCEPT ![j][k] = d]
    BY <1>2 DEF Spawn
  <2>2. k \in Ids /\ k >= k
    BY <2>1, RoutingAssumption DEF Unused, Ids
  <2>3. wearer[j][k] = Free /\ c # Free
    BY <2>2, RoutingAssumption DEF Unused
  <2> QED
    BY <2>1, <2>2, <2>3
<1>3. ASSUME NEW j \in Insts, SwapWorld(j)
      PROVE  wearer'[i][id] = c
  <2>1. phase[j] = "run" /\ phase'[j] = "cut"
    BY <1>3 DEF SwapWorld
  <2> QED
    BY <1>1, <1>3, <2>1, EveryoneHasAnId
<1>4. ASSUME NEW j \in Insts, NEW k \in Insts, NEW d \in Clients, TransferOut(j, k, d)
      PROVE  wearer'[i][id] = c
  <2>1. /\ wearer' = [wearer EXCEPT ![j][IdIn(j, d)] = Dead] /\ phase[j] = "social"
        /\ d \in clients[j] /\ clients' = [clients EXCEPT ![j] = @ \ {d}]
    BY <1>4 DEF TransferOut
  <2>2. wearer[j][actor[d]] = d /\ actor[d] \in Ids
    BY <2>1 DEF Cutting, Wearing
  <2>3. IdIn(j, d) \in Ids /\ wearer[j][IdIn(j, d)] = d
    BY <2>2 DEF IdIn
  <2>4. i = j => c # d
    BY <2>1
  <2> QED
    BY <2>1, <2>3, <2>4
<1>5. CASE UNCHANGED wearer
  BY <1>5
<1>6. CASE \/ \E d \in Clients : Read(d) \/ Enqueue(d)
           \/ \E j \in Insts : \/ Drain(j) \/ Flush(j) \/ Step(j) \/ Paused(j)
                               \/ KeepWorld(j) \/ DropPending(j) \/ TransferIn(j) \/ EndTick(j)
                               \/ \E d \in Clients : CutOver(j, d)
           \/ UNCHANGED vars
  BY <1>5, <1>6 DEF Read, Enqueue, Drain, Flush, Step, Paused, KeepWorld, DropPending, TransferIn,
                    EndTick, CutOver, vars, tickVars
<1> QED
  BY <1>2, <1>3, <1>4, <1>6 DEF Next

LEMMA WearingStep ==
  ASSUME OrderInv, OrderInv', Wearing, [Next]_vars
  PROVE  Wearing'
<1> USE DEF FlushInv, Shapes
<1>1. ASSUME NEW i \in Insts, NEW c \in clients[i] \ uncut[i], c \in clients'[i],
             phase'[i] = "cut" => phase[i] = "cut", actor'[c] = actor[c]
      PROVE  actor'[c] \in Ids /\ wearer'[i][actor'[c]] = c
  BY <1>1, OthersKeepTheirIds DEF Wearing
<1>8. \A i, j \in Insts : \A c \in clients'[i] : c \in clients'[j] => i = j
  <2>1. \A i \in Insts : \A c \in clients'[i] : inst'[c] = i
    BY DEF OrderInv, Housed, Places, Here
  <2> QED
    BY <2>1
<1>2. ASSUME NEW j \in Insts, NEW d \in Clients, Spawn(j, d)
      PROVE  Wearing'
  <2>1. PICK id \in Ids : wearer' = [wearer EXCEPT ![j][id] = d] /\ actor' = [actor EXCEPT ![d] = id]
    BY <1>2 DEF Spawn, Unused
  <2>2. /\ clients' = [clients EXCEPT ![j] = @ \cup {d}] /\ d \in clients'[j]
        /\ UNCHANGED <<phase, uncut>>
    BY <1>2 DEF Spawn, OrderInv
  <2>3. ASSUME NEW i \in Insts, NEW c \in clients'[i] \ uncut'[i]
        PROVE  actor'[c] \in Ids /\ wearer'[i][actor'[c]] = c
    <3>1. CASE c = d
      <4>1. i = j
        BY <1>8, <2>2, <3>1
      <4> QED
        BY <2>1, <3>1, <4>1 DEF OrderInv
    <3>2. CASE c # d
      <4>1. c \in clients[i] \ uncut[i] /\ c \in Clients
        BY <2>2, <3>2 DEF OrderInv
      <4>2. actor'[c] = actor[c]
        BY <2>1, <3>2, <4>1 DEF OrderInv
      <4> QED
        BY <1>1, <2>2, <4>1, <4>2
    <3> QED
      BY <3>1, <3>2
  <2> QED
    BY <2>3 DEF Wearing
<1>3. ASSUME NEW j \in Insts, SwapWorld(j)
      PROVE  Wearing'
  <2>1. /\ uncut' = [uncut EXCEPT ![j] = clients[j]] /\ phase' = [phase EXCEPT ![j] = "cut"]
        /\ UNCHANGED <<actor, clients>>
    BY <1>3 DEF SwapWorld, clientVars
  <2>2. clients'[j] \ uncut'[j] = {}
    BY <2>1 DEF OrderInv
  <2>3. \A i \in Insts : i # j => uncut'[i] = uncut[i] /\ phase'[i] = phase[i]
    BY <2>1 DEF OrderInv
  <2> QED
    BY <1>1, <2>1, <2>2, <2>3 DEF Wearing
<1>4. ASSUME NEW j \in Insts, NEW d \in Clients, CutOver(j, d)
      PROVE  Wearing'
  <2>1. /\ d \in uncut[j] /\ actor' = [actor EXCEPT ![d] = IdIn(j, d)]
        /\ uncut' = [uncut EXCEPT ![j] = @ \ {d}]
        /\ UNCHANGED <<phase, clients, wearer>>
    BY <1>4 DEF CutOver
  <2>2. IdIn(j, d) \in Ids /\ wearer[j][IdIn(j, d)] = d /\ d \in clients[j]
    BY <2>1 DEF OrderInv, Cutting, IdIn
  <2>3. ASSUME NEW i \in Insts, NEW c \in clients'[i] \ uncut'[i]
        PROVE  actor'[c] \in Ids /\ wearer'[i][actor'[c]] = c
    <3>1. CASE c = d
      <4>1. i = j
        BY <1>8, <2>1, <2>2, <3>1
      <4> QED
        BY <2>1, <2>2, <3>1, <4>1 DEF OrderInv
    <3>2. CASE c # d
      <4>1. c \in clients[i] \ uncut[i] /\ c \in Clients
        BY <2>1, <3>2 DEF OrderInv
      <4>2. actor'[c] = actor[c]
        BY <2>1, <3>2, <4>1 DEF OrderInv
      <4> QED
        BY <1>1, <2>1, <4>1, <4>2
    <3> QED
      BY <3>1, <3>2
  <2> QED
    BY <2>3 DEF Wearing
<1>5. ASSUME NEW j \in Insts, NEW k \in Insts, NEW d \in Clients, TransferOut(j, k, d)
      PROVE  Wearing'
  <2>1. clients' = [clients EXCEPT ![j] = @ \ {d}] /\ UNCHANGED <<actor, phase, uncut>>
    BY <1>5 DEF TransferOut
  <2>2. \A i \in Insts : clients'[i] \subseteq clients[i]
    BY <2>1 DEF OrderInv
  <2> QED
    BY <1>1, <2>1, <2>2 DEF Wearing
<1>6. ASSUME UNCHANGED <<actor, clients, uncut, wearer>>
      PROVE  Wearing'
  BY <1>6 DEF Wearing
<1>7. CASE \/ \E d \in Clients : Read(d) \/ Enqueue(d)
           \/ \E j \in Insts : \/ Drain(j) \/ Flush(j) \/ Step(j) \/ Paused(j) \/ KeepWorld(j)
                               \/ DropPending(j) \/ TransferIn(j) \/ EndTick(j)
           \/ UNCHANGED vars
  BY <1>6, <1>7 DEF Read, Enqueue, Drain, Flush, Step, Paused, KeepWorld, DropPending, TransferIn,
                    EndTick, vars, tickVars, clientVars
<1> QED
  BY <1>2, <1>3, <1>4, <1>5, <1>7 DEF Next

LEMMA LoneLess ==
  ASSUME NEW P, NEW C, NEW F, NEW H, Lone(P, C, F, H),
         NEW p \in SUBSET P, NEW q \in SUBSET C, NEW f \in SUBSET F, NEW h \in SUBSET H
  PROVE  Lone(p, q, f, h)
BY DEF Lone, Single

(* No command turns stray while its client's world stays. *)
LEMMA NoNewStrays ==
  ASSUME OrderInv, Wearing, [Next]_vars,
         NEW i \in Insts, NEW c \in clients[i], c \in clients'[i],
         phase'[i] = "cut" => phase[i] = "cut"
  PROVE  /\ \A m \in Cmd : Stray(i, c, m)' => Stray(i, c, m)
         /\ pending'[i] = pending[i] => StraysOf(i, c, pending[i])' \subseteq StraysOf(i, c, pending[i])
         /\ cmds'[i] = cmds[i] => StraysOf(i, c, cmds[i])' \subseteq StraysOf(i, c, cmds[i])
         /\ Flushing(i)' = Flushing(i) =>
              StraysOf(i, c, Flushing(i))' \subseteq StraysOf(i, c, Flushing(i))
         /\ hand'[c] = hand[c] => StraysInHand(i, c)' \subseteq StraysInHand(i, c)
<1>1. \A m \in Cmd : Stray(i, c, m)' => Stray(i, c, m)
  BY OthersKeepTheirIds DEF Stray, Cmd
<1>2. /\ \A k \in DOMAIN pending[i] : pending[i][k] \in Cmd
      /\ \A k \in DOMAIN cmds[i] : cmds[i][k] \in Cmd
      /\ \A k \in DOMAIN Flushing(i) : Flushing(i)[k] \in Cmd
  BY QueuedCommands DEF OrderInv
<1>3. c \in Clients /\ (hand[c] # None => hand[c].cmd \in Cmd)
  BY DEF OrderInv, FlushInv, Shapes, Lists
<1>4. hand'[c] = hand[c] => StraysInHand(i, c)' \subseteq StraysInHand(i, c)
  BY <1>1, <1>3 DEF StraysInHand
<1> QED
  BY <1>1, <1>2, <1>4 DEF StraysOf

(* Whoever spawns for the first time has sent nothing under an old id.      *)
LEMMA SpawnsCalm ==
  ASSUME OrderInv, NEW i \in Insts, NEW c \in Clients, Spawn(i, c), moved[c] = 0
  PROVE  LoneAt(i, c)'
<1> USE DEF OrderInv
<1>1. /\ c \in spawning[i] /\ UNCHANGED <<pending, cmds, hand>>
  BY DEF Spawn, queueVars
<1>2. actor[c] = 0
  <2>1. inst[c] = i
    BY <1>1 DEF Housed, Places, Here
  <2> QED
    BY <1>1, <2>1 DEF Housed, Unborn
<1>3. StraysOf(i, c, pending[i])' = {} /\ StraysOf(i, c, cmds[i])' = {}
  <2>1. \A m \in Queued(i) : m.by # c
    BY <1>2 DEF Numbered, Waiting
  <2>2. /\ \A k \in DOMAIN pending[i] : pending[i][k].by # c
        /\ \A k \in DOMAIN cmds[i] : cmds[i][k].by # c
    BY <2>1 DEF Queued, Listed
  <2> QED
    BY <1>1, <2>2 DEF StraysOf, Stray
<1>4. StraysInHand(i, c)' = {}
  BY <1>1, <1>2 DEF StraysInHand, Numbered, InHand
<1>5. StraysOf(i, c, Flushing(i))' = {}
  <2>1. PICK id \in Ids : /\ wearer' = [wearer EXCEPT ![i][id] = c]
                          /\ flush' = [flush EXCEPT ![i] = IF early[c] = <<>> THEN None ELSE Tag(c, id, early[c])]
    BY DEF Spawn, Unused
  <2>2. wearer'[i][id] = c
    BY <2>1 DEF FlushInv, Shapes
  <2>3. flush'[i] = None \/ flush'[i] = Tag(c, id, early[c])
    BY <2>1 DEF Lists
  <2>4. Flushing(i)' = <<>> \/ Flushing(i)' = Tag(c, id, early[c])
    BY <2>3 DEF Flushing
  <2>5. \A k \in DOMAIN Tag(c, id, early[c]) : Tag(c, id, early[c])[k].id = id
    BY DEF Tag
  <2> QED
    BY <2>2, <2>4, <2>5 DEF StraysOf, Stray
<1> QED
  BY <1>3, <1>4, <1>5 DEF LoneAt, Lone, Single

LEMMA ScarceStep ==
  ASSUME OrderInv, OrderInv', Calm, [Next]_vars
  PROVE  Scarce'
<1> USE DEF Calm
<1>0. SUFFICES ASSUME NEW i \in Insts, phase'[i] # "cut", NEW c \in clients'[i], moved'[c] = 0
               PROVE  LoneAt(i, c)'
  BY DEF Scarce
<1> DEFINE P == StraysOf(i, c, pending[i])
           C == StraysOf(i, c, cmds[i])
           F == StraysOf(i, c, Flushing(i))
           H == StraysInHand(i, c)
           Stays == c \in clients[i] /\ phase[i] # "cut" /\ moved[c] = 0
<1> HIDE DEF P, C, F, H
<1>c. c \in Clients
  BY <1>0 DEF OrderInv, FlushInv, Shapes
<1>s. /\ cmds[i] \in Seq(Cmd) /\ pending[i] \in Seq(Cmd) /\ Flushing(i) \in Seq(Cmd)
  BY QueuedCommands DEF OrderInv
<1>1. ASSUME Stays, P' \subseteq P, C' \subseteq C, F' \subseteq F, H' \subseteq H
      PROVE  LoneAt(i, c)'
  <2>1. Lone(P, C, F, H)
    BY <1>1 DEF Scarce, LoneAt, P, C, F, H
  <2>2. Lone(P', C', F', H')
    BY <1>1, <2>1, LoneLess
  <2> QED
    BY <2>2 DEF LoneAt, P, C, F, H
<1>2. ASSUME Stays
      PROVE  /\ \A m \in Cmd : Stray(i, c, m)' => Stray(i, c, m)
             /\ pending'[i] = pending[i] \/ pending'[i] = <<>> => P' \subseteq P
             /\ cmds'[i] = cmds[i] \/ cmds'[i] = <<>> => C' \subseteq C
             /\ flush'[i] = flush[i] \/ flush'[i] = None => F' \subseteq F
             /\ hand'[c] = hand[c] \/ hand'[c] = None => H' \subseteq H
  <2>1. /\ \A m \in Cmd : Stray(i, c, m)' => Stray(i, c, m)
        /\ pending'[i] = pending[i] => P' \subseteq P
        /\ cmds'[i] = cmds[i] => C' \subseteq C
        /\ Flushing(i)' = Flushing(i) => F' \subseteq F
        /\ hand'[c] = hand[c] => H' \subseteq H
    BY <1>0, <1>2, NoNewStrays DEF P, C, F, H
  <2>2. pending'[i] = <<>> => P' = {}
    BY DEF P, StraysOf
  <2>3. cmds'[i] = <<>> => C' = {}
    BY DEF C, StraysOf
  <2>4. flush'[i] = None => F' = {}
    BY DEF F, StraysOf, Flushing
  <2>5. hand'[c] = None => H' = {}
    BY DEF H, StraysInHand
  <2>6. flush'[i] = flush[i] => Flushing(i)' = Flushing(i)
    BY DEF Flushing
  <2> QED
    BY <2>1, <2>2, <2>3, <2>4, <2>5, <2>6
<1>3. ASSUME NEW j \in Insts, NEW d \in Clients, Spawn(j, d)
      PROVE  LoneAt(i, c)'
  <2>1. /\ clients' = [clients EXCEPT ![j] = @ \cup {d}] /\ UNCHANGED <<phase, pending, cmds, hand, moved>>
    BY <1>3 DEF Spawn, queueVars
  <2>2. CASE c = d
    <3>1. c \in clients'[j]
      BY <2>1, <2>2 DEF OrderInv, FlushInv, Shapes
    <3>2. inst'[c] = i /\ inst'[c] = j
      BY <1>0, <3>1 DEF OrderInv, Housed, Places, Here
    <3> QED
      BY <1>0, <1>3, <2>1, <2>2, <3>2, SpawnsCalm
  <2>3. CASE c # d
    <3>1. Stays
      BY <1>0, <2>1, <2>3 DEF OrderInv, FlushInv, Shapes
    <3>2. F' \subseteq F
      <4>1. PICK id \in Ids :
              flush' = [flush EXCEPT ![j] = IF early[d] = <<>> THEN None ELSE Tag(d, id, early[d])]
        BY <1>3 DEF Spawn, Unused
      <4>2. flush'[i] = flush[i] \/ flush'[i] = None \/ flush'[i] = Tag(d, id, early[d])
        BY <4>1 DEF OrderInv, Lists
      <4>3. CASE flush'[i] = Tag(d, id, early[d])
        <5>1. \A k \in DOMAIN Tag(d, id, early[d]) : Tag(d, id, early[d])[k].by # c
          BY <2>3 DEF Tag
        <5>2. F' = {}
          BY <4>3, <5>1 DEF F, StraysOf, Stray, Flushing
        <5> QED
          BY <5>2
      <4> QED
        BY <1>2, <3>1, <4>2, <4>3
    <3> QED
      BY <1>1, <1>2, <2>1, <3>1, <3>2
  <2> QED
    BY <2>2, <2>3
<1>4. ASSUME NEW d \in Clients, Read(d)
      PROVE  LoneAt(i, c)'
  <2>1. /\ UNCHANGED <<inst, phase, clients, pending, cmds, flush, moved, wearer, uncut>>
        /\ hand[d] = None
    BY <1>4 DEF Read, queueVars, tickVars
  <2>2. Stays
    BY <1>0, <2>1
  <2>3. CASE hand'[c] = hand[c]
    BY <1>1, <1>2, <2>1, <2>2, <2>3
  <2>4. CASE hand'[c] # hand[c]
    <3>1. d = c
      BY <1>4, <1>c, <2>4 DEF Read, OrderInv, Lists
    <3>2. actor[c] # 0
      BY <1>4, <2>4, <3>1 DEF Read
    <3>3. hand'[c].cmd.id = actor[c]
      <4>1. \E n \in {sent'[c]} : hand' = [hand EXCEPT ![c] =
              [to |-> inst[c], cmd |-> [by |-> c, id |-> actor[c], n |-> n, early |-> FALSE]]]
        BY <1>4, <3>1, <3>2 DEF Read
      <4> QED
        BY <1>c, <4>1 DEF OrderInv, Lists
    <3>4. wearer'[i][actor[c]] = c
      BY <1>0, <2>1 DEF OrderInv, FlushInv, Cutting, Wearing
    <3>5. H' = {}
      BY <3>3, <3>4 DEF H, StraysInHand, Stray
    <3> QED
      BY <1>1, <1>2, <2>1, <2>2, <3>5
  <2> QED
    BY <2>3, <2>4
<1>5. ASSUME NEW d \in Clients, Enqueue(d)
      PROVE  LoneAt(i, c)'
  <2>1. /\ UNCHANGED <<inst, phase, clients, cmds, flush, moved, wearer>> /\ hand[d] # None
        /\ pending' = [pending EXCEPT ![hand[d].to] = Append(@, hand[d].cmd)]
        /\ hand' = [hand EXCEPT ![d] = None] /\ hand[d].to \in Insts /\ hand[d].cmd \in Cmd
        /\ hand[d].cmd.by = d
    BY <1>5 DEF Enqueue, tickVars, OrderInv, Lists, Numbered, InHand
  <2>2. Stays
    BY <1>0, <2>1
  <2>3. hand'[c] = hand[c] \/ hand'[c] = None
    BY <1>c, <2>1 DEF OrderInv, Lists
  <2>4. CASE P' \subseteq P
    BY <1>1, <1>2, <2>1, <2>2, <2>3, <2>4
  <2>5. CASE ~(P' \subseteq P)
    <3>0. PICK e, n : e = hand[d].cmd /\ n = Len(pending[i])
      OBVIOUS
    <3>1. hand[d].to = i
      BY <1>2, <2>1, <2>2, <2>5 DEF OrderInv, Lists
    <3>2. pending'[i] = Append(pending[i], e)
      BY <2>1, <3>0, <3>1 DEF OrderInv, Lists
    <3>3. \A k \in DOMAIN pending'[i] :
            \/ k \in DOMAIN pending[i] /\ pending'[i][k] = pending[i][k]
            \/ k = n + 1 /\ pending'[i][k] = e
      BY <1>s, <2>1, <3>0, <3>2, AppendList
    <3>4. \A k \in DOMAIN pending[i] : pending[i][k] \in Cmd
      BY <1>s
    <3>5. P' \subseteq P \cup {n + 1}
      BY <1>2, <2>2, <3>3, <3>4 DEF P, StraysOf
    <3>6. Stray(i, c, e)
      <4>0. PICK k \in P' : k \notin P
        BY <2>5
      <4>1. k \in DOMAIN pending'[i] /\ Stray(i, c, pending[i][k])'
        BY <4>0 DEF P, StraysOf
      <4>2. k \in DOMAIN pending[i] => ~Stray(i, c, pending[i][k])
        BY <4>0 DEF P, StraysOf
      <4>3. Stray(i, c, pending'[i][k])
        BY <2>1, <4>1 DEF Stray
      <4> QED
        BY <3>3, <4>1, <4>2, <4>3
    <3>7. c = d
      BY <2>1, <3>0, <3>6 DEF Stray
    <3>8. H # {}
      BY <2>1, <3>0, <3>1, <3>6, <3>7 DEF H, StraysInHand
    <3>9. P = {} /\ C = {} /\ F = {}
      BY <2>2, <3>8 DEF Scarce, LoneAt, Lone, P, C, F, H
    <3>10. C' \subseteq C /\ F' \subseteq F
      BY <1>2, <2>1, <2>2
    <3>11. H' = {}
      BY <1>c, <2>1, <3>7 DEF H, StraysInHand, OrderInv, Lists
    <3>12. Lone(P', C', F', H')
      BY <3>5, <3>9, <3>10, <3>11 DEF Lone, Single
    <3> QED
      BY <3>12 DEF LoneAt, P, C, F, H
  <2> QED
    BY <2>4, <2>5
<1>6. ASSUME NEW j \in Insts, Drain(j)
      PROVE  LoneAt(i, c)'
  <2>1. /\ phase[j] = "idle" /\ phase' = [phase EXCEPT ![j] = "spawn"]
        /\ cmds' = [cmds EXCEPT ![j] = pending[j]] /\ pending' = [pending EXCEPT ![j] = <<>>]
        /\ UNCHANGED <<hand, clients, flush, moved>>
    BY <1>6 DEF Drain, clientVars
  <2>2. Stays
    BY <1>0, <2>1 DEF OrderInv, FlushInv, Shapes
  <2>3. CASE i = j
    <3>1. cmds'[i] = pending[i] /\ pending'[i] = <<>> /\ flush[i] = None
      BY <2>1, <2>3 DEF OrderInv, Lists, Quiet
    <3>2. C' \subseteq P
      <4>1. \A k \in DOMAIN pending[i] : pending[i][k] \in Cmd
        BY <1>s
      <4> QED
        BY <1>2, <2>2, <3>1, <4>1 DEF C, P, StraysOf
    <3>3. P' = {}
      BY <3>1 DEF P, StraysOf
    <3>4. F' \subseteq F /\ H' \subseteq H
      BY <1>2, <2>1, <2>2
    <3>5. Lone(P, C, F, H)
      BY <2>2 DEF Scarce, LoneAt, P, C, F, H
    <3>6. Lone(P', C', F', H')
      BY <3>2, <3>3, <3>4, <3>5 DEF Lone, Single
    <3> QED
      BY <3>6 DEF LoneAt, P, C, F, H
  <2>4. CASE i # j
    <3>1. cmds'[i] = cmds[i] /\ pending'[i] = pending[i]
      BY <2>1, <2>4 DEF OrderInv, Lists
    <3> QED
      BY <1>1, <1>2, <2>1, <2>2, <3>1
  <2> QED
    BY <2>3, <2>4
<1>7. ASSUME NEW j \in Insts, Flush(j)
      PROVE  LoneAt(i, c)'
  <2>1. /\ flush[j] # None /\ pending' = [pending EXCEPT ![j] = @ \o flush[j]]
        /\ flush' = [flush EXCEPT ![j] = None] /\ UNCHANGED <<hand, phase, clients, cmds, moved>>
    BY <1>7 DEF Flush, clientVars
  <2>2. Stays
    BY <1>0, <2>1
  <2>3. flush'[i] = flush[i] \/ flush'[i] = None
    BY <2>1 DEF OrderInv, Lists
  <2>4. P' \subseteq P
    <3>1. CASE i = j
      <4>0. PICK s : s = Flushing(i)
        OBVIOUS
      <4>1. pending'[i] = pending[i] \o s /\ s \in Seq(Cmd)
        BY <1>s, <2>1, <3>1, <4>0 DEF OrderInv, Lists, Flushing
      <4>2. \A k \in DOMAIN pending'[i] :
              \/ k \in DOMAIN pending[i] /\ pending'[i][k] = pending[i][k]
              \/ \E l \in DOMAIN s : pending'[i][k] = s[l]
        BY <1>s, <4>1, ConcatList
      <4>3. F = {}
        BY <2>2 DEF Scarce, LoneAt, Lone, F
      <4>4. \A l \in DOMAIN s : s[l] \in Cmd /\ ~Stray(i, c, s[l])
        BY <4>0, <4>1, <4>3 DEF F, StraysOf
      <4>5. \A k \in DOMAIN pending[i] : pending[i][k] \in Cmd
        BY <1>s
      <4> QED
        BY <1>2, <2>2, <4>2, <4>4, <4>5 DEF P, StraysOf
    <3>2. CASE i # j
      <4>1. pending'[i] = pending[i]
        BY <2>1, <3>2 DEF OrderInv, Lists
      <4> QED
        BY <1>2, <2>2, <4>1
    <3> QED
      BY <3>1, <3>2
  <2> QED
    BY <1>1, <1>2, <2>1, <2>2, <2>3, <2>4
<1>8. ASSUME NEW j \in Insts, Step(j) \/ Paused(j) \/ KeepWorld(j) \/ EndTick(j)
      PROVE  LoneAt(i, c)'
  <2>1. /\ UNCHANGED <<hand, clients, flush, moved, pending>>
        /\ cmds' = cmds \/ cmds' = [cmds EXCEPT ![j] = <<>>]
        /\ phase[j] # "cut" /\ \E p : phase' = [phase EXCEPT ![j] = p]
    BY <1>8 DEF Step, Paused, KeepWorld, EndTick, Spawned, clientVars, queueVars
  <2>2. Stays
    BY <1>0, <2>1 DEF OrderInv, FlushInv, Shapes
  <2>3. cmds'[i] = cmds[i] \/ cmds'[i] = <<>>
    BY <2>1 DEF OrderInv, Lists
  <2> QED
    BY <1>1, <1>2, <2>1, <2>2, <2>3
<1>9. ASSUME NEW j \in Insts, SwapWorld(j) \/ \E d \in Clients : CutOver(j, d)
      PROVE  LoneAt(i, c)'
  <2>1. /\ UNCHANGED <<hand, clients, flush, moved, pending, cmds>>
        /\ phase' = [phase EXCEPT ![j] = "cut"]
    BY <1>9 DEF SwapWorld, CutOver, clientVars, queueVars, OrderInv, FlushInv, Shapes
  <2>2. i # j
    BY <1>0, <2>1 DEF OrderInv, FlushInv, Shapes
  <2>3. Stays
    BY <1>0, <2>1, <2>2 DEF OrderInv, FlushInv, Shapes
  <2> QED
    BY <1>1, <1>2, <2>1, <2>3
<1>10. ASSUME NEW j \in Insts, DropPending(j)
       PROVE  LoneAt(i, c)'
  <2>1. /\ UNCHANGED <<hand, clients, flush, moved, cmds>> /\ phase[j] = "cut"
        /\ phase' = [phase EXCEPT ![j] = "social"] /\ pending' = [pending EXCEPT ![j] = <<>>]
    BY <1>10 DEF DropPending, clientVars
  <2>2. CASE i = j
    <3>1. cmds'[i] = <<>> /\ Flushing(i)' = <<>> /\ pending'[i] = <<>>
      BY <2>1, <2>2 DEF Quiet, Flushing, OrderInv, Lists
    <3>2. StraysOf(i, c, cmds[i])' = {} /\ StraysOf(i, c, Flushing(i))' = {} /\ StraysOf(i, c, pending[i])' = {}
      BY <3>1 DEF StraysOf
    <3> QED
      BY <3>2 DEF LoneAt, Lone, Single
  <2>3. CASE i # j
    <3>1. pending'[i] = pending[i] /\ Stays
      BY <1>0, <2>1, <2>3 DEF OrderInv, FlushInv, Shapes, Lists
    <3> QED
      BY <1>1, <1>2, <2>1, <3>1
  <2> QED
    BY <2>2, <2>3
<1>11. ASSUME NEW j \in Insts, NEW k \in Insts, NEW d \in Clients, TransferOut(j, k, d)
       PROVE  LoneAt(i, c)'
  <2>1. /\ UNCHANGED <<hand, flush, pending, cmds, phase>> /\ clients' = [clients EXCEPT ![j] = @ \ {d}]
        /\ moved' = [moved EXCEPT ![d] = @ + 1]
    BY <1>11 DEF TransferOut, queueVars
  <2>2. moved[c] = 0
    BY <1>0, <1>c, <2>1 DEF OrderInv, Lists
  <2>3. Stays
    BY <1>0, <2>1, <2>2 DEF OrderInv, FlushInv, Shapes
  <2> QED
    BY <1>1, <1>2, <2>1, <2>3
<1>12. CASE UNCHANGED <<hand, flush, pending, cmds, phase, clients, moved>>
  <2>1. Stays
    BY <1>0, <1>12
  <2> QED
    BY <1>1, <1>2, <1>12, <2>1
<1>13. CASE (\E j \in Insts : TransferIn(j)) \/ UNCHANGED vars
  BY <1>12, <1>13 DEF TransferIn, vars, clientVars, queueVars, tickVars
<1> QED
  BY <1>3, <1>4, <1>5, <1>6, <1>7, <1>8, <1>9, <1>10, <1>11, <1>13 DEF Next

LEMMA OneOrNone ==
  ASSUME NEW S, NEW x, S \subseteq {x}
  PROVE  Cardinality(S) <= 1
<1>1. S = {} \/ S = {x}
  OBVIOUS
<1>2. Cardinality({}) = 0
  BY FS_EmptySet
<1>3. Cardinality({x}) = 1
  BY FS_Singleton
<1> QED
  BY <1>1, <1>2, <1>3

LEMMA LoneIsOne ==
  ASSUME OrderInv, NEW i \in Insts, NEW c \in Clients, LoneAt(i, c)
  PROVE  Cardinality(StraysQueued(i, c) \cup StraysInHand(i, c)) <= 1
<1> DEFINE s == pending[i]
           t == cmds[i]
           S == StraysQueued(i, c)
           H == StraysInHand(i, c)
<1>1. s \in Seq(Cmd) /\ t \in Seq(Cmd)
  BY QueuedCommands DEF OrderInv
<1>2. Lone(StraysOf(i, c, s), StraysOf(i, c, t), StraysOf(i, c, Flushing(i)), H)
  BY DEF LoneAt
<1>3. S = {k \in DOMAIN (s \o t) : Stray(i, c, (s \o t)[k])}
  BY DEF StraysQueued
<1>4. H \subseteq {0}
  BY DEF StraysInHand
<1> HIDE DEF s, t, S, H
<1>5. ASSUME NEW k \in S
      PROVE  \/ k \in StraysOf(i, c, s)
             \/ k - Len(s) \in StraysOf(i, c, t) /\ k \in Nat /\ Len(s) \in Nat
  <2>1. k \in DOMAIN (s \o t) /\ Stray(i, c, (s \o t)[k])
    BY <1>3
  <2>2. \/ k \in DOMAIN s /\ (s \o t)[k] = s[k]
        \/ k - Len(s) \in DOMAIN t /\ (s \o t)[k] = t[k - Len(s)] /\ k \in Nat /\ Len(s) \in Nat
    BY <1>1, <2>1, ConcatList
  <2> QED
    BY <2>1, <2>2 DEF StraysOf
<1>6. ASSUME NEW k \in S, NEW l \in S
      PROVE  k = l
  <2>1. CASE StraysOf(i, c, t) = {}
    BY <1>2, <1>5, <2>1 DEF Lone, Single
  <2>2. CASE StraysOf(i, c, s) = {}
    <3>1. /\ k - Len(s) \in StraysOf(i, c, t) /\ l - Len(s) \in StraysOf(i, c, t)
          /\ k \in Nat /\ l \in Nat /\ Len(s) \in Nat
      BY <1>5, <2>2
    <3>2. k - Len(s) = l - Len(s)
      BY <1>2, <3>1 DEF Lone, Single
    <3> QED
      BY <3>1, <3>2
  <2> QED
    BY <1>2, <2>1, <2>2 DEF Lone
<1>7. H # {} => S = {}
  BY <1>2, <1>5 DEF Lone
<1>8. \E x : S \cup H \subseteq {x}
  <2>1. CASE S = {}
    BY <1>4, <2>1
  <2>2. CASE S # {}
    <3>1. PICK k : k \in S
      BY <2>2
    <3> QED
      BY <1>6, <1>7, <3>1
  <2> QED
    BY <2>1, <2>2
<1>9. Cardinality(S \cup H) <= 1
  BY <1>8, OneOrNone
<1> QED
  BY <1>9 DEF S, H

LEMMA CalmInit == Init => Calm
<1> SUFFICES ASSUME Init PROVE Calm
  OBVIOUS
<1>1. Quiet
  BY DEF Init, Quiet
<1>2. \A i \in Insts : clients[i] = {}
  BY DEF Init
<1> QED
  BY <1>1, <1>2 DEF Calm, Wearing, Scarce

(* After a floor swap at most one command of a client still carries the id *)
(* of an actor it no longer has: the one its readLoop held while the cut   *)
(* emptied the queue (server/descent.go: swapWorld; server/server.go:      *)
(* readLoop, spawnClient).                                                 *)
THEOREM StraysBounded == Spec => []OneStrayAtMost
<1>1. Init => Calm
  BY CalmInit
<1>2. OrderInv /\ OrderInv' /\ Calm /\ [Next]_vars => Calm'
  <2> SUFFICES ASSUME OrderInv, OrderInv', Calm, [Next]_vars
               PROVE  Calm'
    OBVIOUS
  <2>1. Quiet'
    BY QuietStep DEF OrderInv, Calm
  <2>2. Wearing'
    BY WearingStep DEF Calm
  <2>3. Scarce'
    BY ScarceStep
  <2> QED
    BY <2>1, <2>2, <2>3 DEF Calm
<1>3. OrderInv /\ Calm => OneStrayAtMost
  <2> SUFFICES ASSUME OrderInv, Calm, NEW i \in Insts, phase[i] # "cut",
                      NEW c \in clients[i], moved[c] = 0
               PROVE  Cardinality(StraysQueued(i, c) \cup StraysInHand(i, c)) <= 1
    BY DEF OneStrayAtMost
  <2>1. c \in Clients
    BY DEF OrderInv, FlushInv, Shapes
  <2>2. LoneAt(i, c)
    BY DEF Calm, Scarce
  <2> QED
    BY <2>1, <2>2, LoneIsOne
<1> QED
  BY <1>1, <1>2, <1>3, Orders, PTL DEF Spec
=============================================================================
