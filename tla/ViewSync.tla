------------------------------ MODULE ViewSync ------------------------------
(***************************************************************************)
(* The view stream of one WebSocket client: the server sends views as      *)
(* deltas against a view the client has acknowledged (server/server.go:    *)
(* frameFor, readLoop; protocol/binary.go), the client rebuilds them from  *)
(* its history (web/client.js, web/net.js), and a welcome starts both over *)
(* when the world is swapped.  Frames and acks travel in order and are not *)
(* lost on the way, but the command rate limit may drop an ack that has    *)
(* arrived.                                                                *)
(*                                                                         *)
(* A view is its world's tick and the set of entities in it; a changed     *)
(* entity is another entity.                                               *)
(***************************************************************************)
EXTENDS Naturals, Sequences, FiniteSets

CONSTANTS Entities,    \* what a view may show
          None,        \* no view
          MaxUnacked,  \* maxUnackedViews
          History,     \* VIEW_HISTORY
          MayPause,    \* the admin may pause the instance
          MayDrop,     \* the rate limit may drop acks
          MaxTick,     \* bound: ticks of one world
          MaxGen,      \* bound: welcomes
          MaxFlight    \* bound: frames, and acks, on their way

ASSUME ViewSyncAssumption ==
  /\ MaxUnacked \in Nat \ {0} /\ History \in Nat \ {0}
  /\ MayPause \in BOOLEAN /\ MayDrop \in BOOLEAN
  /\ MaxTick \in Nat /\ MaxGen \in Nat \ {0} /\ MaxFlight \in Nat
  /\ None \notin [tick : Nat, view : SUBSET Entities, truth : SUBSET Entities]

VARIABLES
  tick, world,   \* the world: its tick, and what the client's view shows
  stepped,       \* the world has stepped since its views were last sent
  paused,        \* Instance.paused
  gen,           \* client.gen
  ack, ackDirty, \* client.ack, client.ackDirty
  baseline,      \* client.baseline: [tick, view], or None
  sent,          \* client.sent[t]: the view sent at tick t, or None
  sentTicks,     \* client.sentTicks
  down,          \* frames on their way to the client
  up,            \* acks on their way to the server
  cgen,          \* the client's generation
  history,       \* viewHistory[t], or None
  await,         \* awaitKeyframe
  shown,         \* what the client shows, beside what the server sent
  mishaps        \* history: "pause" and "drop", once one has happened

worldVars == <<tick, world, stepped, paused>>
serverVars == <<gen, ack, ackDirty, baseline, sent, sentTicks>>
clientVars == <<cgen, history, await, shown>>
vars == <<worldVars, serverVars, down, up, clientVars, mishaps>>

View == SUBSET Entities

NoneSent == [t \in 1..MaxTick |-> None]
NoHistory == [t \in 0..MaxTick |-> None]

(* The client has just been spawned (gen 1) into a world that has stepped  *)
(* before; its first welcome is on the way.                                *)
Init ==
  /\ tick = 1 /\ world \in View
  /\ stepped = TRUE /\ paused = FALSE
  /\ gen = 1 /\ ack = 0 /\ ackDirty = FALSE
  /\ baseline = None /\ sent = NoneSent /\ sentTicks = <<>>
  /\ down = <<[kind |-> "welcome", gen |-> 1]>>
  /\ up = <<>>
  /\ cgen = 0 /\ history = NoHistory /\ await = FALSE /\ shown = None
  /\ mishaps = {}

-----------------------------------------------------------------------------
(* The tick goroutine. *)

(* Step; views go out every SendEvery ticks, so one may go by unsent. *)
Step(w) ==
  /\ ~paused /\ tick < MaxTick
  /\ tick' = tick + 1
  /\ world' = w
  /\ stepped' = TRUE
  /\ UNCHANGED <<paused, serverVars, down, up, clientVars, mishaps>>

(* The client's encoder, acks and generation start over in a world at t. *)
Welcomed(t, w) ==
  /\ gen < MaxGen /\ Len(down) < MaxFlight
  /\ tick' = t
  /\ world' = w
  /\ gen' = gen + 1
  /\ ack' = 0 /\ ackDirty' = FALSE
  /\ baseline' = None /\ sent' = NoneSent /\ sentTicks' = <<>>
  /\ down' = Append(down, [kind |-> "welcome", gen |-> gen + 1])
  /\ UNCHANGED <<up, clientVars, mishaps>>

(* swapWorld, in the run logic after Step: a new world at tick 0. *)
Swap(w) ==
  /\ stepped /\ ~paused
  /\ Welcomed(0, w)
  /\ UNCHANGED <<stepped, paused>>

(* A party transfer: spawnClient in another instance's world, before it    *)
(* steps.                                                                  *)
Transfer(t, w) ==
  /\ Welcomed(t, w)
  /\ stepped' = FALSE
  /\ paused' = FALSE

(* A paused instance goes on sending; joins, leaves and admin operations   *)
(* go on changing its world, without a tick.  The tick that ends the pause *)
(* steps before it sends.                                                  *)
Pause ==
  /\ MayPause
  /\ paused' = ~paused
  /\ stepped' = FALSE
  /\ mishaps' = mishaps \cup {"pause"}
  /\ UNCHANGED <<tick, world, serverVars, down, up, clientVars>>

ChangePaused(w) ==
  /\ paused /\ w # world
  /\ world' = w
  /\ UNCHANGED <<tick, stepped, paused, serverVars, down, up, clientVars, mishaps>>

(* An ack names the new baseline while the view it names is still held;    *)
(* any other ack is a reset to keyframes.                                  *)
Acked == ackDirty /\ ack \in 1..MaxTick /\ sent[ack] # None

(* Faulty: an ack gap keeps the old baseline. *)
NextBaselineKept ==
  IF Acked THEN [tick |-> ack, view |-> sent[ack]] ELSE baseline

NextBaseline ==
  IF Acked THEN [tick |-> ack, view |-> sent[ack]]
  ELSE IF ackDirty THEN None ELSE baseline

(* What EncodeViewFrame writes against a baseline, nil meaning a keyframe. *)
Encode(base, w) ==
  LET from == IF base = None THEN {} ELSE base.view IN
    [kind |-> "view", tick |-> tick, base |-> IF base = None THEN 0 ELSE base.tick,
     gone |-> from \ w, new |-> w \ from, truth |-> w]

(* The views sent without those of the first n of the ticks. *)
Forget(views, ticks, n) ==
  [t \in 1..MaxTick |-> IF \E k \in 1..n : ticks[k] = t THEN None ELSE views[t]]

(* The newest of the ticks, as many as may be unacknowledged. *)
Newest(ticks) ==
  IF Len(ticks) <= MaxUnacked THEN ticks
  ELSE SubSeq(ticks, Len(ticks) - MaxUnacked + 1, Len(ticks))

(* How many of the ticks, ascending, are at or before the acked one. *)
Settled == IF Acked THEN Cardinality({k \in DOMAIN sentTicks : sentTicks[k] <= ack}) ELSE 0

(* Faulty: a view of tick 0 becomes the baseline at once. *)
SendViewZero ==
  /\ stepped \/ paused
  /\ Len(down) < MaxFlight
  /\ down' = Append(down, Encode(NextBaseline, world))
  /\ baseline' = IF tick = 0 THEN [tick |-> 0, view |-> world] ELSE NextBaseline
  /\ sent' = IF tick = 0 THEN sent ELSE [sent EXCEPT ![tick] = world]
  /\ sentTicks' = IF tick = 0 THEN sentTicks
                  ELSE Newest(Append(sentTicks, tick))
  /\ ackDirty' = FALSE
  /\ stepped' = FALSE
  /\ UNCHANGED <<tick, world, paused, gen, ack, up, clientVars, mishaps>>

(* frameFor and the send.  A view of tick 0 is never a baseline; of the    *)
(* unacknowledged views only the newest are kept.                          *)
SendView ==
  /\ stepped \/ paused
  /\ Len(down) < MaxFlight
  /\ down' = Append(down, Encode(NextBaseline, world))
  /\ baseline' = NextBaseline
  /\ LET views == Forget(sent, sentTicks, Settled)
         ticks == SubSeq(sentTicks, Settled + 1, Len(sentTicks))
         over == Len(ticks) + 1 - MaxUnacked
     IN IF tick = 0
        THEN sent' = views /\ sentTicks' = ticks
        ELSE /\ sent' = Forget([views EXCEPT ![tick] = world], Append(ticks, tick), over)
             /\ sentTicks' = Newest(Append(ticks, tick))
  /\ ackDirty' = FALSE
  /\ stepped' = FALSE
  /\ UNCHANGED <<tick, world, paused, gen, ack, up, clientVars, mishaps>>

(* Faulty: acks of an earlier generation count. *)
ReadAckAnyGen ==
  /\ up # <<>>
  /\ up' = Tail(up)
  /\ ack' = Head(up).tick /\ ackDirty' = TRUE
  /\ UNCHANGED <<worldVars, gen, baseline, sent, sentTicks, down, clientVars, mishaps>>

(* readLoop takes an ack of this generation; any other is stale. *)
ReadAck ==
  /\ up # <<>>
  /\ up' = Tail(up)
  /\ IF Head(up).gen = gen
     THEN ack' = Head(up).tick /\ ackDirty' = TRUE
     ELSE UNCHANGED <<ack, ackDirty>>
  /\ UNCHANGED <<worldVars, gen, baseline, sent, sentTicks, down, clientVars, mishaps>>

(* The command bucket is empty: the ack is dropped on the floor. *)
DropAck ==
  /\ MayDrop /\ up # <<>>
  /\ up' = Tail(up)
  /\ mishaps' = mishaps \cup {"drop"}
  /\ UNCHANGED <<worldVars, serverVars, down, clientVars>>

-----------------------------------------------------------------------------
(* The client. *)

Arrives(kind) == down # <<>> /\ Head(down).kind = kind /\ down' = Tail(down)

(* resetWorld *)
GetWelcome ==
  /\ Arrives("welcome")
  /\ cgen' = Head(down).gen
  /\ history' = NoHistory /\ await' = FALSE /\ shown' = None
  /\ UNCHANGED <<worldVars, serverVars, up, mishaps>>

Held(f) == f.base = 0 \/ history[f.base] # None

(* decodeViewFrame *)
Decode(f) ==
  ((IF f.base = 0 THEN {} ELSE history[f.base]) \ f.gone) \cup f.new

(* The history with one view more, without its oldest when it is full. *)
Remember(t, view) ==
  LET h == [history EXCEPT ![t] = view]
      ticks == {u \in DOMAIN h : h[u] # None}
  IN IF Cardinality(ticks) <= History THEN h
     ELSE [h EXCEPT ![CHOOSE u \in ticks : \A v \in ticks : u <= v] = None]

GetView ==
  /\ Arrives("view")
  /\ LET f == Head(down) IN
       /\ Held(f) /\ Len(up) < MaxFlight
       /\ history' = Remember(f.tick, Decode(f))
       /\ shown' = [tick |-> f.tick, view |-> Decode(f), truth |-> f.truth]
       /\ up' = Append(up, [tick |-> f.tick, gen |-> cgen])
  /\ await' = FALSE
  /\ UNCHANGED <<worldVars, serverVars, cgen, mishaps>>

(* A delta against a view no longer held: one reset request, and frames    *)
(* are skipped until one can be decoded.                                   *)
MissBaseline ==
  /\ Arrives("view")
  /\ ~Held(Head(down)) /\ Len(up) < MaxFlight
  /\ up' = IF await THEN up ELSE Append(up, [tick |-> 0, gen |-> cgen])
  /\ await' = TRUE
  /\ UNCHANGED <<worldVars, serverVars, cgen, history, shown, mishaps>>

Next ==
  \/ \E w \in View : \/ Step(w) \/ Swap(w) \/ ChangePaused(w)
                     \/ \E t \in 0..MaxTick : Transfer(t, w)
  \/ Pause
  \/ SendView \/ ReadAck \/ DropAck
  \/ GetWelcome \/ GetView \/ MissBaseline

Spec == Init /\ [][Next]_vars

-----------------------------------------------------------------------------
(* What the client shows is what the server sent: no delta is ever applied *)
(* to another view than the one it was computed from.  (A paused world     *)
(* sends its tick again with another content; the client cannot tell.)     *)
DecodesExactly ==
  shown # None /\ "pause" \notin mishaps => shown.view = shown.truth

(* The server only deltas against views the client has decoded, in this    *)
(* generation: an ack of the world before, whose ticks are the same        *)
(* numbers, does not count.                                                *)
BaselineWasDecoded ==
  baseline # None => /\ cgen = gen
                     /\ shown # None /\ baseline.tick <= shown.tick

(* A client that waits for a keyframe is answered: its reset, or the ack   *)
(* of a view it still holds, is on its way to the server, or what it can   *)
(* decode is on its way to it, or will be with the next view sent ("skip   *)
(* frames until the keyframe lands", web/client.js:138).                   *)
WaitingIsAnswered ==
  await =>
    \/ \E k \in DOMAIN up : /\ up[k].gen = cgen
                            /\ up[k].tick = 0 \/ history[up[k].tick] # None
    \/ \E k \in DOMAIN down : down[k].kind = "welcome" \/ Held(down[k])
    \/ NextBaseline = None
    \/ history[NextBaseline.tick] # None

(* It is, as long as the rate limit has dropped no ack. *)
AnsweredUnlessDropped == "drop" \notin mishaps => WaitingIsAnswered
=============================================================================
