---------------------------- MODULE ViewSyncProofs ----------------------------
(* Theorems about ViewSync, for any entities, histories, drops and pauses. *)
EXTENDS ViewSync, TLAPS

(***************************************************************************)
(* Frames and acks are lists, whatever they hold.                          *)
(***************************************************************************)
IsList(s) == \E S : s \in Seq(S)

LEMMA WiderSeq ==
  ASSUME NEW A, NEW B, A \subseteq B, NEW s \in Seq(A)
  PROVE  s \in Seq(B)
<1> DEFINE n == Len(s)
<1>1. n \in Nat /\ s \in [1..n -> B]
  OBVIOUS
<1> HIDE DEF n
<1>2. s \in Seq(B)
  BY <1>1
<1> QED
  BY <1>2

LEMMA ListTail ==
  ASSUME NEW s, IsList(s), s # <<>>
  PROVE  /\ IsList(Tail(s)) /\ Len(s) \in Nat /\ Len(s) > 0 /\ Len(Tail(s)) = Len(s) - 1
         /\ Head(s) = s[1] /\ DOMAIN s = 1..Len(s) /\ DOMAIN Tail(s) = 1..(Len(s) - 1)
         /\ \A k \in 1..(Len(s) - 1) : Tail(s)[k] = s[k + 1]
<1>1. PICK S : s \in Seq(S)
  BY DEF IsList
<1>2. Tail(s) \in Seq(S)
  BY <1>1
<1> QED
  BY <1>1, <1>2 DEF IsList

LEMMA ListAppend ==
  ASSUME NEW s, IsList(s), NEW e
  PROVE  /\ IsList(Append(s, e)) /\ Len(s) \in Nat /\ Len(Append(s, e)) = Len(s) + 1
         /\ DOMAIN s = 1..Len(s) /\ DOMAIN Append(s, e) = 1..(Len(s) + 1)
         /\ Append(s, e)[Len(s) + 1] = e
         /\ \A k \in 1..Len(s) : Append(s, e)[k] = s[k]
<1>1. PICK S : s \in Seq(S)
  BY DEF IsList
<1>2. s \in Seq(S \cup {e})
  BY <1>1, WiderSeq
<1>3. Append(s, e) \in Seq(S \cup {e})
  BY <1>2
<1> QED
  BY <1>2, <1>3 DEF IsList

(***************************************************************************)
(* The newest welcome on its way is this generation's; without one the     *)
(* client has it.  The views after it are this world's, in the order of    *)
(* their ticks, and none is older than what the client shows.  So an ack   *)
(* of this generation names a view the client has decoded in this world.   *)
(***************************************************************************)
Welcome(d, k) == d[k].kind = "welcome"
Last(d, k) == \A j \in DOMAIN d : j > k => ~Welcome(d, j)
Decoded(t) == cgen = gen /\ shown # None /\ t \in Nat /\ t <= shown.tick

(* An ack of this generation is a reset, or names a view decoded in it.     *)
Sound(a) ==
  /\ a.gen \in Nat /\ a.gen <= gen
  /\ a.gen = gen => cgen = gen /\ (a.tick # 0 => Decoded(a.tick))

Frames ==
  /\ IsList(down) /\ gen \in Nat /\ tick \in Nat
  /\ \A k \in DOMAIN down : Welcome(down, k) =>
       /\ down[k].gen \in Nat /\ down[k].gen <= gen
       /\ Last(down, k) <=> down[k].gen = gen
  /\ \A k \in DOMAIN down : Last(down, k) /\ ~Welcome(down, k) =>
       /\ down[k].tick \in Nat /\ down[k].tick <= tick
       /\ \A j \in DOMAIN down : k < j => down[k].tick <= down[j].tick

Client ==
  /\ cgen \in Nat
  /\ IF \E k \in DOMAIN down : Welcome(down, k) THEN cgen < gen ELSE cgen = gen
  /\ cgen = gen /\ shown # None =>
       /\ shown.tick \in Nat /\ shown.tick <= tick
       /\ \A k \in DOMAIN down : shown.tick <= down[k].tick

Acks ==
  /\ IsList(up)
  /\ \A k \in DOMAIN up : Sound(up[k])
  /\ ackDirty /\ ack # 0 => Decoded(ack)
  /\ baseline # None => Decoded(baseline.tick)

(* What the frames carry and the client remembers are views.               *)
Carries(f) == f.tick \in Nat /\ f.base \in 0..MaxTick /\ f.new \in View /\ f.truth \in View

Views ==
  /\ world \in View
  /\ \A k \in DOMAIN down : ~Welcome(down, k) => Carries(down[k])
  /\ history \in [0..MaxTick -> View \cup {None}]
  /\ baseline # None => baseline.tick \in 1..MaxTick

StreamInv == Frames /\ Client /\ Acks /\ Views

LEMMA StreamInit == Init => StreamInv
<1> SUFFICES ASSUME Init PROVE StreamInv
  OBVIOUS
<1> DEFINE w == [kind |-> "welcome", gen |-> 1]
<1>1. <<w>> \in Seq({w}) /\ DOMAIN <<w>> = {1} /\ <<w>>[1] = w
  OBVIOUS
<1>2. <<>> \in Seq({}) /\ DOMAIN <<>> = {}
  OBVIOUS
<1>3. down = <<w>> /\ up = <<>> /\ w.kind = "welcome" /\ w.gen = 1
  BY DEF Init
<1> HIDE DEF w
<1>4. IsList(down) /\ IsList(up)
  BY <1>1, <1>2, <1>3 DEF IsList
<1>5. Frames
  BY <1>1, <1>3, <1>4 DEF Init, Frames, Welcome, Last
<1>6. Client
  BY <1>1, <1>3 DEF Init, Client, Welcome
<1>7. Acks
  BY <1>2, <1>3, <1>4 DEF Init, Acks, Sound
<1>8. Views
  BY <1>1, <1>3 DEF Init, Views, Welcome, NoHistory
<1> QED
  BY <1>5, <1>6, <1>7, <1>8 DEF StreamInv

(* A frame that has arrived leaves the list, and the others move up.        *)
Shifted ==
  /\ IsList(down') /\ 1 \in DOMAIN down
  /\ \A k \in DOMAIN down' : k \in Nat /\ k > 0 /\ k + 1 \in DOMAIN down /\ down'[k] = down[k + 1]
  /\ \A j \in DOMAIN down : j \in Nat /\ j > 0 /\ (j > 1 => j - 1 \in DOMAIN down')
  /\ \A k \in DOMAIN down' : /\ Welcome(down', k) <=> Welcome(down, k + 1)
                             /\ Last(down', k) <=> Last(down, k + 1)

LEMMA TailShifts ==
  ASSUME IsList(down), down # <<>>, down' = Tail(down)
  PROVE  Shifted
<1> DEFINE n == Len(down)
<1>1. /\ IsList(down') /\ n \in Nat /\ n > 0 /\ DOMAIN down = 1..n /\ DOMAIN down' = 1..(n - 1)
      /\ \A k \in 1..(n - 1) : down'[k] = down[k + 1]
  BY ListTail
<1> HIDE DEF n
<1>2. \A k \in 1..(n - 1) : Welcome(down', k) <=> Welcome(down, k + 1)
  BY <1>1 DEF Welcome
<1>3. ASSUME NEW k \in 1..(n - 1)
      PROVE  Last(down', k) <=> Last(down, k + 1)
  <2>1. ASSUME Last(down', k), NEW j \in 1..n, j > k + 1
        PROVE  ~Welcome(down, j)
    <3>1. j - 1 \in 1..(n - 1) /\ j - 1 > k /\ (j - 1) + 1 = j
      BY <1>1, <2>1
    <3> QED
      BY <1>1, <1>2, <2>1, <3>1 DEF Last
  <2>2. ASSUME Last(down, k + 1), NEW j \in 1..(n - 1), j > k
        PROVE  ~Welcome(down', j)
    <3>1. j + 1 \in 1..n /\ j + 1 > k + 1
      BY <1>1, <2>2
    <3> QED
      BY <1>1, <1>2, <2>2, <3>1 DEF Last
  <2> QED
    BY <1>1, <2>1, <2>2 DEF Last
<1>4. /\ \A k \in 1..(n - 1) : k \in Nat /\ k > 0 /\ k + 1 \in 1..n
      /\ \A j \in 1..n : j \in Nat /\ j > 0 /\ (j > 1 => j - 1 \in 1..(n - 1))
      /\ 1 \in 1..n
  BY <1>1
<1> QED
  BY <1>1, <1>2, <1>3, <1>4 DEF Shifted

LEMMA FramesShift ==
  ASSUME Frames, Shifted, gen' = gen, tick' = tick
  PROVE  Frames'
<1>1. ASSUME NEW k \in DOMAIN down', Welcome(down', k)
      PROVE  /\ down'[k].gen \in Nat /\ down'[k].gen <= gen'
             /\ Last(down', k) <=> down'[k].gen = gen'
  BY <1>1 DEF Frames, Shifted
<1>2. ASSUME NEW k \in DOMAIN down', Last(down', k), ~Welcome(down', k)
      PROVE  /\ down'[k].tick \in Nat /\ down'[k].tick <= tick'
             /\ \A j \in DOMAIN down' : k < j => down'[k].tick <= down'[j].tick
  <2>1. k + 1 \in DOMAIN down /\ Last(down, k + 1) /\ ~Welcome(down, k + 1) /\ down'[k] = down[k + 1]
    BY <1>2 DEF Shifted
  <2>2. /\ down[k + 1].tick \in Nat /\ down[k + 1].tick <= tick
        /\ \A j \in DOMAIN down : k + 1 < j => down[k + 1].tick <= down[j].tick
    BY <2>1 DEF Frames
  <2>3. ASSUME NEW j \in DOMAIN down', k < j
        PROVE  j + 1 \in DOMAIN down /\ k + 1 < j + 1 /\ down'[j] = down[j + 1]
    BY <1>2, <2>3 DEF Shifted
  <2> QED
    BY <2>1, <2>2, <2>3
<1> QED
  BY <1>1, <1>2 DEF Frames, Shifted

(* A view decoded from views is a view, and the client keeps it as one.     *)
LEMMA DecodedViews ==
  ASSUME Views, NEW f, Carries(f), Held(f)
  PROVE  /\ Decode(f) \in View
         /\ Remember(f.tick, Decode(f)) \in [0..MaxTick -> View \cup {None}]
         /\ [tick |-> f.tick, view |-> Decode(f), truth |-> f.truth] # None
<1>1. Decode(f) \in View
  BY ViewSyncAssumption DEF Views, Held, Decode, Carries, View
<1>2. Remember(f.tick, Decode(f)) \in [0..MaxTick -> View \cup {None}]
  <2> DEFINE h == [history EXCEPT ![f.tick] = Decode(f)]
  <2>1. h \in [0..MaxTick -> View \cup {None}]
    BY <1>1 DEF Views
  <2> HIDE DEF h
  <2>2. ASSUME NEW u
        PROVE  [h EXCEPT ![u] = None] \in [0..MaxTick -> View \cup {None}]
    BY <2>1
  <2> QED
    BY <2>1, <2>2 DEF Remember, h
<1> QED
  BY <1>1, <1>2, ViewSyncAssumption DEF Carries, View

(* Every frame carries a view, computed against none or a tick of this world. *)
LEMMA ViewStep ==
  ASSUME StreamInv, [Next]_vars
  PROVE  Views'
<1> USE DEF StreamInv
<1>1. ASSUME NEW m, down' = Append(down, m), m.kind = "welcome" \/ Carries(m)
      PROVE  \A k \in DOMAIN down' : ~Welcome(down', k) => Carries(down'[k])
  <2>1. /\ DOMAIN down = 1..Len(down) /\ Len(down) \in Nat /\ DOMAIN down' = 1..(Len(down) + 1)
        /\ down'[Len(down) + 1] = m /\ \A k \in 1..Len(down) : down'[k] = down[k]
    BY <1>1, ListAppend DEF Frames
  <2>2. ASSUME NEW k \in DOMAIN down'
        PROVE  k = Len(down) + 1 \/ k \in 1..Len(down)
    BY <2>1
  <2> QED
    BY <1>1, <2>1, <2>2 DEF Views, Welcome
<1>2. ASSUME down # <<>>, down' = Tail(down)
      PROVE  \A k \in DOMAIN down' : ~Welcome(down', k) => Carries(down'[k])
  BY <1>2, TailShifts DEF Views, Shifted, Frames
<1>3. ASSUME NEW w \in View, Step(w) \/ ChangePaused(w)
      PROVE  Views'
  <2>1. world' = w /\ UNCHANGED <<down, history, baseline>>
    BY <1>3 DEF Step, ChangePaused, serverVars, clientVars
  <2> QED
    BY <2>1 DEF Views, Welcome, Carries
<1>4. ASSUME NEW t, NEW w \in View, Welcomed(t, w)
      PROVE  Views'
  <2>1. /\ world' = w /\ baseline' = None /\ history' = history
        /\ down' = Append(down, [kind |-> "welcome", gen |-> gen + 1])
    BY <1>4 DEF Welcomed, clientVars
  <2> QED
    BY <1>1, <2>1 DEF Views, Welcome, Carries
<1>5. CASE SendView
  <2> DEFINE m == Encode(NextBaseline, world)
  <2>1. down' = Append(down, m) /\ baseline' = NextBaseline /\ UNCHANGED <<world, history>>
    BY <1>5 DEF SendView, clientVars
  <2>2. NextBaseline # None => NextBaseline.tick \in 1..MaxTick
    BY DEF NextBaseline, Acked, Views
  <2>3. Carries(m)
    BY <2>2, ViewSyncAssumption DEF Carries, Encode, Views, Frames, View
  <2> HIDE DEF m
  <2> QED
    BY <1>1, <2>1, <2>2, <2>3 DEF Views, Welcome, Carries
<1>6. CASE GetWelcome
  <2>1. down # <<>> /\ down' = Tail(down) /\ history' = NoHistory /\ UNCHANGED <<world, baseline>>
    BY <1>6 DEF GetWelcome, Arrives, worldVars, serverVars
  <2> QED
    BY <1>2, <2>1 DEF Views, NoHistory, Welcome, Carries
<1>7. CASE GetView
  <2>1. /\ down # <<>> /\ down' = Tail(down) /\ Head(down).kind = "view" /\ Held(Head(down))
        /\ history' = Remember(Head(down).tick, Decode(Head(down)))
        /\ UNCHANGED <<world, baseline>>
    BY <1>7 DEF GetView, Arrives, worldVars, serverVars
  <2>2. Carries(Head(down))
    BY <2>1, ListTail DEF Views, Frames, Welcome
  <2>3. history' \in [0..MaxTick -> View \cup {None}]
    BY <2>1, <2>2, DecodedViews
  <2> QED
    BY <1>2, <2>1, <2>3 DEF Views, Welcome, Carries
<1>8. CASE MissBaseline
  <2>1. down # <<>> /\ down' = Tail(down) /\ UNCHANGED <<world, history, baseline>>
    BY <1>8 DEF MissBaseline, Arrives, worldVars, serverVars
  <2> QED
    BY <1>2, <2>1 DEF Views, Welcome, Carries
<1>9. CASE UNCHANGED <<world, down, history, baseline>>
  BY <1>9 DEF Views, Welcome, Carries
<1>10. ASSUME NEW w \in View, Swap(w) \/ \E t \in 0..MaxTick : Transfer(t, w)
       PROVE  Views'
  BY <1>4, <1>10 DEF Swap, Transfer
<1>11. CASE Pause \/ ReadAck \/ DropAck \/ UNCHANGED vars
  BY <1>9, <1>11 DEF Pause, ReadAck, DropAck, vars, worldVars, serverVars, clientVars
<1> QED
  BY <1>3, <1>5, <1>6, <1>7, <1>8, <1>10, <1>11 DEF Next

LEMMA StreamStep ==
  ASSUME StreamInv, [Next]_vars
  PROVE  StreamInv'
<1> USE DEF StreamInv
<1>0. Views'
  BY ViewStep
<1>1. ASSUME NEW w \in View, Step(w)
      PROVE  StreamInv'
  <2>1. /\ tick' \in Nat /\ tick <= tick' /\ tick \in Nat
        /\ UNCHANGED <<down, gen, cgen, shown, up, ack, ackDirty, baseline>>
    BY <1>1 DEF Step, Frames, serverVars, clientVars
  <2>2. Frames'
    BY <2>1 DEF Frames, Welcome, Last
  <2>3. Client'
    BY <2>1 DEF Client, Welcome
  <2>4. Acks'
    BY <2>1 DEF Acks, Sound, Decoded
  <2> QED
    BY <1>0, <2>2, <2>3, <2>4
<1>2. ASSUME NEW t \in 0..MaxTick, NEW w \in View, Welcomed(t, w)
      PROVE  StreamInv'
  <2> DEFINE m == [kind |-> "welcome", gen |-> gen + 1]
             n == Len(down)
  <2>0. gen \in Nat /\ IsList(down) /\ t \in Nat
    BY ViewSyncAssumption DEF Frames
  <2>1. m.kind = "welcome" /\ m.gen = gen + 1
    OBVIOUS
  <2>2. /\ down' = Append(down, m) /\ gen' = gen + 1 /\ tick' = t
        /\ ackDirty' = FALSE /\ baseline' = None
        /\ UNCHANGED <<up, cgen, shown>>
    BY <1>2 DEF Welcomed, clientVars
  <2> HIDE DEF m
  <2>3. /\ IsList(down') /\ n \in Nat /\ DOMAIN down = 1..n /\ DOMAIN down' = 1..(n + 1)
        /\ down'[n + 1] = m /\ \A k \in 1..n : down'[k] = down[k]
    BY <2>0, <2>2, ListAppend
  <2>4. Welcome(down', n + 1) /\ \A k \in 1..n : ~Last(down', k)
    BY <2>1, <2>3 DEF Welcome, Last
  <2>5. Frames'
    <3>1. ASSUME NEW k \in DOMAIN down', Welcome(down', k)
          PROVE  /\ down'[k].gen \in Nat /\ down'[k].gen <= gen'
                 /\ Last(down', k) <=> down'[k].gen = gen'
      <4>1. CASE k = n + 1
        BY <2>0, <2>1, <2>2, <2>3, <4>1 DEF Last
      <4>2. CASE k # n + 1
        <5>1. k \in 1..n /\ Welcome(down, k)
          BY <2>3, <3>1, <4>2 DEF Welcome
        <5>2. down[k].gen \in Nat /\ down[k].gen <= gen
          BY <2>3, <5>1 DEF Frames
        <5> QED
          BY <2>0, <2>2, <2>3, <2>4, <5>1, <5>2
      <4> QED
        BY <4>1, <4>2
    <3>2. ASSUME NEW k \in DOMAIN down', Last(down', k)
          PROVE  Welcome(down', k)
      BY <2>3, <2>4, <3>2
    <3> QED
      BY <2>0, <2>2, <2>3, <3>1, <3>2 DEF Frames
  <2>6. Client'
    BY <2>0, <2>2, <2>3, <2>4 DEF Client
  <2>7. Acks'
    BY <2>0, <2>2 DEF Acks, Sound
  <2> QED
    BY <1>0, <2>5, <2>6, <2>7
<1>3. CASE SendView
  <2> DEFINE m == Encode(NextBaseline, world)
             n == Len(down)
  <2>1. m.kind = "view" /\ m.tick = tick
    BY DEF Encode
  <2>2. /\ down' = Append(down, m) /\ ackDirty' = FALSE /\ baseline' = NextBaseline
        /\ UNCHANGED <<up, cgen, shown, gen, tick, ack>>
    BY <1>3 DEF SendView, clientVars
  <2>3. IsList(down) /\ gen \in Nat /\ tick \in Nat /\ cgen \in Nat
    BY DEF Frames, Client
  <2> HIDE DEF m
  <2>4. /\ IsList(down') /\ n \in Nat /\ DOMAIN down = 1..n /\ DOMAIN down' = 1..(n + 1)
        /\ down'[n + 1] = m /\ \A k \in 1..n : down'[k] = down[k]
    BY <2>2, <2>3, ListAppend
  <2>5. ~Welcome(down', n + 1) /\ \A k \in 1..n : (Welcome(down', k) <=> Welcome(down, k)) /\ (Last(down', k) <=> Last(down, k))
    BY <2>1, <2>4 DEF Welcome, Last
  <2>6. Frames'
    <3>1. ASSUME NEW k \in DOMAIN down', Welcome(down', k)
          PROVE  /\ down'[k].gen \in Nat /\ down'[k].gen <= gen'
                 /\ Last(down', k) <=> down'[k].gen = gen'
      <4>1. k \in 1..n
        BY <2>4, <2>5, <3>1
      <4> QED
        BY <2>2, <2>4, <2>5, <3>1, <4>1 DEF Frames
    <3>2. ASSUME NEW k \in DOMAIN down', Last(down', k), ~Welcome(down', k)
          PROVE  /\ down'[k].tick \in Nat /\ down'[k].tick <= tick'
                 /\ \A j \in DOMAIN down' : k < j => down'[k].tick <= down'[j].tick
      <4>1. CASE k = n + 1
        BY <2>1, <2>2, <2>3, <2>4, <4>1
      <4>2. CASE k # n + 1
        <5>1. k \in 1..n /\ Last(down, k) /\ ~Welcome(down, k)
          BY <2>4, <2>5, <3>2, <4>2
        <5>2. /\ down[k].tick \in Nat /\ down[k].tick <= tick
              /\ \A j \in 1..n : k < j => down[k].tick <= down[j].tick
          BY <2>4, <5>1 DEF Frames
        <5> QED
          BY <2>1, <2>2, <2>4, <5>1, <5>2
      <4> QED
        BY <4>1, <4>2
    <3> QED
      BY <2>2, <2>3, <2>4, <3>1, <3>2 DEF Frames
  <2>7. Client'
    BY <2>1, <2>2, <2>3, <2>4, <2>5 DEF Client
  <2>8. Acks'
    <3>1. baseline' # None => Decoded(baseline'.tick)
      <4>1. CASE Acked
        <5>1. baseline' = [tick |-> ack, view |-> sent[ack]] /\ ackDirty /\ ack # 0
          BY <2>2, <4>1, ViewSyncAssumption DEF NextBaseline, Acked
        <5> QED
          BY <5>1 DEF Acks, Sound
      <4>2. CASE ~Acked
        BY <2>2, <4>2 DEF NextBaseline, Acks, Sound
      <4> QED
        BY <4>1, <4>2
    <3> QED
      BY <2>2, <3>1 DEF Acks, Sound, Decoded
  <2> QED
    BY <1>0, <2>6, <2>7, <2>8
<1>4. CASE ReadAck \/ DropAck
  <2>1. /\ up # <<>> /\ up' = Tail(up)
        /\ \/ Head(up).gen = gen /\ ack' = Head(up).tick /\ ackDirty' = TRUE
           \/ UNCHANGED <<ack, ackDirty>>
        /\ UNCHANGED <<down, gen, tick, cgen, shown, baseline>>
    BY <1>4 DEF ReadAck, DropAck, worldVars, serverVars, clientVars
  <2>2. /\ IsList(up') /\ Head(up) = up[1] /\ 1 \in DOMAIN up
        /\ \A k \in DOMAIN up' : k + 1 \in DOMAIN up /\ up'[k] = up[k + 1]
    BY <2>1, ListTail DEF Acks, Sound
  <2>3. Frames' /\ Client'
    BY <2>1 DEF Frames, Client, Welcome, Last
  <2>4. Acks'
    <3>1. ackDirty' /\ ack' # 0 => Decoded(ack')
      <4>1. CASE Head(up).gen = gen /\ ack' = Head(up).tick
        <5>1. up[1].gen = gen => (up[1].tick # 0 => Decoded(up[1].tick))
          BY <2>2 DEF Acks, Sound
        <5> QED
          BY <2>2, <4>1, <5>1
      <4>2. CASE UNCHANGED <<ack, ackDirty>>
        BY <4>2 DEF Acks, Sound
      <4> QED
        BY <2>1, <4>1, <4>2
    <3> QED
      BY <2>1, <2>2, <3>1 DEF Acks, Sound, Decoded
  <2> QED
    BY <1>0, <2>3, <2>4
<1>5. CASE GetWelcome
  <2>1. /\ down # <<>> /\ Welcome(down, 1) /\ down' = Tail(down) /\ cgen' = down[1].gen
        /\ shown' = None
        /\ UNCHANGED <<gen, tick, up, ack, ackDirty, baseline>>
    BY <1>5, ListTail DEF GetWelcome, Arrives, Welcome, Frames, worldVars, serverVars
  <2>2. Shifted
    BY <2>1, TailShifts DEF Frames
  <2>3. Frames'
    BY <2>1, <2>2, FramesShift
  <2>4. cgen' \in Nat /\ (cgen' < gen \/ cgen' = gen) /\ (Last(down, 1) <=> cgen' = gen) /\ cgen < gen
    BY <2>1, <2>2 DEF Frames, Client, Shifted
  <2>5. Client'
    <3>1. (\E k \in DOMAIN down' : Welcome(down', k)) <=> ~Last(down, 1)
      <4>1. ASSUME NEW k \in DOMAIN down', Welcome(down', k)
            PROVE  ~Last(down, 1)
        BY <2>2, <4>1 DEF Shifted, Last
      <4>2. ASSUME ~Last(down, 1)
            PROVE  \E k \in DOMAIN down' : Welcome(down', k)
        <5>1. PICK j \in DOMAIN down : j > 1 /\ Welcome(down, j)
          BY <4>2 DEF Last
        <5>2. j - 1 \in DOMAIN down' /\ (j - 1) + 1 = j
          BY <2>2, <5>1 DEF Shifted
        <5> QED
          BY <2>2, <5>1, <5>2 DEF Shifted
      <4> QED
        BY <4>1, <4>2
    <3> QED
      BY <2>1, <2>4, <3>1 DEF Client, Frames
  <2>6. Acks'
    <3>1. \A k \in DOMAIN up : up[k].gen # gen
      BY <2>4 DEF Acks, Sound, Client, Frames
    <3>2. ~(ackDirty /\ ack # 0) /\ baseline = None
      BY <2>4 DEF Acks, Sound, Decoded, Client, Frames
    <3> QED
      BY <2>1, <3>1, <3>2 DEF Acks, Sound
  <2> QED
    BY <1>0, <2>3, <2>5, <2>6
<1>6. CASE GetView \/ MissBaseline
  <2>0. PICK f, c : f = down[1] /\ c = cgen
    OBVIOUS
  <2> DEFINE reset == [tick |-> 0, gen |-> c]
             answer == [tick |-> f.tick, gen |-> c]
  <2>1. /\ down # <<>> /\ ~Welcome(down, 1) /\ down' = Tail(down)
        /\ UNCHANGED <<gen, tick, cgen, ack, ackDirty, baseline>>
        /\ \/ shown' # None /\ shown'.tick = f.tick /\ up' = Append(up, answer)
           \/ shown' = shown /\ (up' = up \/ up' = Append(up, reset))
    <3>1. down # <<>> /\ Head(down) = down[1] /\ down' = Tail(down) /\ down[1].kind = "view"
      BY <1>6, ListTail DEF GetView, MissBaseline, Arrives, Frames
    <3>2. CASE GetView
      <4>0. 1 \in DOMAIN down
        BY <3>1, ListTail DEF Frames
      <4>1. Carries(f) /\ Held(f)
        BY <2>0, <3>1, <3>2, <4>0 DEF GetView, Views, Welcome
      <4>2. /\ shown' = [tick |-> f.tick, view |-> Decode(f), truth |-> f.truth]
            /\ up' = Append(up, answer)
        BY <2>0, <3>1, <3>2 DEF GetView
      <4>3. shown' # None /\ shown'.tick = f.tick
        BY <4>1, <4>2, DecodedViews
      <4> QED
        BY <3>1, <3>2, <4>2, <4>3 DEF GetView, Welcome, worldVars, serverVars
    <3>3. CASE MissBaseline
      BY <2>0, <3>1, <3>3 DEF MissBaseline, Welcome, worldVars, serverVars
    <3> QED
      BY <1>6, <3>2, <3>3
  <2> HIDE DEF reset, answer
  <2>3. Shifted
    BY <2>1, TailShifts DEF Frames
  <2>4. Frames'
    BY <2>1, <2>3, FramesShift
  <2>5. (\E k \in DOMAIN down' : Welcome(down', k)) <=> \E k \in DOMAIN down : Welcome(down, k)
    <3>1. ASSUME NEW k \in DOMAIN down, Welcome(down, k)
          PROVE  \E j \in DOMAIN down' : Welcome(down', j)
      <4>1. k > 1 /\ k - 1 \in DOMAIN down' /\ (k - 1) + 1 = k
        BY <2>1, <2>3, <3>1 DEF Shifted
      <4> QED
        BY <2>3, <3>1, <4>1 DEF Shifted
    <3> QED
      BY <2>3, <3>1 DEF Shifted
  <2>6. ASSUME cgen = gen
        PROVE  /\ f.tick \in Nat /\ f.tick <= tick
               /\ \A k \in DOMAIN down' : f.tick <= down'[k].tick
    <3>1. Last(down, 1) /\ ~Welcome(down, 1) /\ 1 \in DOMAIN down
      BY <2>1, <2>3, <2>6 DEF Client, Last, Frames, Shifted
    <3>2. /\ f.tick \in Nat /\ f.tick <= tick
          /\ \A j \in DOMAIN down : 1 < j => f.tick <= down[j].tick
      BY <2>0, <3>1 DEF Frames
    <3>3. \A k \in DOMAIN down' : k + 1 \in DOMAIN down /\ 1 < k + 1 /\ down'[k] = down[k + 1]
      BY <2>3 DEF Shifted
    <3> QED
      BY <3>2, <3>3
  <2>7. ASSUME cgen = gen, shown # None
        PROVE  /\ shown.tick \in Nat /\ shown.tick <= tick /\ shown.tick <= f.tick
               /\ \A k \in DOMAIN down' : shown.tick <= down'[k].tick
    BY <2>0, <2>3, <2>7 DEF Client, Shifted
  <2>8. Client'
    <3>1. cgen' = gen' /\ shown' # None =>
            /\ shown'.tick \in Nat /\ shown'.tick <= tick'
            /\ \A k \in DOMAIN down' : shown'.tick <= down'[k].tick
      BY <2>1, <2>6, <2>7
    <3> QED
      BY <2>1, <2>5, <3>1 DEF Client
  <2>9. ASSUME NEW t, Decoded(t)
        PROVE  Decoded(t)'
    BY <2>1, <2>6, <2>7, <2>9 DEF Decoded
  <2>10. cgen \in Nat /\ gen \in Nat /\ cgen <= gen
    BY DEF Client, Frames
  <2>11. answer.gen = cgen /\ answer.tick = f.tick /\ reset.gen = cgen /\ reset.tick = 0
    BY <2>0 DEF answer, reset
  <2>12. (shown' # None /\ shown'.tick = f.tick /\ cgen = gen) => Decoded(f.tick)'
    <3>1. ASSUME shown' # None, shown'.tick = f.tick, cgen = gen
          PROVE  cgen' = gen' /\ shown' # None /\ f.tick \in Nat /\ f.tick <= shown'.tick
      BY <2>1, <2>6, <3>1
    <3> QED
      BY <3>1 DEF Decoded
  <2>13. Acks'
    <3>1. \A k \in DOMAIN up : Sound(up[k])
      BY DEF Acks
    <3>2. ASSUME NEW a, Sound(a)
          PROVE  Sound(a)'
      BY <2>1, <2>9, <3>2 DEF Sound
    <3>3. Sound(reset)'
      BY <2>1, <2>0, <2>10, <2>11 DEF Sound
    <3>4. (shown' # None /\ shown'.tick = f.tick) => Sound(answer)'
      BY <2>1, <2>0, <2>10, <2>11, <2>12 DEF Sound
    <3>5. IsList(up') /\ (\A k \in DOMAIN up : Sound(up[k]))'
      <4>1. CASE up' = up
        BY <3>1, <3>2, <4>1 DEF Acks
      <4>2. ASSUME NEW a, Sound(a)', up' = Append(up, a)
            PROVE  IsList(up') /\ (\A k \in DOMAIN up : Sound(up[k]))'
        <5>1. /\ IsList(up') /\ DOMAIN up = 1..Len(up) /\ Len(up) \in Nat
              /\ DOMAIN up' = 1..(Len(up) + 1)
              /\ up'[Len(up) + 1] = a /\ \A k \in 1..Len(up) : up'[k] = up[k]
          BY <4>2, ListAppend DEF Acks
        <5>2. ASSUME NEW k \in DOMAIN up'
              PROVE  k = Len(up) + 1 \/ k \in 1..Len(up)
          BY <5>1
        <5> QED
          BY <3>1, <3>2, <4>2, <5>1, <5>2 DEF Sound, Decoded
      <4> QED
        BY <2>1, <3>3, <3>4, <4>1, <4>2
    <3>6. /\ ackDirty' /\ ack' # 0 => Decoded(ack)'
          /\ baseline' # None => Decoded(baseline.tick)'
      BY <2>1, <2>9 DEF Acks
    <3> QED
      BY <2>1, <3>5, <3>6 DEF Acks
  <2> QED
    BY <1>0, <2>4, <2>8, <2>13
<1>8. CASE UNCHANGED <<down, gen, tick, cgen, shown, up, ack, ackDirty, baseline>>
  BY <1>0, <1>8 DEF Frames, Client, Acks, Sound, Welcome, Last, Decoded
<1>9. ASSUME NEW w \in View, Swap(w) \/ \E t \in 0..MaxTick : Transfer(t, w)
      PROVE  StreamInv'
  <2>1. 0 \in 0..MaxTick
    BY ViewSyncAssumption
  <2> QED
    BY <1>2, <1>9, <2>1 DEF Swap, Transfer
<1>10. CASE Pause \/ UNCHANGED vars \/ \E w \in View : ChangePaused(w)
  BY <1>8, <1>10 DEF Pause, ChangePaused, vars, worldVars, serverVars, clientVars
<1> QED
  BY <1>1, <1>3, <1>4, <1>5, <1>6, <1>9, <1>10 DEF Next

THEOREM Streams == Spec => []StreamInv
<1>1. Init => StreamInv
  BY StreamInit
<1>2. StreamInv /\ [Next]_vars => StreamInv'
  BY StreamStep
<1> QED
  BY <1>1, <1>2, PTL DEF Spec

(* A view becomes the baseline of deltas only when the client has decoded  *)
(* it, or a later view of the same generation (server/server.go: frameFor, *)
(* readLoop; web/client.js: decodeViewFrame).                              *)
THEOREM BaselineDecoded == Spec => []BaselineWasDecoded
<1>1. StreamInv => BaselineWasDecoded
  BY DEF StreamInv, Acks, Decoded, BaselineWasDecoded
<1> QED
  BY <1>1, Streams, PTL

(***************************************************************************)
(* A client that waits: what it can decode, or a welcome, is on its way;   *)
(* or its reset is the last of its acks; or the server has read all of     *)
(* them and sends a keyframe next.                                         *)
(***************************************************************************)
Reaches == \E k \in DOMAIN down : Welcome(down, k) \/ Held(down[k])
Asks == up # <<>> /\ up[Len(up)].tick = 0 /\ up[Len(up)].gen = cgen

Answered ==
  "drop" \notin mishaps /\ await => Reaches \/ Asks \/ (up = <<>> /\ NextBaseline = None)

AnswerInv == StreamInv /\ Answered

LEMMA ReachesLonger ==
  ASSUME Frames, Reaches, NEW m, down' = Append(down, m), history' = history
  PROVE  Reaches'
<1>1. /\ DOMAIN down = 1..Len(down) /\ Len(down) \in Nat /\ DOMAIN down' = 1..(Len(down) + 1)
      /\ \A k \in 1..Len(down) : down'[k] = down[k]
  BY ListAppend DEF Frames
<1>2. PICK k \in DOMAIN down : Welcome(down, k) \/ Held(down[k])
  BY DEF Reaches
<1>3. k \in DOMAIN down' /\ down'[k] = down[k]
  BY <1>1
<1> QED
  BY <1>2, <1>3 DEF Reaches, Welcome, Held

LEMMA AnswerStep ==
  ASSUME AnswerInv, [Next]_vars
  PROVE  Answered'
<1> SUFFICES ASSUME "drop" \notin mishaps', await'
             PROVE  Reaches' \/ Asks' \/ (up' = <<>> /\ NextBaseline' = None)
  BY DEF Answered
<1> USE DEF AnswerInv, StreamInv
<1>1. ASSUME UNCHANGED <<down, up, cgen, history, NextBaseline>>, await, "drop" \notin mishaps
      PROVE  Reaches' \/ Asks' \/ (up' = <<>> /\ NextBaseline' = None)
  BY <1>1 DEF Answered, Reaches, Asks, Welcome, Held
<1>2. ASSUME UNCHANGED <<down, up, clientVars, serverVars>>, "drop" \notin mishaps
      PROVE  Reaches' \/ Asks' \/ (up' = <<>> /\ NextBaseline' = None)
  BY <1>1, <1>2 DEF clientVars, serverVars, NextBaseline, Acked
<1>3. CASE Pause \/ UNCHANGED vars \/ \E w \in View : Step(w) \/ ChangePaused(w)
  <2>1. UNCHANGED <<down, up, clientVars, serverVars>> /\ mishaps \subseteq mishaps'
    BY <1>3 DEF Pause, vars, Step, ChangePaused
  <2> QED
    BY <1>2, <2>1
<1>4. ASSUME NEW t, NEW w, Welcomed(t, w)
      PROVE  Reaches'
  <2> DEFINE m == [kind |-> "welcome", gen |-> gen + 1]
  <2>1. down' = Append(down, m) /\ m.kind = "welcome"
    BY <1>4 DEF Welcomed
  <2>2. Len(down) + 1 \in DOMAIN down' /\ down'[Len(down) + 1] = m
    BY <2>1, ListAppend DEF Frames
  <2> QED
    BY <2>1, <2>2 DEF Reaches, Welcome
<1>5. CASE SendView
  <2> DEFINE m == Encode(NextBaseline, world)
  <2>1. /\ down' = Append(down, m) /\ await /\ "drop" \notin mishaps
        /\ UNCHANGED <<up, cgen, history>>
    BY <1>5 DEF SendView, clientVars
  <2>2. CASE Reaches
    BY <2>1, <2>2, ReachesLonger
  <2>3. CASE Asks
    BY <2>1, <2>3 DEF Asks
  <2>4. CASE NextBaseline = None
    <3>1. m.base = 0
      BY <2>4 DEF Encode
    <3>2. Len(down) + 1 \in DOMAIN down' /\ down'[Len(down) + 1] = m
      BY <2>1, ListAppend DEF Frames
    <3> QED
      BY <3>1, <3>2 DEF Reaches, Held
  <2> QED
    BY <2>1, <2>2, <2>3, <2>4 DEF Answered
<1>6. CASE ReadAck
  <2>1. /\ up # <<>> /\ up' = Tail(up) /\ await /\ "drop" \notin mishaps
        /\ IF Head(up).gen = gen THEN ack' = Head(up).tick /\ ackDirty' = TRUE ELSE UNCHANGED <<ack, ackDirty>>
        /\ UNCHANGED <<gen, down, cgen, history, sent, baseline>>
    BY <1>6 DEF ReadAck, clientVars
  <2>2. CASE Reaches
    BY <2>1, <2>2 DEF Reaches, Welcome, Held
  <2>3. CASE Asks
    <3>1. /\ Len(up) \in Nat /\ Len(up) > 0 /\ Len(up') = Len(up) - 1 /\ Head(up) = up[1] /\ IsList(up')
          /\ \A k \in 1..(Len(up) - 1) : up'[k] = up[k + 1]
      BY <2>1, ListTail DEF Acks
    <3>2. CASE Len(up) = 1
      <4>1. up' = <<>>
        BY <3>1, <3>2 DEF IsList
      <4>2. Head(up).tick = 0 /\ Head(up).gen = cgen
        BY <2>3, <3>1, <3>2 DEF Asks
      <4>3. CASE gen = cgen
        <5>1. ack' = 0 /\ ackDirty'
          BY <2>1, <4>2, <4>3
        <5>2. NextBaseline' = None
          BY <5>1, ViewSyncAssumption DEF NextBaseline, Acked
        <5> QED
          BY <4>1, <5>2
      <4>4. CASE gen # cgen
        BY <2>1, <4>4 DEF Client, Reaches, Welcome
      <4> QED
        BY <4>3, <4>4
    <3>3. CASE Len(up) # 1
      <4>1. Len(up) - 1 \in 1..(Len(up) - 1) /\ (Len(up) - 1) + 1 = Len(up)
        BY <3>1, <3>3
      <4>2. up' # <<>> /\ up'[Len(up')] = up[Len(up)]
        BY <3>1, <4>1
      <4> QED
        BY <2>1, <2>3, <4>2 DEF Asks
    <3> QED
      BY <3>2, <3>3
  <2> QED
    BY <2>1, <2>2, <2>3 DEF Answered
<1>7. CASE MissBaseline
  <2>1. /\ down # <<>> /\ down' = Tail(down) /\ Head(down).kind = "view" /\ ~Held(Head(down))
        /\ up' = IF await THEN up ELSE Append(up, [tick |-> 0, gen |-> cgen])
        /\ "drop" \notin mishaps
        /\ UNCHANGED <<cgen, history, NextBaseline>>
    BY <1>7 DEF MissBaseline, Arrives, serverVars, NextBaseline, Acked
  <2>2. CASE ~await
    <3>1. /\ Len(up) \in Nat /\ Len(up') = Len(up) + 1 /\ up'[Len(up')] = [tick |-> 0, gen |-> cgen]
      BY <2>1, <2>2, ListAppend DEF Acks
    <3>2. up' # <<>>
      BY <3>1
    <3>3. Asks'
      BY <2>1, <3>1, <3>2 DEF Asks
    <3> QED
      BY <3>3
  <2>3. CASE await
    <3>1. CASE Reaches
      <4>1. Shifted /\ Head(down) = down[1]
        BY <2>1, TailShifts, ListTail DEF Frames
      <4>2. PICK k \in DOMAIN down : Welcome(down, k) \/ Held(down[k])
        BY <3>1 DEF Reaches
      <4>3. k > 1 /\ k \in Nat
        BY <2>1, <4>1, <4>2 DEF Welcome, Shifted
      <4>4. k - 1 \in DOMAIN down' /\ (k - 1) + 1 = k
        BY <4>1, <4>2, <4>3 DEF Shifted
      <4>5. down'[k - 1] = down[k]
        BY <4>1, <4>4 DEF Shifted
      <4> QED
        BY <2>1, <4>2, <4>4, <4>5 DEF Reaches, Welcome, Held
    <3>2. CASE ~Reaches
      BY <2>1, <2>3, <3>2 DEF Answered, Asks
    <3> QED
      BY <3>1, <3>2
  <2> QED
    BY <2>2, <2>3
<1>8. ~DropAck /\ ~GetWelcome /\ ~GetView
  BY DEF DropAck, GetWelcome, GetView
<1> QED
  BY <1>3, <1>4, <1>5, <1>6, <1>7, <1>8 DEF Next, Swap, Transfer

(* A client that waits for a keyframe is answered, while the rate limit    *)
(* drops no ack (server/server.go: frameFor; web/client.js: awaitKeyframe). *)
THEOREM WaitersAnswered == Spec => []AnsweredUnlessDropped
<1>1. Init => Answered
  BY DEF Init, Answered
<1>2. Answered /\ StreamInv /\ StreamInv' /\ [Next]_vars => Answered'
  BY AnswerStep DEF AnswerInv
<1>3. Answered /\ StreamInv => AnsweredUnlessDropped
  <2> SUFFICES ASSUME Answered, StreamInv, "drop" \notin mishaps, await
               PROVE  WaitingIsAnswered
    BY DEF AnsweredUnlessDropped, WaitingIsAnswered
  <2>1. CASE Asks
    <3>1. Len(up) \in DOMAIN up
      BY <2>1 DEF Asks, StreamInv, Acks, IsList
    <3> QED
      BY <2>1, <3>1 DEF Asks, WaitingIsAnswered
  <2>2. CASE Reaches
    BY <2>2 DEF Reaches, Welcome, WaitingIsAnswered
  <2> QED
    BY <2>1, <2>2 DEF Answered, WaitingIsAnswered
<1> QED
  BY <1>1, <1>2, <1>3, Streams, PTL DEF Spec

(***************************************************************************)
(* In a world that was never paused every tick is sent once.  So a delta   *)
(* is computed from the view its client holds under that tick, if it holds *)
(* one; behind a welcome there are only keyframes, for no ack of that      *)
(* generation can have been sent.                                          *)
(***************************************************************************)
Before(d, k) == \A j \in DOMAIN d : j <= k => ~Welcome(d, j)  \* no welcome up to k
Between(d, j, k) == \A i \in DOMAIN d : j <= i /\ i <= k => ~Welcome(d, i)

(* Whatever was seen of this world was seen before its tick that is next sent. *)
Past(t) == t \in Nat /\ t <= tick /\ (stepped => t < tick)

(* A frame holds the difference between its base and the truth.            *)
Differs(f) ==
  IF f.base = 0 THEN f.gone = {} /\ f.new = f.truth
  ELSE /\ shown # None /\ f.base <= shown.tick
       /\ history[f.base] # None =>
            f.gone = history[f.base] \ f.truth /\ f.new = f.truth \ history[f.base]

Deltas ==
  /\ \A k \in DOMAIN down : ~Welcome(down, k) =>
       /\ Before(down, k) => /\ Differs(down[k])
                             /\ shown # None => shown.tick < down[k].tick
       /\ ~Before(down, k) => down[k].base = 0 /\ down[k].gone = {} /\ down[k].new = down[k].truth
       /\ Last(down, k) => /\ Past(down[k].tick)
                           /\ \A t \in 1..MaxTick : t = down[k].tick /\ sent[t] # None => sent[t] = down[k].truth
       /\ \A j \in DOMAIN down : k < j /\ Between(down, k, j) => down[k].tick < down[j].tick

Copies ==
  /\ sent \in [1..MaxTick -> View \cup {None}]
  /\ \A t \in 1..MaxTick : sent[t] # None => Past(t)
  /\ \A t \in 0..MaxTick : history[t] # None => shown # None /\ t <= shown.tick
  /\ shown # None => shown.tick \in Nat /\ shown.view = shown.truth
  /\ cgen = gen =>
       /\ shown # None => Past(shown.tick)
       /\ \A t \in 1..MaxTick : sent[t] # None /\ history[t] # None => sent[t] = history[t]
       /\ baseline # None /\ history[baseline.tick] # None => baseline.view = history[baseline.tick]

Exact == "pause" \notin mishaps => ~paused /\ Deltas /\ Copies

LEMMA ExactInit == Init => Exact
<1> SUFFICES ASSUME Init PROVE ~paused /\ Deltas /\ Copies
  BY DEF Exact
<1>1. StreamInv
  BY StreamInit
<1>2. \A k \in DOMAIN down : Welcome(down, k)
  <2> DEFINE w == [kind |-> "welcome", gen |-> 1]
  <2>1. DOMAIN <<w>> = {1} /\ <<w>>[1] = w
    OBVIOUS
  <2>2. down = <<w>> /\ w.kind = "welcome"
    BY DEF Init
  <2> HIDE DEF w
  <2> QED
    BY <2>1, <2>2 DEF Welcome
<1>3. Deltas
  BY <1>2 DEF Deltas
<1>4. Copies
  BY <1>1 DEF Init, Copies, NoneSent, NoHistory
<1> QED
  BY <1>3, <1>4 DEF Init

(* What a shorter list knows of its welcomes. *)
LEMMA DeltasShift ==
  ASSUME Frames, Deltas, Shifted, NEW k \in DOMAIN down', ~Welcome(down', k)
  PROVE  /\ k + 1 \in DOMAIN down /\ down'[k] = down[k + 1] /\ ~Welcome(down, k + 1)
         /\ ~Welcome(down, 1) => (Before(down', k) <=> Before(down, k + 1))
         /\ Last(down', k) <=> Last(down, k + 1)
         /\ \A j \in DOMAIN down' : k < j /\ Between(down', k, j) => down'[k].tick < down'[j].tick
<1>1. k + 1 \in DOMAIN down /\ down'[k] = down[k + 1] /\ ~Welcome(down, k + 1)
  BY DEF Shifted
<1>2. Last(down', k) <=> Last(down, k + 1)
  BY DEF Shifted
<1>3. ASSUME ~Welcome(down, 1), Before(down', k), NEW j \in DOMAIN down, j <= k + 1
      PROVE  ~Welcome(down, j)
  <2>1. CASE j > 1
    <3>1. j - 1 \in DOMAIN down' /\ (j - 1) + 1 = j /\ j - 1 <= k
      BY <1>3, <2>1 DEF Shifted
    <3> QED
      BY <1>3, <3>1 DEF Before, Shifted
  <2>2. CASE ~(j > 1)
    <3>1. j = 1
      BY <1>3, <2>2 DEF Shifted
    <3> QED
      BY <1>3, <3>1
  <2> QED
    BY <2>1, <2>2
<1>4. ASSUME Before(down, k + 1), NEW j \in DOMAIN down', j <= k
      PROVE  ~Welcome(down', j)
  <2>1. j + 1 \in DOMAIN down /\ j + 1 <= k + 1
    BY <1>4 DEF Shifted
  <2> QED
    BY <1>4, <2>1 DEF Before, Shifted
<1>5. ASSUME NEW j \in DOMAIN down', k < j, Between(down', k, j)
      PROVE  down'[k].tick < down'[j].tick
  <2>1. k + 1 < j + 1 /\ j + 1 \in DOMAIN down /\ down'[j] = down[j + 1]
    BY <1>5 DEF Shifted
  <2>2. Between(down, k + 1, j + 1)
    <3>1. ASSUME NEW i \in DOMAIN down, k + 1 <= i, i <= j + 1
          PROVE  ~Welcome(down, i)
      <4>1. i - 1 \in DOMAIN down' /\ (i - 1) + 1 = i /\ k <= i - 1 /\ i - 1 <= j
        BY <1>5, <3>1 DEF Shifted
      <4> QED
        BY <1>5, <4>1 DEF Between, Shifted
    <3> QED
      BY <3>1 DEF Between
  <2> QED
    BY <1>1, <2>1, <2>2 DEF Deltas
<1> QED
  BY <1>1, <1>2, <1>3, <1>4, <1>5 DEF Before

(* What a longer one knows of those already in it. *)
LEMMA DeltasLonger ==
  ASSUME IsList(down), NEW m, down' = Append(down, m), NEW k \in DOMAIN down
  PROVE  /\ k \in DOMAIN down' /\ down'[k] = down[k]
         /\ Welcome(down', k) <=> Welcome(down, k)
         /\ Before(down', k) <=> Before(down, k)
         /\ Last(down', k) => Last(down, k)
         /\ \A j \in DOMAIN down : Between(down', k, j) <=> Between(down, k, j)
<1>1. /\ DOMAIN down = 1..Len(down) /\ Len(down) \in Nat /\ DOMAIN down' = 1..(Len(down) + 1)
      /\ \A j \in 1..Len(down) : down'[j] = down[j]
  BY ListAppend
<1> DEFINE n == Len(down)
<1>2. n \in Nat /\ k \in 1..n /\ DOMAIN down = 1..n /\ DOMAIN down' = 1..(n + 1)
  BY <1>1
<1>3. \A j \in 1..n : Welcome(down', j) <=> Welcome(down, j)
  BY <1>1 DEF Welcome
<1> HIDE DEF n
<1>4. \A i \in 1..(n + 1), j \in 1..n : i <= j => i \in 1..n
  BY <1>2
<1> QED
  BY <1>1, <1>2, <1>3, <1>4 DEF Before, Last, Between

LEMMA NextBaselineHeld ==
  ASSUME StreamInv, Copies, NextBaseline # None
  PROVE  /\ NextBaseline.tick \in 1..MaxTick
         /\ cgen = gen /\ shown # None /\ NextBaseline.tick <= shown.tick
         /\ history[NextBaseline.tick] # None => NextBaseline.view = history[NextBaseline.tick]
<1>1. CASE Acked
  <2>1. NextBaseline = [tick |-> ack, view |-> sent[ack]] /\ ackDirty /\ ack # 0 /\ ack \in 1..MaxTick
    BY <1>1, ViewSyncAssumption DEF NextBaseline, Acked
  <2>2. Decoded(ack)
    BY <2>1 DEF StreamInv, Acks
  <2> QED
    BY <1>1, <2>1, <2>2 DEF Acked, Copies, Decoded
<1>2. CASE ~Acked
  <2>1. NextBaseline = baseline
    BY <1>2 DEF NextBaseline
  <2>2. Decoded(baseline.tick)
    BY <2>1 DEF StreamInv, Acks
  <2> QED
    BY <2>1, <2>2 DEF StreamInv, Views, Copies, Decoded
<1> QED
  BY <1>1, <1>2

(* A view sent leaves the earlier ones of its world as they were. *)
LEMMA SentViews ==
  ASSUME Copies, SendView, world \in View
  PROVE  /\ sent' \in [1..MaxTick -> View \cup {None}]
         /\ \A t \in 1..MaxTick : sent'[t] # None => sent'[t] = sent[t] \/ (t = tick /\ sent'[t] = world)
         /\ \A t \in 1..MaxTick : t = tick /\ sent'[t] # None => sent'[t] = world
<1> DEFINE views == Forget(sent, sentTicks, Settled)
           ticks == SubSeq(sentTicks, Settled + 1, Len(sentTicks))
           over == Len(ticks) + 1 - MaxUnacked
<1>2. sent \in [1..MaxTick -> View \cup {None}]
  BY DEF Copies
<1>3. /\ views \in [1..MaxTick -> View \cup {None}]
      /\ \A t \in 1..MaxTick : views[t] # None => views[t] = sent[t]
  BY <1>2 DEF Forget
<1>4. IF tick = 0 THEN sent' = views
      ELSE sent' = Forget([views EXCEPT ![tick] = world], Append(ticks, tick), over)
  BY DEF SendView
<1> HIDE DEF views, ticks, over
<1>5. CASE tick = 0
  BY <1>3, <1>4, <1>5
<1>6. CASE tick # 0
  <2> DEFINE v == [views EXCEPT ![tick] = world]
  <2>2. /\ v \in [1..MaxTick -> View \cup {None}]
        /\ \A t \in 1..MaxTick : v[t] = IF t = tick THEN world ELSE views[t]
    BY <1>3
  <2>3. sent' = Forget(v, Append(ticks, tick), over)
    BY <1>4, <1>6
  <2> HIDE DEF v
  <2>4. /\ sent' \in [1..MaxTick -> View \cup {None}]
        /\ \A t \in 1..MaxTick : sent'[t] # None => sent'[t] = v[t]
    BY <2>2, <2>3 DEF Forget
  <2> QED
    BY <1>3, <2>2, <2>4
<1> QED
  BY <1>5, <1>6

(* The client keeps what it decodes, and nothing else changes in its history. *)
LEMMA Remembered ==
  ASSUME Views, NEW t \in 0..MaxTick, NEW u, NEW v, Remember(u, v)[t] # None
  PROVE  Remember(u, v)[t] = IF t = u THEN v ELSE history[t]
<1> DEFINE h == [history EXCEPT ![u] = v]
<1>1. h \in [0..MaxTick -> {h[x] : x \in 0..MaxTick}] /\ h[t] = IF t = u THEN v ELSE history[t]
  BY DEF Views
<1> HIDE DEF h
<1>2. ASSUME NEW x
      PROVE  [h EXCEPT ![x] = None][t] = None \/ [h EXCEPT ![x] = None][t] = h[t]
  BY <1>1
<1> QED
  BY <1>1, <1>2 DEF Remember, h

LEMMA ExactTail ==
  ASSUME StreamInv, ~paused, Deltas, Copies, GetWelcome \/ GetView \/ MissBaseline
  PROVE  Deltas' /\ Copies'
<1> USE DEF StreamInv
<1>1. /\ down # <<>> /\ down' = Tail(down) /\ Head(down) = down[1]
      /\ UNCHANGED <<tick, stepped, sent, gen, baseline>>
  BY ListTail DEF GetWelcome, GetView, MissBaseline, Arrives, Frames, worldVars, serverVars
<1>2. Shifted
  BY <1>1, TailShifts DEF Frames
<1>3. ASSUME NEW k \in DOMAIN down', ~Welcome(down', k)
      PROVE  /\ Last(down', k) => /\ Past(down[k].tick)'
                                  /\ \A t \in 1..MaxTick : t = down'[k].tick /\ sent'[t] # None => sent'[t] = down'[k].truth
             /\ \A j \in DOMAIN down' : k < j /\ Between(down', k, j) => down'[k].tick < down'[j].tick
  <2>1. /\ k + 1 \in DOMAIN down /\ down'[k] = down[k + 1] /\ ~Welcome(down, k + 1)
        /\ Last(down', k) <=> Last(down, k + 1)
        /\ \A j \in DOMAIN down' : k < j /\ Between(down', k, j) => down'[k].tick < down'[j].tick
    BY <1>2, <1>3, DeltasShift DEF Frames
  <2> QED
    BY <1>1, <2>1 DEF Deltas, Past
<1>4. /\ sent' \in [1..MaxTick -> View \cup {None}]
      /\ \A t \in 1..MaxTick : sent'[t] # None => Past(t)'
  BY <1>1 DEF Copies, Past
<1>5. CASE GetWelcome
  <2>1. Welcome(down, 1) /\ history' = NoHistory /\ shown' = None
    BY <1>1, <1>5 DEF GetWelcome, Arrives, Welcome
  <2>2. ASSUME NEW k \in DOMAIN down', ~Welcome(down', k)
        PROVE  down'[k].base = 0 /\ down'[k].gone = {} /\ down'[k].new = down'[k].truth
    <3>1. k + 1 \in DOMAIN down /\ down'[k] = down[k + 1] /\ ~Welcome(down, k + 1) /\ 1 \in DOMAIN down /\ 1 <= k + 1
      BY <1>2, <2>2 DEF Shifted
    <3> QED
      BY <2>1, <3>1 DEF Deltas, Before
  <2>3. Deltas'
    BY <1>3, <2>1, <2>2 DEF Deltas, Differs
  <2>4. \A t \in 0..MaxTick : history'[t] = None
    BY <2>1 DEF NoHistory
  <2>5. baseline # None => baseline.tick \in 0..MaxTick
    BY ViewSyncAssumption DEF Views
  <2>6. Copies'
    BY <1>1, <1>4, <2>1, <2>4, <2>5, ViewSyncAssumption DEF Copies
  <2> QED
    BY <2>3, <2>6
<1>6. CASE MissBaseline
  <2>1. ~Welcome(down, 1) /\ UNCHANGED <<history, shown, cgen>>
    BY <1>1, <1>6 DEF MissBaseline, Arrives, Welcome
  <2>2. ASSUME NEW k \in DOMAIN down', ~Welcome(down', k)
        PROVE  /\ k + 1 \in DOMAIN down /\ down'[k] = down[k + 1] /\ ~Welcome(down, k + 1)
               /\ Before(down', k) <=> Before(down, k + 1)
    BY <1>2, <2>1, <2>2, DeltasShift DEF Frames
  <2>3. Deltas'
    BY <1>3, <2>1, <2>2 DEF Deltas, Differs
  <2>4. Copies'
    BY <1>1, <1>4, <2>1 DEF Copies, Past
  <2> QED
    BY <2>3, <2>4
<1>7. CASE GetView
  <2>0. PICK f : f = down[1]
    OBVIOUS
  <2>1. /\ ~Welcome(down, 1) /\ Held(f) /\ cgen' = cgen
        /\ history' = Remember(f.tick, Decode(f))
        /\ shown' = [tick |-> f.tick, view |-> Decode(f), truth |-> f.truth]
    BY <1>1, <1>7, <2>0 DEF GetView, Arrives, Welcome
  <2>2. 1 \in DOMAIN down /\ Before(down, 1) /\ Carries(f)
    BY <1>2, <2>0, <2>1 DEF Shifted, Before, Views
  <2>3. Differs(f) /\ (shown # None => shown.tick < f.tick)
    BY <2>0, <2>1, <2>2 DEF Deltas
  <2>4. Decode(f) = f.truth
    BY <2>1, <2>2, <2>3 DEF Differs, Decode, Held, Carries
  <2>5. shown'.tick = f.tick /\ shown'.view = shown'.truth /\ f.tick \in Nat
    BY <2>1, <2>2, <2>4 DEF Carries
  <2>6. shown' # None
    BY <2>1, <2>2, DecodedViews
  <2>7. \A t \in 0..MaxTick : history'[t] # None => history'[t] = IF t = f.tick THEN f.truth ELSE history[t]
    BY <2>1, <2>4, Remembered
  <2>8. \A t \in 0..MaxTick : history[t] # None => shown # None /\ t <= shown.tick /\ shown.tick \in Nat
    BY DEF Copies
  <2>9. ASSUME NEW k \in DOMAIN down', ~Welcome(down', k)
        PROVE  /\ Before(down', k) => /\ Differs(down[k])'
                                      /\ shown'.tick < down'[k].tick
               /\ ~Before(down', k) => /\ down'[k].base = 0 /\ down'[k].gone = {}
                                       /\ down'[k].new = down'[k].truth
    <3>0. PICK e : e = down'[k]
      OBVIOUS
    <3>1. /\ k + 1 \in DOMAIN down /\ e = down[k + 1] /\ ~Welcome(down, k + 1)
          /\ Before(down', k) <=> Before(down, k + 1)
          /\ 1 < k + 1 /\ Carries(e)
      BY <1>2, <2>1, <2>9, <3>0, DeltasShift DEF Frames, Shifted, Views
    <3>2. CASE Before(down', k)
      <4>1. Between(down, 1, k + 1)
        BY <1>2, <3>1, <3>2 DEF Before, Between
      <4>2. f.tick < e.tick
        BY <2>0, <2>1, <2>2, <3>1, <4>1 DEF Deltas
      <4>3. Differs(e)
        BY <3>1, <3>2 DEF Deltas
      <4>4. Differs(e)'
        <5>1. CASE e.base = 0
          BY <4>3, <5>1 DEF Differs
        <5>2. CASE e.base # 0
          <6>1. /\ shown # None /\ e.base <= shown.tick /\ e.base \in 0..MaxTick
                /\ history[e.base] # None => e.gone = history[e.base] \ e.truth /\ e.new = e.truth \ history[e.base]
            BY <3>1, <4>3, <5>2 DEF Differs, Carries
          <6>2. shown.tick \in Nat /\ shown.tick < f.tick /\ e.base \in Nat
            BY <2>3, <6>1, ViewSyncAssumption DEF Copies
          <6>3. e.base # f.tick /\ e.base <= f.tick
            BY <2>5, <6>1, <6>2
          <6>4. history'[e.base] # None => history'[e.base] = history[e.base]
            BY <2>7, <6>1, <6>3
          <6> QED
            BY <2>5, <2>6, <5>2, <6>1, <6>3, <6>4 DEF Differs
        <5> QED
          BY <5>1, <5>2
      <4>5. Differs(down[k])'
        BY <3>0, <4>4 DEF Differs
      <4> QED
        BY <2>5, <3>0, <3>2, <4>2, <4>5
    <3>3. CASE ~Before(down', k)
      BY <3>0, <3>1, <3>3 DEF Deltas
    <3> QED
      BY <3>2, <3>3
  <2>10. Deltas'
    BY <1>3, <2>9 DEF Deltas
  <2>11. \A t \in 0..MaxTick : history'[t] # None => shown' # None /\ t <= shown'.tick
    <3> SUFFICES ASSUME NEW t \in 0..MaxTick, history'[t] # None
                 PROVE  t <= f.tick
      BY <2>5, <2>6
    <3>1. t \in Nat
      BY ViewSyncAssumption
    <3>2. t = f.tick \/ history[t] # None
      BY <2>7
    <3> QED
      BY <2>3, <2>5, <2>8, <3>1, <3>2
  <2>12. ASSUME cgen = gen
         PROVE  /\ Past(f.tick)'
                /\ \A t \in 1..MaxTick : sent[t] # None /\ history'[t] # None => sent[t] = history'[t]
                /\ baseline # None /\ history'[baseline.tick] # None => baseline.view = history'[baseline.tick]
    <3>1. \A k \in DOMAIN down : ~Welcome(down, k)
      BY <2>12 DEF Client, Frames
    <3>2. Last(down, 1)
      BY <3>1 DEF Last
    <3>3. /\ Past(f.tick)
          /\ \A t \in 1..MaxTick : t = f.tick /\ sent[t] # None => sent[t] = f.truth
      BY <2>0, <2>1, <2>2, <3>2 DEF Deltas
    <3>4. \A t \in 1..MaxTick : t \in 0..MaxTick
      BY ViewSyncAssumption
    <3>5. ASSUME NEW t \in 1..MaxTick, sent[t] # None, history'[t] # None
          PROVE  sent[t] = history'[t]
      <4>1. CASE t = f.tick
        BY <2>7, <3>3, <3>4, <3>5, <4>1
      <4>2. CASE t # f.tick
        <5>1. history'[t] = history[t]
          BY <2>7, <3>4, <3>5, <4>2
        <5> QED
          BY <2>12, <3>5, <5>1 DEF Copies
      <4> QED
        BY <4>1, <4>2
    <3>6. ASSUME baseline # None, history'[baseline.tick] # None
          PROVE  baseline.view = history'[baseline.tick]
      <4>1. Decoded(baseline.tick) /\ baseline.tick \in 1..MaxTick
        BY <3>6 DEF Acks, Views
      <4>2. baseline.tick # f.tick
        BY <2>3, <2>5, <4>1 DEF Decoded, Copies
      <4>3. history'[baseline.tick] = history[baseline.tick]
        BY <2>7, <3>4, <3>6, <4>1, <4>2
      <4> QED
        BY <2>12, <3>6, <4>3 DEF Copies
    <3> QED
      BY <1>1, <3>3, <3>5, <3>6 DEF Past
  <2>13. Copies'
    BY <1>1, <1>4, <2>1, <2>5, <2>6, <2>11, <2>12 DEF Copies
  <2> QED
    BY <2>10, <2>13
<1> QED
  BY <1>5, <1>6, <1>7

LEMMA ExactSend ==
  ASSUME StreamInv, ~paused, Deltas, Copies, SendView
  PROVE  Deltas' /\ Copies'
<1> USE DEF StreamInv
<1>0. PICK m, n : m = Encode(NextBaseline, world) /\ n = Len(down)
  OBVIOUS
<1>1. /\ stepped /\ stepped' = FALSE /\ down' = Append(down, m) /\ baseline' = NextBaseline
      /\ UNCHANGED <<tick, gen, cgen, history, shown>>
  BY <1>0 DEF SendView, clientVars
<1>2. tick \in Nat /\ world \in View /\ gen \in Nat /\ cgen \in Nat
  BY DEF Frames, Client, Views
<1>3. /\ n \in Nat /\ DOMAIN down = 1..n /\ DOMAIN down' = 1..(n + 1) /\ down'[n + 1] = m
      /\ \A k \in 1..n : down'[k] = down[k]
  BY <1>0, <1>1, ListAppend DEF Frames
<1>4. \A t \in Nat : Past(t) => t < tick /\ t # tick /\ Past(t)'
  BY <1>1, <1>2 DEF Past
<1>5. Past(tick)'
  BY <1>1, <1>2 DEF Past
<1>6. /\ sent' \in [1..MaxTick -> View \cup {None}]
      /\ \A t \in 1..MaxTick : sent'[t] # None => sent'[t] = sent[t] \/ (t = tick /\ sent'[t] = world)
      /\ \A t \in 1..MaxTick : t = tick /\ sent'[t] # None => sent'[t] = world
  BY <1>2, SentViews
<1>7. /\ m.kind = "view" /\ m.tick = tick /\ m.truth = world
      /\ NextBaseline = None => m.base = 0 /\ m.gone = {} /\ m.new = world
      /\ NextBaseline # None => /\ m.base = NextBaseline.tick
                                /\ m.gone = NextBaseline.view \ world /\ m.new = world \ NextBaseline.view
  BY <1>0 DEF Encode
<1>8. ASSUME NEW k \in 1..n
      PROVE  /\ down'[k] = down[k]
             /\ Welcome(down', k) <=> Welcome(down, k)
             /\ Before(down', k) <=> Before(down, k)
             /\ Last(down', k) => Last(down, k)
             /\ \A j \in 1..n : Between(down', k, j) <=> Between(down, k, j)
  BY <1>1, <1>3, DeltasLonger DEF Frames
<1>9. ASSUME NEW k \in 1..n, ~Welcome(down', k)
      PROVE  /\ Before(down', k) => /\ Differs(down[k])'
                                    /\ shown' # None => shown'.tick < down'[k].tick
             /\ ~Before(down', k) => down'[k].base = 0 /\ down'[k].gone = {} /\ down'[k].new = down'[k].truth
             /\ Last(down', k) => /\ Past(down[k].tick)'
                                 /\ \A t \in 1..MaxTick : t = down'[k].tick /\ sent'[t] # None => sent'[t] = down'[k].truth
             /\ \A j \in DOMAIN down' : k < j /\ Between(down', k, j) => down'[k].tick < down'[j].tick
  <2>0. ~Welcome(down, k) /\ k \in DOMAIN down /\ down'[k] = down[k]
    BY <1>3, <1>8, <1>9
  <2>1. Before(down', k) => Differs(down[k]) /\ (shown # None => shown.tick < down[k].tick)
    BY <1>8, <2>0 DEF Deltas
  <2>2. Before(down', k) => Differs(down[k])'
    BY <1>1, <2>0, <2>1 DEF Differs
  <2>3. ~Before(down', k) => down'[k].base = 0 /\ down'[k].gone = {} /\ down'[k].new = down'[k].truth
    BY <1>8, <2>0 DEF Deltas
  <2>4. Last(down, k) => Past(down[k].tick) /\ down[k].tick \in Nat
    BY <2>0 DEF Deltas, Past
  <2>5. ASSUME Last(down', k)
        PROVE  /\ Past(down[k].tick)'
               /\ \A t \in 1..MaxTick : t = down'[k].tick /\ sent'[t] # None => sent'[t] = down'[k].truth
    <3>1. Last(down, k)
      BY <1>8, <2>5
    <3>2. down[k].tick < tick /\ down[k].tick # tick /\ down[k].tick \in Nat
      BY <1>4, <2>4, <3>1
    <3>3. Past(down[k].tick)'
      BY <1>1, <1>2, <2>0, <3>2 DEF Past
    <3>4. \A t \in 1..MaxTick : t = down[k].tick /\ sent[t] # None => sent[t] = down[k].truth
      BY <2>0, <3>1 DEF Deltas
    <3>5. \A t \in 1..MaxTick : t = down[k].tick /\ sent'[t] # None => sent'[t] = sent[t]
      BY <1>6, <3>2
    <3> QED
      BY <2>0, <3>3, <3>4, <3>5
  <2>6. ASSUME NEW j \in DOMAIN down', k < j, Between(down', k, j)
        PROVE  down'[k].tick < down'[j].tick
    <3>1. CASE j \in 1..n
      BY <1>3, <1>8, <2>0, <2>6, <3>1 DEF Deltas
    <3>2. CASE j = n + 1
      <4>1. Last(down, k)
        BY <1>3, <1>8, <2>0, <2>6, <3>2 DEF Between, Last
      <4> QED
        BY <1>3, <1>4, <1>7, <2>0, <2>4, <3>2, <4>1
    <3> QED
      BY <1>3, <2>6, <3>1, <3>2
  <2> QED
    BY <1>1, <2>0, <2>1, <2>2, <2>3, <2>5, <2>6
<1>10. ~Welcome(down', n + 1)
  BY <1>3, <1>7 DEF Welcome
<1>11. Before(down', n + 1) => cgen = gen
  <2>1. Before(down', n + 1) => \A j \in DOMAIN down : ~Welcome(down, j)
    BY <1>3, <1>8 DEF Before
  <2> QED
    BY <2>1 DEF Client
<1>12. ASSUME NEW k, k = n + 1, Before(down', k)
       PROVE  /\ Differs(down[k])'
              /\ shown' # None => shown'.tick < down'[k].tick
  <2>0. down'[k] = m /\ cgen = gen
    BY <1>3, <1>11, <1>12
  <2>1. shown' # None => shown'.tick < down'[k].tick
    BY <1>1, <1>4, <1>7, <2>0 DEF Copies
  <2>2. Differs(m)'
    <3>1. CASE NextBaseline = None
      BY <1>7, <3>1 DEF Differs
    <3>2. CASE NextBaseline # None
      <4>1. /\ NextBaseline.tick \in 1..MaxTick
            /\ shown # None /\ NextBaseline.tick <= shown.tick
            /\ history[NextBaseline.tick] # None => NextBaseline.view = history[NextBaseline.tick]
        BY <3>2, NextBaselineHeld
      <4>2. m.base # 0
        BY <1>7, <3>2, <4>1, ViewSyncAssumption
      <4> QED
        BY <1>1, <1>7, <3>2, <4>1, <4>2 DEF Differs
    <3> QED
      BY <3>1, <3>2
  <2> QED
    BY <2>0, <2>1, <2>2 DEF Differs
<1>13. ~Before(down', n + 1) => m.base = 0 /\ m.gone = {} /\ m.new = m.truth
  <2> SUFFICES ASSUME ~Before(down', n + 1)
               PROVE  NextBaseline = None
    BY <1>7
  <2>1. PICK j \in DOMAIN down' : Welcome(down', j)
    BY DEF Before
  <2>2. j \in DOMAIN down /\ Welcome(down, j)
    BY <1>3, <1>8, <1>10, <2>1
  <2>3. cgen < gen
    BY <2>2 DEF Client
  <2> QED
    BY <1>2, <2>3, NextBaselineHeld
<1>14. Deltas'
  <2>1. /\ Past(down[n + 1].tick)'
        /\ \A t \in 1..MaxTick : t = down'[n + 1].tick /\ sent'[t] # None => sent'[t] = down'[n + 1].truth
        /\ \A j \in DOMAIN down' : ~(n + 1 < j)
    BY <1>1, <1>3, <1>5, <1>6, <1>7 DEF Past
  <2>2. \A k \in DOMAIN down' : k \in 1..n \/ k = n + 1
    BY <1>3
  <2> SUFFICES ASSUME NEW k \in DOMAIN down', ~Welcome(down', k)
               PROVE  /\ Before(down', k) => /\ Differs(down[k])'
                                             /\ shown' # None => shown'.tick < down'[k].tick
                      /\ ~Before(down', k) => /\ down'[k].base = 0 /\ down'[k].gone = {}
                                              /\ down'[k].new = down'[k].truth
                      /\ Last(down', k) =>
                           /\ Past(down[k].tick)'
                           /\ \A t \in 1..MaxTick : t = down'[k].tick /\ sent'[t] # None => sent'[t] = down'[k].truth
                      /\ \A j \in DOMAIN down' : k < j /\ Between(down', k, j) => down'[k].tick < down'[j].tick
    BY DEF Deltas
  <2>3. CASE k \in 1..n
    BY <1>9, <2>3
  <2>4. CASE k = n + 1
    <3>1. Before(down', k) => /\ Differs(down[k])'
                              /\ shown' # None => shown'.tick < down'[k].tick
      BY <1>12, <2>4
    <3>2. ~Before(down', k) => /\ down'[k].base = 0 /\ down'[k].gone = {} /\ down'[k].new = down'[k].truth
      BY <1>3, <1>13, <2>4
    <3>3. /\ Past(down[k].tick)'
          /\ \A t \in 1..MaxTick : t = down'[k].tick /\ sent'[t] # None => sent'[t] = down'[k].truth
      BY <2>1, <2>4
    <3>4. \A j \in DOMAIN down' : ~(k < j)
      BY <2>1, <2>4
    <3> QED
      BY <3>1, <3>2, <3>3, <3>4
  <2> QED
    BY <2>2, <2>3, <2>4
<1>15. Copies'
  <2>1. \A t \in 1..MaxTick : t \in 0..MaxTick /\ t \in Nat
    BY ViewSyncAssumption
  <2>2. ASSUME NEW t \in 1..MaxTick, sent'[t] # None
        PROVE  Past(t)'
    <3>1. CASE t = tick
      BY <1>1, <1>2, <3>1 DEF Past
    <3>2. CASE t # tick
      BY <1>4, <1>6, <2>1, <2>2, <3>2 DEF Copies
    <3> QED
      BY <3>1, <3>2
  <2>3. cgen = gen /\ shown # None => Past(shown.tick)'
    BY <1>1, <1>2 DEF Copies, Past
  <2>4. ASSUME cgen = gen, NEW t \in 1..MaxTick, sent'[t] # None, history[t] # None
        PROVE  sent'[t] = history[t]
    <3>1. t <= shown.tick /\ shown.tick < tick /\ shown.tick \in Nat
      BY <1>4, <2>1, <2>4 DEF Copies
    <3>2. t # tick
      BY <1>2, <2>1, <3>1
    <3> QED
      BY <1>6, <2>4, <3>2 DEF Copies
  <2>5. baseline' # None /\ history[baseline'.tick] # None => baseline'.view = history[baseline'.tick]
    BY <1>1, NextBaselineHeld
  <2>6. /\ \A t \in 0..MaxTick : history'[t] # None => shown' # None /\ t <= shown'.tick
        /\ shown' # None => shown'.tick \in Nat /\ shown'.view = shown'.truth
    BY <1>1 DEF Copies
  <2> QED
    BY <1>1, <1>6, <2>2, <2>3, <2>4, <2>5, <2>6 DEF Copies
<1> QED
  BY <1>14, <1>15

LEMMA ExactStep ==
  ASSUME StreamInv, Exact, [Next]_vars
  PROVE  Exact'
<1> SUFFICES ASSUME "pause" \notin mishaps'
             PROVE  ~paused' /\ Deltas' /\ Copies'
  BY DEF Exact
<1> USE DEF StreamInv
<1>0. mishaps \subseteq mishaps'
  BY DEF Next, Step, Swap, Transfer, Welcomed, ChangePaused, Pause, SendView, ReadAck, DropAck,
         GetWelcome, GetView, MissBaseline, vars
<1>1. ~paused /\ Deltas /\ Copies
  BY <1>0 DEF Exact
<1>2. ASSUME NEW w, Step(w)
      PROVE  ~paused' /\ Deltas' /\ Copies'
  <2>1. /\ tick' = tick + 1 /\ stepped' /\ tick \in Nat
        /\ UNCHANGED <<paused, gen, sent, baseline, down, cgen, history, shown>>
    BY <1>2 DEF Step, serverVars, clientVars, Frames
  <2>2. ASSUME NEW t, Past(t)
        PROVE  Past(t)'
    BY <2>1, <2>2 DEF Past
  <2>3. Deltas'
    <3>1. \A k \in DOMAIN down : Past(down[k].tick) => Past(down[k].tick)'
      BY <2>1 DEF Past
    <3> QED
      BY <1>1, <2>1, <3>1 DEF Deltas, Differs, Welcome, Before, Last, Between
  <2>4. Copies'
    <3>1. Past(shown.tick) => Past(shown.tick)'
      BY <2>1 DEF Past
    <3> QED
      BY <1>1, <2>1, <2>2, <3>1 DEF Copies
  <2> QED
    BY <1>1, <2>1, <2>3, <2>4
<1>3. ASSUME NEW t, NEW w, Welcomed(t, w)
      PROVE  Deltas' /\ Copies'
  <2>0. PICK m, n : m = [kind |-> "welcome", gen |-> gen + 1] /\ n = Len(down)
    OBVIOUS
  <2>1. /\ down' = Append(down, m) /\ gen' = gen + 1 /\ sent' = NoneSent /\ m.kind = "welcome"
        /\ UNCHANGED <<cgen, history, shown>>
    BY <1>3, <2>0 DEF Welcomed, clientVars
  <2>2. cgen' # gen'
    BY <2>1 DEF Client, Frames
  <2>3. Copies'
    BY <1>1, <2>1, <2>2 DEF Copies, NoneSent
  <2>4. /\ n \in Nat /\ DOMAIN down = 1..n /\ DOMAIN down' = 1..(n + 1) /\ down'[n + 1] = m
    BY <2>0, <2>1, ListAppend DEF Frames
  <2>5. Welcome(down', n + 1)
    BY <2>1, <2>4 DEF Welcome
  <2>6. ASSUME NEW k \in DOMAIN down', ~Welcome(down', k)
        PROVE  /\ k \in DOMAIN down /\ down'[k] = down[k] /\ ~Welcome(down, k)
               /\ Before(down', k) <=> Before(down, k)
               /\ ~Last(down', k)
               /\ \A j \in DOMAIN down' : k < j /\ Between(down', k, j) => j \in DOMAIN down /\ Between(down, k, j)
    <3>1. k \in 1..n /\ k < n + 1
      BY <2>4, <2>5, <2>6
    <3>2. ~Last(down', k)
      BY <2>4, <2>5, <3>1 DEF Last
    <3>3. \A j \in DOMAIN down' : Between(down', k, j) => j # n + 1
      BY <2>4, <2>5, <3>1 DEF Between
    <3>4. \A j \in DOMAIN down' : j # n + 1 => j \in DOMAIN down
      BY <2>4
    <3> QED
      BY <2>1, <2>4, <2>6, <3>1, <3>2, <3>3, <3>4, DeltasLonger DEF Frames
  <2>7. ASSUME NEW k \in DOMAIN down', ~Welcome(down', k)
        PROVE  /\ Before(down', k) => /\ Differs(down[k])'
                                      /\ shown' # None => shown'.tick < down'[k].tick
               /\ ~Before(down', k) => down'[k].base = 0 /\ down'[k].gone = {} /\ down'[k].new = down'[k].truth
               /\ \A j \in DOMAIN down' : k < j /\ Between(down', k, j) => down'[k].tick < down'[j].tick
    <3>1. /\ k \in DOMAIN down /\ down'[k] = down[k] /\ ~Welcome(down, k)
          /\ Before(down', k) <=> Before(down, k)
      BY <2>6, <2>7
    <3>2. \A j \in DOMAIN down' : k < j /\ Between(down', k, j) => down'[k].tick < down'[j].tick
      <4> SUFFICES ASSUME NEW j \in DOMAIN down', k < j, Between(down', k, j)
                   PROVE  down'[k].tick < down'[j].tick
        OBVIOUS
      <4>1. j \in DOMAIN down /\ Between(down, k, j)
        BY <2>6, <2>7
      <4>2. down'[j] = down[j]
        BY <2>1, <4>1, DeltasLonger DEF Frames
      <4> QED
        BY <1>1, <3>1, <4>1, <4>2 DEF Deltas
    <3>3. Differs(down[k]) => Differs(down[k])'
      BY <2>1, <3>1 DEF Differs
    <3> QED
      BY <1>1, <2>1, <3>1, <3>2, <3>3 DEF Deltas
  <2>8. Deltas'
    BY <2>6, <2>7 DEF Deltas
  <2> QED
    BY <2>3, <2>8
<1>4. CASE SendView
  BY <1>1, <1>4, ExactSend DEF SendView
<1>5. CASE ReadAck \/ DropAck \/ UNCHANGED vars
  <2>1. UNCHANGED <<tick, stepped, paused, gen, sent, baseline, down, cgen, history, shown>>
    BY <1>5 DEF ReadAck, DropAck, vars, worldVars, serverVars, clientVars
  <2>2. Deltas'
    BY <1>1, <2>1 DEF Deltas, Differs, Past, Welcome, Before, Last, Between
  <2>3. Copies'
    BY <1>1, <2>1 DEF Copies, Past
  <2> QED
    BY <1>1, <2>1, <2>2, <2>3
<1>6. CASE GetWelcome \/ GetView \/ MissBaseline
  <2>1. paused' = paused
    BY <1>6 DEF GetWelcome, GetView, MissBaseline, worldVars
  <2> QED
    BY <1>1, <1>6, <2>1, ExactTail
<1>7. ~Pause /\ \A w : ~ChangePaused(w)
  BY <1>1 DEF Pause, ChangePaused
<1>8. ASSUME NEW w \in View, Swap(w) \/ \E t \in 0..MaxTick : Transfer(t, w)
      PROVE  ~paused' /\ Deltas' /\ Copies'
  BY <1>1, <1>3, <1>8 DEF Swap, Transfer
<1> QED
  BY <1>2, <1>4, <1>5, <1>6, <1>7, <1>8 DEF Next

(* Every delta is applied to the view it was computed from, in a world     *)
(* that is not paused (protocol/binary.go: EncodeViewFrame; web/net.js:    *)
(* decodeViewFrame; server/server.go: frameFor).                           *)
THEOREM DeltasExact == Spec => []DecodesExactly
<1>1. Init => Exact
  BY ExactInit
<1>2. Exact /\ StreamInv /\ StreamInv' /\ [Next]_vars => Exact'
  BY ExactStep
<1>3. Exact => DecodesExactly
  BY DEF Exact, Copies, DecodesExactly
<1> QED
  BY <1>1, <1>2, <1>3, Streams, PTL DEF Spec
=============================================================================
