------------------------------- MODULE Casting -------------------------------
(***************************************************************************)
(* What one actor is doing (sim/sim.go: applyCommands, sim/skills:         *)
(* AdvanceActions, sim/core/entity.go): a skill runs through windup,       *)
(* effect and recovery, through its stages, or is channelled; mana is paid *)
(* at the start, cooldowns and stuns count down.  A tick has four phases   *)
(* that matter here: upkeep, the commands, the actions, the hits.          *)
(*                                                                         *)
(* Where things are, and what an effect does, is left out; how long a      *)
(* skill takes is bound when it is used, and may be anything.              *)
(***************************************************************************)
EXTENDS Integers, Sequences

CONSTANTS Skills,
          Kind,        \* Kind[s]: "cast", "channel" or "staged"
          Cost,        \* Cost[s]: Gem.ManaCost
          RepeatCost,  \* RepeatCost[s]: ChannelCost
          Cooldown,    \* Cooldown[s]: SkillDef.CooldownTicks
          Recovers,    \* Recovers[s]: SkillDef.RecoveryTicks > 0
          Stages,      \* Stages[s]: how many
          MaxMana,
          StunLock,    \* StunLockTicks
          StunImmune,  \* StunImmuneTicks
          Longest,     \* bound: ticks of a windup, a tail or a stage
          NoSkill      \* no skill

ASSUME CastingAssumption ==
  /\ NoSkill \notin Skills
  /\ Kind \in [Skills -> {"cast", "channel", "staged"}]
  /\ Cost \in [Skills -> Nat] /\ RepeatCost \in [Skills -> Nat]
  /\ Cooldown \in [Skills -> Nat]
  /\ Recovers \in [Skills -> BOOLEAN]
  /\ Stages \in [Skills -> Nat \ {0}]
  /\ MaxMana \in Nat
  /\ StunLock \in Nat \ {0} /\ StunImmune \in Nat \ {0}
  /\ Longest \in Nat \ {0}

VARIABLES
  phase,   \* the phase of the tick that comes next
  action,  \* Actor.Action
  mana,    \* Actor.Mana
  cool,    \* cool[s]: the ticks left of s's cooldown
  stun,    \* Actor.StunTicks
  debt,    \* history: effects paid for that have not happened
  shut,    \* history: ticks in a row whose commands were dropped
  free     \* history: ticks in a row whose commands were heard, up to StunImmune

castingVars == <<phase, action, mana, cool, stun, debt, shut, free>>

Durations == 1..Longest

Idle == [kind |-> "idle", skill |-> NoSkill, phase |-> "windup", left |-> 0, tail |-> 0, more |-> <<>>]
Moving == [Idle EXCEPT !.kind = "move"]

CastingInit ==
  /\ phase = "upkeep"
  /\ action = Idle
  /\ mana = MaxMana
  /\ cool = [s \in Skills |-> 0]
  /\ stun = 0
  /\ debt = 0
  /\ shut = 0
  /\ free = StunImmune

Stunned == stun > StunImmune

-----------------------------------------------------------------------------
(* Upkeep: the stun and the cooldowns count down, mana may come back.      *)
Upkeep ==
  /\ phase = "upkeep" /\ phase' = "commands"
  /\ stun' = IF stun > 0 THEN stun - 1 ELSE 0
  /\ cool' = [s \in Skills |-> IF cool[s] > 0 THEN cool[s] - 1 ELSE 0]
  /\ mana' \in {mana, IF mana < MaxMana THEN mana + 1 ELSE mana}
  /\ IF stun' > StunImmune
     THEN shut' = shut + 1 /\ free' = 0
     ELSE shut' = 0 /\ free' = IF free < StunImmune THEN free + 1 ELSE free
  /\ UNCHANGED <<action, debt>>

Heard == phase = "commands" /\ ~Stunned

Casting == action.kind = "skill"
Channelling == Casting /\ action.phase = "channel"
Committed == Casting /\ ~Channelling

(* Faulty: a new order cancels a windup as it does a channel. *)
MoveCancels ==
  /\ Heard
  /\ action' \in {Moving, Idle}
  /\ UNCHANGED <<phase, mana, cool, stun, debt, shut, free>>

(* CmdMove: breaks a channel; then goes, if there is a way. *)
Move ==
  /\ Heard /\ ~Committed
  /\ action' \in {Moving, IF Channelling THEN Idle ELSE action}
  /\ UNCHANGED <<phase, mana, cool, stun, debt, shut, free>>

(* CmdStop *)
Stop ==
  /\ Heard /\ (action.kind = "move" \/ Channelling)
  /\ action' = Idle
  /\ UNCHANGED <<phase, mana, cool, stun, debt, shut, free>>

(* ScaleTicks: no time stays none, any other takes a tick at least. *)
Scaled(takesTime) == IF takesTime THEN Durations ELSE {0}

StageTimes(s) == [1..Stages[s] -> Durations]

(* The action s begins with: BeginStaged, or a windup whose tail is the    *)
(* recovery or the interval of the channel.                                *)
Begun(s) ==
  IF Kind[s] = "staged"
  THEN {[kind |-> "skill", skill |-> s, phase |-> "staged", left |-> Head(ts), tail |-> 0,
         more |-> Tail(ts)] : ts \in StageTimes(s)}
  ELSE {[kind |-> "skill", skill |-> s, phase |-> "windup", left |-> l, tail |-> t, more |-> <<>>] :
          l \in {0} \cup Durations,
          t \in Scaled(Kind[s] = "channel" \/ Recovers[s])}

Effects(s) == IF Kind[s] = "staged" THEN Stages[s] ELSE 1

(* CmdUseSkill that is accepted. *)
UseSkill(s) ==
  /\ Heard /\ ~Committed
  /\ cool[s] = 0
  /\ mana >= Cost[s]
  /\ mana' = mana - Cost[s]
  /\ cool' = [cool EXCEPT ![s] = Cooldown[s]]
  /\ action' \in Begun(s)
  /\ debt' = debt + Effects(s)
  /\ UNCHANGED <<phase, stun, shut, free>>

(* CmdUseSkill that is refused has broken the channel all the same. *)
UseRefused(s) ==
  /\ Heard /\ Channelling
  /\ cool[s] > 0 \/ mana < Cost[s]
  /\ action' = Idle
  /\ UNCHANGED <<phase, mana, cool, stun, debt, shut, free>>

(* The item and gem verbs wait for the end of a cast; they may lower mana  *)
(* to a smaller maximum (clampPools).                                      *)
Bench ==
  /\ Heard /\ ~Casting
  /\ mana' \in 0..mana
  /\ UNCHANGED <<phase, action, cool, stun, debt, shut, free>>

CommandsEnd ==
  /\ phase = "commands" /\ phase' = "actions"
  /\ UNCHANGED <<action, mana, cool, stun, debt, shut, free>>

-----------------------------------------------------------------------------
(* AdvanceActions *)
Advance == phase = "actions" /\ phase' = "hits" /\ UNCHANGED <<stun, shut, free>>

StepMove ==
  /\ Advance /\ ~Casting
  /\ action' \in {action, Idle}
  /\ UNCHANGED <<mana, cool, debt>>

CountDown ==
  /\ Advance /\ Casting /\ action.left > 1
  /\ action' = [action EXCEPT !.left = @ - 1]
  /\ UNCHANGED <<mana, cool, debt>>

Due(p) == Advance /\ Casting /\ action.phase = p /\ action.left <= 1

(* The effect point.  A channel goes on to its first repeat. *)
Fire ==
  /\ Due("windup")
  /\ debt' = debt - 1
  /\ action' = IF Kind[action.skill] = "channel"
               THEN [action EXCEPT !.phase = "channel", !.left = action.tail]
               ELSE IF action.tail = 0 THEN Idle
               ELSE [action EXCEPT !.phase = "recovery", !.left = action.tail]
  /\ UNCHANGED <<mana, cool>>

(* Each repeat of a channel is paid when it happens, or ends it. *)
Repeat ==
  /\ Due("channel")
  /\ IF mana < RepeatCost[action.skill]
     THEN action' = Idle /\ UNCHANGED mana
     ELSE /\ mana' = mana - RepeatCost[action.skill]
          /\ action' = [action EXCEPT !.left = action.tail]
  /\ UNCHANGED <<cool, debt>>

Recover == Due("recovery") /\ action' = Idle /\ UNCHANGED <<mana, cool, debt>>

(* Faulty: the last stage does not end the action. *)
FireStageForever ==
  /\ Due("staged")
  /\ debt' = IF action.more = <<>> THEN debt ELSE debt - 1
  /\ action' = IF action.more = <<>> THEN [action EXCEPT !.left = 1]
               ELSE [action EXCEPT !.left = Head(action.more), !.more = Tail(action.more)]
  /\ UNCHANGED <<mana, cool>>

(* stepStaged: the stage's effect, then the next stage. *)
FireStage ==
  /\ Due("staged")
  /\ debt' = debt - 1
  /\ action' = IF action.more = <<>> THEN Idle
               ELSE [action EXCEPT !.left = Head(action.more), !.more = Tail(action.more)]
  /\ UNCHANGED <<mana, cool>>

-----------------------------------------------------------------------------
(* Faulty: the immunity that follows a stun is not looked at. *)
TryStunAgain ==
  /\ phase = "hits" /\ ~Stunned
  /\ stun' = StunLock + StunImmune
  /\ action' = Idle
  /\ debt' = 0
  /\ UNCHANGED <<phase, mana, cool, shut, free>>

(* TryStun: a heavy hit interrupts the action, whose effects are lost.     *)
TryStun ==
  /\ phase = "hits" /\ stun = 0
  /\ stun' = StunLock + StunImmune
  /\ action' = Idle
  /\ debt' = 0
  /\ UNCHANGED <<phase, mana, cool, shut, free>>

TickEnds ==
  /\ phase = "hits" /\ phase' = "upkeep"
  /\ UNCHANGED <<action, mana, cool, stun, debt, shut, free>>

(* A new world, or a death: what the actor was doing, its cooldowns and    *)
(* its stun stay behind, and the dead come back refilled (InjectCharacter). *)
Transfer ==
  /\ phase = "upkeep"
  /\ action' = Idle
  /\ cool' = [s \in Skills |-> 0] /\ stun' = 0
  /\ debt' = 0 /\ shut' = 0 /\ free' = StunImmune
  /\ mana' \in {mana, MaxMana}
  /\ UNCHANGED phase

Command == Move \/ Stop \/ Bench \/ \E s \in Skills : UseSkill(s) \/ UseRefused(s)

AdvanceActions == StepMove \/ CountDown \/ Fire \/ Repeat \/ Recover \/ FireStage

Tick == Upkeep \/ CommandsEnd \/ AdvanceActions \/ TickEnds

CastingNext == Tick \/ Command \/ TryStun \/ Transfer

CastingSpec == CastingInit /\ [][CastingNext]_castingVars

(* The ticker calls Step for ever, and a tick has finitely many commands.  *)
FairSpec == CastingSpec /\ WF_castingVars(Tick)

-----------------------------------------------------------------------------
Owed ==
  IF ~Casting THEN 0
  ELSE IF action.phase = "windup" THEN 1
  ELSE IF action.phase = "staged" THEN 1 + Len(action.more)
  ELSE 0

(* What was paid for happens, once: no order of commands cancels a windup  *)
(* or a sequence of stages that has begun, or makes an effect happen that  *)
(* was not paid; only a stun and the end of the world may.                 *)
PaidEffectsHappen == debt = Owed

(* Nobody is stunned for ever: no hits, whatever their rhythm, shut an     *)
(* actor up for more than StunLockTicks in a row, or again before its      *)
(* commands have been heard for StunImmuneTicks.                           *)
NoStunLock == shut <= StunLock /\ (stun = StunLock + StunImmune => free = StunImmune)

(* A committed action comes to its end, stunned or not. *)
CastsEnd == Committed ~> ~Committed
=============================================================================
