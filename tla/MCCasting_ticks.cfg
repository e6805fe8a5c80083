\* One actor, three skills, stuns and new worlds, under a fair ticker.
SPECIFICATION FairSpec
CONSTANTS
  NoSkill = NoSkill
  bolt = bolt
  beam = beam
  slam = slam
  Skills <- Bar
  Kind <- Kinds
  Cost <- Costs
  RepeatCost <- Repeats
  Cooldown <- Cooldowns
  Recovers <- Tails
  Stages <- Parts
  MaxMana = 3
  StunLock = 3
  StunImmune = 3
  Longest = 3
INVARIANTS PaidEffectsHappen NoStunLock
PROPERTY CastsEnd
