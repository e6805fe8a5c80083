\* A bar of two gems, and room for two minions.
SPECIFICATION Spec
CONSTANTS
  None = None
  haste = haste
  wrath = wrath
  raise = raise
  echo = echo
  Auras <- TwoAuras
  SummonSkill = raise
  Supports <- OneSupport
  Fits <- OnlySummons
  MaxSkillGems = 2
  MaxGemSockets = 2
  MaxGemLevel = 2
  SummonCap = 2
  SummonCount = 2
  SummonTTL = 2
  Extra = {0, 1}
  MaxMinions = 2
INVARIANTS TypeOK SheetIsTheBuild CastHasItsGem
PROPERTY RestoreKeepsTheWorld
