\* One hero, two items at a time, a bag of one.
SPECIFICATION Spec
CONSTANTS
  None = None
  hale = hale
  stout = stout
  cold = cold
  ring = ring
  belt = belt
  ring1 = ring1
  ring2 = ring2
  waist = waist
  healing = healing
  chill = chill
  Affixes <- AllAffixes
  Prefix <- Prefixes
  Group <- Groups
  AffixLevel <- NeedsLevel
  LifeAffix <- Healthy
  Bases <- Rolls
  UniqueBase = belt
  Levels = {1, 2}
  SlotSeq <- InOrder
  SlotsFor <- Family
  MagicCap = 1
  RareCap = 1
  BagSize = 1
  BaseLife = 1
  Pay <- Pays
  Price <- Prices
  MaxItems = 2
  MaxWealth = 1
INVARIANTS TypeOK Conserved SheetIsTheGear
PROPERTY TravelKeepsTheBuild
