\* A fight of a few effects between a hero with a minion and a splitter.
SPECIFICATION Spec
CONSTANTS
  hero = hero
  minion = minion
  splitter = splitter
  small = small
  tiny = tiny
  Hero <- hero
  Minion <- minion
  Foes <- MCFoes
  Broods <- MCBroods
  Knows <- MCKnows
  MaxLife <- MCLife
  Hardy <- MCHardy
  TypeSeq <- MCTypeSeq
  Stacking = "chaos"
  DoTTicks <- MCDoTTicks
  Ailments <- MCAilments
  Curses <- MCCurses
  Boons <- MCBoons
  StatusTicks <- MCStatusTicks
  Blows <- MCBlows
  Fans <- MCFans
  Memory = 1
  MaxEffects = 2
  None = None
INVARIANTS StatusesAreOnTheSheet OneCastOneHit
PROPERTIES PaidOnceToTheRoot
