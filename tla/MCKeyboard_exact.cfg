CONSTANTS
  Letters = {a, b}
  Arrows = {up}
  Mutes = {ctrl}
  LSHIFT = LSHIFT
  RSHIFT = RSHIFT
  Prefix = Prefix
  NoKey = NoKey
  FifoSize = 3
  Lossy = FALSE
  Used = {a, b, up, LSHIFT, RSHIFT}
  MaxOwed = 2
SPECIFICATION FairSpec
INVARIANTS
  EachPressOnce
  CaseRight
  QuietMeansIdle
PROPERTY EveryPressReturned
