CONSTANTS
  Letters = {a, b}
  Arrows = {up}
  Mutes = {ctrl}
  LSHIFT = LSHIFT
  RSHIFT = RSHIFT
  Prefix = Prefix
  NoKey = NoKey
  FifoSize = 2
  Lossy = TRUE
  Used = {a, b, up, ctrl}
  MaxOwed = 2
SYMMETRY KeySymmetry
SPECIFICATION Spec
INVARIANTS
  TypeOK
  NothingTwice
