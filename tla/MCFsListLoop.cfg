\* Removing slot 1 of six with a parent in slot 4 is the first wrong renumbering.
CONSTANT MAX_FILES = 6
CONSTANT MAX_FILENAME = 3
CONSTANT NameLength <- AnyLengths
CONSTANT Dirs = {0, 1, 3, 4}
CONSTANT BufferSizes <- SmallAndLs
CHECK_DEADLOCK FALSE
SPECIFICATION ListSpec
INVARIANTS
  LoopInv
  LoopComputesShifted
  NearParentsFollow
  ListingInBuffer
  LsIsComplete
  LsAfterRm
