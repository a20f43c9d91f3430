\* Six slots, so that a deletion can misplace an entry.  Paths grow by one
\* component per command, to three.
CONSTANTS
  MAX_FILES = 6
  MAX_FILE_SIZE = 0
  UINT32_MAX = 99
  Names = {a, b}
  NoName = NoName
  Bytes = {}
  Junk = Junk
  MaxDepth = 3
  MaxWrite = 0
  MaxArg = 1
SPECIFICATION ShellSpec
VIEW ShellView
SYMMETRY NameSymmetry
INVARIANT ShellTypeOK
PROPERTIES
  RelativeStaysBelow
  WorkingDirKept
