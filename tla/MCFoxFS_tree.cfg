\* Six slots are the fewest in which a deletion can misplace an entry, and a
\* root with three children, one of them with a child, the fewest that does it.
CONSTANTS
  MAX_FILES = 6
  MAX_FILE_SIZE = 0
  UINT32_MAX = 99
  Names = {a, b, c}
  NoName = NoName
  Bytes = {}
  Junk = Junk
  MaxDepth = 2
  MaxWrite = 0
VIEW LiveView
SYMMETRY NameSymmetry
SPECIFICATION Spec
INVARIANTS
  TypeOK
  TableSafe
  TreeUnlessReparented
  AddressableUnlessReparented
PROPERTIES
  LookupsSurviveCreate
  LookupsSurviveDelete
  NamelessStay
