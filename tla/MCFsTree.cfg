\* Three files beside the root, two-byte files, writes of up to three bytes.
CONSTANTS
  MAX_FILES = 4
  MAX_FILE_SIZE = 2
  UINT32_MAX = 99
  Names = {a, b}
  NoName = NoName
  Bytes = {u, v}
  Junk = Junk
  MaxDepth = 2
  MaxWrite = 3
VIEW TreeView
SYMMETRY DataSymmetry
SPECIFICATION TreeSpec
INVARIANTS
  NoJunkRead
  TableIsTree
