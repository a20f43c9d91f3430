\* The instance of MCFoxFS_tree.cfg; TLC finds the deletion that misplaces.
CONSTANTS
  MAX_FILES = 6
  MAX_FILE_SIZE = 0
  UINT32_MAX = 99
  Names = {a, b, c}
  NoName = NoName
  Bytes = {}
  Junk = Junk
  MaxDepth = 2
  MaxWrite = 0
VIEW LiveView
SYMMETRY NameSymmetry
SPECIFICATION Spec
INVARIANT ParentsFollow
