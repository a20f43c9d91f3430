\* Kernels shorter and longer than the information record, a page and two pages.
CONSTANTS
  Sizes = {1, 2, 3, 4, 5, 6}
  Garbage = {0, 2, 3, 9, 15}
  InfoSize = 3
  Times = {0, 1, 4, 7, 14}
  PAGE = 2
  WORD = 16
CHECK_DEADLOCK FALSE
SPECIFICATION Spec
INVARIANTS
  LoaderSparesItself
  NothingLeft
  WholeKernel
  ReadsFit
  ExitIsLast
