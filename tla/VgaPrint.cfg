\* As on the real screen, the last tab stop of a row is the start of the next.
CONSTANTS
  VGA_WIDTH = 4
  VGA_HEIGHT = 2
  TabStop = 2
  Output = {"p", "NL", "CR", "TAB", "BS"}
  MaxRows = 4
CONSTANT BITS = 8
SPECIFICATION Spec
INVARIANTS
  CursorInside
  ScreenIsWindow
  NumbersReadBack
  PrintfByPieces
