\* Lines of at most MaxLine = VGA_WIDTH - 2 - (prompt length) characters, and a
\* buffer that is full one character earlier.
CONSTANTS
  VGA_WIDTH = 8
  VGA_HEIGHT = 3
  TabStop = 2
  TERMINAL_BUFFER_SIZE = 4
  TERMINAL_PROMPT <- Prompt
  Chars <- TwoChars
  NUL = NUL
  MaxLine = 4
SPECIFICATION Spec
INVARIANTS
  TypeOK
  LineTerminated
  ScreenShowsLine
PROPERTIES
  EditsLine
  OtherRowsKept
