\* Lines that reach the end of their row.
CONSTANTS
  VGA_WIDTH = 5
  VGA_HEIGHT = 3
  TabStop = 2
  TERMINAL_BUFFER_SIZE = 6
  TERMINAL_PROMPT <- Prompt
  Chars <- OneChar
  NUL = NUL
  MaxLine = 5
SPECIFICATION Spec
INVARIANT PromptKept
