------------------------------- MODULE Terminal -------------------------------
(***************************************************************************)
(* The line editor of FoxOS (src/terminal.c) and what it draws: a call of  *)
(* terminal_run takes one character from keyboard_read, changes the input  *)
(* buffer and redraws the input line.                                      *)
(*                                                                         *)
(* Of execute_command only the effect on the screen matters here: nothing, *)
(* a clear, or some output that ends in a newline.  A step is a call that  *)
(* returns: the exit command halts the machine inside execute_command, and *)
(* a history that ends there ends with the step before.                    *)
(***************************************************************************)
EXTENDS Vga, Functions

CONSTANTS
  TERMINAL_BUFFER_SIZE,  \* bytes of input_buffer (256 in terminal.h)
  TERMINAL_PROMPT,       \* a sequence of characters ("FoxOS> ")
  Chars,                 \* printable characters
  NUL,                   \* the byte 0
  MaxLine                \* bound: characters a user types into one line

ASSUME TerminalAssumption ==
  /\ TERMINAL_BUFFER_SIZE \in Nat \ {0}
  /\ TERMINAL_PROMPT \in Seq(STRING)
  /\ NUL \notin Chars
  /\ {"NL", "CR", "TAB", "BS"} \cap (Chars \cup Range(TERMINAL_PROMPT)) = {}
  /\ MaxLine \in Nat

VARIABLES
  input_buffer,
  buffer_pos,   \* length of the line
  cursor_pos,   \* position of the cursor in the line
  vga,          \* the screen
  executed      \* history: the string execute_command saw last

edit == <<input_buffer, buffer_pos, cursor_pos>>
vars == <<edit, vga, executed>>

prompt_length == Len(TERMINAL_PROMPT)

Buffer == 0 .. TERMINAL_BUFFER_SIZE - 1

-----------------------------------------------------------------------------
(***************************************************************************)
(* Drawing.                                                                *)
(***************************************************************************)

(* update_cursor_position: the cursor is taken to be on the row where the  *)
(* line ends.                                                              *)
update_cursor_position(v, length, cursor) ==
  vga_set_cursor(v, (prompt_length + cursor) % VGA_WIDTH,
                    v.cursor_y - (prompt_length + length) \div VGA_WIDTH
                               + (prompt_length + cursor) \div VGA_WIDTH)

(* Mutant: no extra blank after the line.                                  *)
redraw_input_line_exact(v, buffer, length, cursor) ==
  LET x     == prompt_length % VGA_WIDTH
      y     == v.cursor_y - (prompt_length + length) \div VGA_WIDTH
      blank == vga_write(vga_set_cursor(v, x, y), [k \in 1 .. length |-> " "])
      shown == vga_write(vga_set_cursor(blank, x, y), [k \in 1 .. length |-> buffer[k - 1]])
  IN  update_cursor_position(shown, length, cursor)

(* Mutant: a whole row of blanks, which spills into the next one.          *)
redraw_input_line_wide(v, buffer, length, cursor) ==
  LET x     == prompt_length % VGA_WIDTH
      y     == v.cursor_y - (prompt_length + length) \div VGA_WIDTH
      blank == vga_write(vga_set_cursor(v, x, y), [k \in 1 .. VGA_WIDTH |-> " "])
      shown == vga_write(vga_set_cursor(blank, x, y), [k \in 1 .. length |-> buffer[k - 1]])
  IN  update_cursor_position(shown, length, cursor)

redraw_input_line(v, buffer, length, cursor) ==
  LET x     == prompt_length % VGA_WIDTH
      y     == v.cursor_y - (prompt_length + length) \div VGA_WIDTH
      blank == vga_write(vga_set_cursor(v, x, y), [k \in 1 .. length + 1 |-> " "])
      shown == vga_write(vga_set_cursor(blank, x, y), [k \in 1 .. length |-> buffer[k - 1]])
  IN  update_cursor_position(shown, length, cursor)

-----------------------------------------------------------------------------
(***************************************************************************)
(* Editing: the branches of terminal_run.                                  *)
(***************************************************************************)
MoveTo(cursor) ==
  /\ cursor_pos' = cursor
  /\ vga' = update_cursor_position(vga, buffer_pos, cursor)
  /\ UNCHANGED <<input_buffer, buffer_pos, executed>>

CharLeft == cursor_pos > 0 /\ MoveTo(cursor_pos - 1)

CharRight == cursor_pos < buffer_pos /\ MoveTo(cursor_pos + 1)

(* Mutant: the freed last byte keeps its character.                        *)
CloseGapDirty(at) ==
  [k \in Buffer |-> IF at <= k /\ k < buffer_pos - 1 THEN input_buffer[k + 1]
                    ELSE input_buffer[k]]

(* The characters behind position at move up one place.                    *)
CloseGap(at) ==
  [k \in Buffer |-> IF at <= k /\ k < buffer_pos - 1 THEN input_buffer[k + 1]
                    ELSE IF k = buffer_pos - 1 THEN NUL
                    ELSE input_buffer[k]]

DropAt(at) ==
  /\ input_buffer' = CloseGap(at)
  /\ buffer_pos' = buffer_pos - 1
  /\ cursor_pos' = at
  /\ vga' = redraw_input_line(vga, input_buffer', buffer_pos', cursor_pos')
  /\ UNCHANGED executed

CharDel == cursor_pos < buffer_pos /\ DropAt(cursor_pos)

CharBackspace == cursor_pos > 0 /\ DropAt(cursor_pos - 1)

(* Mutants: the last byte of the buffer is used for a character; the       *)
(* characters behind the cursor are not moved.                             *)
HasRoomLate == buffer_pos < TERMINAL_BUFFER_SIZE

OpenGapOver(at, c) == [input_buffer EXCEPT ![at] = c]

HasRoom == buffer_pos < TERMINAL_BUFFER_SIZE - 1

OpenGap(at, c) ==
  [k \in Buffer |-> IF k = at THEN c
                    ELSE IF at < k /\ k <= buffer_pos THEN input_buffer[k - 1]
                    ELSE input_buffer[k]]

CharTyped(c) ==
  /\ buffer_pos < MaxLine
  /\ HasRoom
  /\ input_buffer' = OpenGap(cursor_pos, c)
  /\ buffer_pos' = buffer_pos + 1
  /\ cursor_pos' = cursor_pos + 1
  /\ vga' = redraw_input_line(vga, input_buffer', buffer_pos', cursor_pos')
  /\ UNCHANGED executed

-----------------------------------------------------------------------------
(* What strcmp and parse_args see: the bytes up to the first NUL.          *)
CString(buffer) ==
  LET ends == {k \in Buffer : buffer[k] = NUL}
      len  == IF ends = {} THEN TERMINAL_BUFFER_SIZE
              ELSE CHOOSE k \in ends : \A n \in ends : k <= n
  IN  [k \in 1 .. len |-> buffer[k - 1]]

(* What a command does to the screen: clear empties it, the others write   *)
(* (a line stands for what they write) or, like cd, may write nothing.     *)
Prints(v) == vga_write(v, <<"!", "NL">>)

Outputs(v) == {v, vga_clear(v), Prints(v)}

(* Mutant: clear_buffer leaves the cursor position where it was.           *)
clear_buffer_keeps_cursor ==
  /\ input_buffer' = [k \in Buffer |-> NUL]
  /\ buffer_pos' = 0
  /\ UNCHANGED cursor_pos

clear_buffer ==
  /\ input_buffer' = [k \in Buffer |-> NUL]
  /\ buffer_pos' = 0
  /\ cursor_pos' = 0

(* Enter: newline, execute_command (which does nothing with an empty line), *)
(* clear_buffer, prompt.                                                    *)
CharEnter ==
  LET line == [input_buffer EXCEPT ![buffer_pos] = NUL]
      next == vga_putchar(vga, "NL")
  IN  /\ IF buffer_pos = 0
         THEN executed' = << >> /\ vga' = vga_write(next, TERMINAL_PROMPT)
         ELSE /\ executed' = CString(line)
              /\ \E v \in Outputs(next) : vga' = vga_write(v, TERMINAL_PROMPT)
      /\ clear_buffer

(* A prompt on an empty screen, as vga_init and terminal_init leave it but *)
(* for the boot messages, and as the clear command leaves it.              *)
Init ==
  /\ input_buffer = [k \in Buffer |-> NUL]
  /\ buffer_pos = 0
  /\ cursor_pos = 0
  /\ vga = vga_write(vga_clear([inside |-> TRUE]), TERMINAL_PROMPT)
  /\ executed = << >>

Next ==
  \/ CharLeft
  \/ CharRight
  \/ CharDel
  \/ CharBackspace
  \/ CharEnter
  \/ \E c \in Chars : CharTyped(c)

Spec == Init /\ [][Next]_vars

-----------------------------------------------------------------------------
(***************************************************************************)
(* Properties.                                                             *)
(***************************************************************************)

(* Type invariant of the editor.                                           *)
TypeOK ==
  /\ input_buffer \in [Buffer -> Chars \cup {NUL}]
  /\ buffer_pos \in Buffer
  /\ cursor_pos \in Buffer

(* The line is a C string in the buffer: exactly the first buffer_pos      *)
(* bytes are characters, so execute_command sees the whole line and its    *)
(* string functions stop inside the buffer.                                *)
LineTerminated ==
  /\ cursor_pos <= buffer_pos
  /\ \A k \in Buffer : input_buffer[k] # NUL <=> k < buffer_pos

Cell(x, y) == vga.cells[y * VGA_WIDTH + x]

(* The buffer with its two positions is a line of text with a cursor: the  *)
(* loops that move bytes in terminal_run insert and remove exactly one     *)
(* character, and execute_command sees the text as a whole.                *)
L == INSTANCE Line WITH
       text      <- [k \in 1 .. buffer_pos |-> input_buffer[k - 1]],
       cursor    <- cursor_pos,
       submitted <- executed,
       MaxLength <- TERMINAL_BUFFER_SIZE - 1

EditsLine == L!Spec

(* As long as the line leaves the last two columns of its row free, the    *)
(* user sees what is edited: the row of the cursor shows the prompt, the   *)
(* line and then blanks, and the cursor stands under cursor_pos.           *)
ScreenShowsLine ==
  /\ vga.inside
  /\ vga.cursor_x = prompt_length + cursor_pos
  /\ vga.cursor_y \in 0 .. VGA_HEIGHT - 1
  /\ \A x \in 0 .. VGA_WIDTH - 1 :
       Cell(x, vga.cursor_y) =
         IF x < prompt_length THEN TERMINAL_PROMPT[x + 1]
         ELSE IF x < prompt_length + buffer_pos THEN input_buffer[x - prompt_length]
         ELSE " "

(* Editing a line leaves the rest of the screen alone: only Enter changes  *)
(* another row.                                                            *)
OtherRowsKept ==
  [][\/ CharEnter
     \/ /\ vga'.cursor_y = vga.cursor_y
        /\ \A at \in Cells : at \div VGA_WIDTH # vga.cursor_y =>
             vga'.cells[at] = vga.cells[at]]_vars

(* The prompt is protected from being erased (terminal.c:15): its          *)
(* characters stand where the input line starts.                           *)
PromptKept ==
  \E y \in 0 .. VGA_HEIGHT - 1 : \A x \in 0 .. prompt_length - 1 :
    Cell(x, y) = TERMINAL_PROMPT[x + 1]
===============================================================================
