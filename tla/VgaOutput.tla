------------------------------ MODULE VgaOutput ------------------------------
(***************************************************************************)
(* The screen under any output: characters are put one after another, by   *)
(* vga_write, vga_printf or directly, and now and then the screen is       *)
(* cleared.  Nobody moves the cursor by hand (Terminal does that).         *)
(*                                                                         *)
(* The history variables describe what the output is meant to look like: a *)
(* roll of paper without a bottom, one long row of cells in which position *)
(* n is column n % VGA_WIDTH of row n \div VGA_WIDTH.  The screen should   *)
(* be a window on it.                                                      *)
(***************************************************************************)
EXTENDS Vga

CONSTANTS
  Output,   \* characters that are put
  MaxRows   \* bound: rows of paper used before the screen is cleared

ASSUME OutputAssumption == MaxRows \in Nat /\ MaxRows >= VGA_HEIGHT

VARIABLES
  vga,     \* the screen
  paper,   \* history: what was written since the last clear
  pos,     \* history: the position on the paper
  top      \* history: the first row of the paper that is still visible

vars == <<vga, paper, pos, top>>

Positions == 0 .. MaxRows * VGA_WIDTH - 1

Row(n) == n \div VGA_WIDTH

(* Where a character leaves the position on the paper.                     *)
After(c) ==
  LET start == Row(pos) * VGA_WIDTH
      next  == start + VGA_WIDTH
      tab   == pos + (TabStop - ((pos - start) % TabStop))
  IN  CASE c = "NL"  -> next
        [] c = "CR"  -> start
        [] c = "TAB" -> IF tab < next THEN tab ELSE next
        [] c = "BS"  -> IF pos > top * VGA_WIDTH THEN pos - 1 ELSE pos
        [] OTHER     -> pos + 1

(* What a character leaves on the paper.                                   *)
Marked(c) ==
  CASE c \in {"NL", "CR", "TAB"} -> paper
    [] c = "BS" -> IF After(c) # pos THEN [paper EXCEPT ![pos - 1] = " "] ELSE paper
    [] OTHER    -> [paper EXCEPT ![pos] = c]

Put(c) ==
  /\ After(c) \in Positions
  /\ vga' = vga_putchar(vga, c)
  /\ paper' = Marked(c)
  /\ pos' = After(c)
  /\ top' = IF Row(pos') >= top + VGA_HEIGHT THEN Row(pos') - VGA_HEIGHT + 1 ELSE top

Clear ==
  /\ vga' = vga_clear(vga)
  /\ paper' = [n \in Positions |-> " "]
  /\ pos' = 0
  /\ top' = 0

(* vga_init.                                                               *)
Init ==
  /\ vga = vga_clear([inside |-> TRUE])
  /\ paper = [n \in Positions |-> " "]
  /\ pos = 0
  /\ top = 0

Next == Clear \/ \E c \in Output : Put(c)

Spec == Init /\ [][Next]_vars

-----------------------------------------------------------------------------
(***************************************************************************)
(* Properties.                                                             *)
(***************************************************************************)

(* vga_putchar never writes outside video memory, and always leaves the    *)
(* cursor on the screen.                                                   *)
CursorInside ==
  /\ vga.inside
  /\ vga.cursor_x \in 0 .. VGA_WIDTH - 1
  /\ vga.cursor_y \in 0 .. VGA_HEIGHT - 1

(* The screen shows the rows top to top + VGA_HEIGHT - 1 of the output and *)
(* nothing else: wrapping, tabs, backspaces over the start of a row and    *)
(* scrolling lose no character, repeat no row and leave nothing behind.    *)
ScreenIsWindow ==
  /\ vga.cursor_y * VGA_WIDTH + vga.cursor_x + top * VGA_WIDTH = pos
  /\ \A at \in Cells :
       LET n == at + top * VGA_WIDTH
       IN  vga.cells[at] = IF n \in Positions THEN paper[n] ELSE " "
=============================================================================
