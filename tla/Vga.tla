--------------------------------- MODULE Vga ---------------------------------
(***************************************************************************)
(* The text screen of FoxOS (src/vga.c), as operators on its state: the    *)
(* character cells of video memory and the cursor.  Colours are left out.  *)
(* A write beyond the cells is remembered in the field "inside".           *)
(***************************************************************************)
EXTENDS Integers, Sequences

CONSTANTS
  VGA_WIDTH,   \* columns (80 in vga.h)
  VGA_HEIGHT,  \* rows (25 in vga.h)
  TabStop      \* columns from one tab stop to the next (8 in vga.c)

ASSUME VgaAssumption ==
  VGA_WIDTH \in Nat \ {0} /\ VGA_HEIGHT \in Nat \ {0} /\ TabStop \in Nat \ {0}

Cells == 0 .. VGA_WIDTH * VGA_HEIGHT - 1

vga_entry(v, at, c) ==
  IF at \in Cells THEN [v EXCEPT !.cells[at] = c] ELSE [v EXCEPT !.inside = FALSE]

vga_set_cursor(v, x, y) == [v EXCEPT !.cursor_x = x, !.cursor_y = y]

(* Every row takes the content of the one below, the last one is blanked.  *)
vga_scroll(v) ==
  [v EXCEPT !.cells = [at \in Cells |->
                         IF at + VGA_WIDTH \in Cells THEN v.cells[at + VGA_WIDTH] ELSE " "]]

vga_clear(v) ==
  [cells |-> [at \in Cells |-> " "], cursor_x |-> 0, cursor_y |-> 0, inside |-> v.inside]

(* Mutant: the screen scrolls a row too late.                              *)
ScrollLate(v) ==
  IF v.cursor_y > VGA_HEIGHT
  THEN [vga_scroll(v) EXCEPT !.cursor_y = VGA_HEIGHT - 1]
  ELSE v

(* The end of vga_putchar: on to the next row, and scroll past the last.   *)
Wrap(v) ==
  IF v.cursor_x >= VGA_WIDTH
  THEN vga_set_cursor(v, 0, v.cursor_y + 1)
  ELSE v

Scroll(v) ==
  IF v.cursor_y >= VGA_HEIGHT
  THEN [vga_scroll(v) EXCEPT !.cursor_y = VGA_HEIGHT - 1]
  ELSE v

(* The cell under the cursor is set.                                       *)
Here(v, c) == vga_entry(v, v.cursor_y * VGA_WIDTH + v.cursor_x, c)

(* Mutant: the cell is not blanked.                                        *)
BackspaceNoBlank(v) ==
  IF v.cursor_x > 0 THEN vga_set_cursor(v, v.cursor_x - 1, v.cursor_y)
  ELSE IF v.cursor_y > 0 THEN vga_set_cursor(v, VGA_WIDTH - 1, v.cursor_y - 1)
  ELSE Scroll(Wrap(v))

(* Backspace goes back over the start of a row and blanks the cell it      *)
(* arrives at; in the first cell of the screen it does nothing.            *)
Backspace(v) ==
  IF v.cursor_x > 0 THEN Here(vga_set_cursor(v, v.cursor_x - 1, v.cursor_y), " ")
  ELSE IF v.cursor_y > 0 THEN Here(vga_set_cursor(v, VGA_WIDTH - 1, v.cursor_y - 1), " ")
  ELSE Scroll(Wrap(v))

Tab(x) == ((x + TabStop) \div TabStop) * TabStop

vga_putchar(v, c) ==
  CASE c = "NL"  -> Scroll(Wrap(vga_set_cursor(v, 0, v.cursor_y + 1)))
    [] c = "CR"  -> Scroll(Wrap(vga_set_cursor(v, 0, v.cursor_y)))
    [] c = "TAB" -> Scroll(Wrap(vga_set_cursor(v, Tab(v.cursor_x), v.cursor_y)))
    [] c = "BS"  -> Backspace(v)
    [] OTHER    -> Scroll(Wrap(vga_set_cursor(Here(v, c), v.cursor_x + 1, v.cursor_y)))

vga_write(v, str) ==
  LET written[k \in 0 .. Len(str)] ==
        IF k = 0 THEN v ELSE vga_putchar(written[k - 1], str[k])
  IN  written[Len(str)]
=============================================================================
