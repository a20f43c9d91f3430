--------------------------- MODULE VgaOutputProofs ---------------------------
(***************************************************************************)
(* vga_putchar stays inside video memory, and the screen is a window on    *)
(* the output, for every size of the screen.                               *)
(*                                                                         *)
(* CursorInside is inductive once the screen is known to be a record of    *)
(* the right shape.  Two facts carry it: the position of a cursor on the   *)
(* screen is a cell, and the end of vga_putchar brings a cursor that is at *)
(* most one column or one row outside back onto the screen.                *)
(***************************************************************************)
EXTENDS VgaPrint, Induction, SequenceTheorems, TLAPS

(* A screen whose cursor is in column X and row Y.                         *)
Screen(X, Y) ==
  [cells : [Cells -> Output \cup {" "}], cursor_x : X, cursor_y : Y, inside : {TRUE}]

Columns == 0 .. VGA_WIDTH - 1
Rows == 0 .. VGA_HEIGHT - 1

Good == vga \in Screen(Columns, Rows)

(* The cursor position vga_putchar computes is the index of a cell.        *)
LEMMA CursorIsCell ==
  ASSUME NEW x \in Columns, NEW y \in Rows
  PROVE  y * VGA_WIDTH + x \in Cells
<1>1. VGA_WIDTH \in Nat /\ VGA_HEIGHT \in Nat /\ x \in Nat /\ y \in Nat
  BY VgaAssumption DEF Columns, Rows
<1>2. y * VGA_WIDTH <= (VGA_HEIGHT - 1) * VGA_WIDTH
  <2>1. PICK d \in Nat : VGA_HEIGHT - 1 = y + d
    BY <1>1 DEF Rows
  <2>2. (y + d) * VGA_WIDTH = y * VGA_WIDTH + d * VGA_WIDTH /\ d * VGA_WIDTH \in Nat
    BY <1>1
  <2>3. y * VGA_WIDTH \in Nat
    BY <1>1
  <2> QED BY <2>1, <2>2, <2>3
<1>3. (VGA_HEIGHT - 1) * VGA_WIDTH = VGA_WIDTH * VGA_HEIGHT - VGA_WIDTH
  BY <1>1
<1>4. y * VGA_WIDTH \in Nat /\ VGA_WIDTH * VGA_HEIGHT \in Nat
  BY <1>1
<1> QED BY <1>1, <1>2, <1>3, <1>4 DEF Cells, Columns

(* The last lines of vga_putchar bring back onto the screen a cursor that  *)
(* is past the end of its row or one row too low.                          *)
LEMMA WrapAndScroll ==
  ASSUME NEW v \in Screen(Nat, Rows) \cup Screen(Columns, 0 .. VGA_HEIGHT)
  PROVE  Scroll(Wrap(v)) \in Screen(Columns, Rows)
<1>1. VGA_WIDTH \in Nat \ {0} /\ VGA_HEIGHT \in Nat \ {0}
  BY VgaAssumption
<1>2. \/ v.cursor_x \in Nat /\ v.cursor_y \in Rows
      \/ v.cursor_x \in Columns /\ v.cursor_y \in 0 .. VGA_HEIGHT
  BY Zenon DEF Screen
<1>3. Wrap(v) \in Screen(Columns, 0 .. VGA_HEIGHT)
  <2>1. CASE v.cursor_x >= VGA_WIDTH
    <3>1. v.cursor_y \in Rows
      BY <1>1, <1>2, <2>1 DEF Columns
    <3>2. 0 \in Columns /\ v.cursor_y + 1 \in 0 .. VGA_HEIGHT
      BY <1>1, <3>1 DEF Columns, Rows
    <3>3. Wrap(v) = vga_set_cursor(v, 0, v.cursor_y + 1)
      BY <2>1 DEF Wrap
    <3> QED BY <3>2, <3>3, Zenon DEF vga_set_cursor, Screen
  <2>2. CASE ~(v.cursor_x >= VGA_WIDTH)
    <3>1. v.cursor_x \in Columns /\ v.cursor_y \in 0 .. VGA_HEIGHT
      BY <1>1, <1>2, <2>2 DEF Columns, Rows
    <3>2. Wrap(v) = v
      BY <2>2 DEF Wrap
    <3> QED BY <3>1, <3>2, Zenon DEF Screen
  <2> QED BY <2>1, <2>2
<1>4. ASSUME NEW w \in Screen(Columns, 0 .. VGA_HEIGHT)
      PROVE  Scroll(w) \in Screen(Columns, Rows)
  <2>1. [at \in Cells |-> IF at + VGA_WIDTH \in Cells THEN w.cells[at + VGA_WIDTH] ELSE " "]
          \in [Cells -> Output \cup {" "}]
    BY Zenon DEF Screen
  <2>2. VGA_HEIGHT - 1 \in Rows
    BY <1>1 DEF Rows
  <2>3. CASE w.cursor_y >= VGA_HEIGHT
    <3>1. Scroll(w) = [vga_scroll(w) EXCEPT !.cursor_y = VGA_HEIGHT - 1]
      BY <2>3 DEF Scroll
    <3> QED BY <2>1, <2>2, <3>1, Zenon DEF vga_scroll, Screen
  <2>4. CASE ~(w.cursor_y >= VGA_HEIGHT)
    <3>1. w.cursor_y \in 0 .. VGA_HEIGHT
      BY Zenon DEF Screen
    <3>2. w.cursor_y \in Rows
      BY <1>1, <2>4, <3>1 DEF Rows
    <3>3. Scroll(w) = w
      BY <2>4 DEF Scroll
    <3> QED BY <3>2, <3>3, Zenon DEF Screen
  <2> QED BY <2>3, <2>4
<1> QED BY <1>3, <1>4

(* Setting the cell under a cursor on the screen.                          *)
LEMMA HereInside ==
  ASSUME NEW v \in Screen(Columns, Rows), NEW c \in Output \cup {" "}
  PROVE  Here(v, c) \in Screen(Columns, Rows)
<1>1. v.cursor_x \in Columns /\ v.cursor_y \in Rows
  BY Zenon DEF Screen
<1>2. PICK at \in Cells : at = v.cursor_y * VGA_WIDTH + v.cursor_x
  BY <1>1, CursorIsCell, Zenon
<1>3. Here(v, c) = [v EXCEPT !.cells[at] = c]
  BY <1>2, Zenon DEF Here, vga_entry
<1> QED BY <1>3, Zenon DEF Screen

(* Moving the cursor changes nothing else.                                 *)
LEMMA CursorMoved ==
  ASSUME NEW X, NEW Y, NEW v \in Screen(Columns, Rows), NEW x \in X, NEW y \in Y
  PROVE  vga_set_cursor(v, x, y) \in Screen(X, Y)
BY Zenon DEF vga_set_cursor, Screen

(* One character, whatever it is: every branch of vga_putchar keeps the    *)
(* cursor on the screen.                                                   *)
LEMMA PutcharInside ==
  ASSUME NEW v \in Screen(Columns, Rows), NEW c \in Output
  PROVE  vga_putchar(v, c) \in Screen(Columns, Rows)
<1>1. VGA_WIDTH \in Nat \ {0} /\ VGA_HEIGHT \in Nat \ {0} /\ TabStop \in Nat \ {0}
  BY VgaAssumption
<1>2. PICK x \in Columns : x = v.cursor_x
  BY Zenon DEF Screen
<1>3. PICK y \in Rows : y = v.cursor_y
  BY Zenon DEF Screen
<1>4. 0 \in Columns /\ x \in Nat /\ x + 1 \in Nat /\ y + 1 \in 0 .. VGA_HEIGHT
  BY <1>1 DEF Columns, Rows
<1>5. CASE c = "NL"
  <2>1. vga_set_cursor(v, 0, y + 1) \in Screen(Columns, 0 .. VGA_HEIGHT)
    BY <1>4, CursorMoved, Zenon
  <2> QED BY <1>3, <1>5, <2>1, WrapAndScroll DEF vga_putchar
<1>6. CASE c = "CR"
  <2>1. vga_set_cursor(v, 0, y) \in Screen(Nat, Rows)
    BY <1>3, CursorMoved, Zenon
  <2> QED BY <1>3, <1>6, <2>1, WrapAndScroll DEF vga_putchar
<1>7. CASE c = "TAB"
  <2>1. Tab(x) \in Nat
    <3>1. (x + TabStop) \div TabStop \in Nat
      BY <1>1, <1>4
    <3> QED BY <1>1, <3>1 DEF Tab
  <2>2. vga_set_cursor(v, Tab(x), y) \in Screen(Nat, Rows)
    BY <2>1, CursorMoved
  <2> QED BY <1>2, <1>3, <1>7, <2>2, WrapAndScroll DEF vga_putchar
<1>8. CASE c = "BS"
  <2>1. CASE x > 0
    <3>1. vga_set_cursor(v, x - 1, y) \in Screen(Columns, Rows)
      <4>1. x - 1 \in Columns
        BY <1>1, <2>1 DEF Columns
      <4> QED BY <4>1, CursorMoved
    <3> QED BY <1>2, <1>3, <1>8, <2>1, <3>1, HereInside, Zenon DEF vga_putchar, Backspace
  <2>2. CASE ~(x > 0) /\ y > 0
    <3>1. vga_set_cursor(v, VGA_WIDTH - 1, y - 1) \in Screen(Columns, Rows)
      <4>1. VGA_WIDTH - 1 \in Columns /\ y - 1 \in Rows
        BY <1>1, <2>2 DEF Columns, Rows
      <4> QED BY <4>1, CursorMoved
    <3> QED BY <1>2, <1>3, <1>8, <2>2, <3>1, HereInside, Zenon DEF vga_putchar, Backspace
  <2>3. CASE ~(x > 0) /\ ~(y > 0)
    <3>1. v \in Screen(Columns, 0 .. VGA_HEIGHT)
      <4>1. v.cursor_y \in 0 .. VGA_HEIGHT
        BY <1>1, <1>3 DEF Rows
      <4> QED BY <4>1, Zenon DEF Screen
    <3> QED BY <1>2, <1>3, <1>8, <2>3, <3>1, WrapAndScroll, Zenon DEF vga_putchar, Backspace
  <2> QED BY <2>1, <2>2, <2>3
<1>9. CASE c \notin {"NL", "CR", "TAB", "BS"}
  <2>1. PICK w \in Screen(Columns, Rows) : w = Here(v, c)
    BY HereInside, Zenon
  <2>2. vga_set_cursor(w, x + 1, y) \in Screen(Nat, Rows)
    BY <1>4, CursorMoved, Zenon
  <2> QED BY <1>2, <1>3, <1>9, <2>1, <2>2, WrapAndScroll DEF vga_putchar
<1> QED BY <1>5, <1>6, <1>7, <1>8, <1>9

(* The screen right after vga_clear.                                       *)
LEMMA ClearInside ==
  ASSUME NEW v, v.inside = TRUE
  PROVE  vga_clear(v) \in Screen(Columns, Rows)
<1>1. 0 \in Columns /\ 0 \in Rows
  BY VgaAssumption DEF Columns, Rows
<1> QED BY <1>1, Zenon DEF vga_clear, Screen

(* Whatever is printed, vga_putchar writes only cells of the screen and    *)
(* leaves the cursor on it.                                                *)
THEOREM CursorStaysInside == Spec => []CursorInside
<1>1. Init => Good
  BY ClearInside, Zenon DEF Init, Good
<1>2. Good /\ [Next]_vars => Good'
  <2> SUFFICES ASSUME Good, [Next]_vars PROVE Good'
    OBVIOUS
  <2>1. CASE Clear
    BY <2>1, ClearInside, Zenon DEF Clear, Good, Screen
  <2>2. ASSUME NEW c \in Output, Put(c) PROVE Good'
    BY <2>2, PutcharInside DEF Put, Good
  <2>3. CASE UNCHANGED vars
    BY <2>3 DEF vars, Good
  <2> QED BY <2>1, <2>2, <2>3 DEF Next
<1>3. Good => CursorInside
  BY Zenon DEF Good, Screen, Columns, Rows, CursorInside
<1> QED BY <1>1, <1>2, <1>3, PTL DEF Spec

-----------------------------------------------------------------------------
(***************************************************************************)
(* The screen is a window on the paper.  The relation between the two is   *)
(* inductive together with one more fact: below the window the paper is    *)
(* blank, so that the row vga_scroll blanks is the row that appears.       *)
(***************************************************************************)

Ink == Output \cup {" "}

Sheets == [Positions -> Ink]

(* The screen v shows the sheet p from row g on.                           *)
Shows(v, p, g) ==
  /\ g \in Nat /\ g + VGA_HEIGHT <= MaxRows
  /\ \A at \in Cells : v.cells[at] = p[at + g * VGA_WIDTH]
  /\ \A n \in Positions : n >= (g + VGA_HEIGHT) * VGA_WIDTH => p[n] = " "

(* Where a cursor is on the paper.                                         *)
OnPaper(x, y, g) == (y + g) * VGA_WIDTH + x

WindowInv ==
  /\ Good
  /\ paper \in Sheets
  /\ Shows(vga, paper, top)
  /\ pos \in Positions
  /\ pos = OnPaper(vga.cursor_x, vga.cursor_y, top)

(* Rows do not overlap.                                                    *)
LEMMA RowsApart ==
  ASSUME NEW a \in Nat, NEW b \in Nat, a < b
  PROVE  /\ a * VGA_WIDTH \in Nat /\ b * VGA_WIDTH \in Nat
         /\ a * VGA_WIDTH + VGA_WIDTH <= b * VGA_WIDTH
<1>1. VGA_WIDTH \in Nat /\ VGA_WIDTH > 0
  BY VgaAssumption
<1>2. PICK d \in Nat : b = a + 1 + d
  <2>1. b - (a + 1) \in Nat /\ b = a + 1 + (b - (a + 1))
    OBVIOUS
  <2> QED BY <2>1
<1>3. d * VGA_WIDTH \in Nat /\ a * VGA_WIDTH \in Nat
  BY <1>1
<1>4. b * VGA_WIDTH = a * VGA_WIDTH + VGA_WIDTH + d * VGA_WIDTH
  BY <1>1, <1>2
<1> QED BY <1>1, <1>3, <1>4

(* The row of a position.                                                  *)
LEMMA RowOf ==
  ASSUME NEW x \in Columns, NEW r \in Nat
  PROVE  /\ r * VGA_WIDTH \in Nat /\ r * VGA_WIDTH + x \in Nat
         /\ Row(r * VGA_WIDTH + x) = r
<1>1. VGA_WIDTH \in Nat /\ VGA_WIDTH > 0 /\ x \in Nat /\ x < VGA_WIDTH
  BY VgaAssumption DEF Columns
<1>2. PICK n \in Nat : n = r * VGA_WIDTH + x
  BY <1>1
<1>3. PICK q \in Nat : q = Row(n) /\ VGA_WIDTH * q <= n /\ n < VGA_WIDTH * q + VGA_WIDTH
  BY <1>1 DEF Row
<1>4. VGA_WIDTH * q = q * VGA_WIDTH /\ q * VGA_WIDTH \in Nat /\ r * VGA_WIDTH \in Nat
  BY <1>1
<1>5. ~ (q < r)
  BY <1>1, <1>2, <1>3, <1>4, RowsApart
<1>6. ~ (r < q)
  BY <1>1, <1>2, <1>3, <1>4, RowsApart
<1> QED BY <1>2, <1>3, <1>4, <1>5, <1>6

(* A cell of the screen and a position on the paper, g rows further down.  *)
LEMMA CellOnPaper ==
  ASSUME NEW g \in Nat, g + VGA_HEIGHT <= MaxRows
  PROVE  /\ g * VGA_WIDTH \in Nat
         /\ (g + VGA_HEIGHT) * VGA_WIDTH = g * VGA_WIDTH + VGA_WIDTH * VGA_HEIGHT
         /\ VGA_WIDTH * VGA_HEIGHT \in Nat
         /\ (g + VGA_HEIGHT) * VGA_WIDTH <= MaxRows * VGA_WIDTH
         /\ MaxRows * VGA_WIDTH \in Nat
         /\ \A at \in Cells : at + g * VGA_WIDTH \in Positions
<1>1. VGA_WIDTH \in Nat /\ VGA_HEIGHT \in Nat /\ MaxRows \in Nat
  BY VgaAssumption, OutputAssumption
<1>2. /\ g * VGA_WIDTH \in Nat /\ VGA_WIDTH * VGA_HEIGHT \in Nat /\ MaxRows * VGA_WIDTH \in Nat
      /\ (g + VGA_HEIGHT) * VGA_WIDTH = g * VGA_WIDTH + VGA_WIDTH * VGA_HEIGHT
  BY <1>1
<1>3. (g + VGA_HEIGHT) * VGA_WIDTH <= MaxRows * VGA_WIDTH
  <2>1. CASE g + VGA_HEIGHT = MaxRows
    BY <1>1, <1>2, <2>1
  <2>2. CASE g + VGA_HEIGHT < MaxRows
    <3>1. PICK b \in Nat : b = g + VGA_HEIGHT
      BY <1>1
    <3>2. b * VGA_WIDTH + VGA_WIDTH <= MaxRows * VGA_WIDTH /\ b * VGA_WIDTH \in Nat
      BY <1>1, <2>2, <3>1, RowsApart
    <3> QED BY <1>1, <1>2, <3>1, <3>2
  <2> QED BY <1>1, <2>1, <2>2
<1> QED BY <1>2, <1>3 DEF Cells, Positions

(* The window after a character that leaves the position on the paper at n.*)
Moved(g, n) == IF Row(n) >= g + VGA_HEIGHT THEN Row(n) - VGA_HEIGHT + 1 ELSE g

(* Scrolling moves the window down by the row the cursor is below it.      *)
LEMMA ScrollIsWindow ==
  ASSUME NEW w \in Screen(Columns, 0 .. VGA_HEIGHT), NEW p \in Sheets, NEW g, Shows(w, p, g),
         NEW n \in Positions, n = OnPaper(w.cursor_x, w.cursor_y, g)
  PROVE  /\ Shows(Scroll(w), p, Moved(g, n))
         /\ n = OnPaper(Scroll(w).cursor_x, Scroll(w).cursor_y, Moved(g, n))
<1>1. VGA_WIDTH \in Nat \ {0} /\ VGA_HEIGHT \in Nat \ {0} /\ MaxRows \in Nat
  BY VgaAssumption, OutputAssumption
<1>2. g \in Nat /\ g + VGA_HEIGHT <= MaxRows
  BY Zenon DEF Shows
<1>3. PICK x \in Columns : x = w.cursor_x
  BY Zenon DEF Screen
<1>4. PICK y \in 0 .. VGA_HEIGHT : y = w.cursor_y
  BY Zenon DEF Screen
<1>5. PICK r \in Nat : r = y + g
  BY <1>1, <1>2
<1>6. n = r * VGA_WIDTH + x /\ Row(n) = r
  <2>1. n = r * VGA_WIDTH + x
    BY <1>3, <1>4, <1>5, Zenon DEF OnPaper
  <2> QED BY <2>1, RowOf, Zenon
<1>7. CASE y < VGA_HEIGHT
  <2>1. Scroll(w) = w
    BY <1>1, <1>4, <1>7 DEF Scroll
  <2>2. Moved(g, n) = g
    BY <1>1, <1>2, <1>5, <1>6, <1>7 DEF Moved
  <2> QED BY <2>1, <2>2
<1>8. CASE y = VGA_HEIGHT
  <2>1. PICK h \in Nat : h = g + 1
    BY <1>2
  <2>2. Moved(g, n) = h
    BY <1>1, <1>2, <1>5, <1>6, <1>8, <2>1 DEF Moved
  <2>3. r < MaxRows
    <3>1. r * VGA_WIDTH + x < MaxRows * VGA_WIDTH /\ x \in Nat
      BY <1>1, <1>6 DEF Positions, Columns
    <3>2. r * VGA_WIDTH \in Nat /\ MaxRows * VGA_WIDTH \in Nat
      BY <1>1
    <3>3. CASE MaxRows < r
      BY <1>1, <3>1, <3>2, <3>3, RowsApart
    <3>4. CASE MaxRows = r
      BY <3>1, <3>2, <3>4
    <3> QED BY <1>1, <3>3, <3>4
  <2>4. h + VGA_HEIGHT <= MaxRows
    BY <1>1, <1>2, <1>5, <1>8, <2>1, <2>3
  <2>5. /\ h * VGA_WIDTH = g * VGA_WIDTH + VGA_WIDTH /\ g * VGA_WIDTH \in Nat
        /\ (h + VGA_HEIGHT) * VGA_WIDTH = (g + VGA_HEIGHT) * VGA_WIDTH + VGA_WIDTH
        /\ (g + VGA_HEIGHT) * VGA_WIDTH = g * VGA_WIDTH + VGA_WIDTH * VGA_HEIGHT
        /\ VGA_WIDTH * VGA_HEIGHT \in Nat
    BY <1>1, <1>2, <2>1
  <2>6. PICK last \in Rows : last = VGA_HEIGHT - 1
    BY <1>1 DEF Rows
  <2>7. Scroll(w) = [vga_scroll(w) EXCEPT !.cursor_y = last]
    BY <1>1, <1>4, <1>8, <2>6 DEF Scroll
  <2>8. /\ Scroll(w).cursor_x = x /\ Scroll(w).cursor_y = last
        /\ Scroll(w).cells = [at \in Cells |-> IF at + VGA_WIDTH \in Cells
                                               THEN w.cells[at + VGA_WIDTH] ELSE " "]
    BY <1>3, <2>7, Zenon DEF vga_scroll, Screen
  <2>9. n = OnPaper(x, last, h)
    <3>1. last + h = r
      BY <1>1, <1>2, <1>5, <1>8, <2>1, <2>6
    <3> QED BY <1>6, <3>1 DEF OnPaper
  <2>10. ASSUME NEW at \in Cells PROVE Scroll(w).cells[at] = p[at + h * VGA_WIDTH]
    <3>1. at \in Nat /\ at + h * VGA_WIDTH = (at + VGA_WIDTH) + g * VGA_WIDTH
      BY <1>1, <2>5 DEF Cells
    <3>2. CASE at + VGA_WIDTH \in Cells
      BY <2>8, <3>1, <3>2, Zenon DEF Shows
    <3>3. CASE at + VGA_WIDTH \notin Cells
      <4>1. at + h * VGA_WIDTH >= (g + VGA_HEIGHT) * VGA_WIDTH
        BY <1>1, <2>5, <3>1, <3>3 DEF Cells
      <4>2. at + h * VGA_WIDTH \in Positions
        BY <2>4, CellOnPaper
      <4>3. p[at + h * VGA_WIDTH] = " "
        BY <4>1, <4>2, Zenon DEF Shows
      <4> QED BY <2>8, <3>3, <4>3, Zenon
    <3> QED BY <3>2, <3>3
  <2>11. ASSUME NEW m \in Positions, m >= (h + VGA_HEIGHT) * VGA_WIDTH PROVE p[m] = " "
    <3>1. m >= (g + VGA_HEIGHT) * VGA_WIDTH
      BY <1>1, <2>5, <2>11 DEF Positions
    <3> QED BY <3>1, Zenon DEF Shows
  <2>12. Shows(Scroll(w), p, h)
    BY <2>4, <2>10, <2>11, Zenon DEF Shows
  <2> QED BY <2>2, <2>8, <2>9, <2>12, Zenon
<1> QED BY <1>1, <1>7, <1>8

(* A character goes to the same place on the screen and on the paper.      *)
LEMMA HereIsMarked ==
  ASSUME NEW v \in Screen(Columns, Rows), NEW p \in Sheets, NEW g, Shows(v, p, g),
         NEW c \in Ink, NEW n \in Int, n = OnPaper(v.cursor_x, v.cursor_y, g)
  PROVE  /\ n \in Positions
         /\ [p EXCEPT ![n] = c] \in Sheets
         /\ Shows(Here(v, c), [p EXCEPT ![n] = c], g)
<1>1. VGA_WIDTH \in Nat \ {0} /\ VGA_HEIGHT \in Nat \ {0} /\ MaxRows \in Nat
  BY VgaAssumption, OutputAssumption
<1>2. g \in Nat /\ g + VGA_HEIGHT <= MaxRows
  BY Zenon DEF Shows
<1>3. PICK x \in Columns : x = v.cursor_x
  BY Zenon DEF Screen
<1>4. PICK y \in Rows : y = v.cursor_y
  BY Zenon DEF Screen
<1>5. PICK here \in Cells : here = y * VGA_WIDTH + x
  BY CursorIsCell
<1>6. Here(v, c).cells = [v.cells EXCEPT ![here] = c]
  BY <1>3, <1>4, <1>5, Zenon DEF Here, vga_entry, Screen
<1>7. n = here + g * VGA_WIDTH
  <2>1. x \in Nat /\ y \in Nat
    BY <1>1 DEF Columns, Rows
  <2> QED BY <1>1, <1>2, <1>3, <1>4, <1>5, <2>1 DEF OnPaper
<1>8. n \in Positions
  BY <1>2, <1>7, CellOnPaper
<1>9. PICK q \in Sheets : q = [p EXCEPT ![n] = c]
  BY Zenon DEF Sheets
<1>10. g * VGA_WIDTH \in Nat
  BY <1>1, <1>2
<1>11. ASSUME NEW at \in Cells PROVE Here(v, c).cells[at] = q[at + g * VGA_WIDTH]
  <2>1. at \in Int /\ here \in Int /\ at + g * VGA_WIDTH \in Positions
    BY <1>2, CellOnPaper DEF Cells
  <2>2. (at + g * VGA_WIDTH = n) <=> (at = here)
    BY <1>7, <1>10, <2>1
  <2>3. q[at + g * VGA_WIDTH] = IF at = here THEN c ELSE p[at + g * VGA_WIDTH]
    BY <1>9, <2>1, <2>2 DEF Sheets
  <2>4. Here(v, c).cells[at] = IF at = here THEN c ELSE v.cells[at]
    BY <1>6, Zenon DEF Screen
  <2> QED BY <2>3, <2>4, Zenon DEF Shows
<1>12. ASSUME NEW m \in Positions, m >= (g + VGA_HEIGHT) * VGA_WIDTH PROVE q[m] = " "
  <2>1. n < (g + VGA_HEIGHT) * VGA_WIDTH
    BY <1>2, <1>7, <1>10, CellOnPaper DEF Cells
  <2>2. m # n
    BY <1>8, <1>12, <2>1, <1>1, <1>2 DEF Positions
  <2>3. q[m] = p[m]
    BY <1>9, <2>2 DEF Sheets
  <2> QED BY <1>12, <2>3, Zenon DEF Shows
<1> QED BY <1>2, <1>8, <1>9, <1>11, <1>12, Zenon DEF Shows

(* Moving the cursor leaves the cells alone, and the end of vga_putchar    *)
(* takes a cursor that is past the last column to the next row.            *)
LEMMA WrapMoved ==
  ASSUME NEW v \in Screen(Columns, Rows), NEW x \in Nat, NEW y \in 0 .. VGA_HEIGHT
  PROVE  /\ vga_set_cursor(v, x, y).cells = v.cells
         /\ vga_set_cursor(v, x, y).cursor_x = x
         /\ vga_set_cursor(v, x, y).cursor_y = y
         /\ Wrap(vga_set_cursor(v, x, y)) =
              IF x >= VGA_WIDTH THEN vga_set_cursor(v, 0, y + 1) ELSE vga_set_cursor(v, x, y)
BY Zenon DEF Wrap, vga_set_cursor, Screen

(* What a screen shows depends on its cells alone.                         *)
LEMMA ShowsSameCells ==
  ASSUME NEW v, NEW w, w.cells = v.cells, NEW p, NEW g, Shows(v, p, g)
  PROVE  Shows(w, p, g)
BY Zenon DEF Shows

(* Division with remainder, as one equation.                               *)
LEMMA Division ==
  ASSUME NEW a \in Nat, NEW b \in Nat, b > 0
  PROVE  \E q \in Nat, r \in 0 .. b - 1 : q = a \div b /\ r = a % b /\ a = b * q + r
<1>1. a \div b \in Nat /\ a % b \in 0 .. b - 1
  OBVIOUS
<1>2. a % b = a - b * (a \div b)
  OBVIOUS
<1>3. PICK q \in Nat : q = a \div b
  BY <1>1
<1>4. PICK r \in 0 .. b - 1 : r = a % b
  BY <1>1
<1>5. r = a - b * q /\ b * q \in Nat
  BY <1>2, <1>3, <1>4
<1>6. a = b * q + r
  BY <1>5
<1> QED BY <1>3, <1>4, <1>6, Zenon

(* The next tab stop.                                                      *)
LEMMA TabIsAhead ==
  ASSUME NEW x \in Nat
  PROVE  Tab(x) \in Nat /\ Tab(x) = x + (TabStop - (x % TabStop))
<1>1. TabStop \in Nat /\ TabStop > 0
  BY VgaAssumption
<1>2. PICK q \in Nat, r \in 0 .. TabStop - 1 :
        q = x \div TabStop /\ r = x % TabStop /\ x = TabStop * q + r
  BY <1>1, Division
<1>3. PICK z \in Nat : z = x + TabStop
  BY <1>1
<1>4. PICK d \in Nat, m \in 0 .. TabStop - 1 :
        d = z \div TabStop /\ m = z % TabStop /\ z = TabStop * d + m
  BY <1>1, Division
<1>7. TabStop * q + TabStop + r = TabStop * d + m
  BY <1>1, <1>2, <1>3, <1>4
<1>8. d = q + 1
  <2>1. TabStop * (q + 1) = TabStop * q + TabStop
    BY <1>1
  <2>2. CASE d > q + 1
    <3>1. PICK e \in Nat : d = q + 1 + 1 + e
      <4>1. d - (q + 2) \in Nat /\ d = q + 1 + 1 + (d - (q + 2))
        BY <2>2
      <4> QED BY <4>1
    <3>2. TabStop * d = TabStop * q + TabStop + TabStop + TabStop * e /\ TabStop * e \in Nat
      BY <1>1, <3>1
    <3> QED BY <1>1, <1>7, <3>2
  <2>3. CASE d < q + 1
    <3>1. PICK e \in Nat : q = d + e
      <4>1. q - d \in Nat /\ q = d + (q - d)
        BY <2>3
      <4> QED BY <4>1
    <3>2. TabStop * q = TabStop * d + TabStop * e /\ TabStop * e \in Nat
      BY <1>1, <3>1
    <3> QED BY <1>1, <1>7, <3>2
  <2> QED BY <2>2, <2>3
<1>9. Tab(x) = (q + 1) * TabStop
  BY <1>3, <1>4, <1>8 DEF Tab
<1>10. (q + 1) * TabStop = TabStop * q + TabStop /\ TabStop * q \in Nat
  BY <1>1
<1> QED BY <1>1, <1>2, <1>9, <1>10

(* The same line of argument for every character: w is the screen before   *)
(* the last test of vga_putchar.                                           *)
LEMMA Settled ==
  ASSUME WindowInv, NEW c \in Output, Put(c),
         NEW w \in Screen(Columns, 0 .. VGA_HEIGHT), vga_putchar(vga, c) = Scroll(w),
         paper' \in Sheets, Shows(w, paper', top), pos' = OnPaper(w.cursor_x, w.cursor_y, top)
  PROVE  WindowInv'
<1>1. vga' = Scroll(w) /\ Good'
  BY PutcharInside DEF Put, WindowInv, Good
<1>2. pos' \in Positions /\ top' = Moved(top, pos')
  BY DEF Put, Moved
<1>3. PICK p \in Sheets : p = paper'
  OBVIOUS
<1>4. PICK n \in Positions : n = pos'
  BY <1>2
<1>5. Shows(w, p, top) /\ n = OnPaper(w.cursor_x, w.cursor_y, top)
  BY <1>3, <1>4
<1>6. /\ Shows(Scroll(w), p, Moved(top, n))
      /\ n = OnPaper(Scroll(w).cursor_x, Scroll(w).cursor_y, Moved(top, n))
  BY <1>5, ScrollIsWindow
<1> QED BY <1>1, <1>2, <1>3, <1>4, <1>6 DEF WindowInv

(* Each kind of character moves the screen and the paper alike.            *)
LEMMA PutIsWindow ==
  ASSUME WindowInv, NEW c \in Output, Put(c)
  PROVE  WindowInv'
<1>1. VGA_WIDTH \in Nat \ {0} /\ VGA_HEIGHT \in Nat \ {0} /\ TabStop \in Nat \ {0}
  BY VgaAssumption
<1>2. /\ vga \in Screen(Columns, Rows) /\ paper \in Sheets /\ Shows(vga, paper, top)
      /\ top \in Nat
  BY Zenon DEF WindowInv, Good, Shows
<1>3. PICK x \in Columns : x = vga.cursor_x
  BY <1>2, Zenon DEF Screen
<1>4. PICK y \in Rows : y = vga.cursor_y
  BY <1>2, Zenon DEF Screen
<1>5. /\ 0 \in Columns /\ x \in Nat /\ x < VGA_WIDTH /\ y \in Nat /\ y < VGA_HEIGHT
      /\ y + 1 \in 0 .. VGA_HEIGHT /\ y \in 0 .. VGA_HEIGHT
  BY <1>1 DEF Columns, Rows
<1>6. PICK r \in Nat : r = y + top
  BY <1>2, <1>5
<1>7. PICK start \in Nat : start = r * VGA_WIDTH
  BY <1>1
<1>8. pos = start + x /\ Row(pos) = r
  BY <1>3, <1>4, <1>6, <1>7, RowOf DEF WindowInv, OnPaper
<1>9. OnPaper(0, y, top) = start /\ OnPaper(0, y + 1, top) = start + VGA_WIDTH
  <2>1. (y + 1 + top) * VGA_WIDTH = r * VGA_WIDTH + VGA_WIDTH
    BY <1>1, <1>2, <1>5, <1>6
  <2> QED BY <1>1, <1>2, <1>5, <1>6, <1>7, <2>1 DEF OnPaper
<1>10. pos' = After(c) /\ paper' = Marked(c)
  BY DEF Put
<1>a. ASSUME NEW u \in Screen(Columns, Rows), NEW x1 \in Nat, NEW y1 \in 0 .. VGA_HEIGHT,
             x1 < VGA_WIDTH \/ y1 < VGA_HEIGHT,
             vga_putchar(vga, c) = Scroll(Wrap(vga_set_cursor(u, x1, y1))),
             Shows(u, paper', top), paper' \in Sheets,
             pos' = IF x1 >= VGA_WIDTH THEN OnPaper(0, y1 + 1, top) ELSE OnPaper(x1, y1, top)
      PROVE  WindowInv'
  <2>1. CASE x1 >= VGA_WIDTH
    <3>1. PICK y2 \in 0 .. VGA_HEIGHT : y2 = y1 + 1
      BY <1>1, <1>a, <2>1
    <3>2. PICK w : w = vga_set_cursor(u, 0, y2)
      OBVIOUS
    <3>3. w \in Screen(Columns, 0 .. VGA_HEIGHT)
      BY <1>5, <3>2, CursorMoved, Zenon
    <3>4. w.cells = u.cells /\ w.cursor_x = 0 /\ w.cursor_y = y2
      BY <3>2, WrapMoved
    <3>5. vga_putchar(vga, c) = Scroll(w)
      BY <1>a, <2>1, <3>1, <3>2, WrapMoved
    <3>6. Shows(w, paper', top)
      BY <1>a, <3>4, ShowsSameCells
    <3>7. pos' = OnPaper(w.cursor_x, w.cursor_y, top)
      BY <1>a, <2>1, <3>1, <3>4
    <3> QED BY <1>a, <3>3, <3>5, <3>6, <3>7, Settled
  <2>2. CASE ~ (x1 >= VGA_WIDTH)
    <3>2. PICK w : w = vga_set_cursor(u, x1, y1)
      OBVIOUS
    <3>3. w \in Screen(Columns, 0 .. VGA_HEIGHT)
      <4>1. x1 \in Columns
        BY <1>1, <2>2 DEF Columns
      <4> QED BY <3>2, <4>1, CursorMoved, Zenon
    <3>4. w.cells = u.cells /\ w.cursor_x = x1 /\ w.cursor_y = y1
      BY <3>2, WrapMoved
    <3>5. vga_putchar(vga, c) = Scroll(w)
      BY <1>a, <2>2, <3>2, WrapMoved
    <3>6. Shows(w, paper', top)
      BY <1>a, <3>4, ShowsSameCells
    <3>7. pos' = OnPaper(w.cursor_x, w.cursor_y, top)
      BY <1>a, <2>2, <3>4
    <3> QED BY <1>a, <3>3, <3>5, <3>6, <3>7, Settled
  <2> QED BY <2>1, <2>2
<1>11. CASE c = "NL"
  <2>1. paper' = paper /\ pos' = start + VGA_WIDTH
    BY <1>7, <1>8, <1>10, <1>11 DEF Marked, After
  <2>2. vga_putchar(vga, c) = Scroll(Wrap(vga_set_cursor(vga, 0, y + 1)))
    BY <1>4, <1>11 DEF vga_putchar
  <2>3. 0 < VGA_WIDTH /\ ~ (0 >= VGA_WIDTH)
    BY <1>1
  <2> QED BY <1>2, <1>5, <1>9, <1>a, <2>1, <2>2, <2>3
<1>12. CASE c = "CR"
  <2>1. paper' = paper /\ pos' = start
    BY <1>7, <1>8, <1>10, <1>12 DEF Marked, After
  <2>2. vga_putchar(vga, c) = Scroll(Wrap(vga_set_cursor(vga, 0, y)))
    BY <1>4, <1>12 DEF vga_putchar
  <2>3. 0 < VGA_WIDTH /\ ~ (0 >= VGA_WIDTH)
    BY <1>1
  <2> QED BY <1>2, <1>5, <1>9, <1>a, <2>1, <2>2, <2>3
<1>13. CASE c = "TAB"
  <2>1. PICK t \in Nat : t = Tab(x) /\ t = x + (TabStop - (x % TabStop))
    BY <1>5, TabIsAhead
  <2>2. pos - start = x
    BY <1>5, <1>8
  <2>3. pos + (TabStop - ((pos - start) % TabStop)) = start + t
    <3>1. x % TabStop \in Int
      BY <1>1, <1>5
    <3> QED BY <1>1, <1>5, <1>8, <2>1, <2>2, <3>1
  <2>4. paper' = paper /\ pos' = IF start + t < start + VGA_WIDTH THEN start + t
                                ELSE start + VGA_WIDTH
    BY <1>7, <1>8, <1>10, <1>13, <2>3 DEF Marked, After
  <2>5. pos' = IF t >= VGA_WIDTH THEN OnPaper(0, y + 1, top) ELSE OnPaper(t, y, top)
    <3>1. OnPaper(t, y, top) = start + t
      BY <1>6, <1>7 DEF OnPaper
    <3> QED BY <1>1, <1>9, <2>4, <3>1
  <2>6. vga_putchar(vga, c) = Scroll(Wrap(vga_set_cursor(vga, t, y)))
    BY <1>3, <1>4, <1>13, <2>1 DEF vga_putchar
  <2> QED BY <1>2, <1>5, <1>a, <2>4, <2>5, <2>6
<1>14. CASE c = "BS"
  <2> USE <1>14
  <2>1. top * VGA_WIDTH \in Nat /\ start = y * VGA_WIDTH + top * VGA_WIDTH /\ y * VGA_WIDTH \in Nat
    BY <1>1, <1>2, <1>5, <1>6, <1>7
  <2>2. vga_putchar(vga, c) = Backspace(vga)
    BY DEF vga_putchar
  <2>3. ASSUME NEW x1 \in Columns, NEW y1 \in Rows, pos > top * VGA_WIDTH,
               pos - 1 = OnPaper(x1, y1, top),
               Backspace(vga) = Here(vga_set_cursor(vga, x1, y1), " ")
        PROVE  WindowInv'
    <3>0. pos > top * VGA_WIDTH
      BY <2>3, Zenon
    <3>1. pos \in Nat
      BY <1>5, <1>8
    <3>2. pos' = pos - 1 /\ paper' = [paper EXCEPT ![pos - 1] = " "]
      <4>1. After(c) = IF pos > top * VGA_WIDTH THEN pos - 1 ELSE pos
        BY DEF After
      <4>2. Marked(c) = IF After(c) # pos THEN [paper EXCEPT ![pos - 1] = " "] ELSE paper
        BY DEF Marked
      <4>3. After(c) = pos - 1 /\ pos - 1 # pos
        BY <3>0, <3>1, <4>1
      <4> QED BY <1>10, <4>2, <4>3, Zenon
    <3>3. PICK n \in Int : n = pos - 1
      BY <3>1
    <3>4. PICK u \in Screen(Columns, Rows) : u = vga_set_cursor(vga, x1, y1)
      BY <1>2, CursorMoved
    <3>5. u.cells = vga.cells /\ u.cursor_x = x1 /\ u.cursor_y = y1
      BY <1>2, <3>4, Zenon DEF vga_set_cursor, Screen
    <3>6. Shows(u, paper, top) /\ n = OnPaper(u.cursor_x, u.cursor_y, top)
      BY <1>2, <2>3, <3>3, <3>5, ShowsSameCells, Zenon
    <3>7. " " \in Ink
      BY DEF Ink
    <3>8. [paper EXCEPT ![n] = " "] \in Sheets /\ Shows(Here(u, " "), [paper EXCEPT ![n] = " "], top)
      BY <1>2, <3>6, <3>7, HereIsMarked, Zenon
    <3>9. PICK w \in Screen(Columns, Rows) : w = Here(u, " ")
      BY HereInside, Zenon
    <3>10. w.cursor_x = x1 /\ w.cursor_y = y1
      BY <3>5, <3>9, Zenon DEF Here, vga_entry, Screen
    <3>11. w \in Screen(Columns, 0 .. VGA_HEIGHT)
      <4>1. y1 \in 0 .. VGA_HEIGHT
        BY <1>1 DEF Rows
      <4> QED BY <3>10, <4>1, Zenon DEF Screen
    <3>12. Scroll(w) = w
      <4>1. ~ (y1 >= VGA_HEIGHT)
        BY <1>1 DEF Rows
      <4> QED BY <3>10, <4>1 DEF Scroll
    <3>13. vga_putchar(vga, c) = Scroll(w)
      BY <2>2, <2>3, <3>4, <3>9, <3>12, Zenon
    <3>14. /\ paper' \in Sheets /\ Shows(w, paper', top)
           /\ pos' = OnPaper(w.cursor_x, w.cursor_y, top)
      BY <2>3, <3>2, <3>3, <3>8, <3>9, <3>10, Zenon
    <3> QED BY <3>11, <3>13, <3>14, Settled
  <2>4. CASE x > 0
    <3>1. PICK x1 \in Columns : x1 = x - 1
      BY <1>1, <1>5, <2>4 DEF Columns
    <3>2. pos > top * VGA_WIDTH
      BY <1>5, <1>8, <2>1, <2>4
    <3>3. pos - 1 = OnPaper(x1, y, top)
      BY <1>5, <1>6, <1>7, <1>8, <3>1 DEF OnPaper
    <3>4. Backspace(vga) = Here(vga_set_cursor(vga, x1, y), " ")
      BY <1>3, <1>4, <2>4, <3>1, Zenon DEF Backspace
    <3> QED BY <2>3, <3>2, <3>3, <3>4, Zenon
  <2>5. CASE ~ (x > 0) /\ y > 0
    <3>1. PICK x1 \in Columns : x1 = VGA_WIDTH - 1
      BY <1>1 DEF Columns
    <3>2. PICK y1 \in Rows : y1 = y - 1
      BY <1>1, <1>5, <2>5 DEF Rows
    <3>3. y1 \in Nat /\ y = y1 + 1 /\ x = 0
      BY <1>5, <2>5, <3>2 DEF Rows
    <3>4. y * VGA_WIDTH = y1 * VGA_WIDTH + VGA_WIDTH /\ y1 * VGA_WIDTH \in Nat
      BY <1>1, <3>3
    <3>5. pos > top * VGA_WIDTH
      BY <1>1, <1>5, <1>8, <2>1, <3>3, <3>4
    <3>6. pos - 1 = OnPaper(x1, y1, top)
      <4>1. (y1 + top) * VGA_WIDTH = y1 * VGA_WIDTH + top * VGA_WIDTH
        BY <1>1, <1>2, <3>3
      <4> QED BY <1>1, <1>8, <2>1, <3>1, <3>3, <3>4, <4>1 DEF OnPaper
    <3>7. Backspace(vga) = Here(vga_set_cursor(vga, x1, y1), " ")
      BY <1>3, <1>4, <2>5, <3>1, <3>2, Zenon DEF Backspace
    <3> QED BY <2>3, <3>5, <3>6, <3>7, Zenon
  <2>6. CASE ~ (x > 0) /\ ~ (y > 0)
    <3>1. x = 0 /\ y = 0
      BY <1>5, <2>6
    <3>2. pos = top * VGA_WIDTH
      BY <1>1, <1>8, <2>1, <3>1
    <3>3. pos' = pos /\ paper' = paper
      <4>1. After(c) = IF pos > top * VGA_WIDTH THEN pos - 1 ELSE pos
        BY DEF After
      <4>2. Marked(c) = IF After(c) # pos THEN [paper EXCEPT ![pos - 1] = " "] ELSE paper
        BY DEF Marked
      <4>3. After(c) = pos
        BY <2>1, <3>2, <4>1
      <4> QED BY <1>10, <4>2, <4>3
    <3>4. vga_putchar(vga, c) = Scroll(vga)
      <4>1. Wrap(vga) = vga
        BY <1>1, <1>3, <3>1 DEF Wrap
      <4> QED BY <1>3, <1>4, <2>2, <2>6, <4>1, Zenon DEF Backspace
    <3>5. vga \in Screen(Columns, 0 .. VGA_HEIGHT)
      BY <1>2, <1>4, <1>5, Zenon DEF Screen
    <3>6. pos' = OnPaper(vga.cursor_x, vga.cursor_y, top)
      BY <3>3 DEF WindowInv
    <3> QED BY <1>2, <3>3, <3>4, <3>5, <3>6, Settled
  <2> QED BY <2>4, <2>5, <2>6
<1>15. CASE c \notin {"NL", "CR", "TAB", "BS"}
  <2>1. pos' = pos + 1 /\ paper' = [paper EXCEPT ![pos] = c]
    BY <1>10, <1>15, Zenon DEF After, Marked
  <2>2. c \in Ink /\ pos \in Int /\ pos = OnPaper(vga.cursor_x, vga.cursor_y, top)
    <3>1. c \in Ink
      BY Zenon DEF Ink
    <3>2. pos \in Int
      BY <1>5, <1>8
    <3> QED BY <3>1, <3>2 DEF WindowInv
  <2>3. PICK n \in Int : n = pos
    BY <2>2
  <2>4. [paper EXCEPT ![n] = c] \in Sheets /\ Shows(Here(vga, c), [paper EXCEPT ![n] = c], top)
    BY <1>2, <2>2, <2>3, HereIsMarked
  <2>5. PICK u \in Screen(Columns, Rows) : u = Here(vga, c)
    BY <1>2, HereInside, Zenon
  <2>6. paper' \in Sheets /\ Shows(u, paper', top)
    BY <2>1, <2>3, <2>4, <2>5
  <2>7. vga_putchar(vga, c) = Scroll(Wrap(vga_set_cursor(u, x + 1, y)))
    BY <1>3, <1>4, <1>15, <2>5 DEF vga_putchar
  <2>8. pos' = IF x + 1 >= VGA_WIDTH THEN OnPaper(0, y + 1, top) ELSE OnPaper(x + 1, y, top)
    <3>1. OnPaper(x + 1, y, top) = start + x + 1
      BY <1>5, <1>6, <1>7 DEF OnPaper
    <3> QED BY <1>1, <1>5, <1>8, <1>9, <2>1, <3>1
  <2>9. PICK x1 \in Nat : x1 = x + 1
    BY <1>5
  <2> QED BY <1>5, <1>a, <2>6, <2>7, <2>8, <2>9
<1> QED BY <1>11, <1>12, <1>13, <1>14, <1>15

(* Whatever is printed, the screen shows the last rows of what one long    *)
(* sheet of paper would show, for every size of the screen and every       *)
(* distance between tab stops.                                             *)
THEOREM ScreenStaysWindow == Spec => []ScreenIsWindow
<1>1. ASSUME NEW v, v.cells = [at \in Cells |-> " "]
      PROVE  Shows(v, [n \in Positions |-> " "], 0)
  <2>1. /\ 0 \in Nat /\ 0 + VGA_HEIGHT <= MaxRows /\ 0 * VGA_WIDTH = 0
    BY VgaAssumption, OutputAssumption
  <2>2. \A at \in Cells : at + 0 * VGA_WIDTH \in Positions
    BY <2>1, CellOnPaper
  <2> QED BY <1>1, <2>1, <2>2, Zenon DEF Shows
<1>2. ASSUME NEW v, v.inside = TRUE
      PROVE  /\ vga_clear(v) \in Screen(Columns, Rows)
             /\ [n \in Positions |-> " "] \in Sheets
             /\ Shows(vga_clear(v), [n \in Positions |-> " "], 0)
             /\ 0 \in Positions /\ 0 = OnPaper(vga_clear(v).cursor_x, vga_clear(v).cursor_y, 0)
  <2>1. vga_clear(v) \in Screen(Columns, Rows)
    BY <1>2, ClearInside, Zenon
  <2>2. " " \in Ink
    BY Zenon DEF Ink
  <2>3. [n \in Positions |-> " "] \in Sheets
    BY <2>2, Zenon DEF Sheets
  <2>4. /\ vga_clear(v).cells = [at \in Cells |-> " "]
        /\ vga_clear(v).cursor_x = 0 /\ vga_clear(v).cursor_y = 0
    BY DEF vga_clear
  <2>5. 0 \in Positions
    <3>1. VGA_WIDTH \in Nat \ {0} /\ MaxRows \in Nat \ {0}
      BY VgaAssumption, OutputAssumption
    <3>2. 0 < MaxRows
      BY <3>1
    <3>3. 0 * VGA_WIDTH + VGA_WIDTH <= MaxRows * VGA_WIDTH /\ MaxRows * VGA_WIDTH \in Nat
      BY <3>1, <3>2, RowsApart
    <3> QED BY <3>1, <3>3 DEF Positions
  <2>6. OnPaper(0, 0, 0) = 0
    BY VgaAssumption DEF OnPaper
  <2> QED BY <1>1, <2>1, <2>3, <2>4, <2>5, <2>6, Zenon
<1>3. Init => WindowInv
  <2>1. [inside |-> TRUE].inside = TRUE
    OBVIOUS
  <2> QED BY <1>2, <2>1, Zenon DEF Init, WindowInv, Good
<1>4. WindowInv /\ [Next]_vars => WindowInv'
  <2> SUFFICES ASSUME WindowInv, [Next]_vars PROVE WindowInv'
    OBVIOUS
  <2>1. CASE Clear
    <3>1. vga.inside = TRUE
      BY Zenon DEF WindowInv, Good, Screen
    <3> QED BY <1>2, <2>1, <3>1, Zenon DEF Clear, WindowInv, Good
  <2>2. ASSUME NEW c \in Output, Put(c) PROVE WindowInv'
    BY <2>2, PutIsWindow
  <2>3. CASE UNCHANGED vars
    BY <2>3 DEF vars, WindowInv, Good
  <2> QED BY <2>1, <2>2, <2>3 DEF Next
<1>5. WindowInv => ScreenIsWindow
  <2> SUFFICES ASSUME WindowInv PROVE ScreenIsWindow
    OBVIOUS
  <2>0. vga.cursor_x \in Columns /\ vga.cursor_y \in Rows
    BY Zenon DEF WindowInv, Good, Screen
  <2>1. PICK x \in Nat : x = vga.cursor_x
    BY <2>0 DEF Columns
  <2>2. PICK y \in Nat : y = vga.cursor_y
    BY <2>0 DEF Rows
  <2>3. PICK g \in Nat : g = top /\ g + VGA_HEIGHT <= MaxRows
    BY Zenon DEF WindowInv, Shows
  <2>4. y * VGA_WIDTH + x + g * VGA_WIDTH = (y + g) * VGA_WIDTH + x
    BY VgaAssumption
  <2>5. pos = (y + g) * VGA_WIDTH + x
    BY <2>1, <2>2, <2>3 DEF WindowInv, OnPaper
  <2>6. \A at \in Cells : at + g * VGA_WIDTH \in Positions
    BY <2>3, CellOnPaper
  <2>7. \A at \in Cells : vga.cells[at] = paper[at + g * VGA_WIDTH]
    BY <2>3, Zenon DEF WindowInv, Shows
  <2> QED BY <2>1, <2>2, <2>3, <2>4, <2>5, <2>6, <2>7, Zenon DEF ScreenIsWindow
<1> QED BY <1>3, <1>4, <1>5, PTL DEF Spec

-----------------------------------------------------------------------------
(* f has the value c below 1, and up to m every value of f is the step G   *)
(* from the value at the lesser number H[n].                               *)
Descends(f, m, S, c, H, G) ==
  /\ f \in [Int -> S]
  /\ \A n \in Int : n <= 0 => f[n] = c
  /\ \A n \in 1 .. m : f[n] = G[n][f[H[n]]]

StaysIn(S, G) == \A n \in Nat : n > 0 => \A s \in S : G[n][s] \in S

Solves(f, S, c, H, G) ==
  f \in [Int -> S] /\ \A n \in Int : f[n] = IF n > 0 THEN G[n][f[H[n]]] ELSE c

Lowers(H) == \A n \in Nat : n > 0 => H[n] \in Nat /\ H[n] < n

(* Two such functions agree as far as both follow the recursion.           *)
LEMMA DescentUnique ==
  ASSUME NEW S, NEW c, NEW H, NEW G, Lowers(H), NEW m \in Nat, NEW l \in Nat,
         NEW f, Descends(f, m, S, c, H, G), NEW g, Descends(g, l, S, c, H, G),
         NEW n \in Int, n <= m, n <= l
  PROVE  f[n] = g[n]
<1> DEFINE T == {k \in 1 .. m : k <= l /\ f[k] # g[k]}
<1>1. SUFFICES ASSUME f[n] # g[n] PROVE FALSE
  OBVIOUS
<1>2. n \in T
  BY <1>1 DEF Descends
<1>3. T \in SUBSET Nat /\ T # {}
  BY <1>2
<1>4. PICK k \in T : \A j \in T : k <= j
  BY <1>3, LeastNatural, Zenon
<1>5. k \in Nat /\ k > 0 /\ k \in 1 .. m /\ k \in 1 .. l /\ f[k] # g[k]
  OBVIOUS
<1>6. PICK h \in Nat : h = H[k] /\ h < k
  BY <1>5 DEF Lowers
<1>7. h \notin T
  BY <1>4, <1>5, <1>6
<1>8. f[h] = g[h]
  <2>1. CASE h = 0
    BY <2>1 DEF Descends
  <2>2. CASE h > 0
    BY <1>5, <1>6, <1>7, <2>2
  <2> QED BY <2>1, <2>2
<1>9. f[k] = G[k][f[h]] /\ g[k] = G[k][g[h]]
  BY <1>5, <1>6 DEF Descends
<1> QED BY <1>5, <1>8, <1>9

(* For every bound there is one.                                           *)
LEMMA DescentUpTo ==
  ASSUME NEW S, NEW c \in S, NEW H, NEW G, Lowers(H), StaysIn(S, G)
  PROVE  \A m \in Nat : \E f : Descends(f, m, S, c, H, G)
<1> DEFINE T == {m \in Nat : \E f : Descends(f, m, S, c, H, G)}
<1>1. 0 \in T
  <2>1. Descends([n \in Int |-> c], 0, S, c, H, G)
    BY DEF Descends
  <2> QED BY <2>1
<1>2. ASSUME NEW m \in Nat, m \in T PROVE m + 1 \in T
  <2>1. PICK f : Descends(f, m, S, c, H, G)
    BY <1>2
  <2>2. PICK k \in Nat : k = m + 1 /\ k > 0
    OBVIOUS
  <2>3. PICK s : s = G[k][f[H[k]]]
    OBVIOUS
  <2>4. H[k] \in Nat /\ H[k] < k
    BY <2>2 DEF Lowers
  <2>5. s \in S
    BY <2>1, <2>2, <2>3, <2>4 DEF Descends, StaysIn
  <2>6. PICK g : g = [f EXCEPT ![k] = s]
    BY Zenon
  <2>7. g \in [Int -> S] /\ \A n \in Int : n # k => g[n] = f[n]
    BY <2>1, <2>2, <2>5, <2>6 DEF Descends
  <2>8. g[k] = s
    BY <2>1, <2>2, <2>6 DEF Descends
  <2>9. \A n \in Int : n <= 0 => g[n] = c
    BY <2>1, <2>2, <2>7 DEF Descends
  <2>10. ASSUME NEW n \in 1 .. k PROVE g[n] = G[n][g[H[n]]]
    <3>1. H[n] \in Int /\ H[n] # k /\ g[H[n]] = f[H[n]]
      BY <2>2, <2>7 DEF Lowers
    <3>2. CASE n = k
      BY <2>3, <2>8, <3>1, <3>2
    <3>3. CASE n # k
      <4>1. n \in 1 .. m /\ g[n] = f[n]
        BY <2>2, <2>7, <3>3
      <4> QED BY <2>1, <3>1, <4>1 DEF Descends
    <3> QED BY <3>2, <3>3
  <2>11. Descends(g, m + 1, S, c, H, G)
    BY <2>2, <2>7, <2>9, <2>10 DEF Descends
  <2> QED BY <2>11
<1> HIDE DEF T
<1>3. Nat \subseteq T
  BY <1>1, <1>2, Inductive
<1> QED BY <1>3 DEF T

(* The recursion has a solution on all integers.                           *)
LEMMA DescentExists ==
  ASSUME NEW S, NEW c \in S, NEW H, NEW G, Lowers(H), StaysIn(S, G)
  PROVE  \E f : Solves(f, S, c, H, G)
<1> DEFINE Fine(f, m) == Descends(f, m, S, c, H, G)
<1>1. \A m \in Nat : \E f : Fine(f, m)
  BY DescentUpTo
<1> HIDE DEF Fine
<1>2. PICK some : \A m \in Nat : Fine(some[m], m)
  <2>1. \A m \in Nat : Fine([k \in Nat |-> CHOOSE f : Fine(f, k)][m], m)
    BY <1>1
  <2> QED BY <2>1, Zenon
<1>3. PICK f : f = [n \in Int |-> IF n > 0 THEN some[n][n] ELSE c]
  BY Zenon
<1>4. \A n \in Int : f[n] = IF n > 0 THEN some[n][n] ELSE c
  BY <1>3
<1>5. \A n \in Int : n > 0 => some[n][n] \in S
  BY <1>2 DEF Fine, Descends
<1>6. f \in [Int -> S]
  BY <1>3, <1>5
<1>7. ASSUME NEW n \in Int PROVE f[n] = IF n > 0 THEN G[n][f[H[n]]] ELSE c
  <2>1. CASE n <= 0
    BY <1>4, <2>1
  <2>2. CASE n > 0
    <3>1. PICK g : g = some[n] /\ Fine(g, n)
      BY <1>2, <2>2
    <3>2. f[n] = g[n] /\ n \in 1 .. n
      BY <1>4, <2>2, <3>1
    <3>3. g[n] = G[n][g[H[n]]]
      BY <3>1, <3>2 DEF Fine, Descends
    <3>4. PICK h \in Nat : h = H[n] /\ h < n
      BY <2>2 DEF Lowers
    <3>5. PICK e : e = some[h] /\ Fine(e, h)
      BY <1>2
    <3>6. n \in Nat /\ h \in Int /\ h <= n /\ h <= h
      BY <2>2, <3>4
    <3>7. g[h] = e[h]
      <4>1. Descends(g, n, S, c, H, G) /\ Descends(e, h, S, c, H, G)
        BY <3>1, <3>5 DEF Fine
      <4> QED BY <3>6, <4>1, DescentUnique
    <3>8. f[h] = g[h]
      <4>1. CASE h > 0
        BY <1>4, <3>5, <3>7, <4>1
      <4>2. CASE h = 0
        <5>1. e[h] = c
          BY <3>5, <4>2 DEF Fine, Descends
        <5> QED BY <1>4, <3>7, <4>2, <5>1
      <4> QED BY <4>1, <4>2
    <3> QED BY <2>2, <3>2, <3>3, <3>4, <3>8
  <2> QED BY <2>1, <2>2
<1> QED BY <1>6, <1>7 DEF Solves

-----------------------------------------------------------------------------
(* The digits of a number.                                                 *)
Figures == {Digit[d] : d \in 1 .. 16}

(* A round of the loop: the number is divided, what is left is less, and   *)
(* the remainder has a digit.                                              *)
LEMMA Divided ==
  ASSUME NEW n \in Nat, NEW base \in 2 .. 16
  PROVE  \E q \in Nat, r \in 0 .. 15 : /\ q = n \div base /\ r = n % base /\ n = base * q + r
                                      /\ r < base /\ (n > 0 => q < n)
<1>1. base \in Nat /\ base > 0
  OBVIOUS
<1>2. PICK q \in Nat, r \in 0 .. base - 1 : q = n \div base /\ r = n % base /\ n = base * q + r
  BY <1>1, Division, Zenon
<1>3. PICK e \in Nat : base = 2 + e
  <2>1. base - 2 \in Nat /\ base = 2 + (base - 2)
    OBVIOUS
  <2> QED BY <2>1
<1>4. base * q = 2 * q + e * q /\ e * q \in Nat
  BY <1>3
<1>5. n > 0 => q < n
  BY <1>2, <1>4
<1>6. r \in 0 .. 15 /\ r < base
  BY <1>2
<1> QED BY <1>2, <1>5, <1>6, Zenon

(* The loop of a number: its last digit, then the loop of the rest.        *)
LEMMA WhileStep ==
  ASSUME NEW base \in 2 .. 16
  PROVE  \A n \in Int : /\ While(n, base) \in Seq(Figures)
                        /\ While(n, base) = IF n > 0 THEN <<Digit[(n % base) + 1]>> \o While(n \div base, base)
                                            ELSE << >>
<1> DEFINE S == Seq(Figures)
           First(n) == <<Digit[(n % base) + 1]>>
           H == [n \in Nat |-> n \div base]
           G == [n \in Nat |-> [s \in S |-> First(n) \o s]]
           Is(f) == f = [num \in Int |-> IF num > 0 THEN First(num) \o f[num \div base] ELSE << >>]
<1>1. ASSUME NEW n \in Nat PROVE First(n) \in S
  <2>1. (n % base) + 1 \in 1 .. 16
    BY Divided
  <2>2. Digit[(n % base) + 1] \in Figures
    BY <2>1 DEF Figures
  <2> QED BY <2>2
<1>2. Lowers(H)
  <2>1. ASSUME NEW n \in Nat, n > 0 PROVE H[n] \in Nat /\ H[n] < n
    BY <2>1, Divided
  <2> QED BY <2>1 DEF Lowers
<1>3. \A n \in Nat : \A s \in S : G[n][s] = First(n) \o s /\ G[n][s] \in S
  <2> HIDE DEF First
  <2>1. \A n \in Nat : \A s \in S : First(n) \o s \in S
    BY <1>1, ConcatProperties
  <2> QED BY <2>1
<1>4. << >> \in S
  OBVIOUS
<1>5. PICK f : Solves(f, S, << >>, H, G)
  <2>1. StaysIn(S, G)
    BY <1>3, Zenon DEF StaysIn
  <2> HIDE DEF S, G, H
  <2> QED BY <1>2, <1>4, <2>1, DescentExists, Zenon
<1>6. ASSUME NEW n \in Int PROVE f[n] = IF n > 0 THEN First(n) \o f[n \div base] ELSE << >>
  <2>1. CASE n > 0
    <3>1. PICK q \in Nat : q = n \div base
      BY <2>1, Divided
    <3>2. n \in Nat /\ H[n] = q
      BY <2>1, <3>1
    <3>3. f[q] \in S
      BY <1>5, <3>1 DEF Solves
    <3>4. f[n] = G[n][f[q]]
      BY <1>5, <2>1, <3>2, Zenon DEF Solves
    <3>5. G[n][f[q]] = First(n) \o f[q]
      BY <1>3, <3>2, <3>3, Zenon
    <3> HIDE DEF First, G, H
    <3> QED BY <2>1, <3>1, <3>4, <3>5
  <2>2. CASE ~ (n > 0)
    BY <1>5, <2>2, Zenon DEF Solves
  <2> QED BY <2>1, <2>2
<1>7. Is(f)
  <2> HIDE DEF First
  <2>1. f = [n \in Int |-> f[n]]
    BY <1>5 DEF Solves
  <2> QED BY <1>6, <2>1, Zenon
<1>8. \A n : While(n, base) = (CHOOSE g : Is(g))[n]
  BY DEF While
<1> HIDE DEF Is, First, S, G, H
<1>9. PICK g : Is(g) /\ \A n : While(n, base) = g[n]
  BY <1>7, <1>8
<1>10. \A n \in Int : While(n, base) = IF n > 0 THEN First(n) \o While(n \div base, base) ELSE << >>
  BY <1>9, Zenon DEF Is
<1>11. ASSUME NEW n \in Int PROVE While(n, base) \in S
  <2> DEFINE T == {k \in Nat : While(k, base) \notin S}
  <2>0. ASSUME NEW m \in Int, m <= 0 PROVE While(m, base) \in S
    <3>1. While(m, base) = << >>
      BY <1>10, <2>0
    <3> QED BY <1>4, <3>1
  <2>1. SUFFICES ASSUME T # {} PROVE FALSE
    BY <2>0
  <2>2. PICK k \in T : \A j \in T : k <= j
    BY <2>1, LeastNatural, Zenon
  <2>3. k \in Nat /\ k > 0
    BY <2>0
  <2>4. PICK q \in Nat : q = k \div base /\ q < k
    BY <2>3, Divided
  <2>5. While(q, base) \in S
    BY <2>2, <2>4
  <2>6. While(k, base) = First(k) \o While(q, base)
    <3>1. k \in Int
      BY <2>3
    <3> QED BY <1>10, <2>3, <2>4, <3>1, Zenon
  <2>7. PICK a, b : a = First(k) /\ b = While(q, base)
    OBVIOUS
  <2>8. a \o b \in S
    BY <1>1, <2>3, <2>5, <2>7, ConcatProperties DEF S
  <2> QED BY <2>6, <2>7, <2>8, Zenon
<1> QED BY <1>10, <1>11, Zenon DEF First, S

(* No two digits are alike, and the first one is 0.                        *)
LEMMA DigitsDiffer ==
  /\ \A i, j \in 1 .. 16 : Digit[i] = Digit[j] => i = j
  /\ Digit[1] = "0"
BY DEF Digit

(* Every digit is worth its place in the table.                            *)
LEMMA DigitWorth ==
  ASSUME NEW d \in 0 .. 15
  PROVE  DigitValue(Digit[d + 1]) = d
<1>1. \A i, j \in 1 .. 16 : Digit[i] = Digit[j] => i = j
  BY DigitsDiffer
<1>2. d + 1 \in 1 .. 16 /\ (d + 1) - 1 = d
  OBVIOUS
<1>3. (CHOOSE e \in 1 .. 16 : Digit[e] = Digit[d + 1]) = d + 1
  BY <1>1, <1>2
<1> QED BY <1>2, <1>3, Zenon DEF DigitValue

(* A digit is worth a number.                                              *)
LEMMA WorthType ==
  ASSUME NEW c \in Figures
  PROVE  DigitValue(c) \in Int
<1>1. PICK e \in 1 .. 16 : c = Digit[e]
  BY DEF Figures
<1>2. PICK d \in 0 .. 15 : d + 1 = e
  <2>1. e - 1 \in 0 .. 15 /\ (e - 1) + 1 = e
    OBVIOUS
  <2> QED BY <2>1
<1>3. DigitValue(c) = d
  BY <1>1, <1>2, DigitWorth
<1> QED BY <1>3

(* The values of the beginnings of a text, the last one its own.           *)
Counts(f, text, base, n) ==
  /\ f \in [0 .. n -> Int]
  /\ f[0] = 0
  /\ \A k \in 1 .. n : f[k] = base * f[k - 1] + DigitValue(text[k])

(* ValueOf is the last of them.                                            *)
LEMMA ValueUnfolds ==
  ASSUME NEW text \in Seq(Figures), NEW base \in Nat, NEW n \in Nat, n = Len(text)
  PROVE  \E f : Counts(f, text, base, n) /\ ValueOf(text, base) = f[n]
<1> DEFINE V(k) == DigitValue(text[k])
           G == [k \in 1 .. n |-> [s \in Int |-> base * s + V(k)]]
           Is(f) == f = [k \in 0 .. Len(text) |-> IF k = 0 THEN 0 ELSE base * f[k - 1] + DigitValue(text[k])]
<1>1. \A k \in 1 .. n : V(k) \in Int
  BY LenProperties, WorthType
<1> HIDE DEF V
<1>2. \A k \in 1 .. n : \A s \in Int : G[k][s] = base * s + V(k) /\ G[k][s] \in Int
  BY <1>1
<1>3. PICK f : Follows(f, n, Int, 0, G)
  <2>1. \A k \in 1 .. n : \A s \in Int : G[k][s] \in Int
    BY <1>2, Zenon
  <2>2. 0 \in Int
    OBVIOUS
  <2> HIDE DEF G
  <2> QED BY <2>1, <2>2, RecursionExists, Zenon
<1>4. f \in [0 .. n -> Int] /\ f[0] = 0
  BY <1>3 DEF Follows
<1>5. ASSUME NEW k \in 1 .. n PROVE f[k] = base * f[k - 1] + DigitValue(text[k])
  <2>1. f[k - 1] \in Int
    BY <1>4
  <2>2. f[k] = G[k][f[k - 1]]
    BY <1>3 DEF Follows
  <2> HIDE DEF G
  <2>3. f[k] = base * f[k - 1] + V(k)
    BY <1>2, <2>1, <2>2, Zenon
  <2> QED BY <2>3 DEF V
<1>6. Is(f)
  <2>1. ASSUME NEW k \in 0 .. n PROVE f[k] = IF k = 0 THEN 0 ELSE base * f[k - 1] + DigitValue(text[k])
    <3>1. CASE k = 0
      BY <1>4, <3>1
    <3>2. CASE k # 0
      <4>1. k \in 1 .. n
        BY <3>2
      <4> QED BY <1>5, <3>2, <4>1
    <3> QED BY <3>1, <3>2
  <2> QED BY <1>4, <2>1
<1>7. ValueOf(text, base) = (CHOOSE g : Is(g))[n]
  BY DEF ValueOf
<1> HIDE DEF Is
<1>8. PICK g : Is(g) /\ ValueOf(text, base) = g[n]
  BY <1>6, <1>7, Zenon
<1>9. \A k \in 0 .. n : g[k] = IF k = 0 THEN 0 ELSE base * g[k - 1] + DigitValue(text[k])
  BY <1>8, Zenon DEF Is
<1>10. \A k \in 0 .. n : f[k] = g[k]
  <2>1. f[0] = g[0]
    BY <1>4, <1>9
  <2>2. ASSUME NEW k \in 1 .. n, f[k - 1] = g[k - 1] PROVE f[k] = g[k]
    <3>1. k \in 0 .. n /\ k # 0
      OBVIOUS
    <3>2. g[k] = base * g[k - 1] + DigitValue(text[k])
      BY <1>9, <3>1
    <3> QED BY <1>5, <2>2, <3>2
  <2>3. InStep(f, g, n)
    BY <2>2 DEF InStep
  <2> QED BY <2>1, <2>3, InStepAgree
<1>11. Counts(f, text, base, n)
  BY <1>4, <1>5 DEF Counts
<1> QED BY <1>8, <1>10, <1>11

(* Before the first digit the value is zero.                               *)
LEMMA ValueEmpty ==
  ASSUME NEW base \in Nat
  PROVE  ValueOf(<< >>, base) = 0
<1>1. << >> \in Seq(Figures) /\ 0 = Len(<< >>)
  OBVIOUS
<1>2. PICK f : Counts(f, << >>, base, 0) /\ ValueOf(<< >>, base) = f[0]
  BY <1>1, ValueUnfolds, Zenon
<1> QED BY <1>2 DEF Counts

(* One digit more.                                                         *)
LEMMA ValueAppend ==
  ASSUME NEW text \in Seq(Figures), NEW base \in Nat, NEW c \in Figures
  PROVE  ValueOf(Append(text, c), base) = base * ValueOf(text, base) + DigitValue(c)
<1>1. PICK n \in Nat : n = Len(text)
  BY LenProperties
<1>2. PICK more \in Seq(Figures) : more = Append(text, c)
  BY AppendProperties, Zenon
<1>3. n + 1 \in Nat /\ n + 1 = Len(more) /\ more[n + 1] = c /\ \A k \in 1 .. n : more[k] = text[k]
  BY <1>1, <1>2, AppendProperties
<1>4. PICK f : Counts(f, text, base, n) /\ ValueOf(text, base) = f[n]
  BY <1>1, ValueUnfolds
<1>5. PICK g : Counts(g, more, base, n + 1) /\ ValueOf(more, base) = g[n + 1]
  BY <1>3, ValueUnfolds
<1>6. \A k \in 0 .. n : f[k] = g[k]
  <2>1. f[0] = g[0]
    BY <1>4, <1>5 DEF Counts
  <2>2. ASSUME NEW k \in 1 .. n, f[k - 1] = g[k - 1] PROVE f[k] = g[k]
    <3>1. k \in 1 .. n + 1 /\ more[k] = text[k]
      BY <1>3
    <3>2. g[k] = base * g[k - 1] + DigitValue(more[k])
      BY <1>5, <3>1 DEF Counts
    <3>3. f[k] = base * f[k - 1] + DigitValue(text[k])
      BY <1>4 DEF Counts
    <3> QED BY <2>2, <3>1, <3>2, <3>3
  <2>3. InStep(f, g, n)
    BY <2>2, Zenon DEF InStep
  <2> QED BY <2>1, <2>3, InStepAgree
<1>7. n + 1 \in 1 .. n + 1 /\ (n + 1) - 1 = n /\ n \in 0 .. n
  OBVIOUS
<1>8. g[n + 1] = base * g[n] + DigitValue(c)
  <2>1. g[n + 1] = base * g[(n + 1) - 1] + DigitValue(more[n + 1])
    BY <1>5, <1>7 DEF Counts
  <2> QED BY <1>3, <1>7, <2>1
<1> QED BY <1>2, <1>4, <1>5, <1>6, <1>7, <1>8

(* The loop that prints buf backwards prints all of it.                    *)
LEMMA BackwardsType ==
  ASSUME NEW X, NEW s \in Seq(X)
  PROVE  Backwards(s) \in Seq(X) /\ Len(Backwards(s)) = Len(s)
<1>1. PICK n \in Nat : n = Len(s)
  BY LenProperties
<1>2. \A k \in 1 .. n : s[k] \in X
  BY <1>1, LenProperties
<1>3. PICK b : b = Backwards(s)
  OBVIOUS
<1>4. b = [k \in 1 .. n |-> s[n + 1 - k]]
  BY <1>1, <1>3 DEF Backwards
<1>5. b \in [1 .. n -> X]
  BY <1>2, <1>4
<1>6. b \in Seq(X) /\ Len(b) = n
  BY <1>5
<1> QED BY <1>1, <1>3, <1>6

(* The first digit comes last.                                             *)
LEMMA BackwardsStep ==
  ASSUME NEW X, NEW s \in Seq(X), NEW d \in X
  PROVE  Backwards(<<d>> \o s) = Append(Backwards(s), d)
<1>1. PICK n \in Nat : n = Len(s)
  BY LenProperties
<1>2. \A k \in 1 .. n : s[k] \in X
  BY <1>1, LenProperties
<1>3. PICK b : b = Backwards(s)
  OBVIOUS
<1>4. b = [k \in 1 .. n |-> s[n + 1 - k]]
  BY <1>1, <1>3 DEF Backwards
<1>5. b \in [1 .. n -> X]
  BY <1>2, <1>4
<1>6. b \in Seq(X) /\ Len(b) = n
  BY <1>5
<1>7. PICK t : t = <<d>> \o s
  BY Zenon
<1>8. /\ t \in Seq(X) /\ Len(t) = n + 1 /\ t[1] = d
      /\ \A k \in 2 .. n + 1 : t[k] = s[k - 1]
  BY <1>1, <1>7, ConcatProperties
<1>9. PICK r : r = Backwards(t)
  OBVIOUS
<1>10. r = [k \in 1 .. n + 1 |-> t[n + 2 - k]]
  BY <1>8, <1>9 DEF Backwards
<1>11. PICK a : a = Append(b, d)
  BY Zenon
<1>12. a \in Seq(X) /\ Len(a) = n + 1 /\ a[n + 1] = d /\ \A k \in 1 .. n : a[k] = b[k]
  BY <1>6, <1>11, AppendProperties
<1>13. ASSUME NEW k \in 1 .. n + 1 PROVE r[k] = a[k]
  <2>1. CASE k = n + 1
    BY <1>8, <1>10, <1>12, <2>1
  <2>2. CASE k # n + 1
    <3>1. k \in 1 .. n /\ n + 2 - k \in 2 .. n + 1 /\ n + 2 - k - 1 = n + 1 - k
      BY <2>2
    <3>2. r[k] = s[n + 1 - k]
      BY <1>8, <1>10, <3>1
    <3>3. a[k] = s[n + 1 - k]
      BY <1>4, <1>12, <2>2, <3>1
    <3> QED BY <3>2, <3>3
  <2> QED BY <2>1, <2>2
<1>14. r = a
  <2>1. a = [k \in 1 .. n + 1 |-> a[k]]
    BY <1>12, LenProperties
  <2> QED BY <1>10, <1>13, <2>1
<1> QED BY <1>3, <1>7, <1>9, <1>11, <1>14, Zenon

(* A text of digits that stands for n.                                     *)
ReadsAs(text, base, n) ==
  /\ text \in Seq(Figures) /\ Len(text) > 0
  /\ ValueOf(text, base) = n
  /\ text[1] # "0"

(* One digit more, behind a text that stands for q or behind nothing.      *)
LEMMA ReadsOneMore ==
  ASSUME NEW base \in 2 .. 16, NEW q \in Nat, NEW r \in 0 .. 15, NEW n \in Nat, n = base * q + r, n > 0,
         NEW text, q = 0 => text = << >>, q > 0 => ReadsAs(text, base, q)
  PROVE  ReadsAs(Append(text, Digit[r + 1]), base, n)
<1>1. r + 1 \in 1 .. 16 /\ base \in Nat
  OBVIOUS
<1>2. PICK d \in Figures : d = Digit[r + 1]
  BY <1>1 DEF Figures
<1>3. DigitValue(d) = r
  BY <1>2, DigitWorth, Zenon
<1>4. text \in Seq(Figures) /\ ValueOf(text, base) = q
  <2>1. CASE q = 0
    BY <1>1, <2>1, ValueEmpty
  <2>2. CASE q > 0
    BY <2>2 DEF ReadsAs
  <2> QED BY <2>1, <2>2
<1>5. ValueOf(Append(text, d), base) = n
  BY <1>1, <1>3, <1>4, ValueAppend
<1>6. /\ Append(text, d) \in Seq(Figures) /\ Len(Append(text, d)) = Len(text) + 1
      /\ Append(text, d)[Len(text) + 1] = d /\ \A k \in 1 .. Len(text) : Append(text, d)[k] = text[k]
  BY <1>4, AppendProperties
<1>7. Len(text) \in Nat
  BY <1>4, LenProperties
<1>8. Append(text, d)[1] # "0"
  <2>1. CASE q = 0
    <3>1. Append(text, d)[1] = d
      BY <1>6, <2>1
    <3>2. r + 1 # 1 /\ 1 \in 1 .. 16
      BY <2>1
    <3> QED BY <1>1, <1>2, <3>1, <3>2, DigitsDiffer, Zenon
  <2>2. CASE q > 0
    <3>1. Len(text) > 0 /\ text[1] # "0"
      BY <2>2 DEF ReadsAs
    <3>2. 1 \in 1 .. Len(text)
      BY <1>7, <3>1
    <3> QED BY <1>6, <3>1, <3>2
  <2> QED BY <2>1, <2>2
<1>9. Len(Append(text, d)) > 0
  BY <1>6, <1>7
<1> QED BY <1>2, <1>5, <1>6, <1>8, <1>9 DEF ReadsAs

(* What the loop of a number greater than zero leaves, read backwards,     *)
(* stands for the number.                                                  *)
LEMMA WhileReads ==
  ASSUME NEW base \in 2 .. 16, NEW n \in Nat, n > 0
  PROVE  ReadsAs(Backwards(While(n, base)), base, n)
<1> DEFINE T == {k \in Nat : k > 0 /\ ~ ReadsAs(Backwards(While(k, base)), base, k)}
<1>1. SUFFICES ASSUME T # {} PROVE FALSE
  OBVIOUS
<1>2. PICK k \in T : \A j \in T : k <= j
  BY <1>1, LeastNatural, Zenon
<1>3. PICK q \in Nat, r \in 0 .. 15 : /\ q = k \div base /\ r = k % base /\ k = base * q + r
                                      /\ (k > 0 => q < k)
  BY Divided
<1>4. PICK s \in Seq(Figures) : s = While(q, base) /\ (q = 0 => s = << >>)
  <2>1. q \in Int /\ (q = 0 => ~ (q > 0))
    OBVIOUS
  <2>2. While(q, base) \in Seq(Figures)
    BY <2>1, WhileStep, Zenon
  <2>3. q = 0 => While(q, base) = << >>
    BY <2>1, WhileStep, Zenon
  <2> QED BY <2>2, <2>3
<1>5. PICK d \in Figures : d = Digit[r + 1]
  <2>1. r + 1 \in 1 .. 16
    OBVIOUS
  <2> QED BY <2>1, Zenon DEF Figures
<1>6. While(k, base) = <<d>> \o s
  <2>1. k \in Int /\ k > 0
    OBVIOUS
  <2> QED BY <1>3, <1>4, <1>5, <2>1, WhileStep, Zenon
<1>7. Backwards(<<d>> \o s) = Append(Backwards(s), d)
  BY BackwardsStep
<1>8. q = 0 => Backwards(s) = << >>
  <2>1. ASSUME q = 0 PROVE Backwards(s) = << >>
    <3>1. Backwards(s) \in Seq(Figures) /\ Len(Backwards(s)) = Len(s) /\ s = << >>
      BY <1>4, <2>1, BackwardsType, Zenon
    <3>2. Len(s) = 0
      BY <3>1
    <3> QED BY <3>1, <3>2, EmptySeq
  <2> QED BY <2>1
<1>9. q > 0 => ReadsAs(Backwards(s), base, q)
  BY <1>2, <1>3, <1>4
<1>10. ReadsAs(Append(Backwards(s), Digit[r + 1]), base, k)
  <2>1. PICK t : t = Backwards(s)
    OBVIOUS
  <2>2. k \in Nat /\ k > 0 /\ k = base * q + r /\ (q = 0 => t = << >>) /\ (q > 0 => ReadsAs(t, base, q))
    BY <1>3, <1>8, <1>9, <2>1
  <2> QED BY <2>1, <2>2, ReadsOneMore, Zenon
<1> QED BY <1>5, <1>6, <1>7, <1>10, Zenon

-----------------------------------------------------------------------------
(* The powers of two, as their recursion has them.                         *)
LEMMA Doubling ==
  /\ TwoTo \in [0 .. BITS -> Nat] /\ TwoTo[0] = 1
  /\ \A k \in 1 .. BITS : TwoTo[k] = 2 * TwoTo[k - 1] /\ TwoTo[k] > TwoTo[k - 1]
<1> DEFINE P == Nat \ {0}
           G == [k \in 1 .. BITS |-> [x \in P |-> 2 * x]]
           Is(f) == f = [n \in 0 .. BITS |-> IF n = 0 THEN 1 ELSE 2 * f[n - 1]]
<1>1. BITS \in Nat /\ 1 \in P
  BY FormatAssumption
<1>2. \A k \in 1 .. BITS : \A x \in P : G[k][x] = 2 * x /\ G[k][x] \in P
  OBVIOUS
<1>3. PICK f : Follows(f, BITS, P, 1, G)
  <2>1. \A k \in 1 .. BITS : \A x \in P : G[k][x] \in P
    BY <1>2
  <2> HIDE DEF G, P
  <2> QED BY <1>1, <2>1, RecursionExists, Zenon
<1>4. f \in [0 .. BITS -> P] /\ f[0] = 1
  BY <1>3 DEF Follows
<1>5. ASSUME NEW k \in 1 .. BITS PROVE f[k] = 2 * f[k - 1] /\ f[k - 1] \in P
  <2>1. f[k - 1] \in P
    BY <1>1, <1>4
  <2>2. f[k] = G[k][f[k - 1]]
    BY <1>3 DEF Follows
  <2> HIDE DEF G
  <2> QED BY <1>2, <2>1, <2>2
<1>6. Is(f)
  <2>1. ASSUME NEW k \in 0 .. BITS PROVE f[k] = IF k = 0 THEN 1 ELSE 2 * f[k - 1]
    <3>1. CASE k = 0
      BY <1>4, <3>1
    <3>2. CASE k # 0
      BY <1>1, <1>5, <3>2
    <3> QED BY <3>1, <3>2
  <2> QED BY <1>4, <2>1
<1>7. TwoTo = CHOOSE g : Is(g)
  BY DEF TwoTo
<1> HIDE DEF Is
<1>8. Is(TwoTo)
  BY <1>6, <1>7
<1>9. \A k \in 0 .. BITS : TwoTo[k] = IF k = 0 THEN 1 ELSE 2 * TwoTo[k - 1]
  BY <1>8, Zenon DEF Is
<1>10. \A k \in 0 .. BITS : f[k] = TwoTo[k]
  <2>1. f[0] = TwoTo[0]
    BY <1>1, <1>4, <1>9
  <2>2. ASSUME NEW k \in 1 .. BITS, f[k - 1] = TwoTo[k - 1] PROVE f[k] = TwoTo[k]
    <3>1. k \in 0 .. BITS /\ k # 0
      BY <1>1
    <3> QED BY <1>5, <1>9, <2>2, <3>1
  <2>3. InStep(f, TwoTo, BITS)
    BY <2>2 DEF InStep
  <2> QED BY <1>1, <2>1, <2>3, InStepAgree
<1>11. TwoTo = f
  <2>1. TwoTo = [k \in 0 .. BITS |-> TwoTo[k]]
    BY <1>8 DEF Is
  <2> QED BY <1>4, <1>10, <2>1
<1> QED BY <1>4, <1>5, <1>11

(* Powers of b, up to the power m.                                         *)
PowersOf(b, f, m) ==
  f \in [0 .. m -> Nat] /\ f[0] = 1 /\ \A k \in 1 .. m : f[k] = b * f[k - 1]

(* A number below the k-th power of b has at most k digits to a base that  *)
(* is not less than b.                                                     *)
LEMMA WhileFits ==
  ASSUME NEW base \in 2 .. 16, NEW b \in {2, 4}, b <= base, NEW m \in Nat, NEW f, PowersOf(b, f, m)
  PROVE  \A k \in 0 .. m : \A n \in Nat : n < f[k] => Len(While(n, base)) <= k
<1> DEFINE T == {k \in 0 .. m : \A n \in Nat : n < f[k] => Len(While(n, base)) <= k}
<1>0. ASSUME NEW n \in Int, ~ (n > 0) PROVE Len(While(n, base)) = 0
  <2>1. While(n, base) = << >>
    BY <1>0, WhileStep, Zenon
  <2> QED BY <2>1
<1>1. 0 \in T
  <2>1. ASSUME NEW n \in Nat, n < f[0] PROVE Len(While(n, base)) <= 0
    <3>1. n \in Int /\ ~ (n > 0)
      BY <2>1 DEF PowersOf
    <3> QED BY <1>0, <3>1
  <2> QED BY <2>1
<1>2. ASSUME NEW k \in 0 .. m - 1, k \in T PROVE k + 1 \in T
  <2>1. k + 1 \in 1 .. m /\ (k + 1) - 1 = k /\ k \in Nat
    OBVIOUS
  <2>2. PICK p \in Nat : p = f[k] /\ f[k + 1] = b * p
    <3>1. f[k] \in Nat
      BY DEF PowersOf
    <3>2. f[k + 1] = b * f[(k + 1) - 1]
      BY <2>1 DEF PowersOf
    <3> QED BY <2>1, <3>1, <3>2
  <2>3. ASSUME NEW n \in Nat, n < b * p PROVE Len(While(n, base)) <= k + 1
    <3>1. CASE n = 0
      <4>1. n \in Int /\ ~ (n > 0)
        BY <3>1
      <4> QED BY <1>0, <2>1, <4>1
    <3>2. CASE n > 0
      <4>1. PICK q \in Nat, r \in 0 .. 15 : q = n \div base /\ r = n % base /\ n = base * q + r
        BY Divided
      <4>2. PICK e \in Nat : base = b + e
        <5>1. base - b \in Nat /\ base = b + (base - b)
          OBVIOUS
        <5> QED BY <5>1
      <4>3. base * q = b * q + e * q /\ e * q \in Nat /\ b * q \in Nat
        BY <4>2
      <4>4. b * q < b * p
        BY <2>3, <4>1, <4>3
      <4>5. q < p
        BY <4>4
      <4>6. PICK s \in Seq(Figures) : s = While(q, base)
        <5>1. q \in Int
          OBVIOUS
        <5> QED BY <5>1, WhileStep, Zenon
      <4>7. Len(s) \in Nat /\ Len(s) <= k
        BY <1>2, <2>2, <4>5, <4>6, LenProperties
      <4>8. PICK d \in Figures : d = Digit[r + 1]
        <5>1. r + 1 \in 1 .. 16
          OBVIOUS
        <5> QED BY <5>1, Zenon DEF Figures
      <4>9. While(n, base) = <<d>> \o s
        <5>1. n \in Int
          OBVIOUS
        <5> QED BY <3>2, <4>1, <4>6, <4>8, <5>1, WhileStep, Zenon
      <4>10. Len(<<d>> \o s) = 1 + Len(s)
        BY ConcatProperties
      <4> QED BY <2>1, <4>7, <4>9, <4>10
    <3> QED BY <3>1, <3>2
  <2> QED BY <2>1, <2>2, <2>3
<1> HIDE DEF T
<1>3. 0 .. m \subseteq T
  BY <1>1, <1>2, InductiveUpTo
<1> QED BY <1>3 DEF T

-----------------------------------------------------------------------------
(***************************************************************************)
(* A text on a cleared screen: as long as it does not fill the screen, the *)
(* character n of it is in cell n - 1, and nothing scrolls.                *)
(***************************************************************************)
Blank == " "

Controls == {"NL", "CR", "TAB", "BS"}

(* The cells after the first k characters.                                 *)
Picture(text, k) == [at \in Cells |-> IF at < k THEN text[at + 1] ELSE Blank]

Shot(p, x, y, i) == [cells |-> p, cursor_x |-> x, cursor_y |-> y, inside |-> i]

(* The screen after them: the cursor is in the k-th cell.                  *)
Snap(text, k, i) == Shot(Picture(text, k), k - Row(k) * VGA_WIDTH, Row(k), i)

(* A position inside the screen has a row and a column.                    *)
LEMMA PlaceOf ==
  ASSUME NEW k \in Cells
  PROVE  \E x \in Columns, y \in Rows : k = y * VGA_WIDTH + x /\ y = Row(k) /\ x = k - Row(k) * VGA_WIDTH
<1>1. VGA_WIDTH \in Nat /\ VGA_WIDTH > 0 /\ VGA_HEIGHT \in Nat /\ k \in Nat
      /\ k < VGA_WIDTH * VGA_HEIGHT
  BY VgaAssumption DEF Cells
<1>2. PICK y \in Nat, x \in 0 .. VGA_WIDTH - 1 : y = k \div VGA_WIDTH /\ k = VGA_WIDTH * y + x
  BY <1>1, Division
<1>3. VGA_WIDTH * y = y * VGA_WIDTH /\ y * VGA_WIDTH \in Nat
      /\ VGA_WIDTH * VGA_HEIGHT = VGA_HEIGHT * VGA_WIDTH
  BY <1>1
<1>4. k = y * VGA_WIDTH + x /\ y * VGA_WIDTH <= k
  BY <1>2, <1>3
<1>5. y < VGA_HEIGHT
  <2>1. SUFFICES ASSUME ~ (y < VGA_HEIGHT) PROVE FALSE
    OBVIOUS
  <2>2. VGA_HEIGHT = y \/ VGA_HEIGHT < y
    BY <1>1, <2>1
  <2>3. VGA_HEIGHT * VGA_WIDTH <= y * VGA_WIDTH
    BY <1>1, <1>3, <2>2, RowsApart
  <2>4. VGA_HEIGHT * VGA_WIDTH \in Nat
    BY <1>1
  <2> QED BY <1>1, <1>3, <1>4, <2>3, <2>4
<1>6. x \in Columns /\ y \in Rows
  BY <1>1, <1>2, <1>5 DEF Columns, Rows
<1>7. y = Row(k)
  BY <1>2 DEF Row
<1>8. x = k - y * VGA_WIDTH
  BY <1>1, <1>2, <1>3, <1>4
<1> QED BY <1>4, <1>6, <1>7, <1>8, Zenon

(* The cell under the cursor is the next one.                              *)
LEMMA NextCell ==
  ASSUME NEW text, NEW k \in Cells, NEW c, c = text[k + 1]
  PROVE  [Picture(text, k) EXCEPT ![k] = c] = Picture(text, k + 1)
<1>1. ASSUME NEW at \in Cells
      PROVE  [Picture(text, k) EXCEPT ![k] = c][at] = IF at < k + 1 THEN text[at + 1] ELSE Blank
  <2>1. at \in Int /\ k \in Int
    BY DEF Cells
  <2>2. CASE at = k
    <3>1. at < k + 1
      BY <2>1, <2>2
    <3> QED BY <2>2, <3>1 DEF Picture
  <2>3. CASE at # k
    <3>1. at < k + 1 <=> at < k
      BY <2>1, <2>3
    <3> QED BY <2>3, <3>1 DEF Picture
  <2> QED BY <2>2, <2>3
<1> QED BY <1>1, Zenon DEF Picture

(* Moving the cursor.                                                      *)
LEMMA CursorOfShot ==
  ASSUME NEW p, NEW x, NEW y, NEW i, NEW a, NEW b
  PROVE  vga_set_cursor(Shot(p, x, y, i), a, b) = Shot(p, a, b, i)
<1>1. PICK w : w = [Shot(p, x, y, i) EXCEPT !.cursor_x = a]
  BY Zenon
<1>2. w = Shot(p, a, y, i)
  BY <1>1 DEF Shot
<1>3. [w EXCEPT !.cursor_y = b] = Shot(p, a, b, i)
  BY <1>2 DEF Shot
<1> QED BY <1>1, <1>3 DEF vga_set_cursor

(* One character more.                                                     *)
LEMMA PutOneMore ==
  ASSUME NEW text, NEW k \in Cells, k + 1 \in Cells, NEW c, c = text[k + 1], c \notin Controls, NEW i
  PROVE  vga_putchar(Snap(text, k, i), c) = Snap(text, k + 1, i)
<1>1. VGA_WIDTH \in Nat /\ VGA_WIDTH > 0 /\ VGA_HEIGHT \in Nat /\ k \in Nat
  BY VgaAssumption DEF Cells
<1>2. PICK x \in Columns, y \in Rows : k = y * VGA_WIDTH + x /\ y = Row(k) /\ x = k - Row(k) * VGA_WIDTH
  BY PlaceOf
<1>3. PICK p : p = Picture(text, k)
  OBVIOUS
<1>4. PICK q : q = Picture(text, k + 1) /\ q = [p EXCEPT ![k] = c]
  BY <1>3, NextCell, Zenon
<1>5. Snap(text, k, i) = Shot(p, x, y, i)
  BY <1>2, <1>3, Zenon DEF Snap
<1>6. PICK v : v = Shot(p, x, y, i)
  OBVIOUS
<1>7. v.cursor_x = x /\ v.cursor_y = y
  BY <1>6 DEF Shot
<1>8. Here(v, c) = Shot(q, x, y, i)
  <2>1. Here(v, c) = vga_entry(v, k, c)
    BY <1>2, <1>7, Zenon DEF Here
  <2>2. vga_entry(v, k, c) = [v EXCEPT !.cells[k] = c]
    BY DEF vga_entry
  <2>3. [v EXCEPT !.cells[k] = c] = Shot(q, x, y, i)
    BY <1>4, <1>6 DEF Shot
  <2> QED BY <2>1, <2>2, <2>3
<1>9. PICK x1 \in Nat : x1 = x + 1
  BY DEF Columns
<1>10. vga_set_cursor(Here(v, c), x1, y) = Shot(q, x1, y, i)
  BY <1>8, CursorOfShot
<1>11. vga_putchar(v, c) = Scroll(Wrap(Shot(q, x1, y, i)))
  <2>1. vga_putchar(v, c) = Scroll(Wrap(vga_set_cursor(Here(v, c), v.cursor_x + 1, v.cursor_y)))
    BY DEF vga_putchar, Controls
  <2> QED BY <1>7, <1>9, <1>10, <2>1
<1>12. x \in Nat /\ y \in Nat /\ y < VGA_HEIGHT /\ y * VGA_WIDTH \in Nat
  BY <1>1 DEF Columns, Rows
<1>13. CASE x1 < VGA_WIDTH
  <2>1. x1 \in Columns /\ k + 1 = y * VGA_WIDTH + x1
    BY <1>1, <1>2, <1>9, <1>12, <1>13 DEF Columns
  <2>2. Row(k + 1) = y
    BY <1>12, <2>1, RowOf
  <2>3. x1 = (k + 1) - y * VGA_WIDTH
    BY <1>12, <2>1
  <2>4. Wrap(Shot(q, x1, y, i)) = Shot(q, x1, y, i)
    <3>1. ~ (x1 >= VGA_WIDTH)
      BY <1>1, <1>13
    <3> QED BY <3>1 DEF Wrap, Shot
  <2>5. Scroll(Shot(q, x1, y, i)) = Shot(q, x1, y, i)
    <3>1. ~ (y >= VGA_HEIGHT)
      BY <1>1, <1>12
    <3> QED BY <3>1 DEF Scroll, Shot
  <2>6. Snap(text, k + 1, i) = Shot(q, x1, y, i)
    BY <1>4, <2>2, <2>3, Zenon DEF Snap
  <2> QED BY <1>5, <1>6, <1>11, <2>4, <2>5, <2>6
<1>14. CASE ~ (x1 < VGA_WIDTH)
  <2>1. x1 = VGA_WIDTH /\ 0 \in Columns /\ y + 1 \in Nat
    BY <1>1, <1>9, <1>12, <1>14 DEF Columns
  <2>2. k + 1 = (y + 1) * VGA_WIDTH + 0
    BY <1>1, <1>2, <1>9, <1>12, <2>1
  <2>3. Row(k + 1) = y + 1
    BY <2>1, <2>2, RowOf
  <2>4. 0 = (k + 1) - (y + 1) * VGA_WIDTH
    BY <1>1, <1>12, <2>2
  <2>5. y + 1 \in Rows
    BY <2>3, PlaceOf
  <2>6. Wrap(Shot(q, x1, y, i)) = Shot(q, 0, y + 1, i)
    <3>1. x1 >= VGA_WIDTH
      BY <1>1, <1>14
    <3>2. PICK w : w = Shot(q, x1, y, i)
      OBVIOUS
    <3>3. w.cursor_x = x1 /\ w.cursor_y = y
      BY <3>2 DEF Shot
    <3>4. Wrap(w) = vga_set_cursor(w, 0, y + 1)
      BY <3>1, <3>3 DEF Wrap
    <3> QED BY <3>2, <3>4, CursorOfShot
  <2>7. Scroll(Shot(q, 0, y + 1, i)) = Shot(q, 0, y + 1, i)
    <3>1. PICK y1 : y1 = y + 1 /\ ~ (y1 >= VGA_HEIGHT)
      BY <1>1, <2>5 DEF Rows
    <3>2. Scroll(Shot(q, 0, y1, i)) = Shot(q, 0, y1, i)
      BY <3>1 DEF Scroll, Shot
    <3> QED BY <3>1, <3>2
  <2>8. Snap(text, k + 1, i) = Shot(q, 0, y + 1, i)
    BY <1>4, <2>3, <2>4, Zenon DEF Snap
  <2> QED BY <1>5, <1>6, <1>11, <2>6, <2>7, <2>8
<1> QED BY <1>13, <1>14

(* The screens vga_write goes through.                                     *)
Goes(f, v, str, len) ==
  /\ f = [k \in 0 .. len |-> f[k]]
  /\ f[0] = v
  /\ \A k \in 1 .. len : f[k] = vga_putchar(f[k - 1], str[k])

(* vga_write is the last of the screens it goes through.                   *)
LEMMA WriteUnfolds ==
  ASSUME NEW v, NEW str, NEW len \in Nat, len = Len(str), NEW f, Goes(f, v, str, len)
  PROVE  vga_write(v, str) = f[len]
<1>0. /\ f = [k \in 0 .. len |-> f[k]] /\ f[0] = v
      /\ \A k \in 1 .. len : f[k] = vga_putchar(f[k - 1], str[k])
  BY Zenon DEF Goes
<1> DEFINE Is(g) == g = [k \in 0 .. Len(str) |-> IF k = 0 THEN v ELSE vga_putchar(g[k - 1], str[k])]
<1>1. Is(f)
  <2>1. ASSUME NEW k \in 0 .. len
        PROVE  f[k] = IF k = 0 THEN v ELSE vga_putchar(f[k - 1], str[k])
    <3>1. k = 0 \/ (k \in 1 .. len /\ k # 0)
      OBVIOUS
    <3> QED BY <1>0, <3>1, Zenon
  <2>2. f = [k \in 0 .. len |-> IF k = 0 THEN v ELSE vga_putchar(f[k - 1], str[k])]
    BY <1>0, <2>1, Zenon
  <2> QED BY <2>2, Zenon
<1>2. vga_write(v, str) = (CHOOSE g : Is(g))[Len(str)]
  BY DEF vga_write
<1> HIDE DEF Is
<1>3. PICK g : Is(g) /\ vga_write(v, str) = g[Len(str)]
  BY <1>1, <1>2, Zenon
<1>4. f[0] = g[0]
  BY <1>0, <1>3 DEF Is
<1>5. ASSUME NEW k \in 1 .. len, f[k - 1] = g[k - 1] PROVE f[k] = g[k]
  <2>1. k \in 0 .. Len(str) /\ k # 0
    OBVIOUS
  <2>2. g[k] = vga_putchar(g[k - 1], str[k])
    BY <1>3, <2>1 DEF Is
  <2> QED BY <1>0, <1>5, <2>2, Zenon
<1>6. InStep(f, g, len)
  BY <1>5 DEF InStep
<1>7. \A k \in 0 .. len : f[k] = g[k]
  BY <1>4, <1>6, InStepAgree
<1> QED BY <1>3, <1>7

Printable(text) == \A k \in 1 .. Len(text) : text[k] \notin Controls

(* A printable text that does not fill the screen is on it after vga_write.*)
LEMMA TextIsOnScreen ==
  ASSUME NEW v, v = vga_clear(v), NEW X, NEW text \in Seq(X), Printable(text), Len(text) \in Cells
  PROVE  [k \in 1 .. Len(text) |-> vga_write(v, text).cells[k - 1]] = text
<1>1. PICK len \in Nat : len = Len(text) /\ len \in Cells
  BY LenProperties
<1>2. PICK i : i = v.inside
  OBVIOUS
<1>3. \A k \in 0 .. len : k \in Cells /\ k \in Nat
  BY <1>1, VgaAssumption DEF Cells
<1>4. v = Snap(text, 0, i)
  <2>1. 0 \in Cells /\ 0 \in Columns
    BY <1>3, VgaAssumption DEF Columns
  <2>2. Row(0 * VGA_WIDTH + 0) = 0 /\ 0 * VGA_WIDTH + 0 = 0
    BY <2>1, VgaAssumption, RowOf
  <2>3. Row(0) = 0 /\ 0 - 0 * VGA_WIDTH = 0
    BY <2>2, VgaAssumption
  <2>4. Picture(text, 0) = [at \in Cells |-> Blank]
    <3>1. \A at \in Cells : ~ (at < 0)
      BY DEF Cells
    <3> QED BY <3>1 DEF Picture
  <2>5. v = Shot([at \in Cells |-> Blank], 0, 0, i)
    BY <1>2, Zenon DEF vga_clear, Shot, Blank
  <2>6. Snap(text, 0, i) = Shot(Picture(text, 0), 0, 0, i)
    BY <2>3 DEF Snap
  <2> QED BY <2>4, <2>5, <2>6
<1>5. PICK f : f = [k \in 0 .. len |-> Snap(text, k, i)]
  BY Zenon
<1>6. \A k \in 0 .. len : f[k] = Snap(text, k, i)
  BY <1>5
<1>7. ASSUME NEW k \in 1 .. len PROVE f[k] = vga_putchar(f[k - 1], text[k])
  <2>1. PICK n \in 0 .. len : n = k - 1 /\ n + 1 = k
    OBVIOUS
  <2>2. PICK c : c = text[k] /\ c = text[n + 1]
    BY <2>1
  <2>3. c \notin Controls
    BY <1>1, <2>2, Zenon DEF Printable
  <2>4. n \in Cells /\ n + 1 \in Cells
    BY <1>3, <2>1
  <2>5. vga_putchar(Snap(text, n, i), c) = Snap(text, n + 1, i)
    BY <2>2, <2>3, <2>4, PutOneMore
  <2>6. f[k] = Snap(text, n + 1, i) /\ f[k - 1] = Snap(text, n, i)
    BY <1>6, <2>1
  <2> QED BY <2>2, <2>5, <2>6
<1>8. vga_write(v, text) = f[len]
  <2>1. f[0] = v
    BY <1>4, <1>6
  <2>2. f = [k \in 0 .. len |-> f[k]]
    BY <1>5
  <2>3. Goes(f, v, text, len)
    BY <1>7, <2>1, <2>2 DEF Goes
  <2> QED BY <1>1, <2>3, WriteUnfolds
<1>9. PICK w : w = vga_write(v, text) /\ w = Snap(text, len, i)
  BY <1>6, <1>8
<1>10. w.cells = Picture(text, len)
  BY <1>9 DEF Snap, Shot
<1>11. ASSUME NEW k \in 1 .. len PROVE w.cells[k - 1] = text[k]
  <2>1. PICK n \in Cells : n = k - 1 /\ n < len /\ n + 1 = k
    <3>1. k - 1 \in 0 .. len /\ k - 1 < len /\ (k - 1) + 1 = k
      OBVIOUS
    <3> QED BY <1>3, <3>1
  <2>2. Picture(text, len)[n] = text[n + 1]
    BY <2>1 DEF Picture
  <2> QED BY <1>10, <2>1, <2>2
<1>12. text = [k \in 1 .. len |-> text[k]]
  BY <1>1, LenProperties
<1>13. [k \in 1 .. len |-> w.cells[k - 1]] = text
  BY <1>11, <1>12, Zenon
<1> QED BY <1>1, <1>9, <1>13

-----------------------------------------------------------------------------
(***************************************************************************)
(* The texts of numbers.                                                   *)
(***************************************************************************)

(* The powers of four that are words.                                      *)
Fours == [k \in 0 .. BITS \div 2 |-> TwoTo[2 * k]]

(* The limits of a word.                                                   *)
LEMMA WordLimits ==
  \E m \in Nat, h \in Nat :
    /\ m > 0 /\ m = TwoTo[BITS - 1]
    /\ INT64_MIN = - m /\ INT64_MAX = m - 1 /\ UINT64_MAX = 2 * m - 1
    /\ h = BITS \div 2 /\ h > 0
    /\ PowersOf(4, Fours, h) /\ m <= Fours[h]
<1>1. BITS \in Nat /\ BITS >= 2
  BY FormatAssumption
<1>2. PICK h \in Nat : h = BITS \div 2 /\ h > 0 /\ 2 * h <= BITS /\ BITS <= 2 * h + 1
  BY <1>1
<1>3. PICK f : f = Fours /\ f = [k \in 0 .. h |-> TwoTo[2 * k]]
  BY <1>2, Zenon DEF Fours
<1>4. PowersOf(4, f, h)
  <2>1. f \in [0 .. h -> Nat]
    <3>1. \A k \in 0 .. h : 2 * k \in 0 .. BITS
      BY <1>1, <1>2
    <3> QED BY <1>3, <3>1, Doubling
  <2>2. f[0] = 1
    BY <1>2, <1>3, Doubling
  <2>3. ASSUME NEW k \in 1 .. h PROVE f[k] = 4 * f[k - 1]
    <3>1. PICK j \in Nat : j = 2 * k - 1 /\ j \in 1 .. BITS /\ j + 1 \in 1 .. BITS /\ j - 1 \in 0 .. BITS
      BY <1>1, <1>2
    <3>2. TwoTo[j + 1] = 2 * TwoTo[(j + 1) - 1] /\ TwoTo[j] = 2 * TwoTo[j - 1]
      BY <3>1, Doubling
    <3>3. (j + 1) - 1 = j /\ TwoTo[j - 1] \in Nat
      BY <3>1, Doubling
    <3>4. TwoTo[j + 1] = 4 * TwoTo[j - 1]
      BY <3>2, <3>3
    <3>5. k \in 0 .. h /\ k - 1 \in 0 .. h /\ 2 * k = j + 1 /\ 2 * (k - 1) = j - 1
      BY <3>1
    <3>6. f[k] = TwoTo[j + 1] /\ f[k - 1] = TwoTo[j - 1]
      BY <1>3, <3>5
    <3> QED BY <3>4, <3>6
  <2> QED BY <2>1, <2>2, <2>3 DEF PowersOf
<1>5. PICK m \in Nat : m = TwoTo[BITS - 1]
  BY <1>1, Doubling
<1>6. PICK l \in 1 .. BITS : l = BITS - 1
  BY <1>1
<1>7. m > 0
  <2>1. TwoTo[l] > TwoTo[l - 1]
    BY Doubling, Zenon
  <2>2. l - 1 \in 0 .. BITS
    BY <1>1
  <2>3. TwoTo[l - 1] \in Nat
    BY <2>2, Doubling
  <2> QED BY <1>5, <1>6, <2>1, <2>3
<1>8. BITS \in 1 .. BITS
  BY <1>1
<1>9. TwoTo[BITS] = 2 * m /\ TwoTo[BITS] > m
  BY <1>5, <1>8, Doubling
<1>10. m <= f[h]
  <2>1. f[h] = TwoTo[2 * h]
    BY <1>3
  <2>2. CASE BITS = 2 * h
    BY <1>9, <2>1, <2>2
  <2>3. CASE BITS - 1 = 2 * h
    BY <1>5, <2>1, <2>3
  <2> QED BY <1>1, <1>2, <2>2, <2>3
<1>11. INT64_MIN = - m /\ INT64_MAX = m - 1 /\ UINT64_MAX = 2 * m - 1
  BY <1>5, <1>9 DEF INT64_MIN, INT64_MAX, UINT64_MAX
<1>12. m > 0 /\ m = TwoTo[BITS - 1] /\ h = BITS \div 2 /\ h > 0
  BY <1>2, <1>5, <1>7
<1> QED BY <1>3, <1>4, <1>10, <1>11, <1>12, Zenon

(* A text that reads as a number stands for it.                            *)
LEMMA ReadsStands ==
  ASSUME NEW text, NEW base, NEW n, ReadsAs(text, base, n)
  PROVE  Stands(text, base, n)
<1>1. text # << >>
  <2>1. Len(text) # 0
    BY DEF ReadsAs
  <2> QED BY <2>1
<1> QED BY <1>1 DEF ReadsAs, Stands

(* The text of zero.                                                       *)
LEMMA ZeroStands ==
  ASSUME NEW base \in Nat
  PROVE  <<"0">> \in Seq(Figures) /\ Stands(<<"0">>, base, 0)
<1>1. PICK z \in Figures : z = "0" /\ z = Digit[0 + 1]
  <2>1. 1 \in 1 .. 16 /\ 0 + 1 = 1
    OBVIOUS
  <2>2. Digit[1] \in Figures
    BY <2>1, Zenon DEF Figures
  <2> QED BY <2>1, <2>2, DigitsDiffer
<1>2. DigitValue(z) = 0
  <2>1. 0 \in 0 .. 15
    OBVIOUS
  <2>2. DigitValue(Digit[0 + 1]) = 0
    BY <2>1, DigitWorth
  <2> QED BY <1>1, <2>2
<1>3. << >> \in Seq(Figures) /\ Append(<< >>, z) = <<z>>
  OBVIOUS
<1>4. ValueOf(Append(<< >>, z), base) = base * ValueOf(<< >>, base) + DigitValue(z)
  BY <1>3, ValueAppend, Zenon
<1>5. ValueOf(<<z>>, base) = 0
  BY <1>2, <1>3, <1>4, ValueEmpty
<1>6. <<z>> \in Seq(Figures) /\ <<z>> # << >> /\ Len(<<z>>) = 1
  OBVIOUS
<1>7. Stands(<<z>>, base, 0)
  BY <1>5, <1>6 DEF Stands
<1> QED BY <1>1, <1>6, <1>7

(* The first round of a loop leaves q of n and the digit d of r, and s     *)
(* comes from the rounds after it.                                         *)
Turn(n, base, q, r, d, s) ==
  /\ n = base * q + r /\ (n > 0 => q < n)
  /\ d = Digit[r + 1] /\ s = While(q, base) /\ (q = 0 => s = << >>)
  /\ (n > 0 => While(n, base) = <<d>> \o s)
  /\ DoWhile(n, base) = <<d>> \o s

(* The loop of a number: one digit, and the loop of a lesser number.       *)
LEMMA WhileOnce ==
  ASSUME NEW base \in 2 .. 16, NEW n \in Nat
  PROVE  \E q \in Nat, r \in 0 .. 15, d \in Figures, s \in Seq(Figures) : Turn(n, base, q, r, d, s)
<1>1. PICK q \in Nat, r \in 0 .. 15 : /\ q = n \div base /\ r = n % base /\ n = base * q + r
                                      /\ (n > 0 => q < n)
  BY Divided
<1>2. PICK d \in Figures : d = Digit[r + 1]
  <2>1. r + 1 \in 1 .. 16
    OBVIOUS
  <2> QED BY <2>1, Zenon DEF Figures
<1>3. q \in Int /\ n \in Int /\ (q = 0 => ~ (q > 0))
  OBVIOUS
<1>4. PICK s \in Seq(Figures) : s = While(q, base)
  BY <1>3, WhileStep, Zenon
<1>5. q = 0 => s = << >>
  BY <1>3, <1>4, WhileStep, Zenon
<1>6. n > 0 => While(n, base) = <<d>> \o s
  BY <1>1, <1>2, <1>3, <1>4, WhileStep, Zenon
<1>7. DoWhile(n, base) = <<d>> \o s
  BY <1>1, <1>2, <1>4, Zenon DEF DoWhile
<1>8. Turn(n, base, q, r, d, s)
  BY <1>1, <1>2, <1>4, <1>5, <1>6, <1>7, Zenon DEF Turn
<1> QED BY <1>8, Zenon

(* A loop that makes a round at least, read backwards, stands for every    *)
(* number.                                                                 *)
LEMMA DoWhileStands ==
  ASSUME NEW base \in 2 .. 16, NEW n \in Nat
  PROVE  /\ DoWhile(n, base) \in Seq(Figures)
         /\ Backwards(DoWhile(n, base)) \in Seq(Figures)
         /\ Len(Backwards(DoWhile(n, base))) = Len(DoWhile(n, base))
         /\ Stands(Backwards(DoWhile(n, base)), base, n)
<1>0. PICK q \in Nat, r \in 0 .. 15, d \in Figures, s \in Seq(Figures) : Turn(n, base, q, r, d, s)
  BY WhileOnce, Zenon
<1>1. /\ n = base * q + r
      /\ d = Digit[r + 1] /\ (q = 0 => s = << >>)
      /\ (n > 0 => While(n, base) = <<d>> \o s)
      /\ DoWhile(n, base) = <<d>> \o s
  BY <1>0, Zenon DEF Turn
<1>2. PICK t \in Seq(Figures) : t = <<d>> \o s
  <2>1. <<d>> \in Seq(Figures)
    OBVIOUS
  <2> QED BY <2>1, ConcatProperties, Zenon
<1>3. Backwards(t) \in Seq(Figures) /\ Len(Backwards(t)) = Len(t)
  BY BackwardsType
<1>4. Backwards(t) = Append(Backwards(s), d)
  BY <1>2, BackwardsStep, Zenon
<1>5. CASE n > 0
  <2>1. ReadsAs(Backwards(t), base, n)
    BY <1>1, <1>2, <1>5, WhileReads, Zenon
  <2> QED BY <1>1, <1>2, <1>3, <2>1, ReadsStands, Zenon
<1>6. CASE n = 0
  <2>1. q = 0 /\ r = 0
    <3>1. PICK e \in Nat : base = 2 + e
      <4>1. base - 2 \in Nat /\ base = 2 + (base - 2)
        OBVIOUS
      <4> QED BY <4>1
    <3>2. base * q = 2 * q + e * q /\ e * q \in Nat
      BY <3>1
    <3> QED BY <1>1, <1>6, <3>2
  <2>2. s = << >> /\ d = "0"
    BY <1>1, <2>1, DigitsDiffer
  <2>3. Backwards(s) = << >>
    <3>1. Backwards(s) \in Seq(Figures) /\ Len(Backwards(s)) = Len(s)
      BY BackwardsType
    <3>2. Len(s) = 0
      BY <2>2
    <3> QED BY <3>1, <3>2, EmptySeq
  <2>4. Backwards(t) = <<"0">>
    <3>1. Backwards(t) = Append(<< >>, "0")
      BY <1>4, <2>2, <2>3, Zenon
    <3>2. Append(<< >>, "0") = <<"0">>
      OBVIOUS
    <3> QED BY <3>1, <3>2
  <2>5. base \in Nat
    OBVIOUS
  <2>6. Stands(<<"0">>, base, n)
    BY <1>6, <2>5, ZeroStands
  <2> QED BY <1>1, <1>2, <1>3, <2>4, <2>6, Zenon
<1>7. n > 0 \/ n = 0
  OBVIOUS
<1> QED BY <1>5, <1>6, <1>7

(* What is less than 8 * o is less than o when divided by 16.              *)
LEMMA Sixteenth ==
  ASSUME NEW m \in Nat, NEW p \in Nat, NEW o \in Nat, NEW n \in Nat, NEW q \in Nat, NEW r \in 0 .. 15,
         n = 16 * q + r, n < 2 * m, m <= p, p = 4 * o
  PROVE  q < o
OBVIOUS

(* How many digits a word has: they fit buf.                               *)
LEMMA DigitsFit ==
  ASSUME NEW m \in Nat, NEW h \in Nat, m > 0, m = TwoTo[BITS - 1], h = BITS \div 2, h > 0,
         PowersOf(4, Fours, h), m <= Fours[h]
  PROVE  /\ \A n \in Nat : n < m => Len(While(n, 10)) <= h
         /\ Len(While(m, 10)) <= h + 1
         /\ \A n \in Nat : n < 2 * m => Len(DoWhile(n, 16)) <= h /\ Len(DoWhile(n, 2)) <= BITS
<1>1. PICK p \in Nat : p = Fours[h]
  <2>1. Fours[h] \in Nat
    BY DEF PowersOf
  <2> QED BY <2>1
<1>2. \A n \in Nat : n < p => Len(While(n, 10)) <= h
  <2>1. 10 \in 2 .. 16 /\ 4 \in {2, 4} /\ 4 <= 10 /\ h \in 0 .. h
    OBVIOUS
  <2> QED BY <1>1, <2>1, WhileFits
<1>3. Len(While(m, 10)) <= h + 1
  <2>1. 10 \in 2 .. 16
    OBVIOUS
  <2>0. PICK q \in Nat, r \in 0 .. 15, d \in Figures, s \in Seq(Figures) : Turn(m, 10, q, r, d, s)
    BY <2>1, WhileOnce, Zenon
  <2>2. q < m /\ s = While(q, 10) /\ While(m, 10) = <<d>> \o s
    BY <2>0, Zenon DEF Turn
  <2>3. Len(s) \in Nat /\ Len(s) <= h
    BY <1>1, <1>2, <2>2, LenProperties
  <2>4. Len(<<d>> \o s) = 1 + Len(s)
    BY ConcatProperties
  <2> QED BY <2>2, <2>3, <2>4
<1>4. ASSUME NEW n \in Nat, n < 2 * m PROVE Len(DoWhile(n, 16)) <= h
  <2>1. 16 \in 2 .. 16 /\ 4 \in {2, 4} /\ 4 <= 16 /\ h - 1 \in 0 .. h /\ h \in 1 .. h
    OBVIOUS
  <2>0. PICK q \in Nat, r \in 0 .. 15, d \in Figures, s \in Seq(Figures) : Turn(n, 16, q, r, d, s)
    BY <2>1, WhileOnce, Zenon
  <2>2. n = 16 * q + r /\ s = While(q, 16) /\ DoWhile(n, 16) = <<d>> \o s
    BY <2>0, Zenon DEF Turn
  <2>3. PICK o \in Nat : o = Fours[h - 1] /\ p = 4 * o
    <3>1. Fours[h - 1] \in Nat
      BY <2>1 DEF PowersOf
    <3>2. Fours[h] = 4 * Fours[h - 1]
      BY <2>1, Zenon DEF PowersOf
    <3> QED BY <1>1, <3>1, <3>2
  <2>4. q < o
    BY <1>1, <1>4, <2>2, <2>3, Sixteenth, Zenon
  <2>5. Len(s) \in Nat /\ Len(s) <= h - 1
    <3>1. \A l \in Nat : l < Fours[h - 1] => Len(While(l, 16)) <= h - 1
      BY <2>1, WhileFits
    <3> QED BY <2>2, <2>3, <2>4, <3>1, LenProperties
  <2>6. Len(<<d>> \o s) = 1 + Len(s)
    BY ConcatProperties
  <2> QED BY <2>2, <2>5, <2>6
<1>5. ASSUME NEW n \in Nat, n < 2 * m PROVE Len(DoWhile(n, 2)) <= BITS
  <2>1. 2 \in 2 .. 16 /\ 2 \in {2, 4} /\ 2 <= 2 /\ BITS \in Nat /\ BITS - 1 \in 0 .. BITS
    BY FormatAssumption
  <2>0. PICK q \in Nat, r \in 0 .. 15, d \in Figures, s \in Seq(Figures) : Turn(n, 2, q, r, d, s)
    BY <2>1, WhileOnce, Zenon
  <2>2. n = 2 * q + r /\ s = While(q, 2) /\ DoWhile(n, 2) = <<d>> \o s
    BY <2>0, Zenon DEF Turn
  <2>3. q < m
    BY <1>5, <2>2
  <2>4. PowersOf(2, TwoTo, BITS)
    BY Doubling, Zenon DEF PowersOf
  <2>5. Len(s) \in Nat /\ Len(s) <= BITS - 1
    <3>1. \A l \in Nat : l < TwoTo[BITS - 1] => Len(While(l, 2)) <= BITS - 1
      BY <2>1, <2>4, WhileFits
    <3> QED BY <2>2, <2>3, <3>1, LenProperties
  <2>6. Len(<<d>> \o s) = 1 + Len(s)
    BY ConcatProperties
  <2> QED BY <2>1, <2>2, <2>5, <2>6
<1> QED BY <1>1, <1>2, <1>3, <1>4, <1>5

(* The characters of numbers are printable.                                *)
Marks == Figures \cup {"-", "x", "b"}

(* The texts of numbers are printable.                                     *)
LEMMA MarksPrintable ==
  ASSUME NEW text \in Seq(Marks)
  PROVE  Printable(text)
<1>1. \A e \in 1 .. 16 : Digit[e] \notin Controls
  BY DEF Digit, Controls
<1>2. \A c \in Figures : c \notin Controls
  BY <1>1, Zenon DEF Figures
<1>3. \A c \in {"-", "x", "b"} : c \notin Controls
  BY DEF Controls
<1>4. \A c \in Marks : c \notin Controls
  BY <1>2, <1>3, Zenon DEF Marks
<1>5. \A k \in 1 .. Len(text) : text[k] \in Marks
  BY LenProperties
<1> QED BY <1>4, <1>5, Zenon DEF Printable

(* A text behind one mark or two.                                          *)
LEMMA BehindMarks ==
  ASSUME NEW t \in Seq(Figures), NEW a \in Marks, NEW b \in Marks
  PROVE  /\ t \in Seq(Marks) /\ <<a>> \o t \in Seq(Marks) /\ <<a, b>> \o t \in Seq(Marks)
         /\ Len(<<a>> \o t) = Len(t) + 1 /\ Len(<<a, b>> \o t) = Len(t) + 2
         /\ (<<a>> \o t)[1] = a /\ Tail(<<a>> \o t) = t /\ Tail(Tail(<<a, b>> \o t)) = t
<1>1. t \in Seq(Marks)
  <2>1. \A k \in 1 .. Len(t) : t[k] \in Marks
    BY LenProperties DEF Marks
  <2> QED BY <2>1
<1>2. <<a>> \in Seq(Marks) /\ <<a, b>> \in Seq(Marks) /\ Len(<<a>>) = 1 /\ Len(<<a, b>>) = 2
      /\ <<a>>[1] = a /\ Len(t) \in Nat
  BY LenProperties
<1>3. <<a>> \o t \in Seq(Marks) /\ Len(<<a>> \o t) = Len(t) + 1
  BY <1>1, <1>2, ConcatProperties
<1>4. <<a, b>> \o t \in Seq(Marks) /\ Len(<<a, b>> \o t) = Len(t) + 2
  BY <1>1, <1>2, ConcatProperties
<1>5. (<<a>> \o t)[1] = a
  OBVIOUS
<1>6. Tail(<<a>> \o t) = t
  OBVIOUS
<1>7. Tail(Tail(<<a, b>> \o t)) = t
  OBVIOUS
<1> QED BY <1>1, <1>3, <1>4, <1>5, <1>6, <1>7, Zenon

(* A text of a number on a cleared screen.                                 *)
LEMMA NumberOnScreen ==
  ASSUME ClearScreen, NEW text \in Seq(Marks), Len(text) <= BITS \div 2 + 2
  PROVE  OnScreen(text) = text
<1>1. Printable(text)
  BY MarksPrintable
<1>2. Len(text) \in Cells
  <2>1. Len(text) \in Nat /\ BITS \div 2 \in Nat /\ VGA_WIDTH * VGA_HEIGHT \in Nat
    BY LenProperties, FormatAssumption, VgaAssumption
  <2> QED BY <2>1, PrintAssumption DEF Cells
<1>3. vga = vga_clear(vga)
  BY DEF ClearScreen
<1>4. [k \in 1 .. Len(text) |-> vga_write(vga, text).cells[k - 1]] = text
  BY <1>1, <1>2, <1>3, TextIsOnScreen
<1> QED BY <1>4 DEF OnScreen

(* buf in vga_put_dec, of a number n without its sign.                     *)
LEMMA DecimalBuffer ==
  ASSUME NEW n \in Nat
  PROVE  (IF n = 0 THEN <<"0">> ELSE While(n, 10)) = DoWhile(n, 10)
<1>1. 10 \in 2 .. 16
  OBVIOUS
<1>2. PICK q \in Nat, r \in 0 .. 15, d \in Figures, s \in Seq(Figures) : Turn(n, 10, q, r, d, s)
  BY <1>1, WhileOnce, Zenon
<1>3. /\ n = 10 * q + r /\ d = Digit[r + 1] /\ (q = 0 => s = << >>)
      /\ (n > 0 => While(n, 10) = <<d>> \o s) /\ DoWhile(n, 10) = <<d>> \o s
  BY <1>2, Zenon DEF Turn
<1>4. CASE n = 0
  <2>1. q = 0 /\ r + 1 = 1
    BY <1>3, <1>4
  <2>2. d = "0" /\ s = << >>
    BY <1>3, <2>1, DigitsDiffer, Zenon
  <2>3. <<d>> \o << >> = <<d>>
    OBVIOUS
  <2> QED BY <1>3, <1>4, <2>2, <2>3
<1>5. CASE n > 0
  <2>1. n # 0
    BY <1>5
  <2>2. While(n, 10) = DoWhile(n, 10)
    BY <1>3, <1>5, Zenon
  <2> QED BY <2>1, <2>2, Zenon
<1> QED BY <1>4, <1>5

(* A text that stands for the number num, with its sign.                   *)
Decimal(num, t, h) ==
  /\ Len(t) <= h + 1 /\ Len(DecBuf(num)) <= h
  /\ num < 0 => Stands(t, 10, - num) /\ vga_put_dec(num) = <<"-">> \o t
  /\ num >= 0 => Stands(t, 10, num) /\ vga_put_dec(num) = t

(* What vga_put_dec prints.                                                *)
LEMMA DecimalText ==
  ASSUME NEW num \in INT64_MIN .. INT64_MAX
  PROVE  \E t \in Seq(Figures) : Decimal(num, t, BITS \div 2)
<1>1. PICK m \in Nat, h \in Nat :
        /\ m > 0 /\ m = TwoTo[BITS - 1]
        /\ INT64_MIN = - m /\ INT64_MAX = m - 1 /\ UINT64_MAX = 2 * m - 1
        /\ h = BITS \div 2 /\ h > 0
        /\ PowersOf(4, Fours, h) /\ m <= Fours[h]
  BY WordLimits, Zenon
<1>2. /\ \A n \in Nat : n < m => Len(While(n, 10)) <= h
      /\ Len(While(m, 10)) <= h + 1
  BY <1>1, DigitsFit, ZenonT(30)
<1>3. num \in Int /\ num >= - m /\ num < m /\ 10 \in 2 .. 16
  BY <1>1
<1>4. CASE num = INT64_MIN
  <2>1. num < 0 /\ ~ (num >= 0) /\ ~ (num > 0) /\ num # 0 /\ - num = m
    BY <1>1, <1>4
  <2>2. PICK t : t = Backwards(While(m, 10))
    OBVIOUS
  <2>3. ReadsAs(t, 10, m)
    BY <1>1, <1>3, <2>2, WhileReads
  <2>4. t \in Seq(Figures) /\ Stands(t, 10, m)
    BY <2>3, ReadsStands DEF ReadsAs
  <2>5. Len(t) <= h + 1
    <3>0. m \in Int
      OBVIOUS
    <3>1. While(m, 10) \in Seq(Figures)
      BY <1>3, <3>0, WhileStep, Zenon
    <3>2. Len(t) = Len(While(m, 10))
      BY <2>2, <3>1, BackwardsType
    <3> QED BY <1>2, <3>2
  <2>6. vga_put_dec(num) = <<"-">> \o t
    BY <1>1, <1>4, <2>2 DEF vga_put_dec
  <2>7. Len(DecBuf(num)) <= h
    <3>1. DecBuf(num) = While(num, 10)
      BY <1>4, <2>1 DEF DecBuf, Magnitude, Negated
    <3>2. While(num, 10) = << >>
      BY <1>3, <2>1, WhileStep, Zenon
    <3> QED BY <3>1, <3>2
  <2>8. Decimal(num, t, h)
    BY <2>1, <2>4, <2>5, <2>6, <2>7 DEF Decimal
  <2> QED BY <1>1, <2>4, <2>8
<1>5. CASE num # INT64_MIN
  <2>1. PICK n \in Nat : n = (IF num < 0 THEN - num ELSE num) /\ n < m
    BY <1>1, <1>3, <1>5
  <2>2. Magnitude(num) = n
    BY <1>5, <2>1 DEF Magnitude, Negated
  <2>3. DecBuf(num) = DoWhile(n, 10)
    BY <2>2, DecimalBuffer, Zenon DEF DecBuf
  <2>4. PICK t \in Seq(Figures) : /\ t = Backwards(DecBuf(num)) /\ Len(t) = Len(DecBuf(num))
                                 /\ Stands(t, 10, n)
    BY <1>3, <2>3, DoWhileStands
  <2>5. Len(DecBuf(num)) <= h
    <3>1. CASE n = 0
      <4>1. DecBuf(num) = <<"0">>
        BY <2>2, <3>1 DEF DecBuf
      <4> QED BY <1>1, <4>1
    <3>2. CASE n # 0
      BY <1>2, <2>1, <2>2, <3>2 DEF DecBuf
    <3> QED BY <3>1, <3>2
  <2>6. Len(t) <= h + 1
    BY <2>4, <2>5, LenProperties
  <2>7. CASE num < 0
    <3>1. ~ (num >= 0) /\ n = - num
      BY <1>3, <2>1, <2>7
    <3>2. vga_put_dec(num) = <<"-">> \o t
      BY <1>5, <2>4, <2>7 DEF vga_put_dec
    <3>3. Decimal(num, t, h)
      BY <2>4, <2>5, <2>6, <3>1, <3>2 DEF Decimal
    <3> QED BY <1>1, <3>3
  <2>8. CASE ~ (num < 0)
    <3>1. n = num
      BY <1>3, <2>1, <2>8
    <3>2. << >> \o t = t
      OBVIOUS
    <3>3. vga_put_dec(num) = t
      BY <1>5, <2>4, <2>8, <3>2 DEF vga_put_dec
    <3>4. Decimal(num, t, h)
      BY <2>4, <2>5, <2>6, <2>8, <3>1, <3>3 DEF Decimal
    <3> QED BY <1>1, <3>4
  <2> QED BY <2>7, <2>8
<1> QED BY <1>4, <1>5

(* vga_put_dec, read from the screen.                                      *)
LEMMA DecimalOnScreen ==
  ASSUME ClearScreen, NEW num \in INT64_MIN .. INT64_MAX
  PROVE  DecimalReadsBack(num)
<1>1. PICK t \in Seq(Figures) : Decimal(num, t, BITS \div 2)
  BY DecimalText, Zenon
<1>2. PICK h \in Nat : h = BITS \div 2
  BY FormatAssumption
<1>3. /\ Len(t) <= h + 1 /\ Len(DecBuf(num)) <= h /\ Len(t) \in Nat
      /\ num < 0 => Stands(t, 10, - num) /\ vga_put_dec(num) = <<"-">> \o t
      /\ num >= 0 => Stands(t, 10, num) /\ vga_put_dec(num) = t
  BY <1>1, <1>2, LenProperties, Zenon DEF Decimal
<1>4. "-" \in Marks
  BY DEF Marks
<1>5. /\ t \in Seq(Marks) /\ <<"-">> \o t \in Seq(Marks) /\ Len(<<"-">> \o t) = Len(t) + 1
      /\ (<<"-">> \o t)[1] = "-" /\ Tail(<<"-">> \o t) = t
  BY <1>4, BehindMarks, Zenon
<1>6. Len(t) <= h + 2 /\ Len(<<"-">> \o t) <= h + 2
  BY <1>3, <1>5
<1>7. OnScreen(t) = t /\ OnScreen(<<"-">> \o t) = <<"-">> \o t
  BY <1>2, <1>5, <1>6, NumberOnScreen, Zenon
<1>8. num < 0 => OnScreen(vga_put_dec(num))[1] = "-" /\ Stands(Tail(OnScreen(vga_put_dec(num))), 10, - num)
  BY <1>3, <1>5, <1>7, Zenon
<1>9. num >= 0 => Stands(OnScreen(vga_put_dec(num)), 10, num)
  BY <1>3, <1>7, Zenon
<1> QED BY <1>2, <1>3, <1>8, <1>9, Zenon DEF DecimalReadsBack

(* vga_put_hex, read from the screen, and vga_put_bin.                     *)
LEMMA HexAndBinaryOnScreen ==
  ASSUME ClearScreen, NEW num \in 0 .. UINT64_MAX
  PROVE  HexAndBinaryReadBack(num)
<1>1. PICK m \in Nat, h \in Nat :
        /\ m > 0 /\ m = TwoTo[BITS - 1]
        /\ INT64_MIN = - m /\ INT64_MAX = m - 1 /\ UINT64_MAX = 2 * m - 1
        /\ h = BITS \div 2 /\ h > 0
        /\ PowersOf(4, Fours, h) /\ m <= Fours[h]
  BY WordLimits, Zenon
<1>2. num \in Nat /\ num < 2 * m /\ 16 \in 2 .. 16 /\ 2 \in 2 .. 16
  BY <1>1
<1>3. \A n \in Nat : n < 2 * m => Len(DoWhile(n, 16)) <= h /\ Len(DoWhile(n, 2)) <= BITS
  BY <1>1, DigitsFit, ZenonT(30)
<1>4. PICK s \in Seq(Figures) : /\ s = Backwards(DoWhile(num, 16)) /\ Len(s) = Len(DoWhile(num, 16))
                               /\ Stands(s, 16, num)
  BY <1>2, DoWhileStands, Zenon
<1>5. PICK t \in Seq(Figures) : /\ t = Backwards(DoWhile(num, 2)) /\ Len(t) = Len(DoWhile(num, 2))
                               /\ Stands(t, 2, num)
  BY <1>2, DoWhileStands, Zenon
<1>6. "0" \in Marks /\ "x" \in Marks /\ "b" \in Marks
  BY DigitsDiffer DEF Marks, Figures
<1>7. /\ <<"0", "x">> \o s \in Seq(Marks) /\ Len(<<"0", "x">> \o s) = Len(s) + 2
      /\ Tail(Tail(<<"0", "x">> \o s)) = s
  BY <1>6, BehindMarks, Zenon
<1>8. Tail(Tail(<<"0", "b">> \o t)) = t
  BY <1>6, BehindMarks, Zenon
<1>9. Len(s) \in Nat /\ Len(t) \in Nat /\ Len(s) <= h /\ Len(t) <= BITS
  BY <1>2, <1>3, <1>4, <1>5, LenProperties, Zenon
<1>10. Len(<<"0", "x">> \o s) <= BITS \div 2 + 2
  BY <1>1, <1>7, <1>9
<1>11. OnScreen(<<"0", "x">> \o s) = <<"0", "x">> \o s
  BY <1>7, <1>10, NumberOnScreen, Zenon
<1>12. Len(t) <= BITS + 1
  BY <1>9, FormatAssumption
<1>13. Stands(Tail(Tail(OnScreen(vga_put_hex(num)))), 16, num)
  BY <1>4, <1>7, <1>11, Zenon DEF vga_put_hex
<1>14. Stands(Tail(Tail(vga_put_bin(num))), 2, num)
  BY <1>5, <1>8, Zenon DEF vga_put_bin
<1>15. Len(DoWhile(num, 16)) <= BITS \div 2
  BY <1>1, <1>4, <1>9, Zenon
<1>16. Len(DoWhile(num, 2)) <= BITS + 1
  BY <1>5, <1>12, Zenon
<1> QED BY <1>13, <1>14, <1>15, <1>16, Zenon DEF HexAndBinaryReadBack

(* For words of every width and screens of every size with room for their  *)
(* texts: what vga_put_dec and vga_put_hex leave on a cleared screen, and  *)
(* the text of vga_put_bin, read back as the number they were given, the   *)
(* least one included, and the digits fit the helpers' buf.                *)
THEOREM NumbersAlwaysReadBack == Spec => []NumbersReadBack
<1>1. NumbersReadBack
  BY DecimalOnScreen, HexAndBinaryOnScreen, Zenon DEF NumbersReadBack
<1> QED BY <1>1, PTL

-----------------------------------------------------------------------------
(***************************************************************************)
(* vga_printf.                                                             *)
(***************************************************************************)

(* f gives the first k parts, one after the other.                         *)
Joins(f, parts, n) == f = [k \in 0 .. n |-> IF k = 0 THEN << >> ELSE f[k - 1] \o parts[k]]

(* There is such a function.                                               *)
LEMMA JoinsExist ==
  ASSUME NEW parts, NEW n \in Nat
  PROVE  \E f : Joins(f, parts, n)
<1> DEFINE S == {m \in Nat : \E f : Joins(f, parts, m)}
<1>1. 0 \in S
  <2>1. Joins([k \in 0 .. 0 |-> << >>], parts, 0)
    BY DEF Joins
  <2> QED BY <2>1
<1>2. ASSUME NEW m \in Nat, m \in S PROVE m + 1 \in S
  <2>1. PICK f : Joins(f, parts, m)
    BY <1>2
  <2>2. /\ f = [k \in 0 .. m |-> f[k]]
        /\ \A k \in 0 .. m : f[k] = IF k = 0 THEN << >> ELSE f[k - 1] \o parts[k]
    BY <2>1, Zenon DEF Joins
  <2>3. PICK last : last = f[m] \o parts[m + 1]
    BY Zenon
  <2>4. PICK g : g = [k \in 0 .. m + 1 |-> IF k = m + 1 THEN last ELSE f[k]]
    BY Zenon
  <2>5. ASSUME NEW k \in 0 .. m + 1 PROVE g[k] = IF k = 0 THEN << >> ELSE g[k - 1] \o parts[k]
    <3>1. CASE k = 0
      <4>1. g[0] = f[0] /\ 0 \in 0 .. m
        BY <2>4
      <4>2. f[0] = << >>
        BY <2>2, <4>1, Zenon
      <4> QED BY <3>1, <4>1, <4>2, Zenon
    <3>2. CASE k = m + 1
      <4>1. g[k] = last /\ k - 1 = m /\ g[m] = f[m] /\ k # 0
        BY <2>4, <3>2
      <4> QED BY <2>3, <3>2, <4>1, Zenon
    <3>3. CASE k # 0 /\ k # m + 1
      <4>1. g[k] = f[k] /\ g[k - 1] = f[k - 1] /\ k \in 0 .. m
        BY <2>4, <3>3
      <4> QED BY <2>2, <3>3, <4>1, Zenon
    <3> QED BY <3>1, <3>2, <3>3
  <2>6. Joins(g, parts, m + 1)
    BY <2>4, <2>5 DEF Joins
  <2> QED BY <2>6
<1> HIDE DEF S
<1>3. n \in S
  BY <1>1, <1>2, Inductive
<1> QED BY <1>3 DEF S

(* Its values, one by one.                                                 *)
Grows(f, parts, n) == f[0] = << >> /\ \A k \in 1 .. n : f[k] = f[k - 1] \o parts[k]

(* They follow from its definition.                                        *)
LEMMA JoinsStep ==
  ASSUME NEW parts, NEW n, n \in Nat, NEW f, Joins(f, parts, n)
  PROVE  Grows(f, parts, n)
BY DEF Joins, Grows

(* Joined is its last value.                                               *)
LEMMA JoinedUnfolds ==
  ASSUME NEW parts, NEW n \in Nat, n = Len(parts)
  PROVE  \E f : Joins(f, parts, n) /\ Joined(parts) = f[n]
<1>1. PICK f : f = CHOOSE g : Joins(g, parts, n)
  OBVIOUS
<1>2. Joins(f, parts, n)
  BY <1>1, JoinsExist, Zenon
<1>3. Joined(parts) = f[n]
  BY <1>1 DEF Joined, Joins
<1> QED BY <1>2, <1>3

(* t[k] arguments are taken by the first k pieces.                         *)
Taken(t, pieces, n) ==
  /\ t \in [0 .. n -> Nat] /\ t[0] = 0
  /\ \A k \in 1 .. n : t[k] = t[k - 1] + (IF pieces[k] \in Converts THEN 1 ELSE 0)

(* That is what Takes is.                                                  *)
LEMMA TakesUnfolds ==
  ASSUME NEW pieces, NEW n \in Nat, n = Len(pieces)
  PROVE  Taken(Takes(pieces), pieces, n)
<1> DEFINE V(k) == IF pieces[k] \in Converts THEN 1 ELSE 0
           G == [k \in 1 .. n |-> [s \in Nat |-> s + V(k)]]
           Is(f) == f = [k \in 0 .. Len(pieces) |-> IF k = 0 THEN 0 ELSE f[k - 1] + (IF pieces[k] \in Converts THEN 1 ELSE 0)]
<1>1. \A k : V(k) \in Nat
  OBVIOUS
<1> HIDE DEF V
<1>2. \A k \in 1 .. n : \A s \in Nat : G[k][s] = s + V(k) /\ G[k][s] \in Nat
  BY <1>1
<1>3. PICK f : Follows(f, n, Nat, 0, G)
  <2>1. \A k \in 1 .. n : \A s \in Nat : G[k][s] \in Nat
    BY <1>2, Zenon
  <2>2. 0 \in Nat
    OBVIOUS
  <2> HIDE DEF G
  <2> QED BY <2>1, <2>2, RecursionExists, Zenon
<1>4. f \in [0 .. n -> Nat] /\ f[0] = 0
  BY <1>3 DEF Follows
<1>5. ASSUME NEW k \in 1 .. n PROVE f[k] = f[k - 1] + V(k)
  <2>1. f[k - 1] \in Nat
    BY <1>4
  <2>2. f[k] = G[k][f[k - 1]]
    BY <1>3 DEF Follows
  <2> HIDE DEF G
  <2> QED BY <1>2, <2>1, <2>2, Zenon
<1>6. Is(f)
  <2>1. ASSUME NEW k \in 0 .. n PROVE f[k] = IF k = 0 THEN 0 ELSE f[k - 1] + V(k)
    <3>1. CASE k = 0
      BY <1>4, <3>1
    <3>2. CASE k # 0
      BY <1>5, <3>2
    <3> QED BY <3>1, <3>2
  <2>2. f = [k \in 0 .. n |-> IF k = 0 THEN 0 ELSE f[k - 1] + V(k)]
    BY <1>4, <2>1
  <2> QED BY <2>2 DEF V
<1>7. PICK t : t = CHOOSE g : Is(g)
  OBVIOUS
<1>8. Is(t)
  <2> HIDE DEF Is
  <2> QED BY <1>6, <1>7, Zenon
<1>9. t = [k \in 0 .. n |-> IF k = 0 THEN 0 ELSE t[k - 1] + V(k)]
  BY <1>8 DEF V
<1>10. \A k \in 0 .. n : t[k] = f[k]
  <2>1. t[0] = 0 /\ \A k \in 1 .. n : t[k] = t[k - 1] + V(k)
    BY <1>9
  <2>2. InStep(t, f, n)
    BY <1>5, <2>1, Zenon DEF InStep
  <2>3. t[0] = f[0]
    BY <1>4, <2>1, Zenon
  <2> QED BY <2>2, <2>3, InStepAgree
<1>11. t = f
  BY <1>4, <1>9, <1>10
<1>12. Taken(f, pieces, n)
  BY <1>4, <1>5 DEF Taken, V
<1>13. Takes(pieces) = t
  BY <1>7 DEF Takes
<1> QED BY <1>11, <1>12, <1>13

(* The characters of the pieces.                                           *)
Letters == {"%", "l", "d", "x", "b", "s", "c", "NL"}

(* The pieces are sequences of one character or more.                      *)
LEMMA PiecesType ==
  ASSUME NEW piece \in Pieces
  PROVE  piece \in Seq(Letters) /\ Len(piece) \in Nat /\ Len(piece) >= 1
<1>1. CASE piece \in Plain
  <2>1. CASE piece = <<"l">>
    BY <2>1 DEF Letters
  <2>2. CASE piece = <<"d">>
    BY <2>2 DEF Letters
  <2>3. CASE piece = <<"NL">>
    BY <2>3 DEF Letters
  <2> QED BY <1>1, <2>1, <2>2, <2>3, Zenon DEF Plain
<1>2. CASE piece \in Converts
  <2>1. CASE piece = <<"%", "d">>
    BY <2>1 DEF Letters
  <2>2. CASE piece = <<"%", "l", "l", "d">>
    BY <2>2 DEF Letters
  <2>3. CASE piece = <<"%", "x">>
    BY <2>3 DEF Letters
  <2>4. CASE piece = <<"%", "b">>
    BY <2>4 DEF Letters
  <2>5. CASE piece = <<"%", "s">>
    BY <2>5 DEF Letters
  <2>6. CASE piece = <<"%", "c">>
    BY <2>6 DEF Letters
  <2> QED BY <1>2, <2>1, <2>2, <2>3, <2>4, <2>5, <2>6, Zenon DEF Converts
<1>3. CASE piece = <<"%", "%">>
  BY <1>3 DEF Letters
<1> QED BY <1>1, <1>2, <1>3 DEF Pieces

(* The first j pieces end behind those before them, and inside the first m *)
(* they stand where they were put.                                         *)
Stay(f, pieces, m) ==
  /\ f[m] \in Seq(Letters) /\ Len(f[m]) \in Nat /\ Len(f[m]) >= m
  /\ \A j \in 1 .. m : /\ Len(f[j - 1]) \in Nat /\ Len(f[j]) \in Nat
                       /\ Len(f[j]) = Len(f[j - 1]) + Len(pieces[j])
                       /\ Len(f[j]) <= Len(f[m])
                       /\ \A k \in 1 .. Len(pieces[j]) : f[m][Len(f[j - 1]) + k] = pieces[j][k]

(* A format holds its pieces one behind the other.                         *)
LEMMA PiecesStay ==
  ASSUME NEW n \in Nat, NEW pieces \in Seq(Pieces), n = Len(pieces), NEW f, Joins(f, pieces, n)
  PROVE  Stay(f, pieces, n)
<1> DEFINE S == {m \in 0 .. n : Stay(f, pieces, m)}
<1>0. f[0] = << >> /\ \A m \in 1 .. n : f[m] = f[m - 1] \o pieces[m]
  <2>1. Grows(f, pieces, n)
    BY JoinsStep, Zenon
  <2> QED BY <2>1, Zenon DEF Grows
<1>1. 0 \in S
  <2>1. f[0] \in Seq(Letters) /\ Len(f[0]) = 0
    BY <1>0
  <2>2. \A j \in 1 .. 0 : FALSE
    OBVIOUS
  <2>3. Len(f[0]) \in Nat /\ Len(f[0]) >= 0 /\ 0 \in 0 .. n
    BY <2>1
  <2> QED BY <2>1, <2>2, <2>3, Zenon DEF Stay
<1>2. ASSUME NEW m \in 0 .. n - 1, m \in S PROVE m + 1 \in S
  <2>0. Stay(f, pieces, m) /\ m + 1 \in 1 .. n /\ m + 1 - 1 = m /\ m \in Nat
    BY <1>2
  <2>1. PICK a \in Seq(Letters) : a = f[m]
    BY <2>0 DEF Stay
  <2>2. PICK b \in Seq(Letters) : b = pieces[m + 1] /\ Len(b) \in Nat /\ Len(b) >= 1
    <3>1. pieces[m + 1] \in Pieces
      BY <2>0
    <3> QED BY <3>1, PiecesType, Zenon
  <2>3. PICK c : c = a \o b
    BY Zenon
  <2>4. f[m + 1] = c
    <3>1. PICK i \in 1 .. n : i = m + 1 /\ i - 1 = m
      BY <2>0
    <3>2. f[i] = f[i - 1] \o pieces[i]
      BY <1>0, Zenon
    <3> QED BY <2>1, <2>2, <2>3, <3>1, <3>2, Zenon
  <2>5. PICK la \in Nat, lb \in Nat : la = Len(a) /\ lb = Len(b) /\ la >= m /\ lb >= 1
    BY <2>0, <2>1, <2>2 DEF Stay
  <2>6. /\ c \in Seq(Letters) /\ Len(c) = la + lb
        /\ \A i \in 1 .. la + lb : c[i] = IF i <= la THEN a[i] ELSE b[i - la]
    BY <2>3, <2>5, ConcatProperties
  <2>7. ASSUME NEW j \in 1 .. m + 1
        PROVE  /\ Len(f[j - 1]) \in Nat /\ Len(f[j]) \in Nat
               /\ Len(f[j]) = Len(f[j - 1]) + Len(pieces[j])
               /\ Len(f[j]) <= la + lb
               /\ \A k \in 1 .. Len(pieces[j]) : c[Len(f[j - 1]) + k] = pieces[j][k]
    <3>1. CASE j = m + 1
      <4>1. f[j - 1] = a /\ f[j] = c /\ pieces[j] = b
        BY <2>0, <2>1, <2>2, <2>4, <3>1
      <4>2. \A k \in 1 .. lb : c[la + k] = b[k]
        BY <2>6
      <4> QED BY <2>5, <2>6, <4>1, <4>2
    <3>2. CASE j # m + 1
      <4>1. j \in 1 .. m
        BY <3>2
      <4>0. PICK q : q = pieces[j]
        OBVIOUS
      <4>2. PICK l \in Nat, e \in Nat :
              /\ l = Len(f[j - 1]) /\ e = Len(f[j])
              /\ e = l + Len(q) /\ e <= la
              /\ \A k \in 1 .. Len(q) : a[l + k] = q[k]
        BY <2>0, <2>1, <2>5, <4>0, <4>1, Zenon DEF Stay
      <4>3. Len(q) \in Nat
        <5>1. pieces[j] \in Pieces
          BY <2>0, <4>1
        <5> QED BY <4>0, <5>1, PiecesType, Zenon
      <4>4. ASSUME NEW k \in 1 .. Len(q) PROVE c[l + k] = q[k]
        <5>1. l + k \in 1 .. la + lb /\ l + k <= la
          <6>1. PICK lq \in Nat : lq = Len(q)
            BY <4>3
          <6>2. k \in 1 .. lq /\ l + lq <= la
            BY <4>2, <6>1
          <6> QED BY <6>2
        <5>2. c[l + k] = a[l + k]
          BY <2>6, <5>1, Zenon
        <5> QED BY <4>2, <5>2, Zenon
      <4>5. e <= la + lb
        BY <4>2
      <4> QED BY <4>0, <4>2, <4>4, <4>5, Zenon
    <3> QED BY <3>1, <3>2, Zenon
  <2>8. Len(c) \in Nat /\ Len(c) >= m + 1
    BY <2>0, <2>5, <2>6
  <2>9. Stay(f, pieces, m + 1)
    BY <2>4, <2>6, <2>7, <2>8, Zenon DEF Stay
  <2> QED BY <2>0, <2>9
<1> HIDE DEF S
<1>3. n \in S
  BY <1>1, <1>2, InductiveUpTo
<1> QED BY <1>3 DEF S

(* What a piece prints with an argument, read from behind at.              *)
Printed(piece, arg, at) ==
  [text |-> Meaning(piece, arg), takes |-> IF piece \in Converts THEN 1 ELSE 0,
   last |-> at + Len(piece)]

(* A piece stands in a format, from behind at.                             *)
Holds(format, piece, at) ==
  /\ Len(format) \in Nat /\ at \in Nat /\ at + Len(piece) <= Len(format)
  /\ \A k \in 1 .. Len(piece) : format[at + k] = piece[k]

(* vga_printf meets the characters of the piece.                           *)
Spells(format, piece, at) ==
  \A k \in 1 .. Len(piece) : format[at + k] = piece[k] /\ At(format, at + k) = piece[k]

(* It meets those of a piece that stands in the format.                    *)
LEMMA HeldCharacters ==
  ASSUME NEW format, NEW piece, piece \in Pieces, NEW at, Holds(format, piece, at)
  PROVE  Spells(format, piece, at)
<1>0. SUFFICES ASSUME NEW k \in 1 .. Len(piece)
               PROVE  format[at + k] = piece[k] /\ At(format, at + k) = piece[k]
  BY Zenon DEF Spells
<1>1. PICK n \in Nat, l \in Nat : n = Len(format) /\ l = Len(piece) /\ at \in Nat /\ at + l <= n
  BY PiecesType, Zenon DEF Holds
<1>2. k \in 1 .. l
  BY <1>1
<1>3. at + k <= n
  BY <1>1, <1>2
<1>4. format[at + k] = piece[k]
  BY Zenon DEF Holds
<1> QED BY <1>1, <1>3, <1>4, Zenon DEF At

(* A character that is printed as it is.                                   *)
LEMMA PlainRound ==
  ASSUME NEW format, NEW at, NEW c \in {"l", "d", "NL"}, Holds(format, <<c>>, at), NEW arg
  PROVE  PieceAt(format, at + 1, arg) = Printed(<<c>>, arg, at)
<1>1. <<c>> \in Plain /\ <<c>> \in Pieces /\ Len(<<c>>) = 1 /\ <<c>>[1] = c /\ c # "%"
  BY DEF Pieces, Plain
<1>2. 1 \in 1 .. Len(<<c>>)
  BY <1>1
<1>3. format[at + 1] = c /\ At(format, at + 1) # "%"
  <2>0. Spells(format, <<c>>, at)
    BY <1>1, HeldCharacters, Zenon
  <2>1. format[at + 1] = <<c>>[1] /\ At(format, at + 1) = <<c>>[1]
    BY <1>2, <2>0, Zenon DEF Spells
  <2> QED BY <1>1, <2>1, Zenon
<1>4. PieceAt(format, at + 1, arg) = [text |-> <<c>>, takes |-> 0, last |-> at + 1]
  BY <1>3, Zenon DEF PieceAt
<1>5. <<c>> \notin Converts
  BY DEF Converts
<1>6. Meaning(<<c>>, arg) = <<c>>
  BY DEF Meaning
<1> QED BY <1>1, <1>4, <1>5, <1>6, Zenon DEF Printed

(* A directive of one letter.                                              *)
LEMMA ShortRound ==
  ASSUME NEW format, NEW at, NEW c \in {"d", "x", "b", "s", "c", "%"},
         Holds(format, <<"%", c>>, at), NEW arg
  PROVE  PieceAt(format, at + 1, arg) = Printed(<<"%", c>>, arg, at)
<1>1. <<"%", c>> \in Pieces /\ Len(<<"%", c>>) = 2 /\ <<"%", c>>[1] = "%" /\ <<"%", c>>[2] = c
  BY DEF Pieces, Converts
<1>2. 1 \in 1 .. Len(<<"%", c>>) /\ 2 \in 1 .. Len(<<"%", c>>)
  BY <1>1
<1>3. PICK p \in Nat : p = at + 1 /\ p + 1 = at + 2
  BY DEF Holds
<1>4. At(format, p) = "%" /\ At(format, p + 1) = c
  <2>1. PICK b : b = <<"%", c>> /\ b \in Pieces /\ Holds(format, b, at)
    BY <1>1, Zenon
  <2>2. Spells(format, b, at)
    BY <2>1, HeldCharacters, Zenon
  <2>3. 1 \in 1 .. Len(b) /\ 2 \in 1 .. Len(b) /\ b[1] = "%" /\ b[2] = c
    BY <1>1, <1>2, <2>1, Zenon
  <2>4. At(format, at + 1) = "%"
    BY <2>2, <2>3, Zenon DEF Spells
  <2>5. At(format, at + 2) = c
    BY <2>2, <2>3, Zenon DEF Spells
  <2> QED BY <1>3, <2>4, <2>5, Zenon
<1>5. ~ LongLong(format, p + 1)
  BY <1>4 DEF LongLong
<1>6. PieceAt(format, p, arg) = Directive(format, p, arg)
  BY <1>4, Zenon DEF PieceAt
<1>7. Printed(<<"%", c>>, arg, at) = [text |-> Meaning(<<"%", c>>, arg),
                                      takes |-> IF <<"%", c>> \in Converts THEN 1 ELSE 0, last |-> p + 1]
  BY <1>1, <1>3, Zenon DEF Printed
<1>8. CASE c = "d"
  <2>1. Directive(format, p, arg) = [text |-> vga_put_dec(arg.int), takes |-> 1, last |-> p + 1]
    BY <1>4, <1>5, <1>8 DEF Directive
  <2>2. Meaning(<<"%", c>>, arg) = vga_put_dec(arg.int)
    BY <1>8 DEF Meaning
  <2>3. <<"%", c>> \in Converts
    BY <1>8 DEF Converts
  <2> QED BY <1>3, <1>6, <1>7, <2>1, <2>2, <2>3, Zenon
<1>9. CASE c = "x"
  <2>1. Directive(format, p, arg) = [text |-> vga_put_hex(arg.unsigned), takes |-> 1, last |-> p + 1]
    BY <1>4, <1>5, <1>9 DEF Directive
  <2>2. Meaning(<<"%", c>>, arg) = vga_put_hex(arg.unsigned)
    BY <1>9 DEF Meaning
  <2>3. <<"%", c>> \in Converts
    BY <1>9 DEF Converts
  <2> QED BY <1>3, <1>6, <1>7, <2>1, <2>2, <2>3, Zenon
<1>10. CASE c = "b"
  <2>1. Directive(format, p, arg) = [text |-> vga_put_bin(arg.unsigned), takes |-> 1, last |-> p + 1]
    BY <1>4, <1>5, <1>10 DEF Directive
  <2>2. Meaning(<<"%", c>>, arg) = vga_put_bin(arg.unsigned)
    BY <1>10 DEF Meaning
  <2>3. <<"%", c>> \in Converts
    BY <1>10 DEF Converts
  <2> QED BY <1>3, <1>6, <1>7, <2>1, <2>2, <2>3, Zenon
<1>11. CASE c = "s"
  <2>1. Directive(format, p, arg) = [text |-> arg.string, takes |-> 1, last |-> p + 1]
    BY <1>4, <1>5, <1>11 DEF Directive
  <2>2. Meaning(<<"%", c>>, arg) = arg.string
    BY <1>11 DEF Meaning
  <2>3. <<"%", c>> \in Converts
    BY <1>11 DEF Converts
  <2> QED BY <1>3, <1>6, <1>7, <2>1, <2>2, <2>3, Zenon
<1>12. CASE c = "c"
  <2>1. Directive(format, p, arg) = [text |-> <<arg.char>>, takes |-> 1, last |-> p + 1]
    BY <1>4, <1>5, <1>12 DEF Directive
  <2>2. Meaning(<<"%", c>>, arg) = <<arg.char>>
    BY <1>12 DEF Meaning
  <2>3. <<"%", c>> \in Converts
    BY <1>12 DEF Converts
  <2> QED BY <1>3, <1>6, <1>7, <2>1, <2>2, <2>3, Zenon
<1>13. CASE c = "%"
  <2>1. Directive(format, p, arg) = [text |-> <<"%">>, takes |-> 0, last |-> p + 1]
    BY <1>4, <1>5, <1>13 DEF Directive
  <2>2. Meaning(<<"%", c>>, arg) = <<"%">>
    BY <1>13 DEF Meaning
  <2>3. <<"%", c>> \notin Converts
    BY <1>13 DEF Converts
  <2> QED BY <1>3, <1>6, <1>7, <2>1, <2>2, <2>3, Zenon
<1> QED BY <1>8, <1>9, <1>10, <1>11, <1>12, <1>13, Zenon

(* The directive of three letters.                                         *)
LEMMA LongRound ==
  ASSUME NEW format, NEW at, Holds(format, <<"%", "l", "l", "d">>, at), NEW arg
  PROVE  PieceAt(format, at + 1, arg) = Printed(<<"%", "l", "l", "d">>, arg, at)
<1>0. PICK b : b = <<"%", "l", "l", "d">>
  OBVIOUS
<1>1. b \in Converts /\ b \in Pieces
  BY <1>0 DEF Pieces, Converts
<1>2. Len(b) = 4 /\ b[1] = "%" /\ b[2] = "l" /\ b[3] = "l" /\ b[4] = "d"
  BY <1>0
<1>3. 1 \in 1 .. Len(b) /\ 2 \in 1 .. Len(b) /\ 3 \in 1 .. Len(b) /\ 4 \in 1 .. Len(b)
  BY <1>2
<1>4. PICK p \in Nat : p = at + 1 /\ p + 1 = at + 2 /\ p + 1 + 1 = at + 3 /\ p + 3 = at + 4
  BY DEF Holds
<1>5. At(format, p) = "%" /\ At(format, p + 1) = "l" /\ At(format, p + 1 + 1) = "l" /\ At(format, p + 3) = "d"
  <2>1. Holds(format, b, at)
    BY <1>0, Zenon
  <2>2. Spells(format, b, at)
    BY <1>1, <2>1, HeldCharacters, Zenon
  <2>3. At(format, at + 1) = "%" /\ At(format, at + 2) = "l"
    BY <1>2, <1>3, <2>2, Zenon DEF Spells
  <2>4. At(format, at + 3) = "l" /\ At(format, at + 4) = "d"
    BY <1>2, <1>3, <2>2, Zenon DEF Spells
  <2> QED BY <1>4, <2>3, <2>4, Zenon
<1>6. LongLong(format, p + 1)
  BY <1>5, Zenon DEF LongLong
<1>7. PieceAt(format, p, arg) = Directive(format, p, arg)
  BY <1>5, Zenon DEF PieceAt
<1>8. Directive(format, p, arg) = [text |-> vga_put_dec(arg.num), takes |-> 1, last |-> p + 3]
  BY <1>5, <1>6, Zenon DEF Directive
<1>9. Meaning(b, arg) = vga_put_dec(arg.num)
  BY <1>0 DEF Meaning
<1> QED BY <1>0, <1>1, <1>2, <1>4, <1>7, <1>8, <1>9, Zenon DEF Printed

(* A round of the loop behind at reads a piece.                            *)
Consumes(format, piece, at) ==
  \A arg : PieceAt(format, at + 1, arg) = Printed(piece, arg, at)

(* A piece that stands there is read by one round.                         *)
LEMMA PieceIsRound ==
  ASSUME NEW format, NEW piece, piece \in Pieces, NEW at, Holds(format, piece, at)
  PROVE  Consumes(format, piece, at)
<1>0. SUFFICES ASSUME NEW arg PROVE PieceAt(format, at + 1, arg) = Printed(piece, arg, at)
  BY Zenon DEF Consumes
<1>1. CASE piece \in Plain
  <2>1. PICK c \in {"l", "d", "NL"} : piece = <<c>>
    BY <1>1 DEF Plain
  <2> QED BY <2>1, PlainRound, Zenon
<1>2. CASE piece = <<"%", "l", "l", "d">>
  BY <1>2, LongRound, Zenon
<1>3. CASE piece \in (Converts \ {<<"%", "l", "l", "d">>}) \cup {<<"%", "%">>}
  <2>1. PICK c \in {"d", "x", "b", "s", "c", "%"} : piece = <<"%", c>>
    BY <1>3 DEF Converts
  <2>2. Holds(format, <<"%", c>>, at)
    BY <2>1, Zenon
  <2>3. PieceAt(format, at + 1, arg) = Printed(<<"%", c>>, arg, at)
    BY <2>2, ShortRound
  <2> QED BY <2>1, <2>3, Zenon
<1> QED BY <1>1, <1>2, <1>3, Zenon DEF Pieces

(* A piece that takes no argument prints the same with every one.          *)
LEMMA NoArgument ==
  ASSUME NEW piece, piece \in Pieces, piece \notin Converts, NEW a, NEW b
  PROVE  Meaning(piece, a) = Meaning(piece, b)
<1>1. ASSUME NEW x PROVE Meaning(piece, x) = IF piece = <<"%", "%">> THEN <<"%">> ELSE piece
  <2>1. /\ piece # <<"%", "d">> /\ piece # <<"%", "l", "l", "d">> /\ piece # <<"%", "x">>
        /\ piece # <<"%", "b">> /\ piece # <<"%", "s">> /\ piece # <<"%", "c">>
    BY Zenon DEF Converts
  <2>2. CASE piece = <<"%", "%">>
    BY <2>2 DEF Meaning
  <2>3. CASE piece # <<"%", "%">>
    BY <2>1, <2>3 DEF Meaning
  <2> QED BY <2>2, <2>3, Zenon
<1> QED BY <1>1, Zenon

(* The pieces before take no more arguments than all.                      *)
LEMMA TakenGrows ==
  ASSUME NEW n \in Nat, NEW pieces, NEW t, Taken(t, pieces, n)
  PROVE  \A j \in 0 .. n : t[j] <= t[n]
<1> DEFINE S == {m \in 0 .. n : \A j \in 0 .. m : t[j] <= t[m]}
<1>0. /\ \A k \in 0 .. n : t[k] \in Nat
      /\ \A k \in 1 .. n : t[k] = t[k - 1] \/ t[k] = t[k - 1] + 1
  <2>1. \A k \in 0 .. n : t[k] \in Nat
    BY DEF Taken
  <2>2. ASSUME NEW k \in 1 .. n PROVE t[k] = t[k - 1] \/ t[k] = t[k - 1] + 1
    <3>1. k - 1 \in 0 .. n
      OBVIOUS
    <3>2. PICK u \in Nat : u = t[k - 1]
      BY <2>1, <3>1
    <3>3. t[k] = u + (IF pieces[k] \in Converts THEN 1 ELSE 0)
      BY <3>2, Zenon DEF Taken
    <3> QED BY <3>2, <3>3
  <2> QED BY <2>1, <2>2
<1>1. 0 \in S
  <2>1. t[0] \in Nat /\ 0 \in 0 .. n /\ \A j \in 0 .. 0 : j = 0
    BY <1>0
  <2>2. t[0] <= t[0]
    BY <2>1
  <2> QED BY <2>1, <2>2, Zenon
<1>2. ASSUME NEW m \in 0 .. n - 1, m \in S PROVE m + 1 \in S
  <2>1. t[m] \in Nat /\ t[m + 1] \in Nat /\ t[m] <= t[m + 1]
    BY <1>0
  <2>2. ASSUME NEW j \in 0 .. m + 1 PROVE t[j] <= t[m + 1]
    BY <1>0, <1>2, <2>1
  <2> QED BY <2>2
<1> HIDE DEF S
<1>3. n \in S
  BY <1>1, <1>2, InductiveUpTo
<1> QED BY <1>3 DEF S

(* And no more than one each.                                              *)
LEMMA TakenAtMost ==
  ASSUME NEW n \in Nat, NEW pieces, NEW t, Taken(t, pieces, n)
  PROVE  t[n] <= n
<1> DEFINE S == {m \in 0 .. n : t[m] <= m}
<1>0. t \in [0 .. n -> Nat] /\ t[0] = 0
  BY DEF Taken
<1>1. 0 \in S
  BY <1>0
<1>2. ASSUME NEW m \in 0 .. n - 1, m \in S PROVE m + 1 \in S
  <2>1. PICK k \in 1 .. n : k = m + 1 /\ k - 1 = m
    OBVIOUS
  <2>2. PICK u \in Nat, v \in Nat : u = t[k - 1] /\ v = t[k] /\ u <= m
    BY <1>0, <1>2, <2>1
  <2>3. v = u + (IF pieces[k] \in Converts THEN 1 ELSE 0)
    BY <2>2, Zenon DEF Taken
  <2>4. v <= m + 1
    BY <2>2, <2>3
  <2> QED BY <2>1, <2>2, <2>4
<1> HIDE DEF S
<1>3. n \in S
  BY <1>1, <1>2, InductiveUpTo
<1> QED BY <1>3 DEF S

(* Where the loop of vga_printf starts.                                    *)
Start == [p |-> 1, taken |-> 0, text |-> << >>]

(* loop[k] is where the loop is after k rounds.                            *)
Rounds(loop, format, args, size) ==
  loop = [k \in 0 .. size |-> IF k = 0 THEN Start ELSE Round(loop[k - 1], format, args)]

(* What the loop comes to is what vga_printf returns.                      *)
LEMMA LoopUnfolds ==
  ASSUME NEW format, NEW args, NEW size \in Nat, size = Len(format),
         NEW loop, Rounds(loop, format, args, size)
  PROVE  vga_printf(format, args) =
           [text |-> loop[size].text, taken |-> loop[size].taken, overrun |-> loop[size].p > size + 1]
<1>1. PICK l : l = CHOOSE g : Rounds(g, format, args, size)
  OBVIOUS
<1>2. Rounds(l, format, args, size)
  BY <1>1, Zenon
<1>3. ASSUME NEW g, Rounds(g, format, args, size)
      PROVE  g[0] = Start /\ \A k \in 1 .. size : g[k] = Round(g[k - 1], format, args)
  BY <1>3 DEF Rounds
<1>4. InStep(l, loop, size) /\ l[0] = loop[0]
  BY <1>2, <1>3, Zenon DEF InStep
<1>5. \A k \in 0 .. size : l[k] = loop[k]
  BY <1>4, InStepAgree
<1>6. size \in 0 .. size
  OBVIOUS
<1>7. l[size] = loop[size]
  BY <1>5, <1>6, Zenon
<1>8. vga_printf(format, args) =
        [text |-> l[size].text, taken |-> l[size].taken, overrun |-> l[size].p > size + 1]
  BY <1>1, Zenon DEF vga_printf, Rounds, Start
<1> QED BY <1>7, <1>8, Zenon

(* Where the loop is after the first j pieces.                             *)
Reached(f, t, g, j) == [p |-> Len(f[j]) + 1, taken |-> t[j], text |-> g[j]]

(* A piece is next, from behind at to end, when u arguments have been      *)
(* taken, and v will have been.                                            *)
Due(format, piece, at, end, args, u, v) ==
  /\ piece \in Pieces /\ Holds(format, piece, at)
  /\ at \in Nat /\ end \in Nat /\ end = at + Len(piece)
  /\ u \in Nat /\ v \in Nat /\ v = u + (IF piece \in Converts THEN 1 ELSE 0)
  /\ Len(args) \in Nat /\ v <= Len(args)

(* The round that reads it.                                                *)
Advances(format, piece, at, end, args, u, v) ==
  \A text : Round([p |-> at + 1, taken |-> u, text |-> text], format, args) =
              [p |-> end + 1, taken |-> v, text |-> text \o Meaning(piece, args[v])]

(* A round that reads a piece takes its argument, if it needs one.         *)
LEMMA RoundTakes ==
  ASSUME NEW format, NEW piece, NEW at, NEW end, NEW args, NEW u, NEW v,
         Due(format, piece, at, end, args, u, v)
  PROVE  Advances(format, piece, at, end, args, u, v)
<1> SUFFICES ASSUME NEW text
             PROVE  Round([p |-> at + 1, taken |-> u, text |-> text], format, args) =
                      [p |-> end + 1, taken |-> v, text |-> text \o Meaning(piece, args[v])]
  BY Zenon DEF Advances
<1>0. PICK most \in Nat, size \in Nat :
        /\ most = Len(args) /\ size = Len(format)
        /\ piece \in Pieces /\ Holds(format, piece, at)
        /\ at \in Nat /\ end \in Nat /\ end = at + Len(piece)
        /\ u \in Nat /\ v \in Nat /\ v = u + (IF piece \in Converts THEN 1 ELSE 0) /\ v <= most
  BY Zenon DEF Due, Holds
<1>1. PICK arg : arg = args[IF u < most THEN u + 1 ELSE u]
  OBVIOUS
<1>2. PieceAt(format, at + 1, arg) = Printed(piece, arg, at)
  <2>1. Consumes(format, piece, at)
    BY <1>0, PieceIsRound, Zenon
  <2> QED BY <2>1, Zenon DEF Consumes
<1>3. PICK takes \in Nat : takes = (IF piece \in Converts THEN 1 ELSE 0) /\ v = u + takes
  BY <1>0
<1>4. PICK said : said = Meaning(piece, arg)
  OBVIOUS
<1>5. Printed(piece, arg, at) = [text |-> said, takes |-> takes, last |-> end]
  BY <1>0, <1>3, <1>4, Zenon DEF Printed
<1>6. said = Meaning(piece, args[v])
  <2>1. CASE piece \in Converts
    <3>1. v = u + 1 /\ u < most
      BY <1>0, <2>1
    <3> QED BY <1>1, <1>4, <3>1, Zenon
  <2>2. CASE piece \notin Converts
    BY <1>0, <1>4, <2>2, NoArgument, Zenon
  <2> QED BY <2>1, <2>2, Zenon
<1>7. ~ (at + 1 > size)
  <2>1. PICK l \in Nat : l = Len(piece) /\ l >= 1 /\ at + l <= size
    BY <1>0, PiecesType, Zenon DEF Holds
  <2> QED BY <1>0, <2>1
<1>8. PICK before : before = [p |-> at + 1, taken |-> u, text |-> text]
  BY Zenon
<1>9. before.p = at + 1 /\ before.taken = u /\ before.text = text
  BY <1>8
<1>10. PICK now : now = [text |-> said, takes |-> takes, last |-> end]
  BY Zenon
<1>11. now.text = said /\ now.takes = takes /\ now.last = end
  BY <1>10
<1>12. Round(before, format, args) = [p |-> now.last + 1, taken |-> u + now.takes, text |-> text \o now.text]
  BY <1>0, <1>1, <1>2, <1>5, <1>7, <1>9, <1>10, Zenon DEF Round
<1>13. Round(before, format, args) = [p |-> end + 1, taken |-> v, text |-> text \o said]
  BY <1>3, <1>11, <1>12, Zenon
<1> QED BY <1>6, <1>8, <1>13, Zenon

(* A format of n pieces, f with its first pieces, t with the arguments     *)
(* they take, and g with what they print.                                  *)
Format(n, pieces, f, t, args, texts, g) ==
  /\ n \in Nat /\ pieces \in Seq(Pieces) /\ n = Len(pieces)
  /\ Stay(f, pieces, n) /\ Taken(t, pieces, n)
  /\ Len(args) \in Nat /\ t[n] <= Len(args)
  /\ Joins(g, texts, n) /\ \A k \in 1 .. n : texts[k] = Meaning(pieces[k], args[t[k]])

(* The round that reads piece j goes from the end of the pieces before it  *)
(* to its own end.                                                         *)
Passes(n, f, t, args, g) ==
  \A j \in 1 .. n : Round(Reached(f, t, g, j - 1), f[n], args) = Reached(f, t, g, j)

(* And there is one for every piece.                                       *)
LEMMA RoundReadsPiece ==
  ASSUME NEW n, NEW pieces, NEW f, NEW t, NEW args, NEW texts, NEW g,
         Format(n, pieces, f, t, args, texts, g)
  PROVE  Passes(n, f, t, args, g)
<1> SUFFICES ASSUME NEW j \in 1 .. n
             PROVE  Round(Reached(f, t, g, j - 1), f[n], args) = Reached(f, t, g, j)
  BY Zenon DEF Passes
<1>0. /\ n \in Nat /\ pieces \in Seq(Pieces) /\ n = Len(pieces)
      /\ Stay(f, pieces, n) /\ Taken(t, pieces, n)
      /\ Len(args) \in Nat /\ t[n] <= Len(args)
      /\ Joins(g, texts, n) /\ \A k \in 1 .. n : texts[k] = Meaning(pieces[k], args[t[k]])
  BY Zenon DEF Format
<1>1. PICK piece : piece = pieces[j] /\ piece \in Pieces
  BY <1>0
<1>2. PICK at \in Nat, end \in Nat, size \in Nat :
        /\ at = Len(f[j - 1]) /\ end = Len(f[j]) /\ size = Len(f[n])
        /\ end = at + Len(piece) /\ end <= size
  BY <1>0, <1>1, Zenon DEF Stay
<1>3. Holds(f[n], piece, at)
  <2>1. \A k \in 1 .. Len(piece) : f[n][at + k] = piece[k]
    BY <1>0, <1>1, <1>2, Zenon DEF Stay
  <2> QED BY <1>2, <2>1, Zenon DEF Holds
<1>4. PICK u \in Nat, v \in Nat, most \in Nat :
        /\ u = t[j - 1] /\ v = t[j] /\ most = Len(args) /\ v <= most
        /\ v = u + (IF piece \in Converts THEN 1 ELSE 0)
  <2>1. t[j - 1] \in Nat /\ t[j] \in Nat /\ t[n] \in Nat /\ j \in 0 .. n
    <3>1. j - 1 \in 0 .. n /\ j \in 0 .. n /\ n \in 0 .. n
      BY <1>0
    <3>2. t \in [0 .. n -> Nat]
      BY <1>0, Zenon DEF Taken
    <3> QED BY <3>1, <3>2
  <2>2. t[j] <= t[n]
    BY <1>0, <2>1, TakenGrows
  <2>3. Len(args) \in Nat
    BY <1>0
  <2>4. t[j] <= Len(args)
    BY <1>0, <2>1, <2>2, <2>3
  <2>5. t[j] = t[j - 1] + (IF piece \in Converts THEN 1 ELSE 0)
    BY <1>0, <1>1, Zenon DEF Taken
  <2> QED BY <2>1, <2>3, <2>4, <2>5, Zenon
<1>5. PICK text : text = g[j - 1]
  OBVIOUS
<1>6. Round([p |-> at + 1, taken |-> u, text |-> text], f[n], args) =
        [p |-> end + 1, taken |-> v, text |-> text \o Meaning(piece, args[v])]
  <2>1. Due(f[n], piece, at, end, args, u, v)
    BY <1>1, <1>2, <1>3, <1>4, Zenon DEF Due
  <2>2. Advances(f[n], piece, at, end, args, u, v)
    BY <2>1, RoundTakes, Zenon
  <2> QED BY <2>2, Zenon DEF Advances
<1>7. g[j] = text \o Meaning(piece, args[v])
  <2>0. Grows(g, texts, n)
    BY <1>0, JoinsStep, Zenon
  <2>1. \A k \in 1 .. n : g[k] = g[k - 1] \o texts[k]
    BY <2>0, Zenon DEF Grows
  <2> QED BY <1>0, <1>1, <1>4, <1>5, <2>1, Zenon
<1> QED BY <1>2, <1>4, <1>5, <1>6, <1>7, Zenon DEF Reached

(* A format made of any number of pieces, with enough arguments, prints as *)
(* the pieces one by one.                                                  *)
THEOREM PrintfPrintsPieces ==
  ASSUME NEW pieces \in Seq(Pieces), NEW A, NEW args \in Seq(A),
         Takes(pieces)[Len(pieces)] <= Len(args)
  PROVE  PrintsAsPieces(pieces, args)
<1>1. PICK n \in Nat : n = Len(pieces)
  BY LenProperties
<1>2. PICK f : Joins(f, pieces, n) /\ Joined(pieces) = f[n]
  BY <1>1, JoinedUnfolds, Zenon
<1>3. Stay(f, pieces, n)
  BY <1>1, <1>2, PiecesStay
<1>4. PICK t : t = Takes(pieces) /\ Taken(t, pieces, n) /\ t[n] <= Len(args)
  BY <1>1, TakesUnfolds, Zenon
<1>5. PICK texts : texts = [k \in 1 .. Len(pieces) |-> Meaning(pieces[k], args[Takes(pieces)[k]])]
  BY Zenon
<1>6. /\ \A k \in 1 .. n : texts[k] = Meaning(pieces[k], args[t[k]])
      /\ n = Len(texts)
  <2>1. texts = [k \in 1 .. n |-> Meaning(pieces[k], args[t[k]])]
    BY <1>1, <1>4, <1>5, Zenon
  <2> QED BY <2>1
<1>7. PICK g : Joins(g, texts, n) /\ Joined(texts) = g[n]
  BY <1>6, JoinedUnfolds, Zenon
<1>8. PICK format, size : format = f[n] /\ size = Len(format)
  OBVIOUS
<1>9. size \in Nat /\ size >= n
  BY <1>3, <1>8, Zenon DEF Stay
<1>10. ASSUME NEW j \in 1 .. n
       PROVE  Round(Reached(f, t, g, j - 1), format, args) = Reached(f, t, g, j)
  <2>1. Len(args) \in Nat
    BY LenProperties
  <2>2. Format(n, pieces, f, t, args, texts, g)
    BY <1>1, <1>3, <1>4, <1>6, <1>7, <2>1, Zenon DEF Format
  <2>3. Passes(n, f, t, args, g)
    BY <2>2, RoundReadsPiece, Zenon
  <2> QED BY <1>8, <2>3, Zenon DEF Passes
<1>11. Reached(f, t, g, 0) = Start
  <2>1. f[0] = << >> /\ g[0] = << >>
    BY <1>2, <1>7, JoinsStep, Zenon DEF Grows
  <2>2. Len(f[0]) + 1 = 1
    BY <2>1
  <2>3. t[0] = 0
    BY <1>4, Zenon DEF Taken
  <2> QED BY <2>1, <2>2, <2>3, Zenon DEF Reached, Start
<1>12. Reached(f, t, g, n) = [p |-> size + 1, taken |-> t[n], text |-> g[n]]
  BY <1>8, Zenon DEF Reached
<1>13. Round(Reached(f, t, g, n), format, args) = Reached(f, t, g, n)
  <2>1. PICK at : at = Reached(f, t, g, n)
    OBVIOUS
  <2>2. at.p = size + 1 /\ size + 1 > size
    BY <1>9, <1>12, <2>1
  <2> QED BY <1>8, <2>1, <2>2, Zenon DEF Round
<1> DEFINE R(k) == Reached(f, t, g, k)
<1>14. PICK loop : loop = [k \in 0 .. size |-> IF k <= n THEN R(k) ELSE R(n)]
  BY Zenon
<1>15. R(0) = Start /\ Round(R(n), format, args) = R(n)
  BY <1>11, <1>13
<1>16. \A j \in 1 .. n : Round(R(j - 1), format, args) = R(j)
  BY <1>10
<1> HIDE DEF R
<1>17. Rounds(loop, format, args, size)
  <2>1. ASSUME NEW k \in 0 .. size PROVE loop[k] = IF k = 0 THEN Start ELSE Round(loop[k - 1], format, args)
    <3>1. CASE k = 0
      <4>1. loop[0] = R(0)
        BY <1>9, <1>14
      <4> QED BY <1>15, <3>1, <4>1, Zenon
    <3>2. CASE k \in 1 .. n
      <4>1. loop[k] = R(k) /\ loop[k - 1] = R(k - 1) /\ k # 0
        BY <1>9, <1>14, <3>2
      <4> QED BY <1>16, <3>2, <4>1, Zenon
    <3>3. CASE k > n
      <4>1. loop[k] = R(n) /\ k # 0
        BY <1>9, <1>14, <3>3
      <4>2. loop[k - 1] = R(n)
        <5>1. k - 1 \in 0 .. size /\ (k - 1 <= n => k - 1 = n)
          BY <1>9, <3>3
        <5>2. loop[k - 1] = IF k - 1 <= n THEN R(k - 1) ELSE R(n)
          BY <1>14, <5>1, Zenon
        <5> QED BY <5>1, <5>2, Zenon
      <4> QED BY <1>15, <4>1, <4>2, Zenon
    <3> QED BY <3>1, <3>2, <3>3
  <2> QED BY <1>14, <2>1 DEF Rounds
<1>18. loop[size] = R(n)
  <2>1. size \in 0 .. size /\ (size <= n => size = n)
    BY <1>9
  <2> QED BY <1>14, <2>1, Zenon
<1>19. loop[size] = [p |-> size + 1, taken |-> t[n], text |-> g[n]]
  BY <1>12, <1>18, Zenon DEF R
<1>20. /\ loop[size].text = g[n] /\ loop[size].taken = t[n]
       /\ (loop[size].p > size + 1) = FALSE
  BY <1>9, <1>19
<1>21. vga_printf(format, args) =
         [text |-> loop[size].text, taken |-> loop[size].taken, overrun |-> loop[size].p > size + 1]
  BY <1>8, <1>9, <1>17, LoopUnfolds
<1>22. vga_printf(format, args) = [text |-> g[n], taken |-> t[n], overrun |-> FALSE]
  BY <1>20, <1>21, Zenon
<1> QED BY <1>1, <1>2, <1>4, <1>5, <1>7, <1>8, <1>22, Zenon DEF PrintsAsPieces

(* vga_printf on a cleared screen: the formats of up to three pieces that  *)
(* the runs print are among them.                                          *)
THEOREM PrintfAlwaysByPieces == Spec => []PrintfByPieces
<1>1. PrintfByPieces
  <2>1. ASSUME NEW n \in 0 .. 3, NEW pieces \in [1 .. n -> Pieces]
        PROVE  PrintsAsPieces(pieces, Arguments)
    <3>1. pieces \in Seq(Pieces) /\ Len(pieces) = n /\ n \in Nat /\ n <= 3
      OBVIOUS
    <3>2. PICK t : t = Takes(pieces) /\ Taken(t, pieces, n)
      BY <3>1, TakesUnfolds, Zenon
    <3>3. t[n] <= n /\ t[n] \in Nat
      <4>1. t[n] <= n
        BY <3>1, <3>2, TakenAtMost, Zenon
      <4>2. t \in [0 .. n -> Nat] /\ n \in 0 .. n
        BY <3>1, <3>2 DEF Taken
      <4> QED BY <4>1, <4>2
    <3>4. PICK a, b, c : Arguments = <<a, b, c>>
      BY Zenon DEF Arguments
    <3>5. Arguments \in Seq({a, b, c}) /\ Len(Arguments) = 3
      BY <3>4
    <3>6. Takes(pieces)[Len(pieces)] <= Len(Arguments)
      BY <3>1, <3>2, <3>3, <3>5
    <3> QED BY <3>1, <3>5, <3>6, PrintfPrintsPieces, Zenon
  <2> QED BY <2>1, Zenon DEF PrintfByPieces
<1> QED BY <1>1, PTL
=============================================================================
