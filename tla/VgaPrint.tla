------------------------------ MODULE VgaPrint ------------------------------
(***************************************************************************)
(* The screen together with the texts vga_printf sends to it, one          *)
(* vga_putchar per character.  The properties of the texts are about a     *)
(* call on a screen that has just been cleared.                            *)
(***************************************************************************)
EXTENDS VgaOutput, VgaFormat

(* The text of a number does not fill the screen (34 of 2000 cells).       *)
ASSUME PrintAssumption == BITS \div 2 + 2 < VGA_WIDTH * VGA_HEIGHT

ClearScreen == vga = vga_clear(vga)

(* The first cells of the screen after a text has been written to it.      *)
OnScreen(text) ==
  LET after == vga_write(vga, text)
  IN  [k \in 1 .. Len(text) |-> after.cells[k - 1]]

DigitValue(c) == (CHOOSE d \in 1 .. 16 : Digit[d] = c) - 1

(* The number a text of digits stands for.                                 *)
ValueOf(text, base) ==
  LET value[k \in 0 .. Len(text)] ==
        IF k = 0 THEN 0 ELSE base * value[k - 1] + DigitValue(text[k])
  IN  value[Len(text)]

Stands(text, base, num) ==
  /\ text # << >>
  /\ ValueOf(text, base) = num
  /\ text[1] = "0" => Len(text) = 1

DecimalReadsBack(num) ==
  LET text == OnScreen(vga_put_dec(num))
  IN  /\ num < 0 => text[1] = "-" /\ Stands(Tail(text), 10, - num)
      /\ num >= 0 => Stands(text, 10, num)
      /\ Len(DecBuf(num)) <= BITS \div 2

HexAndBinaryReadBack(num) ==
  /\ Stands(Tail(Tail(OnScreen(vga_put_hex(num)))), 16, num)
  /\ Stands(Tail(Tail(vga_put_bin(num))), 2, num)
  /\ Len(DoWhile(num, 16)) <= BITS \div 2
  /\ Len(DoWhile(num, 2)) <= BITS + 1

(* Every number of a word's width, the least, zero and the greatest        *)
(* included, can be read from the screen after vga_put_dec (its sign, and  *)
(* digits without leading zeros), after vga_put_hex and, in its text,      *)
(* after vga_put_bin, behind their prefixes.  The digits fit buf, whose 32 *)
(* and 65 bytes are BITS \div 2 and BITS + 1 here.                         *)
NumbersReadBack ==
  ClearScreen => /\ \A num \in INT64_MIN .. INT64_MAX : DecimalReadsBack(num)
                 /\ \A num \in 0 .. UINT64_MAX : HexAndBinaryReadBack(num)

(* The pieces the kernel's formats are made of.                            *)
Plain    == {<<"l">>, <<"d">>, <<"NL">>}
Converts == {<<"%", "d">>, <<"%", "l", "l", "d">>, <<"%", "x">>, <<"%", "b">>,
             <<"%", "s">>, <<"%", "c">>}
Pieces   == Plain \cup Converts \cup {<<"%", "%">>}

Arguments ==
  << [int |-> 0, num |-> INT64_MIN, unsigned |-> UINT64_MAX,
      string |-> << >>, char |-> "%"],
     [int |-> 7, num |-> -1, unsigned |-> 0, string |-> <<"%", "d">>, char |-> "l"],
     [int |-> -8, num |-> INT64_MAX, unsigned |-> 10,
      string |-> <<"l", "l">>, char |-> "d"] >>

Meaning(piece, arg) ==
  CASE piece = <<"%", "d">> -> vga_put_dec(arg.int)
    [] piece = <<"%", "l", "l", "d">> -> vga_put_dec(arg.num)
    [] piece = <<"%", "x">> -> vga_put_hex(arg.unsigned)
    [] piece = <<"%", "b">> -> vga_put_bin(arg.unsigned)
    [] piece = <<"%", "s">> -> arg.string
    [] piece = <<"%", "c">> -> <<arg.char>>
    [] piece = <<"%", "%">> -> <<"%">>
    [] OTHER -> piece

(* One sequence after the other.                                           *)
Joined(parts) ==
  LET joined[k \in 0 .. Len(parts)] ==
        IF k = 0 THEN << >> ELSE joined[k - 1] \o parts[k]
  IN  joined[Len(parts)]

(* The arguments that the first k pieces take.                             *)
Takes(pieces) ==
  LET takes[k \in 0 .. Len(pieces)] ==
        IF k = 0 THEN 0 ELSE takes[k - 1] + (IF pieces[k] \in Converts THEN 1 ELSE 0)
  IN  takes

PrintsAsPieces(pieces, args) ==
  vga_printf(Joined(pieces), args) =
    [text    |-> Joined([k \in 1 .. Len(pieces) |-> Meaning(pieces[k], args[Takes(pieces)[k]])]),
     taken   |-> Takes(pieces)[Len(pieces)],
     overrun |-> FALSE]

(* A format made of such pieces prints as the pieces one by one: no piece  *)
(* is read across its end (an l or a d behind a directive, a % in an       *)
(* argument), every conversion takes the next argument, and the loop of    *)
(* vga_printf stops at the terminator.                                     *)
PrintfByPieces ==
  ClearScreen => \A n \in 0 .. 3 : \A pieces \in [1 .. n -> Pieces] :
                   PrintsAsPieces(pieces, Arguments)
=============================================================================
