------------------------------ MODULE VgaFormat ------------------------------
(***************************************************************************)
(* The texts vga_printf and its helpers (src/vga.c) produce, on words of   *)
(* BITS bits instead of 64.  A text or a format is a sequence of           *)
(* characters.  A helper fills buf from its start with the digits, the     *)
(* last one first, and prints it backwards.                                *)
(***************************************************************************)
EXTENDS Integers, Sequences

CONSTANT BITS   \* bits of int64_t and uint64_t

ASSUME FormatAssumption == BITS \in Nat \ {0, 1}

(* The powers of two.                                                      *)
TwoTo[n \in 0 .. BITS] == IF n = 0 THEN 1 ELSE 2 * TwoTo[n - 1]

INT64_MIN == - TwoTo[BITS - 1]
INT64_MAX == TwoTo[BITS - 1] - 1
UINT64_MAX == TwoTo[BITS] - 1

Digit == <<"0", "1", "2", "3", "4", "5", "6", "7", "8", "9",
           "A", "B", "C", "D", "E", "F">>

(* buf after while (num > 0): the digits of num, none for zero and less.   *)
While(number, base) ==
  LET buf[num \in Int] ==
        IF num > 0 THEN <<Digit[(num % base) + 1]>> \o buf[num \div base] ELSE << >>
  IN  buf[number]

(* while (i > 0) putchar(buf[--i]).                                        *)
Backwards(buf) == [k \in 1 .. Len(buf) |-> buf[Len(buf) + 1 - k]]

(* buf after do ... while (num > 0): one digit at least.                   *)
DoWhile(num, base) == <<Digit[(num % base) + 1]>> \o While(num \div base, base)

(* - num in two's complement: the least number is its own negative.        *)
Negated(num) == IF num = INT64_MIN THEN num ELSE - num

Magnitude(num) == IF num < 0 THEN Negated(num) ELSE num

DecBuf(num) == IF Magnitude(num) = 0 THEN <<"0">> ELSE While(Magnitude(num), 10)

(* Mutant: the least number has no case of its own.                        *)
vga_put_dec_plain(num) ==
  (IF num < 0 THEN <<"-">> ELSE << >>) \o Backwards(DecBuf(num))

(* The source spells the digits of the least number out.                   *)
vga_put_dec(num) ==
  IF num = INT64_MIN THEN <<"-">> \o Backwards(While(TwoTo[BITS - 1], 10))
  ELSE (IF num < 0 THEN <<"-">> ELSE << >>) \o Backwards(DecBuf(num))

vga_put_hex(num) == <<"0", "x">> \o Backwards(DoWhile(num, 16))

vga_put_bin(num) == <<"0", "b">> \o Backwards(DoWhile(num, 2))

-----------------------------------------------------------------------------
(***************************************************************************)
(* vga_printf.  An argument is what va_arg takes it for: an int, a number  *)
(* of full width (signed or not), a character or a string.  The byte       *)
(* behind the format is its terminator.                                    *)
(***************************************************************************)
At(format, p) == IF p <= Len(format) THEN format[p] ELSE "NUL"

LongLong(format, p) == At(format, p) = "l" /\ At(format, p + 1) = "l"

(* What the directive at p prints with the next argument, how many         *)
(* arguments it takes, and where its last character is.                    *)
Directive(format, p, arg) ==
  IF LongLong(format, p + 1)
  THEN IF At(format, p + 3) = "d"
       THEN [text |-> vga_put_dec(arg.num), takes |-> 1, last |-> p + 3]
       ELSE [text |-> << >>, takes |-> 0, last |-> p + 3]
  ELSE LET c == At(format, p + 1)
           Takes(t) == [text |-> t, takes |-> 1, last |-> p + 1]
       IN  CASE c = "d" -> Takes(vga_put_dec(arg.int))
             [] c = "x" -> Takes(vga_put_hex(arg.unsigned))
             [] c = "b" -> Takes(vga_put_bin(arg.unsigned))
             [] c = "s" -> Takes(arg.string)
             [] c = "c" -> Takes(<<arg.char>>)
             [] c = "%" -> [text |-> <<"%">>, takes |-> 0, last |-> p + 1]
             [] OTHER   -> [text |-> <<"%", c>>, takes |-> 0, last |-> p + 1]

(* Mutant: the loop goes on behind the % and not behind the directive.     *)
PieceAtNext(format, p, arg) ==
  IF At(format, p) = "%" THEN [Directive(format, p, arg) EXCEPT !.last = p]
  ELSE [text |-> <<format[p]>>, takes |-> 0, last |-> p]

(* What a round of the loop prints, from the character at p.               *)
PieceAt(format, p, arg) ==
  IF At(format, p) = "%" THEN Directive(format, p, arg)
  ELSE [text |-> <<format[p]>>, takes |-> 0, last |-> p]

(* One round of the loop, unless it has met the terminator or overrun it:  *)
(* where it goes on, how many arguments it has taken, what it has printed. *)
Round(at, format, args) ==
  IF at.p > Len(format) THEN at
  ELSE LET k   == at.taken
           now == PieceAt(format, at.p, args[IF k < Len(args) THEN k + 1 ELSE k])
       IN  [p |-> now.last + 1, taken |-> k + now.takes, text |-> at.text \o now.text]

(* The loop makes a round for every character at most.                     *)
vga_printf(format, args) ==
  LET loop[n \in 0 .. Len(format)] ==
        IF n = 0 THEN [p |-> 1, taken |-> 0, text |-> << >>]
        ELSE Round(loop[n - 1], format, args)
      out == loop[Len(format)]
  IN  [text |-> out.text, taken |-> out.taken, overrun |-> out.p > Len(format) + 1]
==============================================================================
