--------------------------------- MODULE Line ---------------------------------
(***************************************************************************)
(* What the line editor of FoxOS promises: a line of text with a cursor in *)
(* it, which is submitted as a whole.  Terminal implements this with a C   *)
(* string in a fixed buffer.                                               *)
(***************************************************************************)
EXTENDS Integers, Sequences

CONSTANTS Chars, MaxLength

VARIABLES text, cursor, submitted

vars == <<text, cursor, submitted>>

(* A text with a character put in at position i, and with the one at       *)
(* position i taken out.                                                   *)
Inserted(s, i, c) == SubSeq(s, 1, i - 1) \o <<c>> \o SubSeq(s, i, Len(s))

Removed(s, i) == SubSeq(s, 1, i - 1) \o SubSeq(s, i + 1, Len(s))

Init == text = << >> /\ cursor = 0 /\ submitted = << >>

Left == cursor > 0 /\ cursor' = cursor - 1 /\ UNCHANGED <<text, submitted>>

Right == cursor < Len(text) /\ cursor' = cursor + 1 /\ UNCHANGED <<text, submitted>>

Type(c) ==
  /\ Len(text) < MaxLength
  /\ text' = Inserted(text, cursor + 1, c)
  /\ cursor' = cursor + 1
  /\ UNCHANGED submitted

Delete ==
  /\ cursor < Len(text)
  /\ text' = Removed(text, cursor + 1)
  /\ UNCHANGED <<cursor, submitted>>

Backspace ==
  /\ cursor > 0
  /\ text' = Removed(text, cursor)
  /\ cursor' = cursor - 1
  /\ UNCHANGED submitted

Submit == submitted' = text /\ text' = << >> /\ cursor' = 0

Next == Left \/ Right \/ Delete \/ Backspace \/ Submit \/ \E c \in Chars : Type(c)

Spec == Init /\ [][Next]_vars
===============================================================================
