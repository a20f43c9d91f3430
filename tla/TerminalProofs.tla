---------------------------- MODULE TerminalProofs ----------------------------
(***************************************************************************)
(* The line editor keeps a C string in its buffer, for every buffer size.  *)
(*                                                                         *)
(* TypeOK and LineTerminated are inductive together: HasRoom leaves the    *)
(* last byte free, so the gap opened by a character and the NUL written on *)
(* Enter stay inside the buffer.                                           *)
(***************************************************************************)
EXTENDS Terminal, Induction, SequenceTheorems, TLAPS

EditInv == TypeOK /\ LineTerminated

(* Removing the byte at a position inside the line (Del and Backspace).    *)
LEMMA DropKeeps ==
  ASSUME EditInv, NEW at \in 0 .. buffer_pos - 1, DropAt(at)
  PROVE  EditInv'
<1>1. TERMINAL_BUFFER_SIZE \in Nat \ {0} /\ NUL \notin Chars
  BY TerminalAssumption
<1>2. buffer_pos \in Buffer /\ buffer_pos \in Nat /\ buffer_pos > 0
  BY <1>1 DEF EditInv, TypeOK, Buffer
<1>3. buffer_pos' = buffer_pos - 1 /\ cursor_pos' = at /\ input_buffer' = CloseGap(at)
  BY DEF DropAt
<1>4. buffer_pos' \in Buffer /\ cursor_pos' \in Buffer /\ cursor_pos' <= buffer_pos'
  BY <1>1, <1>2, <1>3 DEF Buffer
<1>5. ASSUME NEW k \in Buffer
      PROVE  /\ input_buffer'[k] \in Chars \cup {NUL}
             /\ input_buffer'[k] # NUL <=> k < buffer_pos'
  <2>1. k \in Nat /\ (input_buffer[k] # NUL <=> k < buffer_pos)
    BY <1>1 DEF Buffer, EditInv, LineTerminated
  <2>2. CASE at <= k /\ k < buffer_pos - 1
    <3>1. k + 1 \in Buffer /\ k + 1 < buffer_pos
      BY <1>1, <1>2, <2>1, <2>2 DEF Buffer
    <3>2. input_buffer'[k] = input_buffer[k + 1]
      BY <1>3, <2>2 DEF CloseGap
    <3> QED BY <1>3, <2>2, <3>1, <3>2 DEF EditInv, TypeOK, LineTerminated
  <2>3. CASE k = buffer_pos - 1
    <3>1. input_buffer'[k] = NUL
      BY <1>2, <1>3, <2>1, <2>3 DEF CloseGap
    <3> QED BY <1>2, <1>3, <2>3, <3>1
  <2>4. CASE ~(at <= k /\ k < buffer_pos - 1) /\ k # buffer_pos - 1
    <3>1. input_buffer'[k] = input_buffer[k]
      BY <1>3, <2>4 DEF CloseGap
    <3>2. k < buffer_pos <=> k < buffer_pos - 1
      BY <1>2, <2>1, <2>4
    <3> QED BY <1>3, <2>1, <3>1, <3>2 DEF EditInv, TypeOK
  <2> QED BY <2>2, <2>3, <2>4
<1>6. input_buffer' \in [Buffer -> Chars \cup {NUL}]
  BY <1>3, <1>5 DEF CloseGap
<1> QED BY <1>4, <1>5, <1>6 DEF EditInv, TypeOK, LineTerminated, Buffer

(* Inserting a character at the cursor.                                    *)
LEMMA TypedKeeps ==
  ASSUME EditInv, NEW c \in Chars, CharTyped(c)
  PROVE  EditInv'
<1>1. TERMINAL_BUFFER_SIZE \in Nat \ {0} /\ NUL \notin Chars
  BY TerminalAssumption
<1>2. buffer_pos \in Nat /\ buffer_pos < TERMINAL_BUFFER_SIZE - 1
      /\ cursor_pos \in Nat /\ cursor_pos <= buffer_pos
  BY <1>1 DEF EditInv, TypeOK, LineTerminated, Buffer, CharTyped, HasRoom
<1>3. /\ buffer_pos' = buffer_pos + 1 /\ cursor_pos' = cursor_pos + 1
      /\ input_buffer' = OpenGap(cursor_pos, c)
  BY DEF CharTyped
<1>4. buffer_pos' \in Buffer /\ cursor_pos' \in Buffer /\ cursor_pos' <= buffer_pos'
  BY <1>1, <1>2, <1>3 DEF Buffer
<1>5. ASSUME NEW k \in Buffer
      PROVE  /\ input_buffer'[k] \in Chars \cup {NUL}
             /\ input_buffer'[k] # NUL <=> k < buffer_pos'
  <2>1. k \in Nat /\ (input_buffer[k] # NUL <=> k < buffer_pos)
    BY <1>1 DEF Buffer, EditInv, LineTerminated
  <2>2. CASE k = cursor_pos
    <3>1. input_buffer'[k] = c
      BY <1>3, <2>2 DEF OpenGap
    <3> QED BY <1>1, <1>2, <1>3, <2>2, <3>1
  <2>3. CASE cursor_pos < k /\ k <= buffer_pos
    <3>1. k - 1 \in Buffer /\ k - 1 < buffer_pos
      BY <1>1, <1>2, <2>1, <2>3 DEF Buffer
    <3>2. input_buffer'[k] = input_buffer[k - 1]
      BY <1>2, <1>3, <2>1, <2>3 DEF OpenGap
    <3>3. k < buffer_pos'
      BY <1>2, <1>3, <2>1, <2>3
    <3> QED BY <3>1, <3>2, <3>3 DEF EditInv, TypeOK, LineTerminated
  <2>4. CASE k # cursor_pos /\ ~(cursor_pos < k /\ k <= buffer_pos)
    <3>1. input_buffer'[k] = input_buffer[k]
      BY <1>3, <2>4 DEF OpenGap
    <3>2. k < buffer_pos <=> k < buffer_pos'
      BY <1>2, <1>3, <2>1, <2>4
    <3> QED BY <2>1, <3>1, <3>2 DEF EditInv, TypeOK
  <2> QED BY <2>2, <2>3, <2>4
<1>6. input_buffer' \in [Buffer -> Chars \cup {NUL}]
  BY <1>3, <1>5 DEF OpenGap
<1> QED BY <1>4, <1>5, <1>6 DEF EditInv, TypeOK, LineTerminated, Buffer

(* Every branch of terminal_run keeps the line a C string.                 *)
LEMMA EditStep == EditInv /\ [Next]_vars => EditInv'
<1> SUFFICES ASSUME EditInv, [Next]_vars PROVE EditInv'
  OBVIOUS
<1>1. /\ TERMINAL_BUFFER_SIZE \in Nat \ {0}
      /\ buffer_pos \in Nat /\ cursor_pos \in Nat /\ cursor_pos <= buffer_pos
      /\ buffer_pos \in Buffer
  BY TerminalAssumption DEF EditInv, TypeOK, LineTerminated, Buffer
<1>2. ASSUME NEW cursor \in 0 .. buffer_pos, MoveTo(cursor) PROVE EditInv'
  <2>1. cursor \in Buffer /\ cursor <= buffer_pos
    BY <1>1 DEF Buffer
  <2> QED BY <1>2, <2>1 DEF MoveTo, EditInv, TypeOK, LineTerminated, Buffer
<1>3. CASE CharLeft
  BY <1>1, <1>2, <1>3 DEF CharLeft
<1>4. CASE CharRight
  BY <1>1, <1>2, <1>4 DEF CharRight
<1>5. CASE CharDel
  <2>1. cursor_pos \in 0 .. buffer_pos - 1 /\ DropAt(cursor_pos)
    BY <1>1, <1>5 DEF CharDel
  <2> QED BY <2>1, DropKeeps
<1>6. CASE CharBackspace
  <2>1. cursor_pos - 1 \in 0 .. buffer_pos - 1 /\ DropAt(cursor_pos - 1)
    BY <1>1, <1>6 DEF CharBackspace
  <2>2. PICK at \in 0 .. buffer_pos - 1 : at = cursor_pos - 1
    BY <2>1
  <2> QED BY <2>1, <2>2, DropKeeps
<1>7. CASE CharEnter
  <2>1. /\ input_buffer' = [k \in Buffer |-> NUL]
        /\ buffer_pos' = 0 /\ cursor_pos' = 0
    BY <1>7 DEF CharEnter, clear_buffer
  <2>2. 0 \in Buffer
    BY <1>1 DEF Buffer
  <2>3. \A k \in Buffer : ~(k < 0)
    BY <1>1 DEF Buffer
  <2> QED BY <2>1, <2>2, <2>3 DEF EditInv, TypeOK, LineTerminated, Buffer
<1>8. ASSUME NEW c \in Chars, CharTyped(c) PROVE EditInv'
  BY <1>8, TypedKeeps
<1>9. CASE UNCHANGED vars
  BY <1>9 DEF vars, edit, EditInv, TypeOK, LineTerminated, Buffer
<1> QED BY <1>3, <1>4, <1>5, <1>6, <1>7, <1>8, <1>9 DEF Next

(* The editor starts with an empty string.                                 *)
LEMMA EditInit == Init => EditInv
<1>1. 0 \in Buffer /\ \A k \in Buffer : ~(k < 0)
  BY TerminalAssumption DEF Buffer
<1> QED BY <1>1 DEF Init, EditInv, TypeOK, LineTerminated, Buffer

(* buffer_pos and cursor_pos never leave the buffer.                       *)
THEOREM EditorTypeCorrect == Spec => []TypeOK
<1>1. EditInv => TypeOK
  BY DEF EditInv
<1> QED BY EditInit, EditStep, <1>1, PTL DEF Spec

(* What execute_command gets is always a terminated string of exactly the  *)
(* characters typed into the line, for every size of the buffer.           *)
THEOREM LineAlwaysTerminated == Spec => []LineTerminated
<1>1. EditInv => LineTerminated
  BY DEF EditInv
<1> QED BY EditInit, EditStep, <1>1, PTL DEF Spec

-----------------------------------------------------------------------------
(***************************************************************************)
(* The editor implements Line.  The loops that shift bytes are compared    *)
(* with the concatenations of Line position by position.                   *)
(***************************************************************************)
(* The text of Line, as Terminal keeps it.                                 *)
Text == [k \in 1 .. buffer_pos |-> input_buffer[k - 1]]

Bytes == Chars \cup {NUL}

(* A line of n bytes is a sequence.                                        *)
LEMMA LineIsSeq ==
  ASSUME NEW S, NEW n \in Nat, NEW f \in [1 .. n -> S]
  PROVE  f \in Seq(S) /\ Len(f) = n
OBVIOUS

(* What Removed and Inserted leave at each position.                       *)
LEMMA RemovedAt ==
  ASSUME NEW S, NEW s \in Seq(S), NEW i \in 1 .. Len(s)
  PROVE  /\ L!Removed(s, i) \in Seq(S) /\ Len(L!Removed(s, i)) = Len(s) - 1
         /\ \A k \in 1 .. Len(s) - 1 :
              L!Removed(s, i)[k] = IF k < i THEN s[k] ELSE s[k + 1]
<1> DEFINE n == Len(s)
<1>0. n \in Nat \ {0} /\ s \in [1 .. n -> S] /\ i \in 1 .. n
  BY LenProperties
<1> HIDE DEF n
<1> DEFINE a == SubSeq(s, 1, i - 1)
           c == SubSeq(s, i + 1, n)
<1>1. a \in Seq(S) /\ Len(a) = i - 1 /\ \A k \in 1 .. i - 1 : a[k] = s[k]
  <2>1. \A k \in 1 .. i - 1 : s[k] \in S
    BY <1>0
  <2>2. 1 \in Int /\ i - 1 \in Int
    BY <1>0
  <2> QED BY <1>0, <2>1, <2>2, SubSeqProperties
<1>2. c \in Seq(S) /\ Len(c) = n - i /\ \A k \in 1 .. n - i : c[k] = s[i + k]
  <2>1. \A k \in i + 1 .. n : s[k] \in S
    BY <1>0
  <2> QED BY <1>0, <2>1, SubSeqProperties
<1> HIDE DEF a, c
<1>3. /\ a \o c \in Seq(S) /\ Len(a \o c) = Len(a) + Len(c)
      /\ \A k \in 1 .. Len(a) + Len(c) :
           (a \o c)[k] = IF k <= Len(a) THEN a[k] ELSE c[k - Len(a)]
  <2>1. a \in Seq(S) /\ c \in Seq(S)
    BY <1>1, <1>2
  <2> QED BY <2>1, ConcatProperties, ZenonT(30)
<1>4. Len(a) + Len(c) = n - 1
  BY <1>0, <1>1, <1>2
<1>5. ASSUME NEW k \in 1 .. n - 1
      PROVE  (a \o c)[k] = IF k < i THEN s[k] ELSE s[k + 1]
  <2>1. CASE k < i
    <3>1. (a \o c)[k] = a[k] /\ k \in 1 .. i - 1
      BY <1>0, <1>1, <1>3, <1>4, <2>1
    <3> QED BY <1>0, <1>1, <2>1, <3>1
  <2>2. CASE ~(k < i)
    <3>1. (a \o c)[k] = c[k - (i - 1)] /\ k - (i - 1) \in 1 .. n - i
      BY <1>0, <1>1, <1>3, <1>4, <2>2
    <3>2. c[k - (i - 1)] = s[i + (k - (i - 1))] /\ i + (k - (i - 1)) = k + 1
      BY <1>0, <1>2, <3>1
    <3> QED BY <2>2, <3>1, <3>2
  <2> QED BY <2>1, <2>2, Zenon
<1>6. L!Removed(s, i) = a \o c
  BY <1>0 DEF L!Removed, a, c, n
<1> QED BY <1>3, <1>4, <1>5, <1>6, Zenon DEF n

(* The same for an insertion.                                              *)
LEMMA InsertedAt ==
  ASSUME NEW s \in Seq(Bytes), NEW i \in 1 .. Len(s) + 1, NEW e \in Bytes
  PROVE  /\ L!Inserted(s, i, e) \in Seq(Bytes) /\ Len(L!Inserted(s, i, e)) = Len(s) + 1
         /\ \A k \in 1 .. Len(s) + 1 :
              /\ k < i => L!Inserted(s, i, e)[k] = s[k]
              /\ k = i => L!Inserted(s, i, e)[k] = e
              /\ k > i => L!Inserted(s, i, e)[k] = s[k - 1]
<1> DEFINE n == Len(s)
<1>0. n \in Nat /\ s \in [1 .. n -> Bytes] /\ i \in 1 .. n + 1
  BY LenProperties
<1> HIDE DEF n
<1> DEFINE a == SubSeq(s, 1, i - 1)
           c == SubSeq(s, i, n)
<1>1. a \in Seq(Bytes) /\ Len(a) = i - 1 /\ \A k \in 1 .. i - 1 : a[k] = s[k]
  <2>1. \A k \in 1 .. i - 1 : s[k] \in Bytes
    BY <1>0
  <2>2. 1 \in Int /\ i - 1 \in Int
    BY <1>0
  <2> QED BY <1>0, <2>1, <2>2, SubSeqProperties
<1>2. c \in Seq(Bytes) /\ Len(c) = n - i + 1 /\ \A k \in 1 .. n - i + 1 : c[k] = s[i + k - 1]
  <2>1. \A k \in i .. n : s[k] \in Bytes
    BY <1>0
  <2> QED BY <1>0, <2>1, SubSeqProperties
<1>3. <<e>> \in Seq(Bytes) /\ Len(<<e>>) = 1 /\ <<e>>[1] = e
  OBVIOUS
<1> DEFINE b == a \o <<e>>
<1> HIDE DEF a, c
<1>4. /\ b \in Seq(Bytes) /\ Len(b) = i
      /\ \A k \in 1 .. i : b[k] = IF k <= i - 1 THEN a[k] ELSE <<e>>[k - (i - 1)]
  BY <1>0, <1>1, <1>3, ConcatProperties
<1>5. \A k \in 1 .. i : b[k] = IF k < i THEN s[k] ELSE e
  BY <1>0, <1>1, <1>3, <1>4
<1> HIDE DEF b
<1>6. /\ b \o c \in Seq(Bytes) /\ Len(b \o c) = Len(b) + Len(c)
      /\ \A k \in 1 .. Len(b) + Len(c) :
           (b \o c)[k] = IF k <= Len(b) THEN b[k] ELSE c[k - Len(b)]
  BY <1>0, <1>2, <1>4, ConcatProperties
<1>7. Len(b) + Len(c) = n + 1
  BY <1>0, <1>2, <1>4
<1>8. ASSUME NEW k \in 1 .. n + 1
      PROVE  /\ k < i => (b \o c)[k] = s[k]
             /\ k = i => (b \o c)[k] = e
             /\ k > i => (b \o c)[k] = s[k - 1]
  <2>1. CASE k <= i
    <3>1. (b \o c)[k] = b[k] /\ k \in 1 .. i
      BY <1>0, <1>4, <1>6, <1>7, <2>1
    <3> QED BY <1>5, <2>1, <3>1
  <2>2. CASE ~(k <= i)
    <3>1. (b \o c)[k] = c[k - i] /\ k - i \in 1 .. n - i + 1
      BY <1>0, <1>4, <1>6, <1>7, <2>2
    <3>2. c[k - i] = s[i + (k - i) - 1] /\ i + (k - i) - 1 = k - 1
      BY <1>0, <1>2, <3>1
    <3>3. ~(k < i) /\ k # i
      BY <1>0, <2>2
    <3> QED BY <3>1, <3>2, <3>3
  <2> QED BY <2>1, <2>2, Zenon
<1>9. L!Inserted(s, i, e) = b \o c
  BY <1>0 DEF L!Inserted, a, b, c, n
<1> QED BY <1>6, <1>7, <1>8, <1>9 DEF n

(* The bytes of the line are a sequence of buffer_pos characters.          *)
LEMMA TextType ==
  ASSUME EditInv
  PROVE  /\ buffer_pos \in Nat /\ cursor_pos \in 0 .. buffer_pos
         /\ buffer_pos < TERMINAL_BUFFER_SIZE
         /\ Text \in [1 .. buffer_pos -> Bytes]
         /\ Text \in Seq(Bytes) /\ Len(Text) = buffer_pos
<1>1. TERMINAL_BUFFER_SIZE \in Nat \ {0}
  BY TerminalAssumption
<1>2. /\ buffer_pos \in Nat /\ cursor_pos \in 0 .. buffer_pos
      /\ buffer_pos < TERMINAL_BUFFER_SIZE
  BY <1>1 DEF EditInv, TypeOK, LineTerminated, Buffer
<1>3. \A k \in 1 .. buffer_pos : k - 1 \in Buffer
  BY <1>1, <1>2 DEF Buffer
<1>4. Text \in [1 .. buffer_pos -> Bytes]
  BY <1>3 DEF Text, EditInv, TypeOK, Bytes
<1> HIDE DEF Text
<1> QED BY <1>2, <1>4, LineIsSeq

(* Closing the gap removes one character from the text.                    *)
LEMMA DropRemoves ==
  ASSUME EditInv, NEW at \in 0 .. buffer_pos - 1, DropAt(at)
  PROVE  Text' = L!Removed(Text, at + 1)
<1>1. EditInv'
  BY DropKeeps
<1>2. TERMINAL_BUFFER_SIZE \in Nat \ {0}
  BY TerminalAssumption
<1>3. /\ buffer_pos \in Nat \ {0} /\ buffer_pos < TERMINAL_BUFFER_SIZE
      /\ Text \in [1 .. buffer_pos -> Bytes]
  BY TextType
<1>4. buffer_pos' = buffer_pos - 1 /\ input_buffer' = CloseGap(at)
  BY DEF DropAt
<1>5. Text' \in [1 .. buffer_pos - 1 -> Bytes]
  <2>1. \A k \in 1 .. buffer_pos - 1 : k - 1 \in Buffer
    BY <1>2, <1>3 DEF Buffer
  <2>2. input_buffer' \in [Buffer -> Bytes]
    BY <1>1 DEF EditInv, TypeOK, Buffer, Bytes
  <2> QED BY <1>4, <2>1, <2>2 DEF Text
<1>6. ASSUME NEW k \in 1 .. buffer_pos - 1
      PROVE  Text'[k] = IF k < at + 1 THEN Text[k] ELSE Text[k + 1]
  <2>1. Text'[k] = input_buffer'[k - 1]
    BY <1>4 DEF Text
  <2>2. k - 1 \in Buffer /\ k \in Nat /\ k - 1 < buffer_pos - 1
    BY <1>2, <1>3 DEF Buffer
  <2>3. CASE k < at + 1
    <3>1. ~(at <= k - 1) /\ k - 1 # buffer_pos - 1
      BY <1>3, <2>2, <2>3
    <3>2. input_buffer'[k - 1] = input_buffer[k - 1]
      BY <1>4, <2>2, <3>1 DEF CloseGap
    <3>3. Text[k] = input_buffer[k - 1]
      BY <1>3 DEF Text
    <3> QED BY <2>1, <2>3, <3>2, <3>3
  <2>4. CASE ~(k < at + 1)
    <3>1. at <= k - 1 /\ k - 1 + 1 = k /\ k + 1 - 1 = k /\ k + 1 \in 1 .. buffer_pos
      BY <1>3, <2>2, <2>4
    <3>2. input_buffer'[k - 1] = input_buffer[k]
      BY <1>4, <2>2, <3>1 DEF CloseGap
    <3>3. Text[k + 1] = input_buffer[k]
      BY <3>1 DEF Text
    <3> QED BY <2>1, <2>4, <3>2, <3>3
  <2> QED BY <2>3, <2>4
<1>7. at + 1 \in 1 .. buffer_pos
  BY <1>3
<1>8. buffer_pos - 1 \in Nat
  BY <1>3
<1> HIDE DEF Text
<1>9. PICK s, t, i : s = Text /\ t = Text' /\ i = at + 1
  OBVIOUS
<1>10. t \in Seq(Bytes) /\ Len(t) = buffer_pos - 1
  BY <1>5, <1>8, <1>9, LineIsSeq
<1>11. /\ L!Removed(s, i) \in Seq(Bytes) /\ Len(L!Removed(s, i)) = buffer_pos - 1
       /\ \A k \in 1 .. buffer_pos - 1 :
            L!Removed(s, i)[k] = IF k < i THEN s[k] ELSE s[k + 1]
  <2>1. s \in Seq(Bytes) /\ Len(s) = buffer_pos /\ i \in 1 .. Len(s)
    BY <1>7, <1>9, TextType
  <2> QED BY <2>1, RemovedAt, Zenon
<1>12. \A k \in 1 .. buffer_pos - 1 : t[k] = L!Removed(s, i)[k]
  BY <1>6, <1>9, <1>11
<1>13. t = L!Removed(s, i)
  BY <1>10, <1>11, <1>12, SeqEqual
<1> QED BY <1>9, <1>13

(* Opening a gap and filling it inserts one character into the text.       *)
LEMMA TypedInserts ==
  ASSUME EditInv, NEW ch \in Chars, CharTyped(ch)
  PROVE  Text' = L!Inserted(Text, cursor_pos + 1, ch)
<1>1. EditInv'
  BY TypedKeeps
<1>2. TERMINAL_BUFFER_SIZE \in Nat \ {0}
  BY TerminalAssumption
<1>3. /\ buffer_pos \in Nat /\ cursor_pos \in 0 .. buffer_pos
      /\ buffer_pos < TERMINAL_BUFFER_SIZE - 1
  BY <1>2, TextType DEF CharTyped, HasRoom
<1>4. buffer_pos' = buffer_pos + 1 /\ input_buffer' = OpenGap(cursor_pos, ch)
  BY DEF CharTyped
<1>5. \A k \in 1 .. buffer_pos + 1 : k - 1 \in Buffer
  BY <1>2, <1>3 DEF Buffer
<1>6. Text' \in [1 .. buffer_pos + 1 -> Bytes]
  <2>1. input_buffer' \in [Buffer -> Bytes]
    BY <1>1 DEF EditInv, TypeOK, Buffer, Bytes
  <2> QED BY <1>4, <1>5, <2>1 DEF Text
<1>7. ASSUME NEW k \in 1 .. buffer_pos + 1
      PROVE  /\ k < cursor_pos + 1 => Text'[k] = Text[k]
             /\ k = cursor_pos + 1 => Text'[k] = ch
             /\ k > cursor_pos + 1 => Text'[k] = Text[k - 1]
  <2>1. Text'[k] = input_buffer'[k - 1]
    BY <1>4 DEF Text
  <2>2. k - 1 \in Buffer
    BY <1>5
  <2>3. CASE k < cursor_pos + 1
    <3>1. k - 1 # cursor_pos /\ ~(cursor_pos < k - 1) /\ k \in 1 .. buffer_pos
      BY <1>3, <2>3
    <3>2. input_buffer'[k - 1] = input_buffer[k - 1]
      BY <1>4, <2>2, <3>1 DEF OpenGap
    <3>3. Text[k] = input_buffer[k - 1]
      BY <3>1 DEF Text
    <3>4. ~(k = cursor_pos + 1) /\ ~(k > cursor_pos + 1)
      BY <1>3, <2>3
    <3> QED BY <2>1, <3>2, <3>3, <3>4
  <2>4. CASE k = cursor_pos + 1
    <3>1. k - 1 = cursor_pos /\ ~(k < cursor_pos + 1)
      BY <1>3, <2>4
    <3>2. input_buffer'[k - 1] = ch
      BY <1>4, <2>2, <3>1 DEF OpenGap
    <3> QED BY <2>1, <2>4, <3>1, <3>2
  <2>5. CASE k > cursor_pos + 1
    <3>1. /\ k - 1 # cursor_pos /\ cursor_pos < k - 1 /\ k - 1 <= buffer_pos
          /\ k - 1 \in 1 .. buffer_pos
          /\ ~(k < cursor_pos + 1) /\ k # cursor_pos + 1
      BY <1>3, <2>5
    <3>2. input_buffer'[k - 1] = input_buffer[k - 1 - 1]
      BY <1>4, <2>2, <3>1 DEF OpenGap
    <3>3. Text[k - 1] = input_buffer[k - 1 - 1]
      BY <3>1 DEF Text
    <3> QED BY <2>1, <3>1, <3>2, <3>3
  <2>6. k < cursor_pos + 1 \/ k = cursor_pos + 1 \/ k > cursor_pos + 1
    BY <1>3
  <2> QED BY <2>3, <2>4, <2>5, <2>6
<1>8. buffer_pos + 1 \in Nat
  BY <1>3
<1> HIDE DEF Text
<1>9. PICK s, t, i : s = Text /\ t = Text' /\ i = cursor_pos + 1
  OBVIOUS
<1>10. t \in Seq(Bytes) /\ Len(t) = buffer_pos + 1
  BY <1>6, <1>8, <1>9, LineIsSeq
<1>11. /\ L!Inserted(s, i, ch) \in Seq(Bytes) /\ Len(L!Inserted(s, i, ch)) = buffer_pos + 1
       /\ \A k \in 1 .. buffer_pos + 1 :
            /\ k < i => L!Inserted(s, i, ch)[k] = s[k]
            /\ k = i => L!Inserted(s, i, ch)[k] = ch
            /\ k > i => L!Inserted(s, i, ch)[k] = s[k - 1]
  <2>1. s \in Seq(Bytes) /\ Len(s) = buffer_pos
    BY <1>9, TextType
  <2>2. i \in 1 .. Len(s) + 1
    BY <1>3, <1>9, <2>1
  <2>3. ch \in Bytes
    BY DEF Bytes
  <2>4. \A j \in 1 .. Len(s) + 1 : \A e \in Bytes :
          /\ L!Inserted(s, j, e) \in Seq(Bytes) /\ Len(L!Inserted(s, j, e)) = Len(s) + 1
          /\ \A k \in 1 .. Len(s) + 1 :
               /\ k < j => L!Inserted(s, j, e)[k] = s[k]
               /\ k = j => L!Inserted(s, j, e)[k] = e
               /\ k > j => L!Inserted(s, j, e)[k] = s[k - 1]
    BY <2>1, InsertedAt, Zenon
  <2> QED BY <2>1, <2>2, <2>3, <2>4
<1>12. ASSUME NEW k \in 1 .. buffer_pos + 1 PROVE t[k] = L!Inserted(s, i, ch)[k]
  <2>1. k < i \/ k = i \/ k > i
    BY <1>3, <1>9
  <2> QED BY <1>7, <1>9, <1>11, <2>1
<1>13. t = L!Inserted(s, i, ch)
  BY <1>10, <1>11, <1>12, SeqEqual
<1> QED BY <1>9, <1>13

(* An empty line is the empty sequence.                                    *)
LEMMA EmptyText == buffer_pos = 0 => Text = << >>
BY DEF Text

(* execute_command sees exactly the text.                                  *)
LEMMA EnterSubmits ==
  ASSUME EditInv, CharEnter
  PROVE  executed' = Text /\ Text' = << >> /\ cursor_pos' = 0
<1>1. TERMINAL_BUFFER_SIZE \in Nat \ {0}
  BY TerminalAssumption
<1>2. buffer_pos \in Nat /\ buffer_pos < TERMINAL_BUFFER_SIZE /\ buffer_pos \in Buffer
  BY <1>1, TextType DEF Buffer
<1>3. buffer_pos' = 0 /\ cursor_pos' = 0
  BY DEF CharEnter, clear_buffer
<1>4. Text' = << >>
  BY <1>3 DEF Text
<1>5. CASE buffer_pos = 0
  BY <1>3, <1>4, <1>5, EmptyText DEF CharEnter
<1>6. CASE buffer_pos # 0
  <2> DEFINE line == [input_buffer EXCEPT ![buffer_pos] = NUL]
             ends == {k \in Buffer : line[k] = NUL}
             len  == IF ends = {} THEN TERMINAL_BUFFER_SIZE
                     ELSE CHOOSE k \in ends : \A n \in ends : k <= n
  <2>1. executed' = [k \in 1 .. len |-> line[k - 1]]
    BY <1>6 DEF CharEnter, CString
  <2>2. line = input_buffer
    <3>1. input_buffer[buffer_pos] = NUL
      BY <1>2 DEF EditInv, LineTerminated
    <3>2. input_buffer \in [Buffer -> Chars \cup {NUL}]
      BY DEF EditInv, TypeOK
    <3> QED BY <1>2, <3>1, <3>2
  <2> HIDE DEF line
  <2>3. \A k : k \in ends <=> k \in Buffer /\ k >= buffer_pos
    BY <1>1, <1>2, <2>2 DEF EditInv, LineTerminated, Buffer
  <2>4. len = buffer_pos
    <3>1. buffer_pos \in ends /\ \A n \in ends : n \in Nat /\ buffer_pos <= n
      BY <1>1, <1>2, <2>3 DEF Buffer
    <3> HIDE DEF ends
    <3>2. PICK least : least = CHOOSE k \in ends : \A n \in ends : k <= n
      OBVIOUS
    <3>3. least \in ends /\ \A n \in ends : least <= n
      BY <3>1, <3>2
    <3>4. least <= buffer_pos /\ buffer_pos <= least /\ least \in Nat
      BY <3>1, <3>3
    <3>5. least = buffer_pos
      BY <1>2, <3>4
    <3> QED BY <3>1, <3>2, <3>5
  <2> HIDE DEF len
  <2> QED BY <1>3, <1>4, <2>1, <2>2, <2>4 DEF Text
<1> QED BY <1>5, <1>6

(* Each branch of terminal_run is the operation of Line it stands for.     *)
LEMMA LineStep == EditInv /\ [Next]_vars => [L!Next]_(L!vars)
<1> SUFFICES ASSUME EditInv, [Next]_vars PROVE [L!Next]_(L!vars)
  OBVIOUS
<1>1. /\ TERMINAL_BUFFER_SIZE \in Nat \ {0}
      /\ buffer_pos \in Nat /\ cursor_pos \in 0 .. buffer_pos
      /\ Len(Text) = buffer_pos
  BY TextType, TerminalAssumption
<1>2. ASSUME NEW to, MoveTo(to)
      PROVE  Text' = Text /\ cursor_pos' = to /\ executed' = executed
  BY <1>2 DEF MoveTo, Text
<1>3. CASE CharLeft
  <2>1. cursor_pos > 0 /\ cursor_pos' = cursor_pos - 1 /\ Text' = Text /\ executed' = executed
    BY <1>2, <1>3 DEF CharLeft
  <2>2. L!Left
    BY <2>1 DEF L!Left, Text
  <2> QED BY <2>2 DEF L!Next
<1>4. CASE CharRight
  <2>1. /\ cursor_pos < Len(Text) /\ cursor_pos' = cursor_pos + 1
        /\ Text' = Text /\ executed' = executed
    BY <1>1, <1>2, <1>4 DEF CharRight
  <2>2. L!Right
    BY <2>1, Zenon DEF L!Right, Text
  <2> QED BY <2>2 DEF L!Next
<1>5. CASE CharDel
  <2>1. cursor_pos \in 0 .. buffer_pos - 1 /\ DropAt(cursor_pos)
    BY <1>1, <1>5 DEF CharDel
  <2>2. /\ cursor_pos < Len(Text) /\ Text' = L!Removed(Text, cursor_pos + 1)
        /\ cursor_pos' = cursor_pos /\ executed' = executed
    BY <1>1, <2>1, DropRemoves DEF DropAt
  <2>3. L!Delete
    BY <2>2, Zenon DEF L!Delete, Text
  <2> QED BY <2>3 DEF L!Next
<1>6. CASE CharBackspace
  <2>1. cursor_pos > 0 /\ cursor_pos - 1 \in 0 .. buffer_pos - 1 /\ DropAt(cursor_pos - 1)
    BY <1>1, <1>6 DEF CharBackspace
  <2>2. PICK at \in 0 .. buffer_pos - 1 : at = cursor_pos - 1
    BY <2>1
  <2>3. at + 1 = cursor_pos
    BY <1>1, <2>2
  <2>4. DropAt(at)
    BY <2>1, <2>2
  <2>5. Text' = L!Removed(Text, at + 1)
    BY <2>4, DropRemoves
  <2>6. cursor_pos' = cursor_pos - 1 /\ executed' = executed
    BY <2>1 DEF DropAt
  <2>7. L!Backspace
    BY <2>1, <2>3, <2>5, <2>6 DEF L!Backspace, Text
  <2> QED BY <2>7 DEF L!Next
<1>7. CASE CharEnter
  <2>1. L!Submit
    BY <1>7, EnterSubmits DEF L!Submit, Text
  <2> QED BY <2>1 DEF L!Next
<1>8. ASSUME NEW ch \in Chars, CharTyped(ch) PROVE L!Next
  <2>1. Text' = L!Inserted(Text, cursor_pos + 1, ch)
    BY <1>8, TypedInserts
  <2>2. /\ Len(Text) < TERMINAL_BUFFER_SIZE - 1
        /\ cursor_pos' = cursor_pos + 1 /\ executed' = executed
    BY <1>1, <1>8 DEF CharTyped, HasRoom
  <2>3. L!Type(ch)
    BY <2>1, <2>2, Zenon DEF L!Type, Text
  <2> QED BY <2>3 DEF L!Next
<1>9. CASE UNCHANGED vars
  BY <1>9 DEF vars, edit, L!vars
<1> QED BY <1>3, <1>4, <1>5, <1>6, <1>7, <1>8, <1>9 DEF Next

(* The editor implements the line of text, for every size of its buffer:   *)
(* every behaviour of terminal_run is one of Line.                         *)
THEOREM EditorImplementsLine == Spec => EditsLine
<1>1. Init => L!Init
  BY DEF Init, L!Init
<1>2. QED
  BY <1>1, EditInit, EditStep, LineStep, PTL DEF Spec, EditsLine, L!Spec

-----------------------------------------------------------------------------
(***************************************************************************)
(* The screen.  A screen is written as a picture and a cursor, and what    *)
(* vga_write does to a picture is given in closed form for a string that   *)
(* fits in the row.                                                        *)
(***************************************************************************)
Columns == 0 .. VGA_WIDTH - 1
Rows == 0 .. VGA_HEIGHT - 1

Blank == " "

Glyphs == Chars \cup {NUL, Blank, "!"} \cup Range(TERMINAL_PROMPT)
Pictures == [Cells -> Glyphs]
Controls == {"NL", "CR", "TAB", "BS"}

Inside == TRUE

Shot(p, x, y) == [cells |-> p, cursor_x |-> x, cursor_y |-> y, inside |-> Inside]

(* The picture p with a string over it from cell o on.                     *)
Over(p, o, str) ==
  [at \in Cells |-> IF o <= at /\ at < o + Len(str) THEN str[at - o + 1] ELSE p[at]]

(* The picture p with the first k characters of a string over it.          *)
Part(p, o, str, k) ==
  [at \in Cells |-> IF o <= at /\ at < o + k THEN str[at - o + 1] ELSE p[at]]

(* The picture p with one cell changed.                                    *)
Changed(p, at, c) == [p EXCEPT ![at] = c]

(* The picture p after vga_scroll.                                         *)
Up(p) == [at \in Cells |-> IF at + VGA_WIDTH \in Cells THEN p[at + VGA_WIDTH] ELSE Blank]

(* The picture p is blank from row y on.                                   *)
BlankFrom(p, y) == \A at \in Cells : at >= y * VGA_WIDTH => p[at] = Blank

(* Row y of the picture p shows the prompt and the first len bytes of b.   *)
RowShows(p, y, b, len) ==
  \A x \in Columns :
    p[y * VGA_WIDTH + x] = IF x < prompt_length THEN TERMINAL_PROMPT[x + 1]
                           ELSE IF x < prompt_length + len THEN b[x - prompt_length]
                           ELSE Blank

(* The column and row of a cell.                                           *)
LEMMA CellOf ==
  ASSUME NEW x \in Columns, NEW y \in Nat
  PROVE  /\ y * VGA_WIDTH \in Nat
         /\ (y * VGA_WIDTH + x) \div VGA_WIDTH = y
         /\ (y + 1) * VGA_WIDTH = y * VGA_WIDTH + VGA_WIDTH
         /\ y \in Rows => y * VGA_WIDTH + x \in Cells
<1>1. VGA_WIDTH \in Nat /\ VGA_WIDTH > 0 /\ x \in Nat /\ x < VGA_WIDTH /\ VGA_HEIGHT \in Nat
  BY VgaAssumption DEF Columns
<1>2. /\ y * VGA_WIDTH \in Nat /\ (y + 1) * VGA_WIDTH = y * VGA_WIDTH + VGA_WIDTH
  BY <1>1
<1>3. PICK n \in Nat : n = y * VGA_WIDTH + x
  BY <1>1, <1>2
<1>4. PICK q \in Nat : q = n \div VGA_WIDTH /\ VGA_WIDTH * q <= n /\ n < VGA_WIDTH * q + VGA_WIDTH
  BY <1>1
<1>5. ASSUME NEW a \in Nat, NEW b \in Nat, a < b
      PROVE  a * VGA_WIDTH + VGA_WIDTH <= b * VGA_WIDTH /\ a * VGA_WIDTH \in Nat
  <2>1. PICK d \in Nat : b = a + 1 + d
    <3>1. b - (a + 1) \in Nat /\ b = a + 1 + (b - (a + 1))
      BY <1>5
    <3> QED BY <3>1
  <2>2. d * VGA_WIDTH \in Nat /\ a * VGA_WIDTH \in Nat
    BY <1>1
  <2>3. b * VGA_WIDTH = a * VGA_WIDTH + VGA_WIDTH + d * VGA_WIDTH
    BY <1>1, <2>1
  <2> QED BY <1>1, <2>2, <2>3
<1>6. VGA_WIDTH * q = q * VGA_WIDTH /\ q * VGA_WIDTH \in Nat
  BY <1>1
<1>7. ~ (q < y) /\ ~ (y < q)
  BY <1>1, <1>2, <1>3, <1>4, <1>5, <1>6
<1>8. q = y
  BY <1>7
<1>9. ASSUME y \in Rows PROVE y * VGA_WIDTH + x \in Cells
  <2>1. y < VGA_HEIGHT
    BY <1>1, <1>9 DEF Rows
  <2>2. y * VGA_WIDTH + VGA_WIDTH <= VGA_HEIGHT * VGA_WIDTH
    BY <1>1, <1>5, <2>1
  <2>3. VGA_HEIGHT * VGA_WIDTH = VGA_WIDTH * VGA_HEIGHT /\ VGA_WIDTH * VGA_HEIGHT \in Nat
    BY <1>1
  <2> QED BY <1>1, <1>2, <2>2, <2>3 DEF Cells
<1> QED BY <1>2, <1>3, <1>4, <1>8, <1>9

(* Moving the cursor.                                                      *)
LEMMA CursorSet ==
  ASSUME NEW p, NEW x, NEW y, NEW a, NEW b
  PROVE  vga_set_cursor(Shot(p, x, y), a, b) = Shot(p, a, b)
<1>1. PICK w : w = [Shot(p, x, y) EXCEPT !.cursor_x = a]
  BY Zenon
<1>2. w = Shot(p, a, y)
  BY <1>1 DEF Shot
<1>3. [w EXCEPT !.cursor_y = b] = Shot(p, a, b)
  BY <1>2 DEF Shot
<1> QED BY <1>1, <1>3 DEF vga_set_cursor

(* A printable character inside a row.                                     *)
LEMMA PutPrintable ==
  ASSUME NEW p \in Pictures, NEW x \in Nat, NEW y \in Rows, x + 1 < VGA_WIDTH,
         NEW c, c \notin Controls
  PROVE  vga_putchar(Shot(p, x, y), c) = Shot(Changed(p, y * VGA_WIDTH + x, c), x + 1, y)
<1>1. VGA_WIDTH \in Nat /\ x \in Columns /\ y \in Nat /\ ~ (y >= VGA_HEIGHT) /\ VGA_HEIGHT \in Nat
      /\ ~ (x + 1 >= VGA_WIDTH)
  BY VgaAssumption DEF Columns, Rows
<1>2. PICK at \in Cells : at = y * VGA_WIDTH + x
  BY <1>1, CellOf
<1>3. PICK q : q = Changed(p, at, c)
  OBVIOUS
<1>4. Here(Shot(p, x, y), c) = Shot(q, x, y)
  BY <1>2, <1>3 DEF Here, vga_entry, Shot, Changed
<1>5. PICK x1 : x1 = x + 1
  OBVIOUS
<1>6. vga_set_cursor(Shot(q, x, y), x1, y) = Shot(q, x1, y)
  BY CursorSet
<1>7. Wrap(Shot(q, x1, y)) = Shot(q, x1, y)
  BY <1>1, <1>5 DEF Wrap, Shot
<1>8. Scroll(Shot(q, x1, y)) = Shot(q, x1, y)
  BY <1>1 DEF Scroll, Shot
<1>9. Shot(p, x, y).cursor_x = x /\ Shot(p, x, y).cursor_y = y
  BY DEF Shot
<1> QED BY <1>2, <1>3, <1>4, <1>5, <1>6, <1>7, <1>8, <1>9 DEF vga_putchar, Controls

(* One character more of a string.                                         *)
LEMMA OverStep ==
  ASSUME NEW p \in Pictures, NEW o \in Nat, NEW s, NEW n \in Nat, NEW c, o + n \in Cells,
         NEW q \in Pictures, q = Part(p, o, s, n), s[n + 1] = c
  PROVE  Changed(q, o + n, c) = Part(p, o, s, n + 1)
<1>1. ASSUME NEW at \in Cells
      PROVE  Changed(q, o + n, c)[at]
               = IF o <= at /\ at < o + (n + 1) THEN s[at - o + 1] ELSE p[at]
  <2>1. at \in Int
    BY DEF Cells
  <2>2. CASE at = o + n
    <3>1. at - o + 1 = n + 1 /\ o <= at /\ at < o + (n + 1)
      BY <2>2
    <3> QED BY <2>2, <3>1 DEF Changed, Pictures
  <2>3. CASE at # o + n
    <3>1. at < o + (n + 1) <=> at < o + n
      BY <2>1, <2>3
    <3> QED BY <2>3, <3>1 DEF Changed, Part, Pictures
  <2> QED BY <2>2, <2>3
<1> QED BY <1>1 DEF Changed, Part, Pictures

(* The screens vga_write goes through, and what it returns.                *)
Goes(f, v, str, len) ==
  /\ f = [k \in 0 .. len |-> f[k]]
  /\ f[0] = v
  /\ \A k \in 1 .. len : f[k] = vga_putchar(f[k - 1], str[k])

(* vga_write is the last of the screens it goes through.                   *)
LEMMA WriteUnfolds ==
  ASSUME NEW v, NEW str, NEW len \in Nat, len = Len(str), NEW f, Goes(f, v, str, len)
  PROVE  vga_write(v, str) = f[len]
<1>0. /\ f = [k \in 0 .. len |-> f[k]] /\ f[0] = v
      /\ \A k \in 1 .. len : f[k] = vga_putchar(f[k - 1], str[k])
  BY Zenon DEF Goes
<1> DEFINE Is(g) == g = [k \in 0 .. Len(str) |-> IF k = 0 THEN v ELSE vga_putchar(g[k - 1], str[k])]
<1>1. Is(f)
  <2>1. ASSUME NEW k \in 0 .. len
        PROVE  f[k] = IF k = 0 THEN v ELSE vga_putchar(f[k - 1], str[k])
    <3>1. k = 0 \/ (k \in 1 .. len /\ k # 0)
      OBVIOUS
    <3> QED BY <1>0, <3>1, Zenon
  <2>2. f = [k \in 0 .. len |-> IF k = 0 THEN v ELSE vga_putchar(f[k - 1], str[k])]
    BY <1>0, <2>1, Zenon
  <2> QED BY <2>2, Zenon
<1>2. vga_write(v, str) = (CHOOSE g : Is(g))[Len(str)]
  BY DEF vga_write
<1> HIDE DEF Is
<1>3. PICK g : Is(g) /\ vga_write(v, str) = g[Len(str)]
  BY <1>1, <1>2, Zenon
<1>4. f[0] = g[0]
  BY <1>0, <1>3 DEF Is
<1>5. ASSUME NEW k \in 1 .. len, f[k - 1] = g[k - 1] PROVE f[k] = g[k]
  <2>1. k \in 0 .. Len(str) /\ k # 0
    OBVIOUS
  <2>2. g[k] = vga_putchar(g[k - 1], str[k])
    BY <1>3, <2>1 DEF Is
  <2> QED BY <1>0, <1>5, <2>2, Zenon
<1>6. InStep(f, g, len)
  BY <1>5 DEF InStep
<1>7. \A k \in 0 .. len : f[k] = g[k]
  BY <1>4, <1>6, InStepAgree
<1> QED BY <1>3, <1>7

Printable(str) == \A k \in 1 .. Len(str) : str[k] \notin Controls

(* n characters of str are written, and the next one fits into the row.    *)
NextFits(p, x, y, str, o, n, r, c) ==
  /\ p \in Pictures /\ x \in Nat /\ y \in Rows /\ o \in Nat /\ n \in Nat
  /\ r \in Pictures /\ r = Part(p, o, str, n)
  /\ c \notin Controls /\ str[n + 1] = c
  /\ x + n + 1 < VGA_WIDTH /\ o = y * VGA_WIDTH + x

(* One character more of a text that fits into the row.                    *)
LEMMA PartStep ==
  ASSUME NEW p, NEW x, NEW y, NEW str, NEW o, NEW n, NEW r, NEW c, NextFits(p, x, y, str, o, n, r, c)
  PROVE  vga_putchar(Shot(r, x + n, y), c) = Shot(Part(p, o, str, n + 1), x + (n + 1), y)
<1>0. /\ p \in Pictures /\ x \in Nat /\ y \in Rows /\ o \in Nat /\ n \in Nat
      /\ r \in Pictures /\ r = Part(p, o, str, n)
      /\ c \notin Controls /\ str[n + 1] = c
      /\ x + n + 1 < VGA_WIDTH /\ o = y * VGA_WIDTH + x
  BY Zenon DEF NextFits
<1>1. VGA_WIDTH \in Nat /\ y \in Nat
  BY <1>0, VgaAssumption DEF Rows
<1>2. PICK x1 \in Nat : x1 = x + n
  BY <1>0
<1>3. x1 + 1 < VGA_WIDTH
  BY <1>0, <1>2
<1>4. vga_putchar(Shot(r, x1, y), c) = Shot(Changed(r, y * VGA_WIDTH + x1, c), x1 + 1, y)
  BY <1>0, <1>3, PutPrintable
<1>5. y * VGA_WIDTH + x1 = o + n /\ x1 + 1 = x + (n + 1)
  BY <1>0, <1>1, <1>2
<1>6. o + n \in Cells
  <2>1. x1 \in Columns
    BY <1>1, <1>3 DEF Columns
  <2> QED BY <1>0, <1>1, <1>5, <2>1, CellOf
<1>7. Changed(r, o + n, c) = Part(p, o, str, n + 1)
  BY <1>0, <1>6, OverStep
<1> QED BY <1>2, <1>4, <1>5, <1>7, Zenon

(* vga_write of a string that stays inside its row: the characters appear  *)
(* one after the other, and the cursor ends behind the last.               *)
LEMMA WriteInRow ==
  ASSUME NEW p \in Pictures, NEW x \in Nat, NEW y \in Rows,
         NEW str \in Seq(Glyphs), Printable(str), x + Len(str) < VGA_WIDTH
  PROVE  /\ Over(p, y * VGA_WIDTH + x, str) \in Pictures
         /\ vga_write(Shot(p, x, y), str)
              = Shot(Over(p, y * VGA_WIDTH + x, str), x + Len(str), y)
<1>0. VGA_WIDTH \in Nat /\ y \in Nat
  BY VgaAssumption DEF Rows
<1>1. PICK len \in Nat : len = Len(str)
  BY LenProperties
<1>2. str \in [1 .. len -> Glyphs]
  BY <1>1, LenProperties
<1>3. PICK o \in Nat : o = y * VGA_WIDTH + x
  BY <1>0
<1>4. ASSUME NEW k \in 0 .. len PROVE Part(p, o, str, k) \in Pictures
  <2>1. ASSUME NEW at \in Cells, o <= at, at < o + k PROVE str[at - o + 1] \in Glyphs
    <3>1. at - o + 1 \in 1 .. len
      BY <2>1 DEF Cells
    <3> QED BY <1>2, <3>1
  <2> QED BY <2>1 DEF Pictures, Part
<1>5. Part(p, o, str, 0) = p
  <2>1. \A at \in Cells : ~ (o <= at /\ at < o + 0)
    BY DEF Cells
  <2> QED BY <2>1 DEF Pictures, Part
<1>6. PICK f : f = [k \in 0 .. len |-> Shot(Part(p, o, str, k), x + k, y)]
  BY Zenon
<1>7. f[0] = Shot(p, x, y)
  BY <1>5, <1>6
<1>8. ASSUME NEW k \in 1 .. len PROVE f[k] = vga_putchar(f[k - 1], str[k])
  <2>1. PICK n \in Nat : n = k - 1 /\ n + 1 = k /\ n \in 0 .. len
    OBVIOUS
  <2>2. PICK c : c = str[k]
    OBVIOUS
  <2>3. c \notin Controls
    BY <1>1, <2>2 DEF Printable
  <2>4. str[n + 1] = c
    BY <2>1, <2>2
  <2>5. x + n + 1 < VGA_WIDTH
    BY <1>0, <1>1, <2>1
  <2>6. PICK r \in Pictures : r = Part(p, o, str, n)
    BY <1>4, <2>1
  <2>7. vga_putchar(Shot(r, x + n, y), c) = Shot(Part(p, o, str, n + 1), x + (n + 1), y)
    <3>1. NextFits(p, x, y, str, o, n, r, c)
      BY <1>3, <2>3, <2>4, <2>5, <2>6 DEF NextFits
    <3> QED BY <3>1, PartStep
  <2>8. f[k] = Shot(Part(p, o, str, n + 1), x + (n + 1), y) /\ f[k - 1] = Shot(r, x + n, y)
    BY <1>6, <2>1, <2>6
  <2> QED BY <2>2, <2>7, <2>8
<1>9. \A k \in 1 .. len : f[k] = vga_putchar(f[k - 1], str[k])
  BY <1>8
<1>10. f = [k \in 0 .. len |-> f[k]]
  BY <1>6
<1>11. PICK v : v = Shot(p, x, y)
  OBVIOUS
<1>12. f[0] = v
  BY <1>7, <1>11
<1>13. vga_write(v, str) = f[len]
  <2>1. Goes(f, v, str, len)
    BY <1>9, <1>10, <1>12 DEF Goes
  <2> QED BY <1>1, <2>1, WriteUnfolds, ZenonT(30)
<1>14. Part(p, o, str, len) = Over(p, o, str) /\ len \in 0 .. len
  BY <1>1 DEF Part, Over
<1>15. f[len] = Shot(Part(p, o, str, len), x + len, y)
  BY <1>6, <1>14
<1> QED BY <1>1, <1>3, <1>4, <1>11, <1>13, <1>14, <1>15

(* A newline leads to a row that is blank, and so is all below it.         *)
LEMMA NewLine ==
  ASSUME NEW p \in Pictures, NEW x, NEW y \in Rows, BlankFrom(p, y + 1)
  PROVE  \E q \in Pictures, z \in Rows :
           vga_putchar(Shot(p, x, y), "NL") = Shot(q, 0, z) /\ BlankFrom(q, z)
<1>1. VGA_WIDTH \in Nat \ {0} /\ VGA_HEIGHT \in Nat \ {0} /\ y \in Nat /\ y < VGA_HEIGHT
  BY VgaAssumption DEF Rows
<1>2. PICK y1 \in Nat : y1 = y + 1
  BY <1>1
<1>3. Shot(p, x, y).cursor_y = y
  BY DEF Shot
<1>4. Wrap(Shot(p, 0, y1)) = Shot(p, 0, y1)
  BY <1>1 DEF Wrap, Shot
<1>5. vga_putchar(Shot(p, x, y), "NL") = Scroll(Shot(p, 0, y1))
  BY <1>2, <1>3, <1>4, CursorSet DEF vga_putchar
<1>6. CASE y1 < VGA_HEIGHT
  <2>1. Scroll(Shot(p, 0, y1)) = Shot(p, 0, y1)
    BY <1>1, <1>6 DEF Scroll, Shot
  <2>2. y1 \in Rows
    BY <1>1, <1>6 DEF Rows
  <2> QED BY <1>2, <1>5, <2>1, <2>2
<1>7. CASE ~ (y1 < VGA_HEIGHT)
  <2>1. PICK last \in Rows : last = VGA_HEIGHT - 1
    BY <1>1 DEF Rows
  <2>2. vga_scroll(Shot(p, 0, y1)) = Shot(Up(p), 0, y1)
    <3>1. Shot(p, 0, y1).cells = p
      BY DEF Shot
    <3>2. vga_scroll(Shot(p, 0, y1)) = [Shot(p, 0, y1) EXCEPT !.cells = Up(p)]
      BY <3>1, Zenon DEF vga_scroll, Up, Blank
    <3> QED BY <3>2 DEF Shot
  <2>3. [Shot(Up(p), 0, y1) EXCEPT !.cursor_y = last] = Shot(Up(p), 0, last)
    BY DEF Shot
  <2>4. Shot(p, 0, y1).cursor_y >= VGA_HEIGHT
    BY <1>1, <1>7 DEF Shot
  <2>5. Scroll(Shot(p, 0, y1)) = Shot(Up(p), 0, last)
    BY <2>1, <2>2, <2>3, <2>4 DEF Scroll
  <2>6. Up(p) \in Pictures
    BY DEF Up, Pictures, Glyphs
  <2>7. BlankFrom(Up(p), last)
    <3>1. ASSUME NEW at \in Cells, at >= last * VGA_WIDTH PROVE at + VGA_WIDTH \notin Cells
      <4>1. last * VGA_WIDTH = VGA_WIDTH * VGA_HEIGHT - VGA_WIDTH /\ VGA_WIDTH * VGA_HEIGHT \in Nat
        BY <1>1, <2>1
      <4> QED BY <1>1, <3>1, <4>1 DEF Cells
    <3> QED BY <3>1 DEF BlankFrom, Up
  <2> QED BY <1>5, <2>5, <2>6, <2>7
<1> QED BY <1>6, <1>7

(* An empty screen.                                                        *)
Empty == [at \in Cells |-> Blank]

(* vga_clear leaves an empty screen with the cursor at its start.          *)
LEMMA Cleared ==
  ASSUME NEW v, v.inside = Inside
  PROVE  vga_clear(v) = Shot(Empty, 0, 0) /\ Empty \in Pictures /\ 0 \in Rows /\ BlankFrom(Empty, 0)
<1>1. vga_clear(v) = Shot(Empty, 0, 0)
  BY DEF vga_clear, Shot, Empty, Blank
<1>2. 0 \in Rows
  BY VgaAssumption DEF Rows
<1>3. Blank \in Glyphs
  BY Zenon DEF Glyphs
<1> QED BY <1>1, <1>2, <1>3 DEF Empty, Pictures, BlankFrom

(* The prompt is a string that can be written.                             *)
LEMMA PromptType ==
  /\ TERMINAL_PROMPT \in Seq(Glyphs) /\ Printable(TERMINAL_PROMPT)
  /\ prompt_length \in Nat /\ prompt_length = Len(TERMINAL_PROMPT)
<1>1. PICK n \in Nat : n = Len(TERMINAL_PROMPT) /\ TERMINAL_PROMPT \in [1 .. n -> STRING]
  BY TerminalAssumption, LenProperties
<1>2. \A k \in 1 .. n : TERMINAL_PROMPT[k] \in Range(TERMINAL_PROMPT)
  BY <1>1 DEF Range
<1>3. \A k \in 1 .. n : TERMINAL_PROMPT[k] \notin Controls
  BY <1>2, TerminalAssumption DEF Controls
<1>4. \A k \in 1 .. n : TERMINAL_PROMPT[k] \in Glyphs
  BY <1>2, Zenon DEF Glyphs
<1>5. TERMINAL_PROMPT \in [1 .. n -> Glyphs]
  BY <1>1, <1>4
<1>6. TERMINAL_PROMPT \in Seq(Glyphs)
  BY <1>5, LineIsSeq
<1> QED BY <1>1, <1>3, <1>6 DEF Printable, prompt_length

(* A cell of row y is one of its columns, and no other cell is.            *)
LEMMA InRow ==
  ASSUME NEW y \in Rows, NEW at \in Cells
  PROVE  /\ at \in Int /\ y * VGA_WIDTH \in Nat /\ VGA_WIDTH \in Nat /\ VGA_WIDTH > 0
         /\ (y + 1) * VGA_WIDTH = y * VGA_WIDTH + VGA_WIDTH
         /\ at \div VGA_WIDTH # y => at < y * VGA_WIDTH \/ at >= y * VGA_WIDTH + VGA_WIDTH
<1>1. VGA_WIDTH \in Nat /\ VGA_WIDTH > 0 /\ y \in Nat /\ at \in Int /\ 0 \in Columns
  BY VgaAssumption DEF Rows, Cells, Columns
<1>2. y * VGA_WIDTH \in Nat /\ (y + 1) * VGA_WIDTH = y * VGA_WIDTH + VGA_WIDTH
  BY <1>1, CellOf
<1>3. ASSUME ~ (at < y * VGA_WIDTH), ~ (at >= y * VGA_WIDTH + VGA_WIDTH) PROVE at \div VGA_WIDTH = y
  <2>1. PICK o \in Nat : o = y * VGA_WIDTH
    BY <1>2
  <2>2. PICK x \in Columns : x = at - o /\ at = o + x
    BY <1>1, <1>3, <2>1 DEF Columns
  <2>3. (y * VGA_WIDTH + x) \div VGA_WIDTH = y
    BY <1>1, CellOf
  <2> QED BY <2>1, <2>2, <2>3
<1> QED BY <1>1, <1>2, <1>3

(* The prompt on a blank row is the picture of an empty line.              *)
LEMMA PromptShown ==
  ASSUME NEW p \in Pictures, NEW y \in Rows, BlankFrom(p, y), prompt_length < VGA_WIDTH, NEW b
  PROVE  \E q \in Pictures :
           /\ vga_write(Shot(p, 0, y), TERMINAL_PROMPT) = Shot(q, prompt_length, y)
           /\ RowShows(q, y, b, 0)
           /\ BlankFrom(q, y + 1)
<1>1. PICK len \in Nat : len = prompt_length /\ len = Len(TERMINAL_PROMPT)
  BY PromptType
<1>2. VGA_WIDTH \in Nat /\ y \in Nat
  BY VgaAssumption DEF Rows
<1>3. PICK o \in Nat : o = y * VGA_WIDTH /\ o + 0 = o
  BY <1>2
<1>4. 0 + len < VGA_WIDTH /\ 0 + len = len
  BY <1>1, <1>2
<1>5. PICK q : q = Over(p, o, TERMINAL_PROMPT)
  OBVIOUS
<1>6. q \in Pictures /\ vga_write(Shot(p, 0, y), TERMINAL_PROMPT) = Shot(q, len, y)
  BY <1>1, <1>3, <1>4, <1>5, PromptType, WriteInRow
<1>7. ASSUME NEW at \in Cells
      PROVE  q[at] = IF o <= at /\ at < o + len THEN TERMINAL_PROMPT[at - o + 1] ELSE p[at]
  BY <1>1, <1>5 DEF Over
<1>8. \A at \in Cells : at >= o => p[at] = Blank
  BY <1>3 DEF BlankFrom
<1>9. RowShows(q, y, b, 0)
  <2>1. ASSUME NEW x \in Columns
        PROVE  q[o + x] = IF x < len THEN TERMINAL_PROMPT[x + 1]
                          ELSE IF x < len + 0 THEN b[x - len] ELSE Blank
    <3>1. PICK at \in Cells : at = o + x
      BY <1>2, <1>3, CellOf
    <3>2. x \in Nat /\ o <= at /\ at >= o /\ (at < o + len <=> x < len) /\ at - o + 1 = x + 1
          /\ (x < len + 0 <=> x < len)
      BY <3>1 DEF Columns
    <3> QED BY <1>7, <1>8, <3>1, <3>2
  <2> QED BY <1>1, <1>3, <2>1 DEF RowShows
<1>10. BlankFrom(q, y + 1)
  <2>1. ASSUME NEW at \in Cells, at >= (y + 1) * VGA_WIDTH PROVE q[at] = Blank
    <3>1. at \in Int /\ (y + 1) * VGA_WIDTH = o + VGA_WIDTH
      BY <1>3, InRow
    <3>2. at >= o /\ ~ (at < o + len)
      BY <1>2, <1>4, <2>1, <3>1
    <3> QED BY <1>7, <1>8, <3>2
  <2> QED BY <2>1 DEF BlankFrom
<1> QED BY <1>1, <1>6, <1>9, <1>10

(* One line of output leads to a blank row again.                          *)
LEMMA OutputWritten ==
  ASSUME NEW p \in Pictures, NEW y \in Rows, BlankFrom(p, y), 1 < VGA_WIDTH
  PROVE  \E q \in Pictures, z \in Rows :
           vga_write(Shot(p, 0, y), <<"!", "NL">>) = Shot(q, 0, z) /\ BlankFrom(q, z)
<1>1. VGA_WIDTH \in Nat /\ y \in Nat /\ 0 + 1 < VGA_WIDTH /\ 0 \in Columns
  BY VgaAssumption DEF Rows, Columns
<1>2. PICK o \in Cells : o = y * VGA_WIDTH + 0 /\ o = y * VGA_WIDTH
  BY <1>1, CellOf
<1>3. PICK c : c = "!"
  OBVIOUS
<1>4. c \notin Controls /\ c \in Glyphs
  BY <1>3 DEF Controls, Glyphs
<1>5. PICK r : r = Changed(p, o, c)
  OBVIOUS
<1>6. r \in Pictures
  BY <1>4, <1>5 DEF Changed, Pictures
<1>7. vga_putchar(Shot(p, 0, y), c) = Shot(r, 1, y)
  <2>1. vga_putchar(Shot(p, 0, y), c) = Shot(Changed(p, y * VGA_WIDTH + 0, c), 0 + 1, y)
    BY <1>1, <1>4, PutPrintable
  <2> QED BY <1>2, <1>5, <2>1
<1>8. BlankFrom(r, y + 1)
  <2>1. ASSUME NEW at \in Cells, at >= (y + 1) * VGA_WIDTH PROVE r[at] = Blank
    <3>1. at >= y * VGA_WIDTH /\ at # o
      BY <1>1, <1>2, <2>1, InRow
    <3> QED BY <1>5, <3>1 DEF Changed, Pictures, BlankFrom
  <2> QED BY <2>1 DEF BlankFrom
<1>9. PICK q \in Pictures, z \in Rows :
        vga_putchar(Shot(r, 1, y), "NL") = Shot(q, 0, z) /\ BlankFrom(q, z)
  BY <1>6, <1>8, NewLine
<1>10. PICK v0, v1, v2 : v0 = Shot(p, 0, y) /\ v1 = Shot(r, 1, y) /\ v2 = Shot(q, 0, z)
  OBVIOUS
<1>11. PICK str : str = <<c, "NL">>
  BY Zenon
<1>12. Len(str) = 2 /\ str[1] = c /\ str[2] = "NL"
  BY <1>11
<1>13. v1 = vga_putchar(v0, str[1]) /\ v2 = vga_putchar(v1, str[2])
  BY <1>7, <1>9, <1>10, <1>12
<1>14. PICK f : f = [k \in 0 .. 2 |-> IF k = 0 THEN v0 ELSE IF k = 1 THEN v1 ELSE v2]
  BY Zenon
<1>15. Goes(f, v0, str, 2)
  <2>1. f[0] = v0 /\ f[1] = v1 /\ f[2] = v2
    BY <1>14
  <2>2. \A k \in 1 .. 2 : (k = 1 /\ k - 1 = 0) \/ (k = 2 /\ k - 1 = 1)
    OBVIOUS
  <2>3. \A k \in 1 .. 2 : f[k] = vga_putchar(f[k - 1], str[k])
    BY <1>13, <2>1, <2>2
  <2>4. f = [k \in 0 .. 2 |-> f[k]]
    BY <1>14
  <2> QED BY <2>1, <2>3, <2>4 DEF Goes
<1>16. vga_write(v0, str) = f[2]
  BY <1>12, <1>15, WriteUnfolds, Zenon
<1>17. f[2] = v2
  BY <1>14
<1> QED BY <1>3, <1>9, <1>10, <1>11, <1>16, <1>17

(* A line that fits in the row of the prompt.                              *)
LEMMA RowArithmetic ==
  ASSUME NEW n \in Nat, prompt_length + n < VGA_WIDTH
  PROVE  (prompt_length + n) \div VGA_WIDTH = 0 /\ (prompt_length + n) % VGA_WIDTH = prompt_length + n
<1>1. PICK m \in Nat : m = prompt_length + n
  BY PromptType
<1>2. VGA_WIDTH \in Nat /\ m < VGA_WIDTH
  BY <1>1, VgaAssumption
<1>3. m \div VGA_WIDTH = 0 /\ m % VGA_WIDTH = m
  BY <1>2
<1> QED BY <1>1, <1>3

(* update_cursor_position for such a line.                                 *)
LEMMA CursorUpdated ==
  ASSUME NEW p, NEW x, NEW y \in Nat, NEW len \in Nat, NEW cur \in 0 .. len,
         prompt_length + len < VGA_WIDTH
  PROVE  update_cursor_position(Shot(p, x, y), len, cur) = Shot(p, prompt_length + cur, y)
<1>1. cur \in Nat /\ prompt_length + cur < VGA_WIDTH
  BY PromptType, VgaAssumption
<1>2. /\ (prompt_length + cur) % VGA_WIDTH = prompt_length + cur
      /\ (prompt_length + cur) \div VGA_WIDTH = 0
      /\ (prompt_length + len) \div VGA_WIDTH = 0
  BY <1>1, RowArithmetic
<1>3. y - 0 + 0 = y /\ Shot(p, x, y).cursor_y = y
  BY DEF Shot
<1> QED BY <1>2, <1>3, CursorSet DEF update_cursor_position

(* The blanks and the characters that redraw_input_line writes.            *)
Blanks(n) == [k \in 1 .. n |-> " "]
Characters(b, n) == [k \in 1 .. n |-> b[k - 1]]

(* Blanks are printable characters.                                        *)
LEMMA BlanksType ==
  ASSUME NEW n \in Nat
  PROVE  Blanks(n) \in Seq(Glyphs) /\ Printable(Blanks(n)) /\ Len(Blanks(n)) = n
         /\ \A k \in 1 .. n : Blanks(n)[k] = Blank
<1>1. PICK c : c = Blank
  OBVIOUS
<1>2. c \in Glyphs /\ c \notin Controls
  BY <1>1, Zenon DEF Glyphs, Controls, Blank
<1>3. Blanks(n) = [k \in 1 .. n |-> c]
  BY <1>1, Zenon DEF Blanks, Blank
<1>4. Blanks(n) \in [1 .. n -> Glyphs] /\ \A k \in 1 .. n : Blanks(n)[k] = c
  BY <1>2, <1>3
<1>5. Blanks(n) \in Seq(Glyphs) /\ Len(Blanks(n)) = n
  BY <1>4, LineIsSeq
<1> QED BY <1>1, <1>2, <1>4, <1>5 DEF Printable

(* So are the characters before the terminator.                            *)
LEMMA CharactersType ==
  ASSUME NEW b \in [Buffer -> Chars \cup {NUL}], NEW n \in Nat, n < TERMINAL_BUFFER_SIZE,
         \A k \in Buffer : b[k] # NUL <=> k < n
  PROVE  Characters(b, n) \in Seq(Glyphs) /\ Printable(Characters(b, n)) /\ Len(Characters(b, n)) = n
         /\ \A k \in 1 .. n : Characters(b, n)[k] = b[k - 1]
<1>1. ASSUME NEW k \in 1 .. n PROVE b[k - 1] \in Chars
  <2>1. k - 1 \in Buffer /\ k - 1 < n
    BY TerminalAssumption DEF Buffer
  <2> QED BY <2>1
<1>2. \A c \in Chars : c \in Glyphs /\ c \notin Controls
  BY TerminalAssumption DEF Glyphs, Controls
<1>3. Characters(b, n) \in [1 .. n -> Glyphs] /\ \A k \in 1 .. n : Characters(b, n)[k] = b[k - 1]
  BY <1>1, <1>2 DEF Characters
<1>4. Characters(b, n) \in Seq(Glyphs) /\ Len(Characters(b, n)) = n
  BY <1>3, LineIsSeq
<1> QED BY <1>1, <1>2, <1>3, <1>4 DEF Printable

(* Only the cells of row y differ.                                         *)
OnlyRow(p, q, y) ==
  \A at \in Cells : at < y * VGA_WIDTH \/ at >= y * VGA_WIDTH + VGA_WIDTH => q[at] = p[at]

(* The picture p with n blanks from cell o on, and with n bytes of b.      *)
Wiped(q, p, o, n) ==
  \A at \in Cells : q[at] = IF o <= at /\ at < o + n THEN Blank ELSE p[at]

Lettered(q, p, o, n, b) ==
  \A at \in Cells : q[at] = IF o <= at /\ at < o + n THEN b[at - o] ELSE p[at]

(* What stands on the row after the blanks and the characters: any line    *)
(* that was at most one character longer is gone.                          *)
LEMMA RowRedrawn ==
  ASSUME NEW p \in Pictures, NEW y \in Rows, NEW b0, NEW len0 \in Nat, NEW len \in Nat, NEW b,
         len0 <= len + 1, RowShows(p, y, b0, len0), prompt_length + len + 1 < VGA_WIDTH,
         NEW r, NEW q, NEW o \in Nat, o = y * VGA_WIDTH + prompt_length,
         Wiped(r, p, o, len + 1), Lettered(q, r, o, len, b)
  PROVE  RowShows(q, y, b, len) /\ OnlyRow(p, q, y)
<1>1. VGA_WIDTH \in Nat /\ y \in Nat
  BY VgaAssumption DEF Rows
<1>2. PICK row \in Nat : row = y * VGA_WIDTH
  BY <1>1
<1>3. PICK P \in Nat : P = prompt_length
  BY PromptType, Zenon
<1>0. /\ \A at \in Cells : r[at] = IF o <= at /\ at < o + (len + 1) THEN Blank ELSE p[at]
      /\ \A at \in Cells : q[at] = IF o <= at /\ at < o + len THEN b[at - o] ELSE r[at]
  BY DEF Wiped, Lettered
<1>4. ASSUME NEW x \in Columns
      PROVE  q[row + x] = IF x < P THEN TERMINAL_PROMPT[x + 1]
                          ELSE IF x < P + len THEN b[x - P] ELSE Blank
  <2>1. PICK at \in Cells : at = row + x
    BY <1>1, <1>2, CellOf
  <2>2. p[at] = IF x < P THEN TERMINAL_PROMPT[x + 1]
                ELSE IF x < P + len0 THEN b0[x - P] ELSE Blank
    BY <1>2, <1>3, <2>1 DEF RowShows
  <2>3. x \in Nat /\ (o <= at <=> ~ (x < P)) /\ at - o = x - P
        /\ (at < o + len <=> x < P + len) /\ (at < o + (len + 1) <=> x < P + len + 1)
    BY <1>2, <1>3, <2>1 DEF Columns
  <2>4. CASE x < P
    <3>1. q[at] = p[at]
      BY <1>0, <2>3, <2>4
    <3> QED BY <2>1, <2>2, <2>4, <3>1
  <2>5. CASE ~ (x < P) /\ x < P + len
    <3>1. q[at] = b[at - o]
      BY <1>0, <2>3, <2>5
    <3> QED BY <2>1, <2>3, <2>5, <3>1
  <2>6. CASE ~ (x < P) /\ ~ (x < P + len)
    <3>1. q[at] = r[at]
      BY <1>0, <2>3, <2>6
    <3>2. r[at] = Blank
      <4>1. CASE x < P + len + 1
        BY <1>0, <2>3, <2>6, <4>1
      <4>2. CASE ~ (x < P + len + 1)
        <5>1. ~ (x < P + len0)
          BY <2>3, <4>2
        <5> QED BY <1>0, <2>2, <2>3, <2>6, <4>2, <5>1
      <4> QED BY <4>1, <4>2
    <3> QED BY <2>1, <2>6, <3>1, <3>2
  <2> QED BY <2>4, <2>5, <2>6
<1>5. RowShows(q, y, b, len)
  BY <1>2, <1>3, <1>4 DEF RowShows
<1>6. ASSUME NEW at \in Cells, at < row \/ at >= row + VGA_WIDTH PROVE q[at] = p[at]
  <2>1. ~ (o <= at /\ at < o + (len + 1)) /\ ~ (o <= at /\ at < o + len)
    BY <1>1, <1>2, <1>3, <1>6 DEF Cells
  <2> QED BY <1>0, <2>1
<1> QED BY <1>2, <1>5, <1>6 DEF OnlyRow

(* redraw_input_line on the row of the prompt shows the new line, and      *)
(* changes no other row.                                                   *)
LEMMA LineRedrawn ==
  ASSUME NEW p \in Pictures, NEW x \in Nat, NEW y \in Rows, NEW b0, NEW len0 \in Nat,
         NEW b \in [Buffer -> Chars \cup {NUL}], NEW len \in Nat, NEW cur \in 0 .. len,
         len < TERMINAL_BUFFER_SIZE, \A k \in Buffer : b[k] # NUL <=> k < len,
         len0 <= len + 1, RowShows(p, y, b0, len0), prompt_length + len + 1 < VGA_WIDTH
  PROVE  \E q \in Pictures :
           /\ redraw_input_line(Shot(p, x, y), b, len, cur) = Shot(q, prompt_length + cur, y)
           /\ RowShows(q, y, b, len)
           /\ OnlyRow(p, q, y)
<1>1. VGA_WIDTH \in Nat /\ y \in Nat
  BY VgaAssumption DEF Rows
<1>2. PICK P \in Nat : P = prompt_length
  BY PromptType
<1>3. PICK o \in Nat : o = y * VGA_WIDTH + P
  BY <1>1
<1>4. PICK n \in Nat : n = len + 1
  OBVIOUS
<1>5. PICK r : r = Over(p, o, Blanks(n))
  OBVIOUS
<1>6. PICK q : q = Over(r, o, Characters(b, len))
  OBVIOUS
<1>7. /\ Characters(b, len) \in Seq(Glyphs) /\ Printable(Characters(b, len))
      /\ Len(Characters(b, len)) = len
      /\ \A k \in 1 .. len : Characters(b, len)[k] = b[k - 1]
  BY CharactersType
<1>8. r \in Pictures /\ vga_write(Shot(p, P, y), Blanks(n)) = Shot(r, P + n, y)
  <2>1. P + Len(Blanks(n)) < VGA_WIDTH /\ Len(Blanks(n)) = n
    BY <1>1, <1>2, <1>4, BlanksType
  <2>2. PICK str \in Seq(Glyphs) : str = Blanks(n) /\ Printable(str)
    BY BlanksType
  <2>3. Over(p, y * VGA_WIDTH + P, str) \in Pictures
        /\ vga_write(Shot(p, P, y), str) = Shot(Over(p, y * VGA_WIDTH + P, str), P + Len(str), y)
    <3>1. P + Len(str) < VGA_WIDTH /\ Printable(str)
      BY <2>1, <2>2, Zenon
    <3> QED BY <3>1, WriteInRow, ZenonT(30)
  <2> QED BY <1>3, <1>5, <2>1, <2>2, <2>3
<1>9. q \in Pictures /\ vga_write(Shot(r, P, y), Characters(b, len)) = Shot(q, P + len, y)
  <2>1. P + Len(Characters(b, len)) < VGA_WIDTH
    BY <1>1, <1>2, <1>7
  <2>2. PICK str \in Seq(Glyphs) : str = Characters(b, len) /\ Printable(str)
    BY <1>7
  <2>3. Over(r, y * VGA_WIDTH + P, str) \in Pictures
        /\ vga_write(Shot(r, P, y), str) = Shot(Over(r, y * VGA_WIDTH + P, str), P + Len(str), y)
    <3>1. P + Len(str) < VGA_WIDTH /\ Printable(str) /\ r \in Pictures
      BY <1>8, <2>1, <2>2, Zenon
    <3> QED BY <3>1, WriteInRow, ZenonT(30)
  <2> QED BY <1>3, <1>6, <1>7, <2>2, <2>3
<1>10. prompt_length + 0 < VGA_WIDTH /\ prompt_length + len < VGA_WIDTH /\ P + 0 = P
  BY <1>1, <1>2
<1>11. P % VGA_WIDTH = P /\ (P + len) \div VGA_WIDTH = 0
  BY <1>2, <1>10, RowArithmetic
<1>12. Shot(p, x, y).cursor_y - 0 = y
  BY <1>1 DEF Shot
<1>13. update_cursor_position(Shot(q, P + len, y), len, cur) = Shot(q, P + cur, y)
  BY <1>1, <1>2, <1>10, CursorUpdated
<1>14. redraw_input_line(Shot(p, x, y), b, len, cur) = Shot(q, P + cur, y)
  <2>1. vga_set_cursor(Shot(p, x, y), P, y) = Shot(p, P, y)
        /\ vga_set_cursor(Shot(r, P + n, y), P, y) = Shot(r, P, y)
    BY CursorSet
  <2>2. PICK v : v = Shot(p, x, y)
    OBVIOUS
  <2>3. v.cursor_y - (P + len) \div VGA_WIDTH = y
    BY <1>11, <1>12, <2>2
  <2>4. redraw_input_line(v, b, len, cur)
          = update_cursor_position(
              vga_write(vga_set_cursor(vga_write(vga_set_cursor(v, P, y), Blanks(n)), P, y),
                        Characters(b, len)), len, cur)
    BY <1>2, <1>4, <1>11, <2>3, Zenon DEF redraw_input_line, Blanks, Characters
  <2> QED BY <1>8, <1>9, <1>13, <2>1, <2>2, <2>4
<1>15. ASSUME NEW at \in Cells
       PROVE  /\ r[at] = IF o <= at /\ at < o + (len + 1) THEN Blank ELSE p[at]
              /\ q[at] = IF o <= at /\ at < o + len THEN b[at - o] ELSE r[at]
  <2>1. at \in Int
    BY DEF Cells
  <2>2. r[at] = IF o <= at /\ at < o + n THEN Blanks(n)[at - o + 1] ELSE p[at]
    BY <1>5, BlanksType DEF Over
  <2>3. q[at] = IF o <= at /\ at < o + len THEN Characters(b, len)[at - o + 1] ELSE r[at]
    BY <1>6, <1>7 DEF Over
  <2>4. o <= at /\ at < o + n => at - o + 1 \in 1 .. n
    BY <2>1
  <2>6. o <= at /\ at < o + n => Blanks(n)[at - o + 1] = Blank
    BY <2>4, BlanksType
  <2>7. ASSUME o <= at, at < o + len PROVE Characters(b, len)[at - o + 1] = b[at - o]
    <3>1. PICK i \in 1 .. len : i = at - o + 1 /\ i - 1 = at - o
      BY <2>1, <2>7
    <3>2. Characters(b, len)[i] = b[i - 1]
      BY <1>7
    <3> QED BY <3>1, <3>2
  <2> QED BY <1>4, <2>2, <2>3, <2>6, <2>7
<1>16. RowShows(q, y, b, len) /\ OnlyRow(p, q, y)
  <2>1. Wiped(r, p, o, len + 1) /\ Lettered(q, r, o, len, b)
    BY <1>15 DEF Wiped, Lettered
  <2>2. o = y * VGA_WIDTH + prompt_length
    BY <1>2, <1>3
  <2> QED BY <2>1, <2>2, RowRedrawn
<1> QED BY <1>2, <1>9, <1>14, <1>16

(* The line leaves the last two columns of its row free.                   *)
Fits == prompt_length + MaxLine <= VGA_WIDTH - 2

(* The screen as a picture: the row of the cursor shows the line, and the  *)
(* rows below are blank, so that the next prompt meets an empty row.       *)
Seen(v, b, len, cur) ==
  \E p \in Pictures, y \in Rows :
    /\ v = Shot(p, prompt_length + cur, y)
    /\ RowShows(p, y, b, len)
    /\ BlankFrom(p, y + 1)

ScreenInv ==
  /\ EditInv
  /\ buffer_pos <= MaxLine
  /\ Seen(vga, input_buffer, buffer_pos, cursor_pos)

(* A row is blank and the cursor is at its start, so is all below it.      *)
Ready(v) == \E p \in Pictures, y \in Rows : v = Shot(p, 0, y) /\ BlankFrom(p, y)

(* Two screens differ in the row of the cursor only.                       *)
SameElsewhere(v, w) ==
  /\ w.cursor_y = v.cursor_y
  /\ \A at \in Cells : at \div VGA_WIDTH # v.cursor_y => w.cells[at] = v.cells[at]

(* A prompt on a blank row shows an empty line.                            *)
LEMMA PromptSeen ==
  ASSUME Fits, NEW v, Ready(v), NEW b
  PROVE  Seen(vga_write(v, TERMINAL_PROMPT), b, 0, 0)
<1>1. prompt_length < VGA_WIDTH /\ prompt_length + 0 = prompt_length
  BY PromptType, VgaAssumption, TerminalAssumption DEF Fits
<1>2. PICK p \in Pictures, y \in Rows : v = Shot(p, 0, y) /\ BlankFrom(p, y)
  BY DEF Ready
<1>3. PICK q \in Pictures :
           /\ vga_write(Shot(p, 0, y), TERMINAL_PROMPT) = Shot(q, prompt_length, y)
           /\ RowShows(q, y, b, 0)
           /\ BlankFrom(q, y + 1)
  BY <1>1, <1>2, PromptShown
<1> QED BY <1>1, <1>2, <1>3 DEF Seen

(* What Enter leads to: a newline, and what a command may write.           *)
LEMMA EnterReady ==
  ASSUME Fits, NEW v, NEW b, NEW len, NEW cur, Seen(v, b, len, cur)
  PROVE  /\ Ready(vga_putchar(v, "NL"))
         /\ \A w \in Outputs(vga_putchar(v, "NL")) : Ready(w)
<1>1. PICK p \in Pictures, y \in Rows :
        v = Shot(p, prompt_length + cur, y) /\ BlankFrom(p, y + 1)
  BY DEF Seen
<1>2. PICK q \in Pictures, z \in Rows :
        vga_putchar(v, "NL") = Shot(q, 0, z) /\ BlankFrom(q, z)
  BY <1>1, NewLine
<1>3. PICK n : n = vga_putchar(v, "NL") /\ n = Shot(q, 0, z)
  BY <1>2
<1>4. Ready(n)
  BY <1>2, <1>3 DEF Ready
<1>5. 1 < VGA_WIDTH
  BY PromptType, VgaAssumption, TerminalAssumption DEF Fits
<1>6. Ready(vga_write(n, <<"!", "NL">>))
  BY <1>2, <1>3, <1>5, OutputWritten DEF Ready
<1>7. Ready(vga_clear(n))
  <2>1. n.inside = Inside
    BY <1>3 DEF Shot
  <2>2. PICK e, zero : e = Empty /\ zero = 0
    OBVIOUS
  <2>3. vga_clear(n) = Shot(e, zero, zero) /\ e \in Pictures /\ zero \in Rows /\ BlankFrom(e, zero)
    BY <2>1, <2>2, Cleared
  <2> QED BY <2>2, <2>3 DEF Ready
<1> QED BY <1>3, <1>4, <1>6, <1>7 DEF Outputs, Prints

(* A line of another length by one, redrawn.                               *)
LEMMA RedrawnSeen ==
  ASSUME Fits, EditInv, EditInv', Seen(vga, input_buffer, buffer_pos, cursor_pos),
         buffer_pos' <= MaxLine, buffer_pos <= buffer_pos' + 1,
         vga' = redraw_input_line(vga, input_buffer', buffer_pos', cursor_pos')
  PROVE  /\ Seen(vga', input_buffer', buffer_pos', cursor_pos')
         /\ SameElsewhere(vga, vga')
<1>1. PICK b, len, cur : b = input_buffer' /\ len = buffer_pos' /\ cur = cursor_pos'
  OBVIOUS
<1>2. /\ b \in [Buffer -> Chars \cup {NUL}] /\ len \in Nat /\ cur \in 0 .. len
      /\ len < TERMINAL_BUFFER_SIZE /\ \A k \in Buffer : b[k] # NUL <=> k < len
  BY <1>1, TerminalAssumption DEF EditInv, TypeOK, LineTerminated, Buffer
<1>3. PICK len0, x : len0 = buffer_pos /\ x = prompt_length + cursor_pos
  OBVIOUS
<1>4. len0 \in Nat /\ x \in Nat /\ len0 <= len + 1
  BY <1>1, <1>3, PromptType, TerminalAssumption DEF EditInv, TypeOK, Buffer
<1>5. PICK p \in Pictures, y \in Rows :
        /\ vga = Shot(p, x, y) /\ RowShows(p, y, input_buffer, len0) /\ BlankFrom(p, y + 1)
  BY <1>3 DEF Seen
<1>6. prompt_length + len + 1 < VGA_WIDTH
  BY <1>1, <1>2, PromptType, VgaAssumption, TerminalAssumption DEF Fits
<1>7. PICK q \in Pictures :
        /\ redraw_input_line(Shot(p, x, y), b, len, cur) = Shot(q, prompt_length + cur, y)
        /\ RowShows(q, y, b, len)
        /\ OnlyRow(p, q, y)
  BY <1>2, <1>4, <1>5, <1>6, LineRedrawn
<1>8. BlankFrom(q, y + 1)
  <2>1. ASSUME NEW at \in Cells, at >= (y + 1) * VGA_WIDTH PROVE q[at] = Blank
    <3>1. at >= y * VGA_WIDTH + VGA_WIDTH
      BY <2>1, InRow
    <3>2. q[at] = p[at]
      BY <1>7, <3>1 DEF OnlyRow
    <3> QED BY <1>5, <2>1, <3>2 DEF BlankFrom
  <2> QED BY <2>1 DEF BlankFrom
<1>9. vga' = Shot(q, prompt_length + cur, y)
  BY <1>1, <1>5, <1>7
<1>10. SameElsewhere(vga, vga')
  <2>1. vga.cells = p /\ vga.cursor_y = y /\ vga'.cells = q /\ vga'.cursor_y = y
    BY <1>5, <1>9 DEF Shot
  <2>2. \A at \in Cells : at \div VGA_WIDTH # y => q[at] = p[at]
    BY <1>7, InRow DEF OnlyRow
  <2> QED BY <2>1, <2>2 DEF SameElsewhere
<1>11. Seen(vga', b, len, cur)
  BY <1>7, <1>8, <1>9 DEF Seen
<1> QED BY <1>1, <1>10, <1>11

(* Moving the cursor inside the line.                                      *)
LEMMA MovedSeen ==
  ASSUME Fits, EditInv, buffer_pos <= MaxLine, Seen(vga, input_buffer, buffer_pos, cursor_pos),
         NEW cur \in 0 .. buffer_pos, MoveTo(cur)
  PROVE  /\ Seen(vga', input_buffer', buffer_pos', cursor_pos')
         /\ SameElsewhere(vga, vga')
<1>1. PICK p \in Pictures, y \in Rows :
        /\ vga = Shot(p, prompt_length + cursor_pos, y)
        /\ RowShows(p, y, input_buffer, buffer_pos)
        /\ BlankFrom(p, y + 1)
  BY DEF Seen
<1>2. PICK len \in Nat : len = buffer_pos
  BY TerminalAssumption DEF EditInv, TypeOK, Buffer
<1>3. prompt_length + len < VGA_WIDTH /\ y \in Nat
  BY <1>2, PromptType, VgaAssumption, TerminalAssumption DEF Fits, Rows
<1>4. vga' = update_cursor_position(Shot(p, prompt_length + cursor_pos, y), len, cur)
  BY <1>1, <1>2 DEF MoveTo
<1>5. vga' = Shot(p, prompt_length + cur, y)
  BY <1>2, <1>3, <1>4, CursorUpdated
<1>6. cursor_pos' = cur /\ input_buffer' = input_buffer /\ buffer_pos' = buffer_pos
  BY DEF MoveTo
<1>7. Seen(vga', input_buffer', buffer_pos', cursor_pos')
  BY <1>1, <1>5, <1>6 DEF Seen
<1>8. SameElsewhere(vga, vga')
  BY <1>1, <1>5 DEF SameElsewhere, Shot
<1> QED BY <1>7, <1>8

(* What OtherRowsKept asks of a step.                                      *)
RowsKept == CharEnter \/ SameElsewhere(vga, vga')

(* The first prompt, and every branch of terminal_run.                     *)
LEMMA ScreenInit ==
  ASSUME Fits, Init
  PROVE  ScreenInv
<1>1. PICK v : v = [inside |-> Inside]
  BY Zenon
<1>2. v.inside = Inside /\ v = [inside |-> TRUE]
  BY <1>1 DEF Inside
<1>3. PICK e, zero : e = Empty /\ zero = 0
  OBVIOUS
<1>4. vga_clear(v) = Shot(e, zero, zero) /\ e \in Pictures /\ zero \in Rows /\ BlankFrom(e, zero)
  BY <1>2, <1>3, Cleared, Zenon
<1>5. Ready(vga_clear(v))
  BY <1>3, <1>4 DEF Ready
<1>6. Seen(vga_write(vga_clear(v), TERMINAL_PROMPT), input_buffer, 0, 0)
  BY <1>5, PromptSeen
<1>7. Seen(vga, input_buffer, buffer_pos, cursor_pos)
  BY <1>2, <1>6 DEF Init
<1>8. buffer_pos <= MaxLine
  BY TerminalAssumption DEF Init
<1> QED BY <1>7, <1>8, EditInit DEF ScreenInv

(* Every branch of terminal_run leaves the line shown, and all but Enter   *)
(* the other rows as they were.                                            *)
LEMMA ScreenStep ==
  ASSUME Fits, ScreenInv, [Next]_vars
  PROVE  ScreenInv' /\ (UNCHANGED vars \/ RowsKept)
<1>1. EditInv /\ EditInv' /\ buffer_pos <= MaxLine
      /\ Seen(vga, input_buffer, buffer_pos, cursor_pos)
  BY EditStep DEF ScreenInv
<1>2. /\ buffer_pos \in Nat /\ cursor_pos \in Nat /\ cursor_pos <= buffer_pos /\ MaxLine \in Nat
  BY <1>1, TerminalAssumption DEF EditInv, TypeOK, LineTerminated, Buffer
<1>3. ASSUME NEW cur \in 0 .. buffer_pos, MoveTo(cur) PROVE ScreenInv' /\ RowsKept
  <2>1. Seen(vga', input_buffer', buffer_pos', cursor_pos') /\ SameElsewhere(vga, vga')
    BY <1>1, <1>3, MovedSeen
  <2>2. buffer_pos' = buffer_pos
    BY <1>3 DEF MoveTo
  <2> QED BY <1>1, <2>1, <2>2 DEF ScreenInv, RowsKept
<1>4. ASSUME NEW at, DropAt(at) PROVE ScreenInv' /\ RowsKept
  <2>1. /\ buffer_pos' = buffer_pos - 1
        /\ vga' = redraw_input_line(vga, input_buffer', buffer_pos', cursor_pos')
    BY <1>4 DEF DropAt
  <2>2. buffer_pos' <= MaxLine /\ buffer_pos <= buffer_pos' + 1
    BY <1>1, <1>2, <2>1
  <2>3. Seen(vga', input_buffer', buffer_pos', cursor_pos') /\ SameElsewhere(vga, vga')
    BY <1>1, <2>1, <2>2, RedrawnSeen
  <2> QED BY <1>1, <2>2, <2>3 DEF ScreenInv, RowsKept
<1>5. CASE CharLeft
  <2>1. cursor_pos - 1 \in 0 .. buffer_pos /\ MoveTo(cursor_pos - 1)
    BY <1>2, <1>5 DEF CharLeft
  <2> QED BY <1>3, <2>1
<1>6. CASE CharRight
  <2>1. cursor_pos + 1 \in 0 .. buffer_pos /\ MoveTo(cursor_pos + 1)
    BY <1>2, <1>6 DEF CharRight
  <2> QED BY <1>3, <2>1
<1>7. CASE CharDel
  BY <1>4, <1>7 DEF CharDel
<1>8. CASE CharBackspace
  BY <1>4, <1>8 DEF CharBackspace
<1>9. ASSUME NEW ch \in Chars, CharTyped(ch) PROVE ScreenInv' /\ RowsKept
  <2>1. /\ buffer_pos' = buffer_pos + 1 /\ buffer_pos < MaxLine
        /\ vga' = redraw_input_line(vga, input_buffer', buffer_pos', cursor_pos')
    BY <1>9 DEF CharTyped
  <2>2. buffer_pos' <= MaxLine /\ buffer_pos <= buffer_pos' + 1
    BY <1>2, <2>1
  <2>3. Seen(vga', input_buffer', buffer_pos', cursor_pos') /\ SameElsewhere(vga, vga')
    BY <1>1, <2>1, <2>2, RedrawnSeen
  <2> QED BY <1>1, <2>2, <2>3 DEF ScreenInv, RowsKept
<1>10. CASE CharEnter
  <2>1. buffer_pos' = 0 /\ cursor_pos' = 0
    BY <1>10 DEF CharEnter, clear_buffer
  <2>2. PICK next : next = vga_putchar(vga, "NL")
    OBVIOUS
  <2>3. \/ vga' = vga_write(next, TERMINAL_PROMPT)
        \/ \E v \in Outputs(next) : vga' = vga_write(v, TERMINAL_PROMPT)
    BY <1>10, <2>2 DEF CharEnter
  <2>4. PICK v : Ready(v) /\ vga' = vga_write(v, TERMINAL_PROMPT)
    BY <1>1, <2>2, <2>3, EnterReady
  <2>5. Seen(vga', input_buffer', 0, 0)
    BY <2>4, PromptSeen
  <2>6. 0 <= MaxLine
    BY <1>2
  <2> QED BY <1>1, <1>10, <2>1, <2>5, <2>6 DEF ScreenInv, RowsKept
<1>11. CASE UNCHANGED vars
  <2>1. /\ vga' = vga /\ input_buffer' = input_buffer
        /\ buffer_pos' = buffer_pos /\ cursor_pos' = cursor_pos
    BY <1>11 DEF vars, edit
  <2>2. Seen(vga', input_buffer', buffer_pos', cursor_pos')
    BY <1>1, <2>1
  <2> QED BY <1>1, <1>11, <2>1, <2>2 DEF ScreenInv
<1> QED BY <1>5, <1>6, <1>7, <1>8, <1>9, <1>10, <1>11 DEF Next

(* The picture is what ScreenShowsLine says in terms of cells.             *)
LEMMA SeenIsShown ==
  ASSUME ScreenInv
  PROVE  ScreenShowsLine
<1>1. PICK p \in Pictures, y \in Rows :
        /\ vga = Shot(p, prompt_length + cursor_pos, y)
        /\ RowShows(p, y, input_buffer, buffer_pos)
  BY DEF ScreenInv, Seen
<1>2. /\ vga.cells = p /\ vga.cursor_x = prompt_length + cursor_pos /\ vga.cursor_y = y
      /\ vga.inside = Inside
  BY <1>1 DEF Shot
<1>3. vga.inside
  BY <1>2, Zenon DEF Inside
<1>4. \A x \in 0 .. VGA_WIDTH - 1 :
        Cell(x, y) = IF x < prompt_length THEN TERMINAL_PROMPT[x + 1]
                     ELSE IF x < prompt_length + buffer_pos THEN input_buffer[x - prompt_length]
                     ELSE Blank
  BY <1>1, <1>2 DEF RowShows, Cell, Columns
<1> QED BY <1>2, <1>3, <1>4, Zenon DEF ScreenShowsLine, Rows, Blank

(* For every screen, prompt and buffer in which a line cannot reach the    *)
(* last two columns of its row, what terminal_run has drawn is the line it *)
(* is editing: the row of the cursor shows the prompt, input_buffer and    *)
(* then blanks, with the cursor where the next character goes.             *)
THEOREM ScreenFollowsLine ==
  ASSUME prompt_length + MaxLine <= VGA_WIDTH - 2
  PROVE  Spec => []ScreenShowsLine
<1>0. Fits
  BY DEF Fits
<1>1. Init => ScreenInv
  BY <1>0, ScreenInit
<1>2. ScreenInv /\ [Next]_vars => ScreenInv'
  BY <1>0, ScreenStep
<1>3. ScreenInv => ScreenShowsLine
  BY SeenIsShown
<1> QED BY <1>1, <1>2, <1>3, PTL DEF Spec

(* Under the same condition, editing a line changes no other row and does  *)
(* not move the cursor off its row: only Enter does.                       *)
THEOREM EditingKeepsRows ==
  ASSUME prompt_length + MaxLine <= VGA_WIDTH - 2
  PROVE  Spec => OtherRowsKept
<1>0. Fits
  BY DEF Fits
<1>1. Init => ScreenInv
  BY <1>0, ScreenInit
<1>2. ScreenInv /\ [Next]_vars => ScreenInv'
  BY <1>0, ScreenStep
<1>3. ScreenInv /\ [Next]_vars =>
        [\/ CharEnter
         \/ /\ vga'.cursor_y = vga.cursor_y
            /\ \A at \in Cells : at \div VGA_WIDTH # vga.cursor_y =>
                 vga'.cells[at] = vga.cells[at]]_vars
  BY <1>0, ScreenStep DEF RowsKept, SameElsewhere
<1> QED BY <1>1, <1>2, <1>3, PTL DEF Spec, OtherRowsKept
===============================================================================
