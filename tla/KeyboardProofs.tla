--------------------------- MODULE KeyboardProofs ---------------------------
(***************************************************************************)
(* Proofs about Keyboard, for every set of keys, size of the controller's  *)
(* queue and number of presses.                                            *)
(*                                                                         *)
(* The codes that wait in the controller decide what the driver will do    *)
(* when it reads them.  The argument foretells it: the state the driver    *)
(* will be in, and the characters it will have returned, once the queue is *)
(* empty.  Reading a code changes nothing in that forecast but its         *)
(* beginning; pressing, releasing and repeating a key only its end.        *)
(***************************************************************************)
EXTENDS Keyboard, Induction, SequenceTheorems, TLAPS

Heads == CharKeys \cup Mutes \cup {NoKey}
Sent == {Make(k) : k \in Keys} \cup {Break(k) : k \in Keys \cup {Prefix}}

(* What reading depends on: the driver's two memories, and the keys that   *)
(* are down as far as the codes read tell.                                 *)
States == [last : Heads, shift : BOOLEAN, held : SUBSET Keys]
Characters == [key : CharKeys, shifted : BOOLEAN]

NextLast(last, b) ==
  IF b.key \in Shifts THEN last
  ELSE IF ~b.up THEN b.key
  ELSE IF b.key = last THEN NoKey ELSE last

After(st, b) ==
  [last  |-> NextLast(st.last, b),
   shift |-> IF b.key \in Shifts THEN ~b.up ELSE st.shift,
   held  |-> IF b.up THEN st.held \ {b.key} ELSE st.held \cup {b.key}]

(* The character keyboard_read returns for the code b, if any.             *)
Starts(last, b) == ~b.up /\ b.key \in CharKeys /\ b.key # last

Typed(b, shift) == [key |-> b.key, shifted |-> b.key \in Letters /\ shift]

Emits(st, b) == IF Starts(st.last, b) THEN <<Typed(b, st.shift)>> ELSE << >>

(* The states g the driver goes through on the codes q, and what is still  *)
(* to be returned at each of them.                                         *)
Reads(q, g, w) ==
  /\ g \in [0 .. Len(q) -> States] /\ w \in [0 .. Len(q) -> Seq(Characters)]
  /\ w[Len(q)] = << >>
  /\ \A n \in 1 .. Len(q) : g[n] = After(g[n - 1], q[n])
  /\ \A n \in 1 .. Len(q) : w[n - 1] = Emits(g[n - 1], q[n]) \o w[n]

Foretells(q, st, e, w) ==
  \E g, v : Reads(q, g, v) /\ g[0] = st /\ g[Len(q)] = e /\ v[0] = w

-----------------------------------------------------------------------------
(***************************************************************************)
(* The forecast.                                                           *)
(***************************************************************************)
(* What a code tells.                                                      *)
LEMMA SentFields ==
  ASSUME NEW b \in Sent
  PROVE  /\ b.up \in BOOLEAN /\ b.key \in Keys \cup {Prefix}
         /\ ~b.up => b.key \in Keys
         /\ b.key \notin Shifts => b.key \in CharKeys \cup Mutes \cup {Prefix}
         /\ b.up => b = Break(b.key)
         /\ ~b.up => b = Make(b.key)
<1>1. ASSUME NEW k \in Keys, b = Make(k) PROVE b.key = k /\ b.up = FALSE
  BY <1>1 DEF Make
<1>2. ASSUME NEW k \in Keys \cup {Prefix}, b = Break(k) PROVE b.key = k /\ b.up = TRUE
  BY <1>2 DEF Break
<1>3. (\E k \in Keys : b = Make(k)) \/ (\E k \in Keys \cup {Prefix} : b = Break(k))
  BY DEF Sent
<1>4. CASE \E k \in Keys : b = Make(k)
  <2>1. PICK k \in Keys : b = Make(k)
    BY <1>4
  <2> QED BY <1>1, <2>1, Zenon DEF Keys
<1>5. CASE \E k \in Keys \cup {Prefix} : b = Break(k)
  <2>1. PICK k \in Keys \cup {Prefix} : b = Break(k)
    BY <1>5
  <2> QED BY <1>2, <2>1, Zenon DEF Keys
<1> QED BY <1>3, <1>4, <1>5

(* Reading a code leaves a state and returns characters.                   *)
LEMMA AfterType ==
  ASSUME NEW st \in States, NEW b \in Sent
  PROVE  After(st, b) \in States /\ Emits(st, b) \in Seq(Characters)
<1>1. st.last \in Heads /\ st.shift \in BOOLEAN /\ st.held \in SUBSET Keys
  BY DEF States
<1>2. NextLast(st.last, b) \in Heads
  <2>1. b.key \notin Shifts /\ ~b.up => b.key \in Heads
    BY SentFields, KeyboardAssumption DEF Heads, Keys
  <2> QED BY <1>1, <2>1 DEF NextLast, Heads
<1>3. After(st, b).shift \in BOOLEAN
  BY <1>1, Zenon DEF After
<1>4. After(st, b).held \in SUBSET Keys
  BY <1>1, SentFields DEF After
<1>5. After(st, b) \in States
  BY <1>2, <1>3, <1>4 DEF After, States
<1>6. Starts(st.last, b) => Typed(b, st.shift) \in Characters
  BY DEF Starts, Typed, Characters
<1>7. Emits(st, b) \in Seq(Characters)
  BY <1>6 DEF Emits
<1> QED BY <1>5, <1>7

(* A forecast consists of states and characters.                           *)
LEMMA ForetellsType ==
  ASSUME NEW q \in Seq(Sent), NEW st, NEW e, NEW w, Foretells(q, st, e, w)
  PROVE  st \in States /\ e \in States /\ w \in Seq(Characters)
<1>1. Len(q) \in Nat
  BY LenProperties
<1>2. 0 \in 0 .. Len(q) /\ Len(q) \in 0 .. Len(q)
  BY <1>1
<1> QED BY <1>2 DEF Foretells, Reads

(* Nothing is foretold of an empty queue,                                  *)
LEMMA ReadNothing ==
  ASSUME NEW st \in States
  PROVE  Foretells(<< >>, st, st, << >>)
<1>1. PICK g : g = [n \in 0 .. 0 |-> st]
  BY Zenon
<1>2. PICK v : v = [n \in 0 .. 0 |-> << >>]
  BY Zenon
<1>3. Reads(<< >>, g, v)
  <2>1. << >> \in Seq(Characters) /\ Len(<< >>) = 0 /\ \A n \in 1 .. 0 : FALSE
    OBVIOUS
  <2> QED BY <1>1, <1>2, <2>1 DEF Reads
<1>4. g[0] = st /\ v[0] = << >> /\ Len(<< >>) = 0
  BY <1>1, <1>2
<1> QED BY <1>3, <1>4 DEF Foretells

(* and nothing else is.                                                    *)
LEMMA NothingRead ==
  ASSUME NEW st, NEW e, NEW w, Foretells(<< >>, st, e, w)
  PROVE  e = st /\ w = << >>
<1>1. PICK g, v : /\ v[Len(<< >>)] = << >> /\ g[0] = st /\ g[Len(<< >>)] = e /\ v[0] = w
  BY DEF Foretells, Reads
<1>2. Len(<< >>) = 0
  OBVIOUS
<1> QED BY <1>1, <1>2

(* Concatenation is associative.                                           *)
LEMMA Associative ==
  ASSUME NEW r \in Seq(Characters), NEW s \in Seq(Characters), NEW t \in Seq(Characters)
  PROVE  (r \o s) \o t = r \o (s \o t)
  BY ConcatAssociative

(* One code more at the end.                                               *)
LEMMA ReadOneMore ==
  ASSUME NEW q \in Seq(Sent), NEW st, NEW e, NEW w, Foretells(q, st, e, w), NEW b \in Sent
  PROVE  Foretells(Append(q, b), st, After(e, b), w \o Emits(e, b))
<1>1. PICK g, v : Reads(q, g, v) /\ g[0] = st /\ g[Len(q)] = e /\ v[0] = w
  BY DEF Foretells
<1>2. PICK len \in Nat : len = Len(q)
  BY LenProperties
<1>3. PICK q1 : q1 = Append(q, b)
  BY Zenon
<1>4. Len(q1) = len + 1 /\ q1[len + 1] = b /\ \A n \in 1 .. len : q1[n] = q[n]
  BY <1>2, <1>3, AppendProperties
<1>5. /\ g \in [0 .. len -> States] /\ v \in [0 .. len -> Seq(Characters)] /\ v[len] = << >>
      /\ \A n \in 1 .. len : g[n] = After(g[n - 1], q[n])
      /\ \A n \in 1 .. len : v[n - 1] = Emits(g[n - 1], q[n]) \o v[n]
  BY <1>1, <1>2, Zenon DEF Reads
<1>6. e \in States /\ After(e, b) \in States
  BY <1>1, <1>2, <1>5, AfterType
<1>7. PICK c \in Seq(Characters) : c = Emits(e, b)
  BY <1>6, AfterType
<1>8. PICK g1 : g1 = [n \in 0 .. len + 1 |-> IF n = len + 1 THEN After(e, b) ELSE g[n]]
  BY Zenon
<1>9. PICK v1 : v1 = [n \in 0 .. len + 1 |-> IF n = len + 1 THEN << >> ELSE v[n] \o c]
  BY Zenon
<1>10. \A n \in 0 .. len : n \in 0 .. len + 1 /\ n # len + 1
  OBVIOUS
<1>11. \A n \in 0 .. len : g1[n] = g[n] /\ v1[n] = v[n] \o c
  BY <1>8, <1>9, <1>10
<1>12. g1[len + 1] = After(e, b) /\ v1[len + 1] = << >>
  BY <1>8, <1>9
<1>13. g1 \in [0 .. len + 1 -> States]
  BY <1>5, <1>6, <1>8
<1>14. v1 \in [0 .. len + 1 -> Seq(Characters)]
  <2>1. \A n \in 0 .. len : v[n] \o c \in Seq(Characters)
    BY <1>5, <1>7, ConcatProperties
  <2>2. << >> \in Seq(Characters)
    OBVIOUS
  <2> QED BY <1>9, <2>1, <2>2
<1>15. ASSUME NEW n \in 1 .. len + 1
       PROVE  g1[n] = After(g1[n - 1], q1[n]) /\ v1[n - 1] = Emits(g1[n - 1], q1[n]) \o v1[n]
  <2>1. CASE n = len + 1
    <3>1. n - 1 = len /\ len \in 0 .. len
      BY <2>1
    <3>2. g1[n - 1] = e /\ v1[n - 1] = << >> \o c
      BY <1>1, <1>2, <1>5, <1>11, <3>1, Zenon
    <3>3. << >> \o c = c /\ c \o << >> = c
      BY ConcatEmptySeq
    <3> QED BY <1>4, <1>7, <1>12, <2>1, <3>2, <3>3, Zenon
  <2>2. CASE n # len + 1
    <3>1. n \in 1 .. len /\ n \in 0 .. len /\ n - 1 \in 0 .. len
      BY <2>2
    <3>2. g1[n] = After(g1[n - 1], q1[n])
      BY <1>4, <1>5, <1>11, <3>1, Zenon
    <3>3. PICK m \in 0 .. len : m = n - 1
      BY <3>1
    <3>4. PICK d : d = Emits(g[m], q[n])
      OBVIOUS
    <3>5. v[m] = d \o v[n] /\ d = Emits(g1[n - 1], q1[n])
      BY <1>4, <1>5, <1>11, <3>1, <3>3, <3>4, Zenon
    <3>6. d \in Seq(Characters)
      <4>1. g[m] \in States /\ q[n] \in Sent
        BY <1>2, <1>5, <3>1, ElementOfSeq, Zenon
      <4> QED BY <3>4, <4>1, AfterType
    <3>7. v[n] \in Seq(Characters)
      BY <1>5, <3>1
    <3>8. (d \o v[n]) \o c = d \o (v[n] \o c)
      <4>1. PICK t \in Seq(Characters) : t = v[n]
        BY <3>7
      <4>2. (d \o t) \o c = d \o (t \o c)
        BY <3>6, Associative, Zenon
      <4> QED BY <4>1, <4>2
    <3> QED BY <1>11, <3>1, <3>2, <3>3, <3>5, <3>8, Zenon
  <2> QED BY <2>1, <2>2, Zenon
<1>16. Reads(q1, g1, v1)
  BY <1>4, <1>12, <1>13, <1>14, <1>15, Zenon DEF Reads
<1>17. g1[0] = st /\ g1[Len(q1)] = After(e, b) /\ v1[0] = w \o Emits(e, b)
  <2>1. 0 \in 0 .. len
    OBVIOUS
  <2>2. g1[0] = g[0] /\ v1[0] = v[0] \o c
    BY <1>11, <2>1
  <2> QED BY <1>1, <1>4, <1>7, <1>12, <2>2
<1> QED BY <1>3, <1>16, <1>17 DEF Foretells

(* The first code is read.                                                 *)
LEMMA ReadFirst ==
  ASSUME NEW q \in Seq(Sent), q # << >>, NEW st, NEW e, NEW w, Foretells(q, st, e, w)
  PROVE  \E v \in Seq(Characters) :
           w = Emits(st, Head(q)) \o v /\ Foretells(Tail(q), After(st, Head(q)), e, v)
<1>1. PICK g, v : Reads(q, g, v) /\ g[0] = st /\ g[Len(q)] = e /\ v[0] = w
  BY DEF Foretells
<1>2. PICK len \in Nat : len + 1 = Len(q)
  <2>1. Len(q) \in Nat /\ Len(q) # 0
    BY LenProperties, EmptySeq
  <2>2. Len(q) - 1 \in Nat /\ Len(q) - 1 + 1 = Len(q)
    BY <2>1
  <2> QED BY <2>2, Zenon
<1>3. PICK q1 : q1 = Tail(q)
  BY Zenon
<1>4. Len(q1) = len /\ Head(q) = q[1] /\ \A n \in 1 .. len : q1[n] = q[n + 1]
  <2>1. Len(q1) = Len(q) - 1 /\ \A n \in 1 .. Len(q1) : q1[n] = q[n + 1]
    BY <1>3, HeadTailProperties
  <2> QED BY <1>2, <2>1, HeadTailProperties
<1>5. /\ g \in [0 .. len + 1 -> States] /\ v \in [0 .. len + 1 -> Seq(Characters)]
      /\ v[len + 1] = << >>
      /\ \A n \in 1 .. len + 1 : g[n] = After(g[n - 1], q[n])
      /\ \A n \in 1 .. len + 1 : v[n - 1] = Emits(g[n - 1], q[n]) \o v[n]
  BY <1>1, <1>2, Zenon DEF Reads
<1>6. PICK g1 : g1 = [n \in 0 .. len |-> g[n + 1]]
  BY Zenon
<1>7. PICK v1 : v1 = [n \in 0 .. len |-> v[n + 1]]
  BY Zenon
<1>8. \A n \in 0 .. len : n + 1 \in 0 .. len + 1
  OBVIOUS
<1>9. g1 \in [0 .. len -> States] /\ v1 \in [0 .. len -> Seq(Characters)]
  BY <1>5, <1>6, <1>7, <1>8, Zenon
<1>10. ASSUME NEW n \in 1 .. len
       PROVE  g1[n] = After(g1[n - 1], q1[n]) /\ v1[n - 1] = Emits(g1[n - 1], q1[n]) \o v1[n]
  <2>1. PICK m \in 1 .. len + 1 : m = n + 1 /\ m - 1 = n
    OBVIOUS
  <2>2. n \in 0 .. len /\ n - 1 \in 0 .. len /\ n - 1 + 1 = n
    OBVIOUS
  <2>3. g1[n] = g[m] /\ g1[n - 1] = g[n] /\ v1[n] = v[m] /\ v1[n - 1] = v[n] /\ q1[n] = q[m]
    BY <1>4, <1>6, <1>7, <2>1, <2>2
  <2>4. g[m] = After(g[m - 1], q[m]) /\ v[m - 1] = Emits(g[m - 1], q[m]) \o v[m]
    BY <1>5, Zenon
  <2> QED BY <2>1, <2>3, <2>4, Zenon
<1>11. v1[len] = << >> /\ g1[len] = e
  <2>1. len \in 0 .. len
    OBVIOUS
  <2>2. g1[len] = g[len + 1] /\ v1[len] = v[len + 1]
    BY <1>6, <1>7, <2>1
  <2> QED BY <1>1, <1>2, <1>5, <2>2, Zenon
<1>12. Reads(q1, g1, v1)
  BY <1>4, <1>9, <1>10, <1>11, Zenon DEF Reads
<1>13. g1[0] = g[1] /\ v1[0] = v[1] /\ 1 - 1 = 0 /\ 1 \in 1 .. len + 1 /\ 0 \in 0 .. len
  BY <1>6, <1>7
<1>14. g1[0] = After(st, Head(q)) /\ w = Emits(st, Head(q)) \o v1[0]
  BY <1>1, <1>4, <1>5, <1>13, Zenon
<1>15. Foretells(q1, After(st, Head(q)), e, v1[0])
  BY <1>4, <1>11, <1>12, <1>14 DEF Foretells
<1>16. v1[0] \in Seq(Characters)
  BY <1>9, <1>13
<1> QED BY <1>3, <1>14, <1>15, <1>16, Zenon

-----------------------------------------------------------------------------
(***************************************************************************)
(* Counting the characters of a key in a sequence of them.                 *)
(***************************************************************************)
Owes(s, k) == {n \in 1 .. Len(s) : s[n].key = k}
Count(s, k) ==
  LET count[n \in 0 .. Len(s)] == IF n = 0 THEN 0 ELSE count[n - 1] + (IF s[n].key = k THEN 1 ELSE 0)
  IN  count[Len(s)]

(* What is left when one element is taken out.                             *)
LEMMA RemovedAt ==
  ASSUME NEW S, NEW s \in Seq(S), NEW i \in 1 .. Len(s)
  PROVE  /\ Removed(s, i) \in Seq(S) /\ Len(Removed(s, i)) = Len(s) - 1
         /\ \A k \in 1 .. Len(s) - 1 :
              Removed(s, i)[k] = IF k < i THEN s[k] ELSE s[k + 1]
<1> DEFINE n == Len(s)
<1>0. n \in Nat \ {0} /\ s \in [1 .. n -> S] /\ i \in 1 .. n
  BY LenProperties
<1> HIDE DEF n
<1> DEFINE a == SubSeq(s, 1, i - 1)
           c == SubSeq(s, i + 1, n)
<1>1. a \in Seq(S) /\ Len(a) = i - 1 /\ \A k \in 1 .. i - 1 : a[k] = s[k]
  <2>1. \A k \in 1 .. i - 1 : s[k] \in S
    BY <1>0
  <2>2. 1 \in Int /\ i - 1 \in Int
    BY <1>0
  <2> QED BY <1>0, <2>1, <2>2, SubSeqProperties
<1>2. c \in Seq(S) /\ Len(c) = n - i /\ \A k \in 1 .. n - i : c[k] = s[i + k]
  <2>1. \A k \in i + 1 .. n : s[k] \in S
    BY <1>0
  <2> QED BY <1>0, <2>1, SubSeqProperties
<1> HIDE DEF a, c
<1>3. /\ a \o c \in Seq(S) /\ Len(a \o c) = Len(a) + Len(c)
      /\ \A k \in 1 .. Len(a) + Len(c) :
           (a \o c)[k] = IF k <= Len(a) THEN a[k] ELSE c[k - Len(a)]
  BY <1>0, <1>1, <1>2, ConcatProperties, ZenonT(30)
<1>4. Len(a) + Len(c) = n - 1
  BY <1>0, <1>1, <1>2
<1>5. ASSUME NEW k \in 1 .. n - 1
      PROVE  (a \o c)[k] = IF k < i THEN s[k] ELSE s[k + 1]
  <2>1. CASE k < i
    <3>1. (a \o c)[k] = a[k] /\ k \in 1 .. i - 1
      BY <1>0, <1>1, <1>3, <1>4, <2>1
    <3> QED BY <1>0, <1>1, <2>1, <3>1
  <2>2. CASE ~(k < i)
    <3>1. (a \o c)[k] = c[k - (i - 1)] /\ k - (i - 1) \in 1 .. n - i
      BY <1>0, <1>1, <1>3, <1>4, <2>2
    <3>2. c[k - (i - 1)] = s[i + (k - (i - 1))] /\ i + (k - (i - 1)) = k + 1
      BY <1>0, <1>2, <3>1
    <3> QED BY <2>2, <3>1, <3>2
  <2> QED BY <2>1, <2>2, Zenon
<1>6. Removed(s, i) = a \o c
  BY <1>0 DEF Removed, a, c, n
<1> QED BY <1>3, <1>4, <1>5, <1>6 DEF n

(* c[n] of the first n characters are of the key.                          *)
Tally(c, s, k, n) ==
  /\ c \in [0 .. n -> Nat] /\ c[0] = 0
  /\ \A j \in 1 .. n : c[j] = c[j - 1] + (IF s[j].key = k THEN 1 ELSE 0)

(* Count is the last of them.                                              *)
Counted(s, k, n) == \E c : Tally(c, s, k, n) /\ Count(s, k) = c[n]

(* That is how Count counts.                                               *)
LEMMA CountUnfolds ==
  ASSUME NEW s, NEW k, NEW n \in Nat, n = Len(s)
  PROVE  Counted(s, k, n)
<1> DEFINE V(j) == IF s[j].key = k THEN 1 ELSE 0
           G == [j \in 1 .. n |-> [m \in Nat |-> m + V(j)]]
           Is(f) == f = [j \in 0 .. Len(s) |-> IF j = 0 THEN 0 ELSE f[j - 1] + (IF s[j].key = k THEN 1 ELSE 0)]
<1>1. \A j : V(j) \in Nat
  OBVIOUS
<1> HIDE DEF V
<1>2. \A j \in 1 .. n : \A m \in Nat : G[j][m] = m + V(j) /\ G[j][m] \in Nat
  BY <1>1
<1>3. PICK f : Follows(f, n, Nat, 0, G)
  <2>1. \A j \in 1 .. n : \A m \in Nat : G[j][m] \in Nat
    BY <1>2, Zenon
  <2>2. 0 \in Nat
    OBVIOUS
  <2> HIDE DEF G
  <2> QED BY <2>1, <2>2, RecursionExists, Zenon
<1>4. f \in [0 .. n -> Nat] /\ f[0] = 0
  BY <1>3 DEF Follows
<1>5. ASSUME NEW j \in 1 .. n PROVE f[j] = f[j - 1] + V(j)
  <2>1. f[j - 1] \in Nat
    BY <1>4
  <2>2. f[j] = G[j][f[j - 1]]
    BY <1>3 DEF Follows
  <2> HIDE DEF G
  <2> QED BY <1>2, <2>1, <2>2, Zenon
<1>6. Is(f)
  <2>1. ASSUME NEW j \in 0 .. n PROVE f[j] = IF j = 0 THEN 0 ELSE f[j - 1] + V(j)
    <3>1. CASE j = 0
      BY <1>4, <3>1
    <3>2. CASE j # 0
      BY <1>5, <3>2
    <3> QED BY <3>1, <3>2
  <2>2. f = [j \in 0 .. n |-> IF j = 0 THEN 0 ELSE f[j - 1] + V(j)]
    BY <1>4, <2>1
  <2> QED BY <2>2 DEF V
<1>7. PICK c : c = CHOOSE g : Is(g)
  OBVIOUS
<1>8. Is(c)
  <2> HIDE DEF Is
  <2> QED BY <1>6, <1>7, Zenon
<1>9. c = [j \in 0 .. n |-> IF j = 0 THEN 0 ELSE c[j - 1] + V(j)]
  BY <1>8 DEF V
<1>10. \A j \in 0 .. n : c[j] = f[j]
  <2>1. c[0] = 0 /\ \A j \in 1 .. n : c[j] = c[j - 1] + V(j)
    BY <1>9
  <2>2. InStep(c, f, n)
    BY <1>5, <2>1, Zenon DEF InStep
  <2>3. c[0] = f[0]
    BY <1>4, <2>1, Zenon
  <2> QED BY <2>2, <2>3, InStepAgree
<1>11. c = f
  BY <1>4, <1>9, <1>10
<1>12. Tally(f, s, k, n)
  BY <1>4, <1>5 DEF Tally, V
<1>13. Count(s, k) = c[n]
  BY <1>7 DEF Count
<1> QED BY <1>11, <1>12, <1>13, Zenon DEF Counted

(* A key is owed more than never if it is owed.                            *)
LEMMA OwesCounted ==
  ASSUME NEW s \in Seq(Characters), NEW k
  PROVE  /\ Count(s, k) \in Nat
         /\ Count(s, k) > 0 <=> Owes(s, k) # {}
<1>1. PICK n \in Nat : n = Len(s)
  BY LenProperties
<1>2. PICK c : Tally(c, s, k, n) /\ Count(s, k) = c[n]
  BY <1>1, CountUnfolds, Zenon DEF Counted
<1>3. c \in [0 .. n -> Nat] /\ c[0] = 0
  BY <1>2, Zenon DEF Tally
<1> DEFINE T == {m \in 0 .. n : c[m] > 0 <=> \E j \in 1 .. m : s[j].key = k}
<1>4. 0 \in T
  <2>1. ~ (c[0] > 0) /\ \A j \in 1 .. 0 : FALSE
    BY <1>3
  <2> QED BY <2>1
<1>5. ASSUME NEW m \in 0 .. n - 1, m \in T PROVE m + 1 \in T
  <2>1. PICK i \in 1 .. n : i = m + 1 /\ i - 1 = m
    OBVIOUS
  <2>2. PICK u \in Nat, v \in Nat : u = c[m] /\ v = c[i]
    BY <1>3
  <2>3. v = u + (IF s[i].key = k THEN 1 ELSE 0)
    BY <1>2, <2>1, <2>2, Zenon DEF Tally
  <2>4. v > 0 <=> u > 0 \/ s[i].key = k
    BY <2>2, <2>3
  <2>5. \A j : j \in 1 .. i <=> j \in 1 .. m \/ j = i
    BY <2>1
  <2>6. (\E j \in 1 .. i : s[j].key = k) <=> (\E j \in 1 .. m : s[j].key = k) \/ s[i].key = k
    BY <2>5, Zenon
  <2>7. u > 0 <=> \E j \in 1 .. m : s[j].key = k
    BY <1>5, <2>2, Zenon
  <2>8. c[i] > 0 <=> \E j \in 1 .. i : s[j].key = k
    BY <2>2, <2>4, <2>6, <2>7, Zenon
  <2>9. m + 1 \in 0 .. n
    OBVIOUS
  <2> QED BY <2>1, <2>8, <2>9, Zenon
<1> HIDE DEF T
<1>6. n \in T
  <2>1. \A m \in 0 .. n - 1 : m \in T => m + 1 \in T
    BY <1>5, Zenon
  <2>2. 0 .. n \subseteq T
    BY <1>4, <2>1, InductiveUpTo, Zenon
  <2> QED BY <2>2
<1>7. c[n] > 0 <=> \E j \in 1 .. n : s[j].key = k
  BY <1>6 DEF T
<1>8. (\E j \in 1 .. n : s[j].key = k) <=> Owes(s, k) # {}
  BY <1>1, Zenon DEF Owes
<1> QED BY <1>2, <1>3, <1>7, <1>8

(* The sequence s has the characters of t and c.                           *)
More(s, t, c, k) == Count(s, k) = IF c.key = k THEN Count(t, k) + 1 ELSE Count(t, k)

(* One character taken out.                                                *)
LEMMA CountRemoved ==
  ASSUME NEW s \in Seq(Characters), NEW i \in 1 .. Len(s), NEW k,
         NEW t \in Seq(Characters), t = Removed(s, i)
  PROVE  More(s, t, s[i], k)
<1>1. PICK len \in Nat : len = Len(s)
  BY LenProperties
<1>2. Len(t) = len - 1 /\ \A n \in 1 .. len - 1 : t[n] = IF n < i THEN s[n] ELSE s[n + 1]
  BY <1>1, RemovedAt
<1>3. PICK c : Tally(c, s, k, len) /\ Count(s, k) = c[len]
  BY <1>1, CountUnfolds, Zenon DEF Counted
<1>4. PICK less \in Nat : less = len - 1 /\ less = Len(t) /\ i \in 1 .. less + 1 /\ len = less + 1
  <2>1. i \in 1 .. len
    BY <1>1
  <2>2. len - 1 \in Nat /\ len = len - 1 + 1 /\ Len(t) = len - 1
    BY <1>2, <2>1
  <2> QED BY <2>1, <2>2
<1>5. PICK d : Tally(d, t, k, less) /\ Count(t, k) = d[less]
  <2>1. less = Len(t)
    BY <1>4
  <2>2. Counted(t, k, less)
    BY <2>1, CountUnfolds, Zenon
  <2> QED BY <2>2, Zenon DEF Counted
<1>6. /\ c \in [0 .. less + 1 -> Nat] /\ c[0] = 0
      /\ d \in [0 .. less -> Nat] /\ d[0] = 0
  BY <1>3, <1>4, <1>5, Zenon DEF Tally
<1> DEFINE One(j) == IF s[j].key = k THEN 1 ELSE 0
<1>7. /\ \A j \in 1 .. less + 1 : c[j] = c[j - 1] + One(j)
      /\ \A j \in 1 .. less : d[j] = d[j - 1] + (IF j < i THEN One(j) ELSE One(j + 1))
      /\ \A j : One(j) \in {0, 1}
  <2>1. \A j \in 1 .. less + 1 : c[j] = c[j - 1] + One(j)
    BY <1>3, <1>4, Zenon DEF Tally
  <2>2. ASSUME NEW j \in 1 .. less PROVE d[j] = d[j - 1] + (IF j < i THEN One(j) ELSE One(j + 1))
    <3>1. d[j] = d[j - 1] + (IF t[j].key = k THEN 1 ELSE 0)
      BY <1>5, Zenon DEF Tally
    <3>2. t[j] = IF j < i THEN s[j] ELSE s[j + 1]
      BY <1>2, <1>4, Zenon
    <3> QED BY <3>1, <3>2, Zenon
  <2> QED BY <2>1, <2>2
<1>8. One(i) = IF s[i].key = k THEN 1 ELSE 0
  OBVIOUS
<1> HIDE DEF One
<1> DEFINE T == {m \in 0 .. less : d[m] = IF m < i THEN c[m] ELSE c[m + 1] - One(i)}
<1>9. 0 \in T
  BY <1>4, <1>6
<1>10. ASSUME NEW m \in 0 .. less - 1, m \in T PROVE m + 1 \in T
  <2>1. PICK j \in 1 .. less : j = m + 1 /\ j - 1 = m /\ j + 1 \in 1 .. less + 1 /\ j + 1 - 1 = j /\ j \in 1 .. less + 1
    BY <1>4
  <2>2. PICK c0 \in Nat, c1 \in Nat, c2 \in Nat, d0 \in Nat, d1 \in Nat :
          c0 = c[m] /\ c1 = c[j] /\ c2 = c[j + 1] /\ d0 = d[m] /\ d1 = d[j]
    <3>1. m \in 0 .. less + 1 /\ j \in 0 .. less + 1 /\ j + 1 \in 0 .. less + 1 /\ m \in 0 .. less /\ j \in 0 .. less
      BY <2>1
    <3>2. c[m] \in Nat /\ c[j] \in Nat /\ c[j + 1] \in Nat /\ d[m] \in Nat /\ d[j] \in Nat
      BY <1>6, <3>1
    <3> QED BY <3>2, Zenon
  <2>3. PICK one \in {0, 1}, two \in {0, 1}, out \in {0, 1} : one = One(j) /\ two = One(j + 1) /\ out = One(i)
    BY <1>7, Zenon
  <2>4. c1 = c0 + one /\ c2 = c1 + two /\ d1 = d0 + (IF j < i THEN one ELSE two)
    <3>1. c[j] = c[j - 1] + One(j) /\ c[j + 1] = c[j + 1 - 1] + One(j + 1)
      BY <1>7, <2>1
    <3>2. d[j] = d[j - 1] + (IF j < i THEN One(j) ELSE One(j + 1))
      BY <1>7, Zenon
    <3>3. j - 1 = m /\ j + 1 - 1 = j
      BY <2>1, Zenon
    <3> QED BY <2>2, <2>3, <3>1, <3>2, <3>3, Zenon
  <2>5. d0 = IF m < i THEN c0 ELSE c1 - out
    BY <1>10, <2>1, <2>2, <2>3, Zenon
  <2>6. j = i => one = out
    BY <2>3, Zenon
  <2>7. d1 = IF j < i THEN c1 ELSE c2 - out
    BY <1>4, <2>1, <2>4, <2>5, <2>6
  <2>8. j \in 0 .. less
    BY <2>1
  <2> QED BY <2>1, <2>2, <2>3, <2>7, <2>8, Zenon
<1> HIDE DEF T
<1>11. less \in T
  <2>1. \A m \in 0 .. less - 1 : m \in T => m + 1 \in T
    BY <1>10, Zenon
  <2>2. 0 .. less \subseteq T
    BY <1>9, <2>1, InductiveUpTo, Zenon
  <2> QED BY <2>2
<1>12. PICK a \in Nat, b \in Nat, z \in Nat, e \in {0, 1} :
         a = c[less + 1] /\ b = d[less] /\ z = c[less] /\ e = One(i)
  BY <1>6, <1>7
<1>13. b = IF less < i THEN z ELSE a - e
  BY <1>11, <1>12, Zenon DEF T
<1>14. i = less + 1 => a = z + e
  <2>1. PICK j \in 1 .. less + 1 : j = less + 1 /\ j - 1 = less
    BY <1>4
  <2>2. c[j] = c[j - 1] + One(j)
    BY <1>7, Zenon
  <2> QED BY <1>12, <2>1, <2>2, Zenon
<1>15. a = b + e
  BY <1>4, <1>12, <1>13, <1>14
<1>16. a = IF s[i].key = k THEN b + 1 ELSE b
  BY <1>8, <1>12, <1>15
<1> QED BY <1>3, <1>4, <1>5, <1>12, <1>16, Zenon DEF More

(* A character at the end and at the front.                                *)
LEMMA AtEnd ==
  ASSUME NEW w \in Seq(Characters), NEW c \in Characters, NEW r, r = w \o <<c>>
  PROVE  /\ r \in Seq(Characters) /\ Len(r) = Len(w) + 1 /\ r = Append(w, c)
         /\ r[Len(w) + 1] = c /\ \A n \in 1 .. Len(w) : r[n] = w[n]
         /\ \A k : More(r, w, c, k)
<1>1. PICK len \in Nat : len = Len(w)
  BY LenProperties
<1>2. r = Append(w, c)
  BY AppendIsConcat
<1>3. r \in Seq(Characters) /\ Len(r) = len + 1 /\ r[len + 1] = c /\ \A n \in 1 .. len : r[n] = w[n]
  BY <1>1, <1>2, AppendProperties
<1>4. PICK t : t = Removed(r, len + 1)
  OBVIOUS
<1>5. len + 1 \in 1 .. Len(r)
  BY <1>3
<1>6. t \in Seq(Characters) /\ Len(t) = Len(r) - 1
      /\ \A n \in 1 .. Len(r) - 1 : t[n] = IF n < len + 1 THEN r[n] ELSE r[n + 1]
  BY <1>3, <1>4, <1>5, RemovedAt, Zenon
<1>7. Len(t) = len /\ \A n \in 1 .. len : t[n] = w[n]
  BY <1>3, <1>6
<1>8. t = w
  BY <1>1, <1>6, <1>7, SeqEqual
<1>9. ASSUME NEW k PROVE More(r, w, c, k)
  <2>1. PICK i \in 1 .. Len(r) : i = len + 1 /\ r[i] = c /\ w = Removed(r, i)
    BY <1>3, <1>4, <1>5, <1>8
  <2>2. More(r, w, r[i], k)
    BY <1>3, <2>1, CountRemoved, Zenon
  <2> QED BY <2>1, <2>2
<1> QED BY <1>1, <1>2, <1>3, <1>9

(* One character more at the front.                                        *)
LEMMA AtFront ==
  ASSUME NEW w \in Seq(Characters), NEW c \in Characters, NEW r, r = <<c>> \o w
  PROVE  /\ r \in Seq(Characters) /\ Len(r) = Len(w) + 1
         /\ r[1] = c /\ \A n \in 1 .. Len(w) : r[n + 1] = w[n]
         /\ Removed(r, 1) = w
         /\ \A k : More(r, w, c, k)
<1>1. PICK len \in Nat : len = Len(w)
  BY LenProperties
<1>2. <<c>> \in Seq(Characters) /\ Len(<<c>>) = 1 /\ <<c>>[1] = c
  OBVIOUS
<1>3. r \in Seq(Characters) /\ Len(r) = 1 + len
      /\ \A n \in 1 .. 1 + len : r[n] = IF n <= 1 THEN <<c>>[n] ELSE w[n - 1]
  BY <1>1, <1>2, ConcatProperties
<1>4. r[1] = c
  <2>1. 1 \in 1 .. 1 + len /\ 1 <= 1
    BY <1>1
  <2> QED BY <1>2, <1>3, <2>1
<1>5. ASSUME NEW n \in 1 .. len PROVE r[n + 1] = w[n]
  <2>1. n + 1 \in 1 .. 1 + len /\ ~ (n + 1 <= 1) /\ n + 1 - 1 = n
    BY <1>1
  <2> QED BY <1>3, <2>1
<1>6. PICK t : t = Removed(r, 1)
  OBVIOUS
<1>7. 1 \in 1 .. Len(r) /\ Len(r) - 1 = len
  BY <1>3
<1>8. t \in Seq(Characters) /\ Len(t) = len
      /\ \A n \in 1 .. len : t[n] = IF n < 1 THEN r[n] ELSE r[n + 1]
  BY <1>3, <1>6, <1>7, RemovedAt, Zenon
<1>9. \A n \in 1 .. len : t[n] = w[n]
  <2>1. \A n \in 1 .. len : ~ (n < 1)
    OBVIOUS
  <2> QED BY <1>5, <1>8, <2>1, Zenon
<1>10. t = w
  BY <1>1, <1>8, <1>9, SeqEqual
<1>11. ASSUME NEW k PROVE More(r, w, c, k)
  <2>1. PICK i \in 1 .. Len(r) : i = 1 /\ r[i] = c /\ w = Removed(r, i)
    BY <1>4, <1>6, <1>7, <1>10
  <2>2. More(r, w, r[i], k)
    BY <1>3, <2>1, CountRemoved, Zenon
  <2> QED BY <2>1, <2>2
<1> QED BY <1>1, <1>3, <1>4, <1>5, <1>6, <1>10, <1>11

(* The same characters up to their case.                                   *)
SameKeys(w, v) == Len(w) = Len(v) /\ \A n \in 1 .. Len(w) : w[n].key = v[n].key

(* Two sequences of the same keys stay so when each gets one more of a     *)
(* key,                                                                    *)
LEMMA SameKeysAtEnd ==
  ASSUME NEW w \in Seq(Characters), NEW v \in Seq(Characters), SameKeys(w, v),
         NEW c \in Characters, NEW d \in Characters, c.key = d.key
  PROVE  SameKeys(w \o <<c>>, Append(v, d))
<1>0. PICK r : r = w \o <<c>>
  BY Zenon
<1>1. PICK s : s = v \o <<d>>
  BY Zenon
<1>2. PICK len \in Nat : len = Len(w) /\ len = Len(v) /\ \A n \in 1 .. len : w[n].key = v[n].key
  BY LenProperties DEF SameKeys
<1>3. Len(r) = len + 1 /\ r[len + 1] = c /\ \A n \in 1 .. len : r[n] = w[n]
  <2>1. Len(r) = Len(w) + 1 /\ r[Len(w) + 1] = c /\ \A n \in 1 .. Len(w) : r[n] = w[n]
    BY <1>0, AtEnd
  <2> QED BY <1>2, <2>1, Zenon
<1>4. Len(s) = len + 1 /\ s[len + 1] = d /\ s = Append(v, d) /\ \A n \in 1 .. len : s[n] = v[n]
  BY <1>1, <1>2, AtEnd
<1>5. \A n \in 1 .. len + 1 : n = len + 1 \/ n \in 1 .. len
  BY <1>2
<1>6. \A n \in 1 .. len + 1 : r[n].key = s[n].key
  BY <1>2, <1>3, <1>4, <1>5
<1> QED BY <1>0, <1>3, <1>4, <1>6 DEF SameKeys

(* and when each loses its first.                                          *)
LEMMA SameKeysAtFront ==
  ASSUME NEW w \in Seq(Characters), NEW c \in Characters, NEW o \in Seq(Characters),
         SameKeys(<<c>> \o w, o)
  PROVE  /\ 1 \in 1 .. Len(o) /\ o[1].key = c.key
         /\ Removed(o, 1) \in Seq(Characters) /\ SameKeys(w, Removed(o, 1))
<1>1. PICK r : r = <<c>> \o w
  BY Zenon
<1>2. PICK len \in Nat : len = Len(w)
  BY LenProperties
<1>3. Len(r) = len + 1 /\ r[1] = c /\ \A n \in 1 .. len : r[n + 1] = w[n]
  BY <1>1, <1>2, AtFront
<1>4. Len(o) = len + 1 /\ \A n \in 1 .. len + 1 : r[n].key = o[n].key
  BY <1>1, <1>3 DEF SameKeys
<1>5. 1 \in 1 .. Len(o) /\ 1 \in 1 .. len + 1 /\ Len(o) - 1 = len
  BY <1>4
<1>6. PICK t : t = Removed(o, 1)
  OBVIOUS
<1>7. t \in Seq(Characters) /\ Len(t) = len
      /\ \A n \in 1 .. len : t[n] = IF n < 1 THEN o[n] ELSE o[n + 1]
  BY <1>5, <1>6, RemovedAt, Zenon
<1>8. ASSUME NEW n \in 1 .. len PROVE w[n].key = t[n].key
  <2>1. n + 1 \in 1 .. len + 1 /\ ~ (n < 1)
    OBVIOUS
  <2> QED BY <1>3, <1>4, <1>7, <2>1
<1> QED BY <1>2, <1>3, <1>4, <1>5, <1>6, <1>7, <1>8 DEF SameKeys

-----------------------------------------------------------------------------
(***************************************************************************)
(* What a key sends.                                                       *)
(***************************************************************************)
Types ==
  /\ down \subseteq Keys /\ repeating \in down \cup {NoKey}
  /\ fifo \in Seq(Sent) /\ Len(fifo) <= FifoSize
  /\ latch \in Sent \cup {Make(NoKey)}
  /\ inits \in 0 .. 2
  /\ shift_pressed \in BOOLEAN /\ key_held \in BOOLEAN
  /\ last_scancode \in Heads
  /\ early \subseteq CharKeys
  /\ owed \in Seq(Characters)
  /\ muddled \in BOOLEAN /\ lost \in BOOLEAN

(* The names differ.                                                       *)
LEMMA Apart ==
  /\ Prefix \notin Keys /\ Prefix \notin Heads /\ NoKey \notin Keys /\ NoKey # Prefix
  /\ \A k \in Heads : k \notin Shifts
  /\ \A k \in CharKeys : k \in Heads /\ k \in Keys /\ k # NoKey /\ k \notin Shifts
  /\ \A k \in Keys : k \in Shifts \/ k \in Heads
  BY KeyboardAssumption DEF Keys, Heads

(* The prefix of an arrow key changes nothing.                             *)
LEMMA PrefixQuiet ==
  ASSUME NEW st \in States
  PROVE  Break(Prefix) \in Sent /\ After(st, Break(Prefix)) = st /\ Emits(st, Break(Prefix)) = << >>
<1>1. PICK p : p = Break(Prefix)
  OBVIOUS
<1>2. p.key = Prefix /\ p.up = TRUE
  BY <1>1 DEF Break
<1>3. p \in Sent
  BY <1>1 DEF Sent
<1>4. Prefix \notin Shifts /\ Prefix \notin Heads /\ Prefix \notin Keys
  BY Apart DEF Keys
<1>5. st.last \in Heads /\ st.held \in SUBSET Keys /\ st = [last |-> st.last, shift |-> st.shift, held |-> st.held]
  BY DEF States
<1>6. NextLast(st.last, p) = st.last
  BY <1>2, <1>4, <1>5 DEF NextLast
<1>7. st.held \ {Prefix} = st.held
  BY <1>4, <1>5
<1>8. After(st, p) = [last |-> st.last, shift |-> st.shift, held |-> st.held]
  BY <1>2, <1>4, <1>6, <1>7 DEF After
<1>9. Emits(st, p) = << >>
  BY <1>2 DEF Emits, Starts
<1> QED BY <1>1, <1>3, <1>5, <1>8, <1>9

(* The end of the forecast, when all of a key's codes have arrived and     *)
(* when its code was lost.                                                 *)
Outcome(e, w, b, e1, w1) ==
  \/ e1 = After(e, b) /\ w1 = w \o Emits(e, b)
  \/ e1 = e /\ w1 = w /\ lost'

(* How much of a key's codes finds room.                                   *)
LEMMA Cut ==
  ASSUME NEW p \in Sent, NEW b \in Sent
  PROVE  /\ SubSeq(<<b>>, 1, 0) = << >> /\ SubSeq(<<b>>, 1, 1) = <<b>>
         /\ SubSeq(<<p, b>>, 1, 0) = << >> /\ SubSeq(<<p, b>>, 1, 1) = <<p>>
         /\ SubSeq(<<p, b>>, 1, 2) = <<p, b>>
<1>1. <<b>> \in Seq(Sent) /\ <<p>> \in Seq(Sent) /\ <<p, b>> \in Seq(Sent)
  OBVIOUS
<1>2. Len(<<b>>) = 1 /\ Len(<<p>>) = 1 /\ Len(<<p, b>>) = 2 /\ <<p, b>>[1] = p /\ <<p>>[1] = p
  OBVIOUS
<1>3. SubSeq(<<b>>, 1, 0) = << >> /\ SubSeq(<<p, b>>, 1, 0) = << >>
  BY <1>1
<1>4. SubSeq(<<b>>, 1, 1) = <<b>> /\ SubSeq(<<p, b>>, 1, 2) = <<p, b>>
  BY <1>1, <1>2, SubSeqFull, Zenon
<1>5. SubSeq(<<p, b>>, 1, 1) = <<p>>
  <2>1. PICK s : s = SubSeq(<<p, b>>, 1, 1)
    BY Zenon
  <2>2. s \in Seq(Sent) /\ Len(s) = 1 /\ s[1] = p
    BY <1>1, <1>2, <2>1
  <2>3. \A i \in 1 .. Len(s) : s[i] = <<p>>[i]
    BY <1>2, <2>2
  <2> QED BY <1>1, <1>2, <2>1, <2>2, <2>3, SeqEqual, Zenon
<1> QED BY <1>3, <1>4, <1>5

(* What is added to the controller's queue.                                *)
LEMMA SendShape ==
  ASSUME Types, NEW k \in Keys, NEW b \in Sent, Send(Codes(k, b)), NEW p, p = Break(Prefix)
  PROVE  /\ \/ lost' /\ fifo' = fifo /\ fifo # << >>
            \/ lost' /\ fifo' = Append(fifo, p)
            \/ fifo' = Append(fifo, b)
            \/ fifo' = Append(Append(fifo, p), b)
         /\ Len(fifo') <= FifoSize
         /\ lost' \in BOOLEAN /\ (lost => lost') /\ latch' = latch
<1>1. PICK len \in Nat : len = Len(fifo) /\ len <= FifoSize
  BY LenProperties DEF Types
<1>2. PICK room \in Nat : room = FifoSize - len
  <2>1. FifoSize \in Nat
    BY KeyboardAssumption
  <2> QED BY <1>1, <2>1
<1>3. PICK c : c = Codes(k, b) /\ (c = <<b>> \/ c = <<p, b>>)
  BY DEF Codes
<1>4. /\ fifo' = fifo \o SubSeq(c, 1, IF Len(c) < room THEN Len(c) ELSE room)
      /\ lost' = (lost \/ Len(c) > room)
      /\ latch' = latch
  BY <1>1, <1>2, <1>3 DEF Send
<1>5. fifo \in Seq(Sent) /\ p \in Sent /\ lost \in BOOLEAN
  BY DEF Types, Sent
<1>6. /\ fifo \o << >> = fifo /\ fifo \o <<b>> = Append(fifo, b) /\ fifo \o <<p>> = Append(fifo, p)
      /\ fifo \o <<p, b>> = Append(Append(fifo, p), b)
  BY <1>5
<1>7. Len(Append(fifo, b)) = len + 1 /\ Len(Append(fifo, p)) = len + 1
      /\ Len(Append(Append(fifo, p), b)) = len + 2
  BY <1>1, <1>5
<1>8. len = FifoSize => fifo # << >>
  BY <1>1, KeyboardAssumption, Zenon
<1>9. CASE c = <<b>>
  <2>1. Len(c) = 1
    BY <1>9
  <2>2. CASE room = 0
    <3>1. fifo' = fifo \o SubSeq(<<b>>, 1, 0) /\ lost'
      <4>1. (IF Len(c) < room THEN Len(c) ELSE room) = 0
        BY <2>1, <2>2
      <4>2. Len(c) > room
        BY <2>1, <2>2
      <4>3. lost'
        BY <1>4, <4>2, Zenon
      <4>4. fifo' = fifo \o SubSeq(<<b>>, 1, 0)
        BY <1>4, <1>9, <4>1
      <4> QED BY <4>3, <4>4
    <3>2. len = FifoSize
      BY <1>1, <1>2, <2>2, KeyboardAssumption
    <3>3. fifo' = fifo
      BY <1>5, <1>6, <3>1, Cut
    <3> QED BY <1>1, <1>4, <1>5, <1>8, <3>1, <3>2, <3>3, Zenon
  <2>3. CASE room >= 1
    <3>1. fifo' = fifo \o SubSeq(<<b>>, 1, 1)
      <4>1. (IF Len(c) < room THEN Len(c) ELSE room) = 1
        BY <2>1, <2>3
      <4> QED BY <1>4, <1>9, <4>1
    <3>2. len + 1 <= FifoSize
      BY <1>1, <1>2, <2>3, KeyboardAssumption
    <3> QED BY <1>4, <1>5, <1>6, <1>7, <3>1, <3>2, Cut
  <2> QED BY <1>2, <2>2, <2>3
<1>10. CASE c = <<p, b>>
  <2>1. Len(c) = 2
    BY <1>10
  <2>2. CASE room = 0
    <3>1. fifo' = fifo \o SubSeq(<<p, b>>, 1, 0) /\ lost'
      <4>1. (IF Len(c) < room THEN Len(c) ELSE room) = 0
        BY <2>1, <2>2
      <4>2. Len(c) > room
        BY <2>1, <2>2
      <4>3. lost'
        BY <1>4, <4>2, Zenon
      <4>4. fifo' = fifo \o SubSeq(<<p, b>>, 1, 0)
        BY <1>4, <1>10, <4>1
      <4> QED BY <4>3, <4>4
    <3>2. len = FifoSize
      BY <1>1, <1>2, <2>2, KeyboardAssumption
    <3>3. fifo' = fifo
      BY <1>5, <1>6, <3>1, Cut
    <3> QED BY <1>1, <1>4, <1>5, <1>8, <3>1, <3>2, <3>3, Zenon
  <2>3. CASE room = 1
    <3>1. fifo' = fifo \o SubSeq(<<p, b>>, 1, 1) /\ lost'
      <4>1. (IF Len(c) < room THEN Len(c) ELSE room) = 1 /\ Len(c) > room
        BY <2>1, <2>3
      <4> QED BY <1>4, <1>10, <4>1, Zenon
    <3>2. len + 1 <= FifoSize
      BY <1>1, <1>2, <2>3, KeyboardAssumption
    <3> QED BY <1>4, <1>5, <1>6, <1>7, <3>1, <3>2, Cut
  <2>4. CASE room >= 2
    <3>1. fifo' = fifo \o SubSeq(<<p, b>>, 1, 2)
      <4>1. (IF Len(c) < room THEN Len(c) ELSE room) = 2
        BY <2>1, <2>4
      <4> QED BY <1>4, <1>10, <4>1
    <3>2. len + 2 <= FifoSize
      BY <1>1, <1>2, <2>4, KeyboardAssumption
    <3> QED BY <1>4, <1>5, <1>6, <1>7, <3>1, <3>2, Cut, Zenon
  <2> QED BY <1>2, <2>2, <2>3, <2>4
<1> QED BY <1>3, <1>9, <1>10

(* What a key sends changes the forecast at its end only.                  *)
LEMMA SendForecast ==
  ASSUME Types, NEW k \in Keys, NEW b \in Sent, Send(Codes(k, b)),
         NEW st, NEW e, NEW w, Foretells(fifo, st, e, w)
  PROVE  /\ \E e1, w1 : Foretells(fifo', st, e1, w1) /\ Outcome(e, w, b, e1, w1)
         /\ fifo' \in Seq(Sent) /\ Len(fifo') <= FifoSize /\ fifo' # << >>
         /\ lost' \in BOOLEAN /\ (lost => lost') /\ latch' = latch
<1>1. PICK p : p = Break(Prefix)
  OBVIOUS
<1>2. fifo \in Seq(Sent)
  BY DEF Types
<1>3. e \in States /\ w \in Seq(Characters)
  BY <1>2, ForetellsType
<1>4. p \in Sent /\ After(e, p) = e /\ Emits(e, p) = << >> /\ w \o << >> = w
  BY <1>1, <1>3, PrefixQuiet
<1>5. PICK f : f = Append(fifo, p)
  BY Zenon
<1>6. f \in Seq(Sent) /\ f # << >> /\ Foretells(f, st, e, w)
  <2>1. Foretells(Append(fifo, p), st, After(e, p), w \o Emits(e, p))
    BY <1>2, <1>4, ReadOneMore, Zenon
  <2> QED BY <1>2, <1>4, <1>5, <2>1, AppendProperties
<1>7. Append(fifo, b) \in Seq(Sent) /\ Append(fifo, b) # << >>
      /\ Append(f, b) \in Seq(Sent) /\ Append(f, b) # << >>
  BY <1>2, <1>6, AppendProperties
<1>8. Foretells(Append(fifo, b), st, After(e, b), w \o Emits(e, b))
  BY <1>2, ReadOneMore
<1>9. Foretells(Append(f, b), st, After(e, b), w \o Emits(e, b))
  BY <1>6, ReadOneMore
<1>10. /\ \/ lost' /\ fifo' = fifo /\ fifo # << >>
          \/ lost' /\ fifo' = f
          \/ fifo' = Append(fifo, b)
          \/ fifo' = Append(f, b)
       /\ Len(fifo') <= FifoSize
       /\ lost' \in BOOLEAN /\ (lost => lost') /\ latch' = latch
  BY <1>1, <1>5, SendShape
<1>11. fifo' \in Seq(Sent) /\ fifo' # << >>
  BY <1>2, <1>6, <1>7, <1>10, Zenon
<1>12. \E e1, w1 : Foretells(fifo', st, e1, w1) /\ Outcome(e, w, b, e1, w1)
  BY <1>6, <1>8, <1>9, <1>10, Zenon DEF Outcome
<1> QED BY <1>10, <1>11, <1>12

-----------------------------------------------------------------------------
(***************************************************************************)
(* The inductive invariant.                                                *)
(***************************************************************************)

(* The driver's memories and the byte the port repeats: reading that byte  *)
(* once more changes nothing, except for a key that was already sending    *)
(* when the polling began.                                                 *)
DriverInv ==
  /\ ~Polling => /\ last_scancode = NoKey /\ shift_pressed = FALSE /\ key_held = FALSE
                 /\ owed = << >> /\ flaws = {}
  /\ last_scancode # NoKey => key_held
  /\ Polling /\ latch.up => latch.key # last_scancode
  /\ Polling /\ ~latch.up /\ latch.key \notin Shifts => last_scancode \in {latch.key, NoKey}
  /\ Polling /\ fifo = << >> /\ Starts(last_scancode, latch) => latch.key \in early

(* Every character that will be returned is due, and so is one more of the *)
(* repeating key unless the driver will know it.                           *)
LossInv(e, w) ==
  /\ \A k \in CharKeys : Count(w, k) <= Count(owed, k)
  /\ repeating \in CharKeys /\ e.last # repeating
       => repeating \in early \/ Count(w, repeating) < Count(owed, repeating)
  /\ "stray" \notin flaws

(* Without a loss the codes tell which keys are down.                      *)
HeldInv(st, e) ==
  /\ ~latch.up /\ latch.key # NoKey => latch.key \in st.held
  /\ e.held = down

(* Without a loss exactly what is due will be returned.                    *)
ExactInv(e, w) ==
  /\ e.last # NoKey => e.last \in down
  /\ e.shift => down \cap Shifts # {}
  /\ SameKeys(w, owed)
  /\ repeating \in CharKeys => (repeating \in early <=> e.last # repeating)
  /\ flaws \subseteq {"stale", "case"}

(* With one shift key at a time, in the right case, too.                   *)
CaseInv(e, w) ==
  /\ down \cap Shifts # {} => e.shift
  /\ ~ (Shifts \subseteq down)
  /\ latch.key \in Shifts => shift_pressed = ~latch.up
  /\ w = owed
  /\ "case" \notin flaws

Forecast(st, e, w) ==
  /\ Foretells(fifo, st, e, w)
  /\ Polling => st.last = last_scancode /\ st.shift = shift_pressed
  /\ Polling => LossInv(e, w)
  /\ ~lost => HeldInv(st, e)
  /\ ~lost /\ Polling => ExactInv(e, w)
  /\ ~lost /\ Polling /\ ~muddled => CaseInv(e, w)

KeyInv == Types /\ DriverInv /\ \E st, e, w : Forecast(st, e, w)

(* The fields of a state, and of the next.                                 *)
LEMMA StateFields ==
  ASSUME NEW e \in States, NEW b
  PROVE  /\ e.last \in Heads /\ e.shift \in BOOLEAN /\ e.held \subseteq Keys
         /\ After(e, b).last = NextLast(e.last, b)
         /\ After(e, b).shift = IF b.key \in Shifts THEN ~b.up ELSE e.shift
         /\ After(e, b).held = IF b.up THEN e.held \ {b.key} ELSE e.held \cup {b.key}
  BY DEF States, After

(* What the forecast gains by a code.                                      *)
LEMMA OutcomeCount ==
  ASSUME NEW e \in States, NEW w \in Seq(Characters), NEW b \in Sent, NEW e1, NEW w1,
         Outcome(e, w, b, e1, w1)
  PROVE  /\ w1 \in Seq(Characters)
         /\ \A k : \/ Count(w1, k) = Count(w, k)
                   \/ Starts(e.last, b) /\ k = b.key /\ Count(w1, k) = Count(w, k) + 1
<1>1. CASE w1 = w
  BY <1>1
<1>2. CASE w1 = w \o Emits(e, b) /\ ~ Starts(e.last, b)
  <2>1. w1 = w
    BY <1>2, ConcatEmptySeq DEF Emits
  <2> QED BY <2>1
<1>3. CASE w1 = w \o Emits(e, b) /\ Starts(e.last, b)
  <2>1. PICK c : c = Typed(b, e.shift)
    OBVIOUS
  <2>2. c \in Characters /\ c.key = b.key
    BY <1>3, <2>1 DEF Starts, Typed, Characters
  <2>3. w1 = w \o <<c>>
    BY <1>3, <2>1 DEF Emits
  <2>4. w1 \in Seq(Characters) /\ \A k : More(w1, w, c, k)
    BY <2>2, <2>3, AtEnd, Zenon
  <2> QED BY <1>3, <2>2, <2>4 DEF More
<1> QED BY <1>1, <1>2, <1>3 DEF Outcome

(* What is due gains by a press.                                           *)
LEMMA OwedCount ==
  ASSUME NEW key \in CharKeys, owed \in Seq(Characters), owed' = Append(owed, Due(key))
  PROVE  /\ owed' \in Seq(Characters)
         /\ \A k : Count(owed', k) = IF k = key THEN Count(owed, k) + 1 ELSE Count(owed, k)
<1>1. PICK c : c = Due(key)
  OBVIOUS
<1>2. c \in Characters /\ c.key = key
  BY <1>1 DEF Due, Characters
<1>3. PICK v \in Seq(Characters) : v = owed
  OBVIOUS
<1>4. PICK v1 : v1 = v \o <<c>>
  BY Zenon
<1>5. v1 \in Seq(Characters) /\ v1 = Append(v, c) /\ \A k : More(v1, v, c, k)
  BY <1>2, <1>4, AtEnd, Zenon
<1>6. owed' = v1
  BY <1>1, <1>3, <1>5
<1> QED BY <1>2, <1>3, <1>5, <1>6 DEF More

-----------------------------------------------------------------------------
(***************************************************************************)
(* The user.                                                               *)
(***************************************************************************)

(* A step that reads nothing and leaves codes waiting keeps DriverInv.     *)
LEMMA DriverWaits ==
  ASSUME DriverInv, fifo' # << >>, latch' = latch, inits' = inits, flaws' = flaws,
         shift_pressed' = shift_pressed, last_scancode' = last_scancode, key_held' = key_held,
         ~Polling => owed' = owed
  PROVE  DriverInv'
  BY DEF DriverInv, Polling

(* A key goes down or repeats: what Press and Repeat have in common.       *)
MakeSent(k) ==
  /\ Send(Codes(k, Make(k)))
  /\ repeating' = k /\ down' = down \cup {k} /\ early' = {}
  /\ inits' = inits /\ flaws' = flaws
  /\ shift_pressed' = shift_pressed /\ last_scancode' = last_scancode /\ key_held' = key_held

(* The character becomes due if the driver will take the code for a press. *)
DueIfStarts(k, e, w) ==
  /\ \/ owed' = owed
     \/ Polling /\ k \in CharKeys /\ owed' = Append(owed, Due(k))
  /\ Polling /\ k \in CharKeys /\ e.last # k => Count(w, k) < Count(owed', k)
  /\ Polling /\ ~lost /\ Starts(e.last, Make(k)) => owed' = Append(owed, Due(k))
  /\ Polling /\ ~lost /\ ~Starts(e.last, Make(k)) => owed' = owed

ShiftsApart ==
  /\ muddled' \in BOOLEAN /\ (~muddled' => ~muddled)
  /\ Polling /\ ~lost /\ ~muddled' => ~ (Shifts \subseteq down')

(* The fields of a code.                                                   *)
LEMMA MakeFields ==
  ASSUME NEW k
  PROVE  /\ Make(k).key = k /\ Make(k).up = FALSE /\ Break(k).key = k /\ Break(k).up = TRUE
         /\ k \in Keys => Make(k) \in Sent /\ Break(k) \in Sent
  BY Zenon DEF Make, Break, Sent

(* What the code of a key going down does to the driver.                   *)
LEMMA MakeLast ==
  ASSUME NEW e \in States, NEW k \in Keys
  PROVE  /\ k \notin Shifts => After(e, Make(k)).last = k
         /\ k \in Shifts => After(e, Make(k)).last = e.last /\ After(e, Make(k)).shift = TRUE
         /\ k \notin Shifts => After(e, Make(k)).shift = e.shift
         /\ After(e, Make(k)).held = e.held \cup {k}
         /\ Starts(e.last, Make(k)) <=> k \in CharKeys /\ e.last # k
<1>1. PICK b : b = Make(k)
  OBVIOUS
<1>2. b.key = k /\ b.up = FALSE
  BY <1>1, MakeFields, Zenon
<1>3. /\ After(e, b).last = NextLast(e.last, b)
      /\ After(e, b).shift = IF b.key \in Shifts THEN ~b.up ELSE e.shift
      /\ After(e, b).held = IF b.up THEN e.held \ {b.key} ELSE e.held \cup {b.key}
  BY StateFields, Zenon
<1>4. NextLast(e.last, b) = IF k \in Shifts THEN e.last ELSE k
  BY <1>2 DEF NextLast
<1>5. After(e, b).shift = IF k \in Shifts THEN TRUE ELSE e.shift
  BY <1>2, <1>3, Zenon
<1>6. After(e, b).held = e.held \cup {k}
  BY <1>2, <1>3
<1>7. Starts(e.last, b) <=> k \in CharKeys /\ e.last # k
  BY <1>2 DEF Starts
<1> QED BY <1>1, <1>3, <1>4, <1>5, <1>6, <1>7, Zenon

(* A key goes down: every character foretold stays due,                    *)
LEMMA MakeLoss ==
  ASSUME Types, NEW e \in States, NEW w \in Seq(Characters), LossInv(e, w), Polling, NEW k \in Keys,
         MakeSent(k), DueIfStarts(k, e, w), NEW e1, NEW w1, Outcome(e, w, Make(k), e1, w1)
  PROVE  LossInv(e1, w1)'
<1>0. Make(k) \in Sent /\ Make(k).key = k
  BY MakeFields, Zenon
<1>1. w1 \in Seq(Characters)
      /\ \A j : \/ Count(w1, j) = Count(w, j)
                \/ Starts(e.last, Make(k)) /\ j = k /\ Count(w1, j) = Count(w, j) + 1
  BY <1>0, OutcomeCount
<1>2. \A j : Count(w, j) \in Nat /\ Count(w1, j) \in Nat /\ Count(owed, j) \in Nat
  BY <1>1, OwesCounted DEF Types
<1>3. \A j : Count(owed', j) \in Nat /\ Count(owed', j) >= Count(owed, j)
  <2>1. CASE owed' = owed
    BY <1>2, <2>1
  <2>2. CASE k \in CharKeys /\ owed' = Append(owed, Due(k))
    <3>1. \A j : Count(owed', j) = IF j = k THEN Count(owed, j) + 1 ELSE Count(owed, j)
      BY <2>2, OwedCount DEF Types
    <3> QED BY <1>2, <3>1
  <2> QED BY <2>1, <2>2 DEF DueIfStarts
<1>4. ASSUME NEW j \in CharKeys PROVE Count(w1, j) <= Count(owed', j)
  <2>1. Count(w, j) <= Count(owed, j)
    BY DEF LossInv
  <2>2. CASE Count(w1, j) = Count(w, j)
    BY <1>2, <1>3, <2>1, <2>2
  <2>3. CASE Starts(e.last, Make(k)) /\ j = k /\ Count(w1, j) = Count(w, j) + 1
    <3>1. Count(w, k) < Count(owed', k)
      BY <2>3, MakeLast, Zenon DEF DueIfStarts
    <3> QED BY <1>2, <1>3, <2>3, <3>1
  <2> QED BY <1>1, <2>2, <2>3
<1>5. ASSUME k \in CharKeys, e1.last # k PROVE Count(w1, k) < Count(owed', k)
  <2>1. k \notin Shifts
    BY <1>5, Apart
  <2>2. e1 # After(e, Make(k))
    BY <1>5, <2>1, MakeLast, ZenonT(30)
  <2>3. e1 = e /\ w1 = w
    BY <2>2 DEF Outcome
  <2> QED BY <1>5, <2>3 DEF DueIfStarts
<1>6. repeating' = k /\ flaws' = flaws
  BY DEF MakeSent
<1> QED BY <1>4, <1>5, <1>6 DEF LossInv

(* nothing else is due while no code is lost,                              *)
LEMMA MakeExact ==
  ASSUME Types, NEW e \in States, NEW w \in Seq(Characters), ExactInv(e, w), Polling, ~lost,
         NEW k \in Keys, MakeSent(k), DueIfStarts(k, e, w),
         NEW e1, e1 = After(e, Make(k)), NEW w1, w1 = w \o Emits(e, Make(k))
  PROVE  ExactInv(e1, w1)'
<1>1. repeating' = k /\ down' = down \cup {k} /\ early' = {} /\ flaws' = flaws /\ k # NoKey
  BY Apart DEF MakeSent
<1>2. e1.last # NoKey => e1.last \in down'
  <2>1. (k \notin Shifts => e1.last = k) /\ (k \in Shifts => e1.last = e.last)
    BY MakeLast, Zenon
  <2>2. e.last # NoKey => e.last \in down
    BY DEF ExactInv
  <2> QED BY <1>1, <2>1, <2>2
<1>3. e1.shift => down' \cap Shifts # {}
  BY <1>1, MakeLast, Zenon DEF ExactInv
<1>4. SameKeys(w1, owed')
  <2>1. CASE Starts(e.last, Make(k))
    <3>1. PICK c, d : c = Typed(Make(k), e.shift) /\ d = Due(k)
      OBVIOUS
    <3>2. k \in CharKeys
      BY <2>1, MakeLast, Zenon
    <3>3. c \in Characters /\ d \in Characters /\ c.key = d.key
      BY <3>1, <3>2, MakeFields, Zenon DEF Typed, Due, Characters
    <3>4. w1 = w \o <<c>> /\ owed' = Append(owed, d)
      BY <2>1, <3>1 DEF Emits, DueIfStarts
    <3> QED BY <3>3, <3>4, SameKeysAtEnd DEF ExactInv, Types
  <2>2. CASE ~Starts(e.last, Make(k))
    <3>1. w1 = w /\ owed' = owed
      BY <2>2, ConcatEmptySeq DEF Emits, DueIfStarts
    <3> QED BY <3>1 DEF ExactInv
  <2> QED BY <2>1, <2>2
<1>5. k \in CharKeys => e1.last = k
  BY MakeLast, Apart, Zenon
<1>6. flaws' \subseteq {"stale", "case"}
  BY <1>1 DEF ExactInv
<1> QED BY <1>1, <1>2, <1>3, <1>4, <1>5, <1>6 DEF ExactInv

(* and its case is right while one shift key at most is held.              *)
LEMMA MakeCase ==
  ASSUME Types, NEW e \in States, NEW w \in Seq(Characters), ExactInv(e, w), CaseInv(e, w),
         Polling, ~lost, ~muddled', ShiftsApart, latch' = latch,
         NEW k \in Keys, MakeSent(k), DueIfStarts(k, e, w),
         NEW e1, e1 = After(e, Make(k)), NEW w1, w1 = w \o Emits(e, Make(k))
  PROVE  CaseInv(e1, w1)'
<1>1. /\ down' = down \cup {k} /\ flaws' = flaws /\ shift_pressed' = shift_pressed
  BY DEF MakeSent
<1>2. down' \cap Shifts # {} => e1.shift
  <2>1. CASE k \in Shifts
    <3>1. e1.shift = TRUE
      BY <2>1, MakeLast, Zenon
    <3> QED BY <3>1, Zenon
  <2>2. CASE k \notin Shifts
    <3>1. e1.shift = e.shift
      BY <2>2, MakeLast, Zenon
    <3>2. down' \cap Shifts # {} => down \cap Shifts # {}
      BY <1>1, <2>2
    <3> QED BY <3>1, <3>2, Zenon DEF CaseInv
  <2> QED BY <2>1, <2>2
<1>3. ~ (Shifts \subseteq down')
  BY DEF ShiftsApart
<1>4. w1 = owed'
  <2>1. CASE Starts(e.last, Make(k))
    <3>1. e.shift \in BOOLEAN /\ (e.shift <=> down \cap Shifts # {})
      BY StateFields, Zenon DEF ExactInv, CaseInv
    <3>2. Typed(Make(k), e.shift) = Due(k)
      BY <3>1, MakeFields, Zenon DEF Typed, Due
    <3>3. Due(k) \in Characters
      BY <2>1, MakeLast, Zenon DEF Due, Characters
    <3>4. w1 = w \o <<Due(k)>>
      BY <2>1, <3>2 DEF Emits
    <3>5. owed' = Append(w, Due(k))
      BY <2>1 DEF DueIfStarts, CaseInv
    <3> QED BY <3>3, <3>4, <3>5, AtEnd
  <2>2. CASE ~Starts(e.last, Make(k))
    <3>1. w1 = w /\ owed' = owed
      BY <2>2, ConcatEmptySeq DEF Emits, DueIfStarts
    <3> QED BY <3>1 DEF CaseInv
  <2> QED BY <2>1, <2>2
<1> QED BY <1>1, <1>2, <1>3, <1>4 DEF CaseInv

(* So a key going down keeps the invariant,                                *)
LEMMA MakeStep ==
  ASSUME Types, DriverInv, NEW st, NEW e, NEW w, Forecast(st, e, w), NEW k \in Keys,
         MakeSent(k), DueIfStarts(k, e, w), ShiftsApart, owed' \in Seq(Characters)
  PROVE  KeyInv'
<1>1. Foretells(fifo, st, e, w) /\ Make(k) \in Sent /\ Send(Codes(k, Make(k)))
  BY MakeFields, Zenon DEF Forecast, MakeSent
<1>2. /\ \E e1, w1 : Foretells(fifo', st, e1, w1) /\ Outcome(e, w, Make(k), e1, w1)
      /\ fifo' \in Seq(Sent) /\ Len(fifo') <= FifoSize /\ fifo' # << >>
      /\ lost' \in BOOLEAN /\ (lost => lost') /\ latch' = latch
  BY <1>1, SendForecast
<1>3. PICK e1, w1 : Foretells(fifo', st, e1, w1) /\ Outcome(e, w, Make(k), e1, w1)
  BY <1>2
<1>4. e \in States /\ w \in Seq(Characters) /\ st \in States
  BY <1>1, ForetellsType DEF Types
<1>5. Polling' <=> Polling
  BY DEF MakeSent, Polling
<1>6. Types'
  <2>1. down' \subseteq Keys /\ repeating' \in down' \cup {NoKey} /\ early' \subseteq CharKeys
    BY DEF Types, MakeSent
  <2>2. /\ inits' = inits /\ shift_pressed' = shift_pressed
        /\ last_scancode' = last_scancode /\ key_held' = key_held
    BY DEF MakeSent
  <2>3. muddled' \in BOOLEAN
    BY DEF ShiftsApart
  <2> QED BY <1>2, <2>1, <2>2, <2>3 DEF Types
<1>7. DriverInv'
  BY <1>2, DriverWaits DEF MakeSent, DueIfStarts
<1>8. Polling => LossInv(e1, w1)'
  BY <1>3, <1>4, MakeLoss DEF Forecast
<1>9. ~lost' => ~lost /\ e1 = After(e, Make(k)) /\ w1 = w \o Emits(e, Make(k))
  BY <1>2, <1>3 DEF Outcome
<1>10. ~lost' => HeldInv(st, e1)'
  <2>1. ASSUME ~lost' PROVE e1.held = down'
    <3>1. e.held = down /\ e1 = After(e, Make(k))
      BY <1>9, <2>1, ZenonT(30) DEF Forecast, HeldInv
    <3>2. After(e, Make(k)).held = e.held \cup {k}
      BY <1>4, MakeLast, Zenon
    <3> QED BY <3>1, <3>2 DEF MakeSent
  <2> QED BY <1>2, <1>9, <2>1, ZenonT(30) DEF Forecast, HeldInv
<1>11. ~lost' /\ Polling => ExactInv(e1, w1)'
  BY <1>4, <1>9, MakeExact, Zenon DEF Forecast
<1>12. ~lost' /\ Polling /\ ~muddled' => CaseInv(e1, w1)'
  <2>1. SUFFICES ASSUME ~lost', Polling, ~muddled' PROVE CaseInv(e1, w1)'
    OBVIOUS
  <2>2. ~lost /\ e1 = After(e, Make(k)) /\ w1 = w \o Emits(e, Make(k)) /\ ~muddled
    BY <1>9, <2>1 DEF ShiftsApart
  <2>3. ExactInv(e, w) /\ CaseInv(e, w)
    BY <2>1, <2>2 DEF Forecast
  <2> QED BY <1>2, <1>4, <2>1, <2>2, <2>3, MakeCase, Zenon
<1>13. Polling => st.last = last_scancode' /\ st.shift = shift_pressed'
  BY DEF Forecast, MakeSent
<1>14. Forecast(st, e1, w1)'
  BY <1>3, <1>5, <1>8, <1>10, <1>11, <1>12, <1>13 DEF Forecast
<1> QED BY <1>6, <1>7, <1>14 DEF KeyInv

(* when it is pressed                                                      *)
LEMMA PressStep ==
  ASSUME KeyInv, NEW key \in Used, Press(key)
  PROVE  KeyInv'
<1>1. key \in Keys
  BY KeyboardAssumption
<1>2. PICK st, e, w : Types /\ DriverInv /\ Forecast(st, e, w)
  BY DEF KeyInv
<1>3. e \in States /\ w \in Seq(Characters) /\ owed \in Seq(Characters)
  BY <1>2, ForetellsType DEF Types, Forecast
<1>4. MakeSent(key)
  BY DEF Press, MakeSent, driver
<1>5. ShiftsApart
  BY <1>2, Zenon DEF Press, ShiftsApart, Types
<1>6. CASE Polling /\ key \in CharKeys
  <2>1. owed' = Append(owed, Due(key))
    BY <1>6 DEF Press
  <2>2. owed' \in Seq(Characters) /\ Count(owed', key) = Count(owed, key) + 1
    BY <1>3, <1>6, <2>1, OwedCount
  <2>3. Count(w, key) <= Count(owed, key) /\ Count(w, key) \in Nat /\ Count(owed, key) \in Nat
    BY <1>2, <1>3, <1>6, OwesCounted DEF Forecast, LossInv
  <2>4. Count(w, key) < Count(owed', key)
    BY <2>2, <2>3
  <2>5. ~lost => Starts(e.last, Make(key))
    <3>1. key \notin down /\ key # NoKey
      BY <1>1, Apart DEF Press
    <3>2. ~lost => e.last # key
      BY <1>2, <1>6, <3>1 DEF Forecast, ExactInv
    <3> QED BY <1>1, <1>3, <1>6, <3>2, MakeLast, Zenon
  <2>6. DueIfStarts(key, e, w)
    BY <1>6, <2>1, <2>4, <2>5 DEF DueIfStarts
  <2> QED BY <1>1, <1>2, <1>4, <1>5, <2>2, <2>6, MakeStep
<1>7. CASE ~ (Polling /\ key \in CharKeys)
  <2>1. owed' = owed
    BY <1>7 DEF Press
  <2>2. Polling => ~Starts(e.last, Make(key))
    BY <1>1, <1>3, <1>7, MakeLast, Zenon
  <2>3. DueIfStarts(key, e, w)
    BY <1>7, <2>1, <2>2 DEF DueIfStarts
  <2> QED BY <1>1, <1>2, <1>3, <1>4, <1>5, <2>1, <2>3, MakeStep
<1> QED BY <1>6, <1>7

(* and when it repeats.                                                    *)
LEMMA RepeatStep ==
  ASSUME KeyInv, Repeat
  PROVE  KeyInv'
<1>1. PICK st, e, w : Types /\ DriverInv /\ Forecast(st, e, w)
  BY DEF KeyInv
<1>2. PICK key \in Keys : key = repeating /\ key \in down
  BY <1>1 DEF Repeat, Types
<1>3. e \in States /\ w \in Seq(Characters) /\ owed \in Seq(Characters)
  BY <1>1, ForetellsType DEF Types, Forecast
<1>4. MakeSent(key)
  BY <1>2 DEF Repeat, MakeSent, driver
<1>5. ShiftsApart
  <2>1. down' = down /\ muddled' = muddled
    BY DEF Repeat
  <2> QED BY <1>1, <2>1 DEF ShiftsApart, Types, Forecast, CaseInv
<1>6. Polling => LossInv(e, w)
  BY <1>1 DEF Forecast
<1>7. Polling /\ ~lost => ExactInv(e, w)
  BY <1>1 DEF Forecast
<1>8. CASE Polling /\ key \in early
  <2>1. key \in CharKeys /\ owed' = Append(owed, Due(key))
    BY <1>1, <1>2, <1>8 DEF Repeat, Types
  <2>2. owed' \in Seq(Characters) /\ Count(owed', key) = Count(owed, key) + 1
    BY <1>3, <2>1, OwedCount
  <2>3. Count(w, key) <= Count(owed, key) /\ Count(w, key) \in Nat /\ Count(owed, key) \in Nat
    BY <1>3, <1>6, <1>8, <2>1, OwesCounted DEF LossInv
  <2>4. Count(w, key) < Count(owed', key)
    BY <2>2, <2>3
  <2>5. ~lost => Starts(e.last, Make(key))
    BY <1>2, <1>3, <1>7, <1>8, <2>1, MakeLast, Zenon DEF ExactInv
  <2>6. DueIfStarts(key, e, w)
    BY <1>8, <2>1, <2>4, <2>5 DEF DueIfStarts
  <2> QED BY <1>1, <1>4, <1>5, <2>2, <2>6, MakeStep
<1>9. CASE ~ (Polling /\ key \in early)
  <2>1. owed' = owed
    BY <1>2, <1>9 DEF Repeat
  <2>2. Polling /\ key \in CharKeys /\ e.last # key => Count(w, key) < Count(owed', key)
    BY <1>2, <1>6, <1>9, <2>1 DEF LossInv
  <2>3. Polling /\ ~lost => ~Starts(e.last, Make(key))
    BY <1>2, <1>3, <1>7, <1>9, MakeLast, Zenon DEF ExactInv
  <2>4. DueIfStarts(key, e, w)
    BY <2>1, <2>2, <2>3 DEF DueIfStarts
  <2> QED BY <1>1, <1>3, <1>4, <1>5, <2>1, <2>4, MakeStep
<1> QED BY <1>8, <1>9

(* What the code of a key going up does to the driver.                     *)
LEMMA BreakLast ==
  ASSUME NEW e \in States, NEW k \in Keys
  PROVE  /\ After(e, Break(k)).last = IF k = e.last THEN NoKey ELSE e.last
         /\ After(e, Break(k)).shift = IF k \in Shifts THEN FALSE ELSE e.shift
         /\ After(e, Break(k)).held = e.held \ {k}
         /\ Emits(e, Break(k)) = << >>
<1>1. PICK b : b = Break(k)
  OBVIOUS
<1>2. b.key = k /\ b.up = TRUE
  BY <1>1, MakeFields, Zenon
<1>3. /\ After(e, b).last = NextLast(e.last, b)
      /\ After(e, b).shift = IF b.key \in Shifts THEN ~b.up ELSE e.shift
      /\ After(e, b).held = IF b.up THEN e.held \ {b.key} ELSE e.held \cup {b.key}
      /\ e.last \in Heads
  BY StateFields, Zenon
<1>4. NextLast(e.last, b) = IF k = e.last THEN NoKey ELSE e.last
  BY <1>2, <1>3, Apart DEF NextLast
<1>5. After(e, b).shift = IF k \in Shifts THEN FALSE ELSE e.shift
  BY <1>2, <1>3, Zenon
<1>6. After(e, b).held = e.held \ {k}
  BY <1>2, <1>3
<1>7. Emits(e, b) = << >>
  BY <1>2 DEF Emits, Starts
<1> QED BY <1>1, <1>3, <1>4, <1>5, <1>6, <1>7, Zenon

(* A key going up starts no character and leaves what is due.              *)
LEMMA ReleaseStep ==
  ASSUME KeyInv, NEW key \in Used, Release(key)
  PROVE  KeyInv'
<1>1. key \in Keys /\ key # NoKey /\ Break(key) \in Sent
  BY KeyboardAssumption, Apart, MakeFields, Zenon
<1>2. PICK st, e, w : Types /\ DriverInv /\ Forecast(st, e, w)
  BY DEF KeyInv
<1>3. e \in States /\ w \in Seq(Characters) /\ e.last \in Heads
  BY <1>2, ForetellsType, StateFields, Zenon DEF Types, Forecast
<1>4. /\ key \in down /\ down' = down \ {key} /\ Send(Codes(key, Break(key)))
      /\ repeating' = (IF repeating = key THEN NoKey ELSE repeating)
      /\ early' = early \cap {repeating'}
      /\ shift_pressed' = shift_pressed /\ last_scancode' = last_scancode /\ key_held' = key_held
      /\ owed' = owed /\ flaws' = flaws /\ inits' = inits /\ muddled' = muddled
  BY DEF Release, driver
<1>5. /\ \E e1, w1 : Foretells(fifo', st, e1, w1) /\ Outcome(e, w, Break(key), e1, w1)
      /\ fifo' \in Seq(Sent) /\ Len(fifo') <= FifoSize /\ fifo' # << >>
      /\ lost' \in BOOLEAN /\ (lost => lost') /\ latch' = latch
  BY <1>1, <1>2, <1>4, SendForecast DEF Forecast
<1>6. PICK e1, w1 : Foretells(fifo', st, e1, w1) /\ Outcome(e, w, Break(key), e1, w1)
  BY <1>5
<1>7. w1 = w
  BY <1>1, <1>3, <1>6, BreakLast, ConcatEmptySeq, Zenon DEF Outcome
<1>8. Polling' <=> Polling
  BY <1>4 DEF Polling
<1>9. Types'
  <2>1. down' \subseteq Keys /\ repeating' \in down' \cup {NoKey} /\ early' \subseteq CharKeys
    BY <1>2, <1>4 DEF Types
  <2> QED BY <1>2, <1>4, <1>5, <2>1 DEF Types
<1>10. DriverInv'
  BY <1>2, <1>4, <1>5, DriverWaits
<1>11. repeating' \in CharKeys => repeating' = repeating /\ repeating # key
  BY <1>4, Apart
<1>12. repeating' \in CharKeys /\ e1.last # repeating' => e.last # repeating
  <2>1. e1 = e \/ e1 = After(e, Break(key))
    BY <1>6 DEF Outcome
  <2>2. After(e, Break(key)).last = IF key = e.last THEN NoKey ELSE e.last
    BY <1>1, <1>3, BreakLast, Zenon
  <2> QED BY <1>11, <2>1, <2>2
<1>13. Polling => LossInv(e1, w1)'
  <2>1. SUFFICES ASSUME Polling PROVE LossInv(e1, w1)'
    OBVIOUS
  <2>2. LossInv(e, w)
    BY <1>2, <2>1 DEF Forecast
  <2> QED BY <1>4, <1>7, <1>11, <1>12, <2>2 DEF LossInv
<1>14. ~lost' => ~lost /\ e1 = After(e, Break(key))
  BY <1>5, <1>6 DEF Outcome
<1>15. ASSUME ~lost' PROVE HeldInv(st, e1)'
  <2>1. HeldInv(st, e) /\ e1 = After(e, Break(key))
    BY <1>2, <1>14, <1>15 DEF Forecast
  <2>2. e1.held = e.held \ {key}
    BY <1>1, <1>3, <2>1, BreakLast, Zenon
  <2> QED BY <1>4, <1>5, <2>1, <2>2, Zenon DEF HeldInv
<1>16. ASSUME ~lost', Polling PROVE ExactInv(e1, w1)'
  <2>1. ExactInv(e, w) /\ e1 = After(e, Break(key))
    BY <1>2, <1>14, <1>16 DEF Forecast
  <2>2. /\ e1.last = IF key = e.last THEN NoKey ELSE e.last
        /\ e1.shift = IF key \in Shifts THEN FALSE ELSE e.shift
    BY <1>1, <1>3, <2>1, BreakLast, Zenon
  <2>3. e1.last # NoKey => e1.last \in down'
    BY <1>4, <2>1, <2>2 DEF ExactInv
  <2>4. e1.shift => down' \cap Shifts # {}
    <3>1. CASE key \in Shifts
      BY <2>2, <3>1, Zenon
    <3>2. CASE key \notin Shifts
      <4>1. e1.shift = e.shift
        BY <2>2, <3>2
      <4> QED BY <1>4, <2>1, <3>2, <4>1 DEF ExactInv
    <3> QED BY <3>1, <3>2
  <2>5. repeating' \in CharKeys => (repeating' \in early' <=> e1.last # repeating')
    BY <1>1, <1>4, <1>11, <2>1, <2>2, Apart, Zenon DEF ExactInv
  <2> QED BY <1>4, <1>7, <2>1, <2>3, <2>4, <2>5, Zenon DEF ExactInv
<1>17. ASSUME ~lost', Polling, ~muddled' PROVE CaseInv(e1, w1)'
  <2>1. CaseInv(e, w) /\ e1 = After(e, Break(key))
    BY <1>2, <1>4, <1>14, <1>17 DEF Forecast
  <2>2. e1.shift = IF key \in Shifts THEN FALSE ELSE e.shift
    BY <1>1, <1>3, <2>1, BreakLast, Zenon
  <2>3. down' \cap Shifts # {} => e1.shift
    <3>1. CASE key \in Shifts
      <4>1. down \cap Shifts \subseteq {key}
        BY <1>4, <2>1, <3>1 DEF CaseInv, Shifts
      <4> QED BY <1>4, <4>1
    <3>2. CASE key \notin Shifts
      <4>1. e1.shift = e.shift
        BY <2>2, <3>2
      <4> QED BY <1>4, <2>1, <3>2, <4>1 DEF CaseInv
    <3> QED BY <3>1, <3>2
  <2>4. ~ (Shifts \subseteq down')
    BY <1>4, <2>1 DEF CaseInv
  <2> QED BY <1>4, <1>5, <1>7, <2>1, <2>3, <2>4 DEF CaseInv
<1>18. Polling => st.last = last_scancode' /\ st.shift = shift_pressed'
  BY <1>2, <1>4 DEF Forecast
<1>19. Forecast(st, e1, w1)'
  BY <1>6, <1>8, <1>13, <1>15, <1>16, <1>17, <1>18 DEF Forecast
<1> QED BY <1>9, <1>10, <1>19 DEF KeyInv

-----------------------------------------------------------------------------
(***************************************************************************)
(* The driver.                                                             *)
(***************************************************************************)

(* keyboard_init drops what waits; when the polling begins, the forecast   *)
(* is empty and the keys that are sending are early.                       *)
LEMMA InitStep ==
  ASSUME KeyInv, keyboard_init
  PROVE  KeyInv'
<1>1. PICK st, e, w : Types /\ DriverInv /\ Forecast(st, e, w)
  BY DEF KeyInv
<1>2. /\ ~Polling /\ shift_pressed' = shift_pressed /\ last_scancode' = last_scancode
      /\ key_held' = key_held /\ owed' = owed /\ flaws' = flaws
  BY DEF keyboard_init, driver
<1>3. /\ last_scancode = NoKey /\ shift_pressed = FALSE /\ key_held = FALSE
      /\ owed = << >> /\ flaws = {}
  BY <1>1, <1>2 DEF DriverInv
<1>4. st \in States /\ e \in States /\ w \in Seq(Characters) /\ Foretells(fifo, st, e, w)
  BY <1>1, ForetellsType DEF Types, Forecast
<1>5. CASE fifo # << >>
  <2>1. /\ latch' = Head(fifo) /\ fifo' = Tail(fifo) /\ down' = down /\ repeating' = repeating
        /\ lost' = lost /\ inits' = inits /\ early' = early /\ muddled' = muddled
    BY <1>5 DEF keyboard_init, ReadPort, byte
  <2>2. PICK v, s : Foretells(Tail(fifo), s, e, v) /\ s = After(st, Head(fifo))
    BY <1>1, <1>4, <1>5, ReadFirst DEF Types
  <2>3. Head(fifo) \in Sent /\ Tail(fifo) \in Seq(Sent) /\ Len(Tail(fifo)) = Len(fifo) - 1
        /\ Len(fifo) \in Nat /\ FifoSize \in Nat
    BY <1>1, <1>5, HeadTailProperties, LenProperties, KeyboardAssumption DEF Types
  <2>4. Types'
    <3>1. Len(fifo') <= FifoSize
      BY <1>1, <2>1, <2>3 DEF Types
    <3> QED BY <1>1, <1>2, <2>1, <2>3, <3>1 DEF Types
  <2>5. ~Polling'
    BY <1>2, <2>1 DEF Polling
  <2>6. DriverInv'
    BY <1>2, <1>3, <2>5 DEF DriverInv
  <2>7. ASSUME ~lost' PROVE HeldInv(s, e)'
    <3>1. HeldInv(st, e)
      BY <1>1, <2>1, <2>7 DEF Forecast
    <3>2. ~Head(fifo).up => Head(fifo).key \in s.held
      BY <1>4, <2>2, StateFields, Zenon
    <3> QED BY <2>1, <3>1, <3>2, Zenon DEF HeldInv
  <2>8. Forecast(s, e, v)'
    BY <2>1, <2>2, <2>5, <2>7 DEF Forecast
  <2> QED BY <2>4, <2>6, <2>8 DEF KeyInv
<1>6. CASE fifo = << >>
  <2>1. /\ latch' = latch /\ fifo' = << >> /\ down' = down /\ repeating' = repeating
        /\ lost' = lost /\ inits' = inits + 1
        /\ early' = CharKeys \cap ({repeating} \cup IF latch.up THEN {} ELSE {latch.key})
        /\ muddled' = (down \cap Shifts # {})
    BY <1>6 DEF keyboard_init, hardware
  <2>2. e = st /\ w = << >>
    BY <1>4, <1>6, NothingRead
  <2>3. PICK s : s = [last |-> NoKey, shift |-> FALSE, held |-> st.held]
    BY Zenon
  <2>4. s \in States /\ s.last = NoKey /\ s.shift = FALSE /\ s.held = st.held
    BY <1>4, <2>3, StateFields, Zenon DEF States, Heads
  <2>5. Foretells(fifo', s, s, << >>)
    BY <2>1, <2>4, ReadNothing
  <2>6. Types'
    <3>1. inits' \in 0 .. 2
      BY <1>1, <1>2, <2>1 DEF Types, Polling
    <3>2. muddled' \in BOOLEAN /\ early' \subseteq CharKeys
      BY <2>1
    <3>3. fifo' \in Seq(Sent) /\ Len(fifo') <= FifoSize
      BY <1>1, <1>6, <2>1 DEF Types
    <3> QED BY <1>1, <1>2, <2>1, <3>1, <3>2, <3>3 DEF Types
  <2>7. latch.up => latch.key # NoKey
    BY <1>1, SentFields, MakeFields, Apart, Zenon DEF Types
  <2>8. DriverInv'
    <3>1. Starts(NoKey, latch) => latch.key \in early'
      BY <2>1 DEF Starts
    <3> QED BY <1>2, <1>3, <2>1, <2>7, <3>1 DEF DriverInv
  <2>9. LossInv(s, << >>)'
    <3>1. repeating \in CharKeys => repeating \in early'
      BY <2>1
    <3>2. \A k : Count(<< >>, k) <= Count(owed', k)
      <4>1. owed' = << >> /\ << >> \in Seq(Characters)
        BY <1>2, <1>3
      <4>2. \A k : Count(<< >>, k) \in Nat
        BY <4>1, OwesCounted, Zenon
      <4> QED BY <4>1, <4>2
    <3> QED BY <1>2, <1>3, <2>1, <3>1, <3>2 DEF LossInv
  <2>10. ASSUME ~lost' PROVE HeldInv(s, s)' /\ ExactInv(s, << >>)'
    <3>1. HeldInv(st, st)
      BY <1>1, <2>1, <2>2, <2>10 DEF Forecast
    <3>2. HeldInv(s, s)'
      BY <2>1, <2>4, <3>1 DEF HeldInv
    <3>3. SameKeys(<< >>, owed')
      BY <1>2, <1>3 DEF SameKeys
    <3>4. repeating \in CharKeys => repeating \in early' /\ NoKey # repeating
      BY <2>1, Apart
    <3> QED BY <1>2, <1>3, <2>1, <2>4, <3>2, <3>3, <3>4 DEF ExactInv
  <2>11. ASSUME ~lost', ~muddled' PROVE CaseInv(s, << >>)'
    <3>1. HeldInv(st, st)
      BY <1>1, <2>1, <2>2, <2>11 DEF Forecast
    <3>2. down \cap Shifts = {}
      BY <2>1, <2>11, Zenon
    <3>3. ~ (Shifts \subseteq down)
      BY <3>2 DEF Shifts
    <3>4. latch.key \in Shifts => latch.up
      BY <3>1, <3>2, Apart DEF HeldInv, Keys
    <3>5. latch.up \in BOOLEAN
      <4>1. latch \in Sent \/ latch = Make(NoKey)
        BY <1>1 DEF Types
      <4>2. Make(NoKey).up = FALSE
        BY MakeFields, Zenon
      <4>3. latch \in Sent => latch.up \in BOOLEAN
        BY SentFields
      <4> QED BY <4>1, <4>2, <4>3, Zenon
    <3>6. latch.key \in Shifts => FALSE = ~latch.up
      BY <3>4, <3>5
    <3> QED BY <1>2, <1>3, <2>1, <3>2, <3>3, <3>6, Zenon DEF CaseInv
  <2>12. Forecast(s, s, << >>)'
    BY <1>2, <1>3, <2>4, <2>5, <2>9, <2>10, <2>11, Zenon DEF Forecast
  <2> QED BY <2>6, <2>8, <2>12 DEF KeyInv
<1> QED BY <1>5, <1>6

(* What keyboard_read makes of a byte.                                     *)
LEMMA DriverReads ==
  ASSUME Types, DriverInv, keyboard_read, NEW b, b = byte
  PROVE  /\ last_scancode' = NextLast(last_scancode, b)
         /\ shift_pressed' = (IF b.key \in Shifts THEN ~b.up ELSE shift_pressed)
         /\ last_scancode' # NoKey => key_held'
         /\ key_held' \in BOOLEAN
         /\ IF Starts(last_scancode, b) THEN Return(b.key)
            ELSE owed' = owed /\ early' = early /\ flaws' = flaws
<1>1. last_scancode # NoKey => key_held
  BY DEF DriverInv
<1>2. last_scancode \in Heads /\ key_held \in BOOLEAN
  BY DEF Types
<1>3. CASE ShiftCode
  <2>1. /\ b.key \in Shifts /\ shift_pressed' = ~b.up /\ last_scancode' = last_scancode
        /\ key_held' = key_held /\ owed' = owed /\ early' = early /\ flaws' = flaws
    BY <1>3 DEF ShiftCode, history
  <2> QED BY <1>1, <1>2, <2>1, Apart DEF NextLast, Starts
<1>4. CASE ReleaseCode
  <2>1. /\ b.key \notin Shifts /\ b.up /\ shift_pressed' = shift_pressed
        /\ IF b.key = last_scancode THEN last_scancode' = NoKey /\ key_held' = FALSE
           ELSE last_scancode' = last_scancode /\ key_held' = key_held
        /\ owed' = owed /\ early' = early /\ flaws' = flaws
    BY <1>4 DEF ReleaseCode, history
  <2> QED BY <1>1, <1>2, <2>1, Zenon DEF NextLast, Starts
<1>5. CASE PressCode
  <2>1. /\ b.key \notin Shifts /\ ~b.up /\ shift_pressed' = shift_pressed
        /\ IF b.key = last_scancode /\ key_held
           THEN /\ last_scancode' = last_scancode /\ key_held' = key_held
                /\ owed' = owed /\ early' = early /\ flaws' = flaws
           ELSE last_scancode' = b.key /\ key_held' = TRUE /\ Return(b.key)
    BY <1>5 DEF PressCode, history
  <2>2. CASE b.key = last_scancode /\ key_held
    BY <1>1, <1>2, <2>1, <2>2 DEF NextLast, Starts
  <2>3. CASE ~(b.key = last_scancode /\ key_held)
    <3>1. last_scancode' = b.key /\ key_held' = TRUE /\ Return(b.key)
      BY <2>1, <2>3
    <3>2. b.key \in CharKeys => Starts(last_scancode, b)
      BY <1>1, <2>1, <2>3, Apart DEF Starts
    <3>3. b.key \notin CharKeys => owed' = owed /\ early' = early /\ flaws' = flaws
      BY <3>1, Zenon DEF Return, history
    <3> QED BY <2>1, <3>1, <3>2, <3>3 DEF NextLast, Starts
  <2> QED BY <2>2, <2>3
<1> QED BY <1>3, <1>4, <1>5 DEF keyboard_read

(* A byte that was read leaves nothing to be started by its repetition.    *)
LEMMA ByteKnown ==
  ASSUME NEW last \in Heads, NEW b \in Sent \cup {Make(NoKey)}, NEW n, n = NextLast(last, b)
  PROVE  /\ n \in Heads
         /\ b.up => b.key # n
         /\ ~b.up /\ b.key \notin Shifts => n \in {b.key, NoKey}
         /\ ~Starts(n, b)
<1>1. b.up \in BOOLEAN /\ (b.up => b.key # NoKey) /\ (~b.up => b.key \in Keys \cup {NoKey})
  <2>1. CASE b \in Sent
    BY <2>1, SentFields, Apart
  <2>2. CASE b = Make(NoKey)
    BY <2>2, MakeFields, Zenon
  <2> QED BY <2>1, <2>2
<1>2. NoKey \in Heads
  BY DEF Heads
<1> QED BY <1>1, <1>2, Apart DEF NextLast, Starts

(* A character is returned that is due: the oldest of its key.             *)
LEMMA Returned ==
  ASSUME owed \in Seq(Characters), NEW k \in CharKeys, Return(k), Owes(owed, k) # {}
  PROVE  \E n \in 1 .. Len(owed) :
           /\ owed[n].key = k /\ \A m \in 1 .. Len(owed) : owed[m].key = k => n <= m
           /\ owed' = Removed(owed, n) /\ owed' \in Seq(Characters)
           /\ \A j : More(owed, owed', owed[n], j)
           /\ early' = early
           /\ flaws' \subseteq flaws \cup {"skipped", "case"}
           /\ ~lost /\ n = 1 => flaws' \subseteq flaws \cup {"case"}
           /\ ~lost /\ n = 1 /\ owed[n] = Character(k) => flaws' = flaws
<1>1. Len(owed) \in Nat /\ DOMAIN owed = 1 .. Len(owed)
  BY LenProperties
<1>2. Owes(owed, k) = {n \in DOMAIN owed : owed[n].key = k}
  BY <1>1 DEF Owes
<1>3. PICK n : n = Min(Owes(owed, k))
  OBVIOUS
<1>4. n \in Owes(owed, k) /\ \A m \in Owes(owed, k) : n <= m
  <2>1. Owes(owed, k) \in SUBSET Nat
    BY <1>1 DEF Owes
  <2>2. \E x \in Owes(owed, k) : \A y \in Owes(owed, k) : x <= y
    BY <2>1, LeastNatural
  <2> QED BY <1>3, <2>2 DEF Min
<1>5. n \in 1 .. Len(owed) /\ owed[n].key = k
      /\ \A m \in 1 .. Len(owed) : owed[m].key = k => n <= m
  BY <1>4 DEF Owes
<1>6. /\ owed' = Removed(owed, n)
      /\ flaws' = flaws \cup (IF lost \/ n = 1 THEN {} ELSE {"skipped"})
                        \cup (IF lost \/ owed[n] = Character(k) THEN {} ELSE {"case"})
      /\ early' = early
  BY <1>2, <1>3, Zenon DEF Return
<1>7. owed' \in Seq(Characters)
  BY <1>5, <1>6, RemovedAt
<1>8. ASSUME NEW j PROVE More(owed, owed', owed[n], j)
  BY <1>5, <1>6, <1>7, CountRemoved
<1>9. /\ flaws' \subseteq flaws \cup {"skipped", "case"}
      /\ ~lost /\ n = 1 => flaws' \subseteq flaws \cup {"case"}
      /\ ~lost /\ n = 1 /\ owed[n] = Character(k) => flaws' = flaws
  BY <1>6
<1> QED BY <1>5, <1>6, <1>7, <1>8, <1>9

(* One is returned that is not due.                                        *)
LEMMA ReturnedEarly ==
  ASSUME owed \in Seq(Characters), NEW k \in CharKeys, Return(k), Owes(owed, k) = {}
  PROVE  /\ owed' = owed /\ early' = early \ {k}
         /\ k \in early => flaws' = flaws \cup {"stale"}
<1>1. DOMAIN owed = 1 .. Len(owed)
  BY LenProperties
<1>2. {n \in DOMAIN owed : owed[n].key = k} = {}
  BY <1>1 DEF Owes
<1> QED BY <1>2, Zenon DEF Return

(* What keyboard_read leaves alone.                                        *)
LEMMA ReadKeeps ==
  ASSUME keyboard_read
  PROVE  /\ Polling /\ Polling' /\ inits' = inits /\ muddled' = muddled /\ lost' = lost
         /\ down' = down /\ repeating' = repeating /\ latch' = byte
  BY DEF keyboard_read, ReadPort, Polling

(* A code is read that starts a character.                                 *)
LEMMA ReadCharacter ==
  ASSUME NEW e, NEW w, NEW v \in Seq(Characters), NEW c \in Characters, w = <<c>> \o v,
         owed \in Seq(Characters), LossInv(e, w), Return(c.key),
         repeating' = repeating, down' = down
  PROVE  /\ owed' \in Seq(Characters) /\ early' = early
         /\ LossInv(e, v)'
         /\ ~lost /\ ExactInv(e, w) => ExactInv(e, v)'
         /\ ~lost /\ w = owed /\ c = Character(c.key) => v = owed' /\ flaws' = flaws
<1>1. PICK k \in CharKeys : k = c.key
  BY DEF Characters
<1>2. \A j : More(w, v, c, j)
  BY AtFront, Zenon
<1>3. w \in Seq(Characters) /\ w[1] = c /\ Removed(w, 1) = v /\ Len(w) = Len(v) + 1
  <2>1. w \in Seq(Characters) /\ Len(w) = Len(v) + 1
    BY AtFront, Zenon
  <2>2. w[1] = c
    BY AtFront, SMT
  <2>3. Removed(w, 1) = v
    BY AtFront, Zenon
  <2> QED BY <2>1, <2>2, <2>3
<1>4. \A j : Count(w, j) \in Nat /\ Count(v, j) \in Nat /\ Count(owed, j) \in Nat
             /\ (Count(owed, j) > 0 <=> Owes(owed, j) # {})
  BY <1>3, OwesCounted, Zenon
<1>5. Count(w, k) = Count(v, k) + 1 /\ Count(w, k) <= Count(owed, k)
  BY <1>1, <1>2 DEF More, LossInv
<1>6. Owes(owed, k) # {}
  BY <1>4, <1>5
<1>7. PICK n \in 1 .. Len(owed) :
           /\ owed[n].key = k /\ \A m \in 1 .. Len(owed) : owed[m].key = k => n <= m
           /\ owed' = Removed(owed, n) /\ owed' \in Seq(Characters)
           /\ \A j : More(owed, owed', owed[n], j)
           /\ early' = early
           /\ flaws' \subseteq flaws \cup {"skipped", "case"}
           /\ ~lost /\ n = 1 => flaws' \subseteq flaws \cup {"case"}
           /\ ~lost /\ n = 1 /\ owed[n] = Character(k) => flaws' = flaws
  BY <1>1, <1>6, Returned, Zenon
<1>8. LossInv(e, v)'
  <2>1. \A j : Count(v, j) \in Nat /\ Count(owed', j) \in Nat
    BY <1>4, <1>7, OwesCounted
  <2>2. ASSUME NEW j
        PROVE  /\ Count(w, j) <= Count(owed, j) => Count(v, j) <= Count(owed', j)
               /\ Count(w, j) < Count(owed, j) => Count(v, j) < Count(owed', j)
    <3>1. /\ Count(w, j) = IF k = j THEN Count(v, j) + 1 ELSE Count(v, j)
          /\ Count(owed, j) = IF k = j THEN Count(owed', j) + 1 ELSE Count(owed', j)
      BY <1>1, <1>2, <1>7 DEF More
    <3> QED BY <1>4, <2>1, <3>1
  <2>3. "stray" \notin flaws'
    BY <1>7, Zenon DEF LossInv
  <2>4. \A j \in CharKeys : Count(v, j) <= Count(owed', j)
    BY <2>2 DEF LossInv
  <2>5. repeating' \in CharKeys /\ e.last # repeating'
          => repeating' \in early' \/ Count(v, repeating') < Count(owed', repeating')
    BY <1>7, <2>2, ZenonT(30) DEF LossInv
  <2> QED BY <2>3, <2>4, <2>5 DEF LossInv
<1>9. ASSUME ~lost, SameKeys(w, owed) PROVE n = 1 /\ SameKeys(v, owed')
  <2>1. /\ 1 \in 1 .. Len(owed) /\ owed[1].key = c.key
        /\ SameKeys(v, Removed(owed, 1))
    BY <1>9, SameKeysAtFront
  <2>2. n <= 1
    BY <1>1, <1>7, <2>1
  <2>3. n = 1
    BY <1>7, <2>2
  <2> QED BY <1>7, <2>1, <2>3, ZenonT(30)
<1>10. ASSUME ~lost, ExactInv(e, w) PROVE ExactInv(e, v)'
  <2>1. n = 1 /\ SameKeys(v, owed')
    BY <1>9, <1>10 DEF ExactInv
  <2>2. flaws' \subseteq {"stale", "case"}
    BY <1>7, <1>10, <2>1 DEF ExactInv
  <2> QED BY <1>7, <1>10, <2>1, <2>2, Zenon DEF ExactInv
<1>11. ASSUME ~lost, w = owed, c = Character(c.key) PROVE v = owed' /\ flaws' = flaws
  <2>1. SameKeys(w, owed)
    BY <1>11 DEF SameKeys
  <2>2. n = 1
    BY <1>9, <1>11, <2>1
  <2> QED BY <1>1, <1>3, <1>7, <1>11, <2>2, Zenon
<1> QED BY <1>7, <1>8, <1>10, <1>11

(* A code that waited is read: what it returns is the beginning of the     *)
(* forecast.                                                               *)
LEMMA ReadWaiting ==
  ASSUME KeyInv, keyboard_read, fifo # << >>
  PROVE  KeyInv'
<1>1. PICK st, e, w : Types /\ DriverInv /\ Forecast(st, e, w)
  BY DEF KeyInv
<1>2. /\ Polling /\ Polling' /\ inits' = inits /\ muddled' = muddled /\ lost' = lost
      /\ down' = down /\ repeating' = repeating
  BY ReadKeeps
<1>3. st \in States /\ e \in States /\ w \in Seq(Characters) /\ Foretells(fifo, st, e, w)
      /\ st.last = last_scancode /\ st.shift = shift_pressed
  BY <1>1, <1>2, ForetellsType DEF Types, Forecast
<1>4. PICK b : b = Head(fifo)
  OBVIOUS
<1>5. b = byte /\ latch' = b /\ fifo' = Tail(fifo)
  BY <1>4 DEF keyboard_read, ReadPort, byte
<1>6. /\ b \in Sent /\ Tail(fifo) \in Seq(Sent) /\ Len(Tail(fifo)) = Len(fifo) - 1
      /\ Len(fifo) \in Nat /\ FifoSize \in Nat
  BY <1>1, <1>4, HeadTailProperties, LenProperties, KeyboardAssumption DEF Types
<1>7. PICK v \in Seq(Characters) : w = Emits(st, b) \o v /\ Foretells(fifo', After(st, b), e, v)
  BY <1>1, <1>3, <1>4, <1>5, ReadFirst, ZenonT(30) DEF Types
<1>8. PICK s : s = After(st, b)
  OBVIOUS
<1>9. /\ last_scancode' = NextLast(last_scancode, b)
      /\ shift_pressed' = (IF b.key \in Shifts THEN ~b.up ELSE shift_pressed)
      /\ last_scancode' # NoKey => key_held'
      /\ key_held' \in BOOLEAN
      /\ IF Starts(last_scancode, b) THEN Return(b.key)
         ELSE owed' = owed /\ early' = early /\ flaws' = flaws
  BY <1>1, <1>5, DriverReads
<1>10. s \in States /\ s.last = last_scancode' /\ s.shift = shift_pressed'
       /\ (~b.up => b.key \in s.held)
  BY <1>3, <1>6, <1>8, <1>9, AfterType, StateFields, Zenon
<1>11. LossInv(e, w) /\ (~lost => HeldInv(st, e) /\ ExactInv(e, w))
       /\ (~lost /\ ~muddled => CaseInv(e, w))
  BY <1>1, <1>2 DEF Forecast
<1>12. /\ owed' \in Seq(Characters) /\ early' = early
       /\ LossInv(e, v)'
       /\ ~lost => ExactInv(e, v)'
       /\ ~lost /\ w = owed => v = owed' /\ flaws' = flaws
  <2>1. CASE Starts(last_scancode, b)
    <3>1. PICK c : c = Typed(b, shift_pressed)
      OBVIOUS
    <3>2. b.key \in CharKeys /\ shift_pressed \in BOOLEAN
      BY <1>1, <2>1 DEF Starts, Types
    <3>3. c \in Characters /\ c.key = b.key /\ c = Character(c.key)
      BY <3>1, <3>2 DEF Typed, Characters, Character
    <3>4. w = <<c>> \o v
      BY <1>3, <1>7, <2>1, <3>1 DEF Emits
    <3>5. Return(c.key)
      BY <1>9, <2>1, <3>3, Zenon
    <3> QED BY <1>1, <1>2, <1>11, <3>3, <3>4, <3>5, ReadCharacter, Zenon DEF Types
  <2>2. CASE ~Starts(last_scancode, b)
    <3>1. w = v
      BY <1>3, <1>7, <2>2, ConcatEmptySeq DEF Emits
    <3>2. owed' = owed /\ early' = early /\ flaws' = flaws
      BY <1>9, <2>2
    <3>3. LossInv(e, v)'
      BY <1>2, <1>11, <3>1, <3>2 DEF LossInv
    <3>4. ~lost => ExactInv(e, v)'
      BY <1>2, <1>11, <3>1, <3>2 DEF ExactInv
    <3> QED BY <1>1, <3>1, <3>2, <3>3, <3>4 DEF Types
  <2> QED BY <2>1, <2>2
<1>13. Types'
  <2>1. Len(fifo') <= FifoSize
    BY <1>1, <1>5, <1>6 DEF Types
  <2>2. last_scancode' \in Heads /\ shift_pressed' \in BOOLEAN
    BY <1>10, StateFields, Zenon
  <2> QED BY <1>1, <1>2, <1>5, <1>6, <1>9, <1>12, <2>1, <2>2 DEF Types
<1>14. DriverInv'
  <2>1. last_scancode \in Heads
    BY <1>1 DEF Types
  <2>2. /\ b.up => b.key # last_scancode'
        /\ ~b.up /\ b.key \notin Shifts => last_scancode' \in {b.key, NoKey}
        /\ ~Starts(last_scancode', b)
    BY <1>6, <1>9, <2>1, ByteKnown
  <2> QED BY <1>2, <1>5, <1>9, <2>2 DEF DriverInv
<1>15. ~lost' => HeldInv(s, e)'
  BY <1>2, <1>5, <1>10, <1>11, Zenon DEF HeldInv
<1>16. ASSUME ~lost', ~muddled' PROVE CaseInv(e, v)'
  <2>1. CaseInv(e, w)
    BY <1>2, <1>11, <1>16
  <2>2. v = owed' /\ flaws' = flaws
    BY <1>2, <1>12, <1>16, <2>1 DEF CaseInv
  <2>3. latch'.key \in Shifts => shift_pressed' = ~latch'.up
    BY <1>5, <1>9
  <2> QED BY <1>2, <2>1, <2>2, <2>3 DEF CaseInv
<1>17. Forecast(s, e, v)'
  BY <1>2, <1>7, <1>8, <1>10, <1>12, <1>15, <1>16, Zenon DEF Forecast
<1> QED BY <1>13, <1>14, <1>17 DEF KeyInv

(* The port repeats its last byte.                                         *)
LEMMA ReadAgain ==
  ASSUME KeyInv, keyboard_read, fifo = << >>
  PROVE  KeyInv'
<1>1. PICK st, e, w : Types /\ DriverInv /\ Forecast(st, e, w)
  BY DEF KeyInv
<1>2. /\ Polling /\ Polling' /\ inits' = inits /\ muddled' = muddled /\ lost' = lost
      /\ down' = down /\ repeating' = repeating
  BY ReadKeeps
<1>3. fifo' = << >> /\ latch = byte /\ latch' = latch
  BY DEF keyboard_read, ReadPort, byte
<1>4. st \in States /\ e = st /\ w = << >>
      /\ st.last = last_scancode /\ st.shift = shift_pressed
  <2>1. Foretells(fifo, st, e, w) /\ fifo \in Seq(Sent)
        /\ st.last = last_scancode /\ st.shift = shift_pressed
    BY <1>1, <1>2 DEF Types, Forecast
  <2>2. st \in States
    BY <2>1, ForetellsType, Zenon
  <2>3. Foretells(<< >>, st, e, w)
    BY <2>1
  <2>4. e = st /\ w = << >>
    BY <2>3, NothingRead
  <2> QED BY <2>1, <2>2, <2>4
<1>5. /\ last_scancode' = NextLast(last_scancode, latch)
      /\ shift_pressed' = (IF latch.key \in Shifts THEN ~latch.up ELSE shift_pressed)
      /\ last_scancode' # NoKey => key_held'
      /\ key_held' \in BOOLEAN
      /\ IF Starts(last_scancode, latch) THEN Return(latch.key)
         ELSE owed' = owed /\ early' = early /\ flaws' = flaws
  BY <1>1, <1>3, DriverReads
<1>6. /\ last_scancode' \in Heads
      /\ latch.up => latch.key # last_scancode'
      /\ ~latch.up /\ latch.key \notin Shifts => last_scancode' \in {latch.key, NoKey}
      /\ ~Starts(last_scancode', latch)
  BY <1>1, <1>5, ByteKnown DEF Types
<1>7. \/ last_scancode' = last_scancode
      \/ last_scancode = NoKey /\ last_scancode' = latch.key /\ ~latch.up /\ latch.key \notin Shifts
  BY <1>1, <1>2, <1>5 DEF DriverInv, NextLast
<1>8. Starts(last_scancode, latch)
        => /\ latch.key \in early /\ latch.key \in CharKeys
           /\ last_scancode = NoKey /\ last_scancode' = latch.key
  BY <1>1, <1>2, <1>6, <1>7 DEF DriverInv, Starts
<1>9. shift_pressed' \in BOOLEAN
  BY <1>1, <1>5, Zenon DEF Types
<1>10. PICK s : s = [last |-> last_scancode', shift |-> shift_pressed', held |-> st.held]
  BY Zenon
<1>11. s \in States /\ s.last = last_scancode' /\ s.shift = shift_pressed' /\ s.held = st.held
  BY <1>4, <1>6, <1>9, <1>10, StateFields DEF States
<1>12. Foretells(fifo', s, s, << >>)
  BY <1>3, <1>11, ReadNothing
<1>13. LossInv(st, << >>) /\ (~lost => HeldInv(st, st) /\ ExactInv(st, << >>))
       /\ (~lost /\ ~muddled => CaseInv(st, << >>))
  BY <1>1, <1>2, <1>4 DEF Forecast
<1>14. owed \in Seq(Characters) /\ early \subseteq CharKeys
  BY <1>1 DEF Types
<1>15. \A j : Count(<< >>, j) = 0 /\ Count(owed, j) \in Nat
              /\ (Count(owed, j) > 0 <=> Owes(owed, j) # {})
  <2>1. << >> \in Seq(Characters) /\ Len(<< >>) = 0
    OBVIOUS
  <2>2. ASSUME NEW j PROVE Count(<< >>, j) = 0
    <3>1. Owes(<< >>, j) = {}
      BY <2>1 DEF Owes
    <3>2. Count(<< >>, j) \in Nat /\ ~(Count(<< >>, j) > 0)
      BY <2>1, <3>1, OwesCounted, Zenon
    <3> QED BY <3>2
  <2> QED BY <1>14, <2>2, OwesCounted
<1>16. repeating \in CharKeys /\ last_scancode' # repeating => last_scancode # repeating
  BY <1>7, Apart
<1>17. owed' \in Seq(Characters) /\ early' \subseteq early /\ LossInv(s, << >>)'
  <2>1. CASE ~Starts(last_scancode, latch)
    <3>1. owed' = owed /\ early' = early /\ flaws' = flaws
      BY <1>5, <2>1
    <3>2. LossInv(s, << >>)'
      BY <1>2, <1>4, <1>11, <1>13, <1>16, <3>1 DEF LossInv
    <3> QED BY <1>14, <3>1, <3>2
  <2>2. CASE Starts(last_scancode, latch) /\ Owes(owed, latch.key) # {}
    <3>1. PICK k \in CharKeys : k = latch.key
      BY <1>8, <2>2
    <3>2. PICK n \in 1 .. Len(owed) :
            /\ owed[n].key = k /\ owed' \in Seq(Characters)
            /\ \A j : More(owed, owed', owed[n], j)
            /\ early' = early
            /\ flaws' \subseteq flaws \cup {"skipped", "case"}
      BY <1>5, <1>14, <2>2, <3>1, Returned, Zenon
    <3>3. \A j : Count(owed', j) \in Nat
      BY <3>2, OwesCounted
    <3>4. \A j : Count(<< >>, j) <= Count(owed', j)
      BY <1>15, <3>3
    <3>5. \A j : j # k => Count(owed', j) = Count(owed, j)
      BY <3>2 DEF More
    <3>6. repeating' \in CharKeys /\ s.last # repeating'
            => repeating' \in early' \/ Count(<< >>, repeating') < Count(owed', repeating')
      BY <1>2, <1>4, <1>8, <1>11, <1>13, <1>16, <2>2, <3>1, <3>2, <3>5, Zenon DEF LossInv
    <3>7. "stray" \notin flaws'
      BY <1>13, <3>2, Zenon DEF LossInv
    <3>8. LossInv(s, << >>)'
      BY <3>4, <3>6, <3>7 DEF LossInv
    <3> QED BY <3>2, <3>8
  <2>3. CASE Starts(last_scancode, latch) /\ Owes(owed, latch.key) = {}
    <3>1. PICK k \in CharKeys : k = latch.key
      BY <1>8, <2>3
    <3>2. owed' = owed /\ early' = early \ {k} /\ flaws' = flaws \cup {"stale"}
      BY <1>5, <1>8, <1>14, <2>3, <3>1, ReturnedEarly
    <3>3. repeating' \in CharKeys /\ s.last # repeating'
            => repeating' \in early' \/ Count(<< >>, repeating') < Count(owed', repeating')
      BY <1>2, <1>4, <1>8, <1>11, <1>13, <1>16, <2>3, <3>1, <3>2, Zenon DEF LossInv
    <3>4. "stray" \notin flaws'
      BY <1>13, <3>2 DEF LossInv
    <3>5. LossInv(s, << >>)'
      BY <1>13, <3>2, <3>3, <3>4 DEF LossInv
    <3> QED BY <1>14, <3>2, <3>5
  <2> QED BY <2>1, <2>2, <2>3
<1>18. Types'
  <2>1. fifo' \in Seq(Sent) /\ Len(fifo') <= FifoSize
    BY <1>1, <1>3 DEF Types
  <2> QED BY <1>1, <1>2, <1>3, <1>5, <1>6, <1>9, <1>17, <2>1 DEF Types
<1>19. DriverInv'
  BY <1>2, <1>3, <1>5, <1>6 DEF DriverInv
<1>20. ~lost' => HeldInv(s, s)'
  BY <1>2, <1>3, <1>11, <1>13 DEF HeldInv
<1>21. ASSUME ~lost
       PROVE  /\ owed = << >> /\ owed' = << >>
              /\ early' = IF Starts(last_scancode, latch) THEN early \ {latch.key} ELSE early
              /\ flaws' \subseteq flaws \cup {"stale"}
  <2>1. Len(owed) = 0
    BY <1>13, <1>21 DEF ExactInv, SameKeys
  <2>2. owed = << >>
    BY <1>14, <2>1, EmptySeq
  <2>3. Owes(owed, latch.key) = {}
    BY <2>1 DEF Owes
  <2>4. CASE Starts(last_scancode, latch)
    BY <1>5, <1>8, <1>14, <2>2, <2>3, <2>4, ReturnedEarly
  <2>5. CASE ~Starts(last_scancode, latch)
    BY <1>5, <2>2, <2>5
  <2> QED BY <2>2, <2>4, <2>5
<1>22. ASSUME ~lost' PROVE ExactInv(s, << >>)'
  <2>1. HeldInv(st, st) /\ ExactInv(st, << >>)
    BY <1>2, <1>13, <1>22
  <2>2. s.last # NoKey => s.last \in down'
    BY <1>2, <1>4, <1>7, <1>11, <2>1 DEF HeldInv, ExactInv
  <2>3. s.shift => down' \cap Shifts # {}
    <3>1. CASE latch.key \in Shifts
      <4>1. s.shift => ~latch.up /\ latch.key # NoKey
        BY <1>5, <1>11, <3>1, Apart, Zenon DEF Keys
      <4> QED BY <1>2, <2>1, <3>1, <4>1 DEF HeldInv
    <3>2. CASE latch.key \notin Shifts
      BY <1>2, <1>4, <1>5, <1>11, <2>1, <3>2, Zenon DEF ExactInv
    <3> QED BY <3>1, <3>2
  <2>4. repeating' \in CharKeys => (repeating' \in early' <=> s.last # repeating')
    <3>1. SUFFICES ASSUME repeating \in CharKeys
                   PROVE  repeating \in early' <=> last_scancode' # repeating
      BY <1>2, <1>11
    <3>2. repeating \in early <=> last_scancode # repeating
      BY <1>4, <2>1, <3>1 DEF ExactInv
    <3>3. CASE Starts(last_scancode, latch)
      <4>1. early' = early \ {latch.key}
        BY <1>2, <1>21, <1>22, <3>3
      <4> QED BY <1>8, <3>1, <3>2, <3>3, <4>1, Apart
    <3>4. CASE ~Starts(last_scancode, latch)
      <4>1. early' = early
        BY <1>2, <1>21, <1>22, <3>4
      <4> QED BY <1>7, <3>1, <3>2, <3>4, <4>1, Apart DEF Starts
    <3> QED BY <3>3, <3>4
  <2>5. SameKeys(<< >>, owed') /\ flaws' \subseteq {"stale", "case"}
    BY <1>2, <1>21, <1>22, <2>1, Zenon DEF ExactInv, SameKeys
  <2> QED BY <2>2, <2>3, <2>4, <2>5 DEF ExactInv
<1>23. ASSUME ~lost', ~muddled' PROVE CaseInv(s, << >>)'
  <2>1. CaseInv(st, << >>)
    BY <1>2, <1>13, <1>23
  <2>2. shift_pressed' = shift_pressed
    BY <1>5, <2>1 DEF CaseInv
  <2>3. "case" \notin flaws' /\ << >> = owed'
    BY <1>2, <1>21, <1>23, <2>1 DEF CaseInv
  <2> QED BY <1>2, <1>3, <1>4, <1>11, <2>1, <2>2, <2>3 DEF CaseInv
<1>24. Forecast(s, s, << >>)'
  BY <1>2, <1>11, <1>12, <1>17, <1>20, <1>22, <1>23, Zenon DEF Forecast
<1> QED BY <1>18, <1>19, <1>24 DEF KeyInv

-----------------------------------------------------------------------------
(***************************************************************************)
(* The invariant holds, and what follows from it.                          *)
(***************************************************************************)
(* Nothing has been pressed and nothing read.                              *)
LEMMA KeyInit == Init => KeyInv
<1>1. SUFFICES ASSUME Init PROVE KeyInv
  OBVIOUS
<1>2. PICK st : st = [last |-> NoKey, shift |-> FALSE, held |-> {}]
  BY Zenon
<1>3. st \in States /\ st.held = {}
  BY <1>2 DEF States, Heads
<1>4. Foretells(fifo, st, st, << >>)
  BY <1>1, <1>3, ReadNothing DEF Init
<1>5. ~Polling
  BY <1>1 DEF Init, Polling
<1>6. Types
  <2>1. FifoSize \in Nat /\ << >> \in Seq(Sent) /\ Len(<< >>) = 0 /\ << >> \in Seq(Characters)
    BY KeyboardAssumption
  <2>2. fifo \in Seq(Sent) /\ Len(fifo) <= FifoSize /\ owed \in Seq(Characters)
    BY <1>1, <2>1 DEF Init
  <2>3. inits \in 0 .. 2
    BY <1>1 DEF Init
  <2>4. last_scancode \in Heads
    BY <1>1 DEF Init, Heads
  <2> QED BY <1>1, <2>2, <2>3, <2>4, Zenon DEF Init, Types
<1>7. DriverInv
  BY <1>1, <1>5 DEF Init, DriverInv
<1>8. HeldInv(st, st)
  BY <1>1, <1>3, MakeFields, Zenon DEF Init, HeldInv
<1>9. Forecast(st, st, << >>)
  BY <1>4, <1>5, <1>8 DEF Forecast
<1> QED BY <1>6, <1>7, <1>9 DEF KeyInv

(* Every step of the user, the controller and the driver keeps the         *)
(* forecast.                                                               *)
LEMMA KeyStep == KeyInv /\ [Next]_vars => KeyInv'
<1>1. SUFFICES ASSUME KeyInv, [Next]_vars PROVE KeyInv'
  OBVIOUS
<1>2. CASE \E key \in Used : Press(key)
  BY <1>1, <1>2, PressStep
<1>3. CASE \E key \in Used : Release(key)
  BY <1>1, <1>3, ReleaseStep
<1>4. CASE Repeat
  BY <1>1, <1>4, RepeatStep
<1>5. CASE keyboard_init
  BY <1>1, <1>5, InitStep
<1>6. CASE keyboard_read
  BY <1>1, <1>6, ReadWaiting, ReadAgain
<1>7. CASE UNCHANGED vars
  <2>1. /\ down' = down /\ repeating' = repeating /\ fifo' = fifo /\ latch' = latch
        /\ shift_pressed' = shift_pressed /\ last_scancode' = last_scancode
        /\ key_held' = key_held /\ owed' = owed /\ early' = early /\ flaws' = flaws
        /\ inits' = inits /\ muddled' = muddled /\ lost' = lost
    BY <1>7 DEF vars, hardware, driver, history
  <2>2. Types' /\ DriverInv'
    BY <1>1, <2>1 DEF KeyInv, Types, DriverInv, Polling
  <2>3. PICK st, e, w : Forecast(st, e, w)
    BY <1>1 DEF KeyInv
  <2>4. Forecast(st, e, w)'
    BY <2>1, <2>3, Zenon DEF Forecast, LossInv, HeldInv, ExactInv, CaseInv, Polling
  <2> QED BY <2>2, <2>4 DEF KeyInv
<1> QED BY <1>1, <1>2, <1>3, <1>4, <1>5, <1>6, <1>7 DEF Next

(* The forecast always exists.                                             *)
LEMMA KeyAlways == Spec => []KeyInv
  BY KeyInit, KeyStep, PTL DEF Spec

(* The variables of keyboard.c and of the controller stay in their types:  *)
(* the queue never holds more than FifoSize codes, last_scancode is never  *)
(* a shift key or the prefix, and the repeating key is held down.          *)
THEOREM KeyboardTypes == Spec => []TypeOK
<1>1. KeyInv => TypeOK
  <2>1. SUFFICES ASSUME KeyInv PROVE TypeOK
    OBVIOUS
  <2>2. Types
    BY <2>1 DEF KeyInv
  <2>3. Sent \subseteq Byte
    <3>1. ASSUME NEW b \in Sent PROVE b \in Byte
      <4>1. CASE \E k \in Keys : b = Make(k)
        <5>1. PICK k \in Keys : b = [key |-> k, up |-> FALSE]
          BY <4>1, Zenon DEF Make
        <5> QED BY <5>1 DEF Byte
      <4>2. CASE \E k \in Keys \cup {Prefix} : b = Break(k)
        <5>1. PICK k \in Keys \cup {Prefix} : b = [key |-> k, up |-> TRUE]
          BY <4>2, Zenon DEF Break
        <5> QED BY <5>1 DEF Byte
      <4> QED BY <4>1, <4>2 DEF Sent
    <3> QED BY <3>1
  <2>4. Make(NoKey) \in Byte
    BY DEF Make, Byte
  <2>5. fifo \in Seq(Byte)
    BY <2>2, <2>3 DEF Types
  <2> QED BY <2>2, <2>3, <2>4, <2>5 DEF Types, TypeOK, Heads
<1> QED BY <1>1, KeyAlways, PTL

(* keyboard_read returns every press exactly once and in order, as long as *)
(* the controller has room (EachPressOnce), for any set of keys, size of   *)
(* the queue and interleaving of typing, repeating and polling.            *)
THEOREM PressesReturnedOnce == Spec => []EachPressOnce
<1>1. KeyInv => EachPressOnce
  <2>1. SUFFICES ASSUME KeyInv, ~lost
                 PROVE  /\ flaws \subseteq {"stale", "case"}
                        /\ Polling /\ fifo = << >> => owed = << >>
    BY DEF EachPressOnce
  <2>2. PICK st, e, w : Types /\ DriverInv /\ Forecast(st, e, w)
    BY <2>1 DEF KeyInv
  <2>3. flaws \subseteq {"stale", "case"}
    BY <2>1, <2>2, Zenon DEF DriverInv, Forecast, ExactInv
  <2>4. ASSUME Polling, fifo = << >> PROVE owed = << >>
    <3>1. Foretells(fifo, st, e, w) /\ SameKeys(w, owed) /\ owed \in Seq(Characters)
      BY <2>1, <2>2, <2>4 DEF Forecast, ExactInv, Types
    <3>2. Foretells(<< >>, st, e, w)
      BY <2>4, <3>1
    <3>3. w = << >>
      BY <3>2, NothingRead
    <3>4. Len(owed) = 0
      BY <3>1, <3>3 DEF SameKeys
    <3> QED BY <3>1, <3>4, EmptySeq
  <2> QED BY <2>3, <2>4
<1> QED BY <1>1, KeyAlways, PTL

(* The character has the case the user asked for, although keyboard_read   *)
(* looks at shift_pressed only when it gets round to the scan code.        *)
THEOREM CaseKept == Spec => []CaseRight
<1>1. KeyInv => CaseRight
  BY DEF KeyInv, CaseRight, Forecast, DriverInv, CaseInv
<1> QED BY <1>1, KeyAlways, PTL

(* No press is returned twice by keyboard_read, whatever codes the         *)
(* controller drops.                                                       *)
THEOREM NeverTwice == Spec => []NothingTwice
<1>1. KeyInv => NothingTwice
  BY Zenon DEF KeyInv, NothingTwice, Forecast, DriverInv, LossInv
<1> QED BY <1>1, KeyAlways, PTL

(* With all keys up and all codes read, last_scancode and shift_pressed    *)
(* are clear: the next press is a new one.                                 *)
THEOREM IdleWhenQuiet == Spec => []QuietMeansIdle
<1>1. KeyInv => QuietMeansIdle
  <2>1. SUFFICES ASSUME KeyInv, Polling, ~lost, down = {}, fifo = << >>
                 PROVE  last_scancode = NoKey /\ ~shift_pressed
    BY DEF QuietMeansIdle
  <2>2. PICK st, e, w : Forecast(st, e, w)
    BY <2>1 DEF KeyInv
  <2>3. Foretells(fifo, st, e, w) /\ ExactInv(e, w)
        /\ st.last = last_scancode /\ st.shift = shift_pressed
    BY <2>1, <2>2 DEF Forecast
  <2>4. Foretells(<< >>, st, e, w)
    BY <2>1, <2>3
  <2>5. e = st
    BY <2>4, NothingRead
  <2> QED BY <2>1, <2>3, <2>5 DEF ExactInv
<1> QED BY <1>1, KeyAlways, PTL
=============================================================================
