------------------------------ MODULE Induction ------------------------------
(***************************************************************************)
(* Induction over the natural numbers, stated with sets and functions in   *)
(* the place of predicates and operators, and what it gives for functions  *)
(* defined by recursion: that they exist and are determined by their       *)
(* recursion.  The proofs of the other modules use it for the loops that   *)
(* the model writes as recursive functions (the components of a path, the  *)
(* characters of a string).                                                *)
(***************************************************************************)
EXTENDS Integers, WellFoundedInduction, TLAPS

(* Every non-empty set of natural numbers has a least element.             *)
LEMMA LeastNatural ==
  ASSUME NEW S \in SUBSET Nat, S # {}
  PROVE  \E n \in S : \A m \in S : n <= m
<1>1. PICK R : R = {pair \in Nat \X Nat : pair[1] < pair[2]}
  OBVIOUS
<1>2. IsWellFoundedOn(R, Nat)
  BY <1>1, NatLessThanWellFounded DEF OpToRel
<1>3. PICK n \in S : \A m \in S : <<m, n>> \notin R
  BY <1>2, WFMin
<1>4. ASSUME NEW m \in S PROVE n <= m
  <2>1. m \in Nat /\ n \in Nat /\ <<m, n>> \in Nat \X Nat
    OBVIOUS
  <2>2. ~(<<m, n>>[1] < <<m, n>>[2])
    BY <1>1, <1>3, <2>1
  <2> QED BY <2>1, <2>2
<1> QED BY <1>4

(* A set that holds 0 and with every number the next holds all numbers.    *)
LEMMA Inductive ==
  ASSUME NEW S, 0 \in S, \A n \in Nat : n \in S => n + 1 \in S
  PROVE  Nat \subseteq S
<1> DEFINE T == Nat \ S
<1>1. SUFFICES ASSUME T # {} PROVE FALSE
  OBVIOUS
<1>2. PICK n \in T : \A m \in T : n <= m
  BY <1>1, LeastNatural
<1>3. n - 1 \in Nat /\ n - 1 \notin T
  BY <1>2
<1> QED BY <1>2, <1>3

(* The same up to a bound.                                                 *)
LEMMA InductiveUpTo ==
  ASSUME NEW n \in Nat, NEW S, 0 \in S, \A k \in 0 .. n - 1 : k \in S => k + 1 \in S
  PROVE  0 .. n \subseteq S
<1> DEFINE T == (0 .. n) \ S
<1>1. SUFFICES ASSUME T # {} PROVE FALSE
  OBVIOUS
<1>2. T \in SUBSET Nat
  OBVIOUS
<1>3. PICK k \in T : \A m \in T : k <= m
  BY <1>1, <1>2, LeastNatural
<1>4. k - 1 \in 0 .. n - 1 /\ k - 1 \notin T
  BY <1>3
<1> QED BY <1>3, <1>4

(* f is the function on 0 .. n with value c at 0 and the steps G.          *)
Follows(f, n, S, c, G) ==
  /\ f \in [0 .. n -> S]
  /\ f[0] = c
  /\ \A k \in 1 .. n : f[k] = G[k][f[k - 1]]

(* A function on 0 .. n may be defined by its value at 0 and a step.       *)
LEMMA RecursionExists ==
  ASSUME NEW n \in Nat, NEW S, NEW c \in S, NEW G,
         \A k \in 1 .. n : \A s \in S : G[k][s] \in S
  PROVE  \E f : Follows(f, n, S, c, G)
<1> DEFINE Good(f, m) == Follows(f, m, S, c, G)
           T == {m \in 0 .. n : \E f : Good(f, m)}
<1> USE DEF Follows
<1>1. 0 \in T
  <2>1. Good([k \in 0 .. 0 |-> c], 0)
    OBVIOUS
  <2> HIDE DEF Good, Follows
  <2>2. \E f : Good(f, 0)
    BY <2>1
  <2> QED BY <2>2
<1>2. ASSUME NEW m \in 0 .. n - 1, m \in T PROVE m + 1 \in T
  <2>1. PICK f : Good(f, m)
    BY <1>2
  <2> DEFINE g == [k \in 0 .. m + 1 |-> IF k <= m THEN f[k] ELSE G[m + 1][f[m]]]
  <2>2. m \in Nat /\ m + 1 \in 1 .. n /\ f[m] \in S
    BY <2>1
  <2>3. G[m + 1][f[m]] \in S
    BY <2>2
  <2>4. g \in [0 .. m + 1 -> S] /\ g[0] = c
    BY <2>1, <2>2, <2>3
  <2>5. ASSUME NEW k \in 1 .. m + 1 PROVE g[k] = G[k][g[k - 1]]
    <3>1. CASE k <= m
      BY <2>1, <2>2, <3>1
    <3>2. CASE k = m + 1
      <4>1. g[k] = G[m + 1][f[m]] /\ g[k - 1] = f[m]
        BY <2>2, <3>2
      <4> QED BY <3>2, <4>1
    <3> QED BY <2>2, <3>1, <3>2
  <2>6. Good(g, m + 1)
    BY <2>4, <2>5
  <2> HIDE DEF Good, Follows, g
  <2>7. \E h : Good(h, m + 1)
    BY <2>6
  <2> QED BY <2>2, <2>7
<1>3. \A m \in 0 .. n - 1 : m \in T => m + 1 \in T
  BY <1>2
<1> HIDE DEF T, Follows
<1>4. 0 .. n \subseteq T
  BY <1>1, <1>3, InductiveUpTo
<1>5. n \in T
  BY <1>4
<1> QED BY <1>5 DEF T

(* And only by one function.                                               *)
LEMMA RecursionUnique ==
  ASSUME NEW n \in Nat, NEW f, NEW g, f[0] = g[0],
         \A k \in 1 .. n : f[k - 1] = g[k - 1] => f[k] = g[k]
  PROVE  \A k \in 0 .. n : f[k] = g[k]
<1> DEFINE T == {k \in 0 .. n : f[k] = g[k]}
<1>1. 0 \in T
  OBVIOUS
<1>2. ASSUME NEW k \in 0 .. n - 1, k \in T PROVE k + 1 \in T
  <2>1. k + 1 \in 1 .. n /\ k + 1 - 1 = k
    OBVIOUS
  <2>2. f[k + 1 - 1] = g[k + 1 - 1]
    BY <1>2, <2>1
  <2>3. f[k + 1] = g[k + 1]
    BY <2>1, <2>2
  <2> QED BY <2>1, <2>3
<1> HIDE DEF T
<1>3. 0 .. n \subseteq T
  BY <1>1, <1>2, InductiveUpTo
<1> QED BY <1>3 DEF T

(* The same with the recursion they share under a name.                    *)
InStep(f, g, n) == \A k \in 1 .. n : f[k - 1] = g[k - 1] => f[k] = g[k]

(* Functions that start alike and step alike agree.                        *)
LEMMA InStepAgree ==
  ASSUME NEW n \in Nat, NEW f, NEW g, f[0] = g[0], InStep(f, g, n)
  PROVE  \A k \in 0 .. n : f[k] = g[k]
BY RecursionUnique DEF InStep
=============================================================================
