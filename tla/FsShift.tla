------------------------------- MODULE FsShift -------------------------------
(***************************************************************************)
(* What the nested loop of fs_delete_file (fs.c) leaves in the file table, *)
(* in closed form.  The loop closes the gap of the removed slot by moving  *)
(* every later slot down by one, and after EACH of these moves decrements  *)
(* every parent_index that is larger than the loop counter.                *)
(*                                                                         *)
(* Module FsDeleteLoop runs the loop iteration by iteration; theorem       *)
(* LoopComputesShift of FsLoopProofs shows that it computes                *)
(* Shifted.  Module FoxFS uses Shifted as the effect of a deletion.        *)
(***************************************************************************)
EXTENDS Integers

(***************************************************************************)
(* The parent_index p of an entry after the first k iterations of the      *)
(* loop that removes slot x.  Iteration number k compares p with the       *)
(* counter x + k, so an index p > x loses one per iteration until the      *)
(* counter, coming from below, meets it half way.                          *)
(***************************************************************************)
ParentAfter(p, x, k) ==
  LET half == (p - x + 1) \div 2
  IN  IF p <= x THEN p ELSE IF k < half THEN p - k ELSE p - half

(***************************************************************************)
(* What the comment in the loop promises: an index that refers to a slot   *)
(* above x follows that slot, which moves down by exactly one.             *)
(***************************************************************************)
Renumber(p, x) == IF p > x THEN p - 1 ELSE p

(***************************************************************************)
(* The slot whose entry is found in slot s once the slots x .. i have been *)
(* overwritten by their successors.                                        *)
(***************************************************************************)
MovedFrom(s, x, i) == IF x <= s /\ s < i THEN s + 1 ELSE s

(***************************************************************************)
(* The table t, whose first n slots are in use, after the iterations       *)
(* x .. i - 1.  The inner loop runs over all n slots, the one that falls   *)
(* out of use included; the slots from n on are not touched.               *)
(***************************************************************************)
ShiftedTo(t, n, x, i) ==
  [s \in DOMAIN t |->
     IF s < n
     THEN [t[MovedFrom(s, x, i)] EXCEPT !.parent_index = ParentAfter(@, x, i - x)]
     ELSE t[s]]

Shifted(t, n, x) == ShiftedTo(t, n, x, n - 1)
=============================================================================
