---------------------------- MODULE FsDeleteLoop ----------------------------
(***************************************************************************)
(* The two nested loops with which fs_delete_file (fs.c) closes the gap of *)
(* the entry it removes, one action per assignment.  An entry is cut down  *)
(* to its parent_index and the slot it came from, which stands for all the *)
(* fields the loops only copy.                                             *)
(***************************************************************************)
EXTENDS FsShift

CONSTANT MAX_FILES

ASSUME LoopAssumption == MAX_FILES \in Nat \ {0, 1}

VARIABLES
  files,       \* the table
  file_count,  \* slots in use; the loops do not change it
  index,       \* the slot being removed
  i, j,        \* the two loop counters
  pc,          \* the loop that runs next: "outer", "inner", or "done"
  before       \* history: the table the loops started from

vars == <<files, file_count, index, i, j, pc, before>>

Slots == 0 .. MAX_FILES - 1
Entry == [from : Slots, parent_index : Nat]

(* The loops start with any entry but the root chosen, in any table in     *)
(* which no entry lies below its own parent's slot (FoxFS!TableSafe).      *)
Init ==
  /\ \E up \in [Slots -> Slots] :
       /\ \A s \in Slots : up[s] <= s
       /\ files = [s \in Slots |-> [from |-> s, parent_index |-> up[s]]]
  /\ file_count \in 2 .. MAX_FILES
  /\ index \in 1 .. file_count - 1
  /\ i = index
  /\ j = 0
  /\ pc = "outer"
  /\ before = files

(* Mutant: the outer loop stops one move early.                            *)
MoveShort ==
  /\ pc = "outer"
  /\ IF i < file_count - 2
     THEN /\ files' = [files EXCEPT ![i] = files[i + 1]]
          /\ j' = 0
          /\ pc' = "inner"
     ELSE /\ pc' = "done"
          /\ UNCHANGED <<files, j>>
  /\ UNCHANGED <<file_count, index, i, before>>

(* The head of the outer loop: files[i] = files[i + 1].                    *)
Move ==
  /\ pc = "outer"
  /\ IF i < file_count - 1
     THEN /\ files' = [files EXCEPT ![i] = files[i + 1]]
          /\ j' = 0
          /\ pc' = "inner"
     ELSE /\ pc' = "done"
          /\ UNCHANGED <<files, j>>
  /\ UNCHANGED <<file_count, index, i, before>>

(* Mutant: an index that names the freed slot is decremented too.          *)
AdjustFreed ==
  /\ pc = "inner"
  /\ IF j < file_count
     THEN /\ files' = IF files[j].parent_index >= i
                      THEN [files EXCEPT ![j].parent_index = @ - 1]
                      ELSE files
          /\ j' = j + 1
          /\ UNCHANGED <<i, pc>>
     ELSE /\ i' = i + 1
          /\ pc' = "outer"
          /\ UNCHANGED <<files, j>>
  /\ UNCHANGED <<file_count, index, before>>

(* One round of the inner loop, or its end and i++.                        *)
Adjust ==
  /\ pc = "inner"
  /\ IF j < file_count
     THEN /\ files' = IF files[j].parent_index > i
                      THEN [files EXCEPT ![j].parent_index = @ - 1]
                      ELSE files
          /\ j' = j + 1
          /\ UNCHANGED <<i, pc>>
     ELSE /\ i' = i + 1
          /\ pc' = "outer"
          /\ UNCHANGED <<files, j>>
  /\ UNCHANGED <<file_count, index, before>>

Next == Move \/ Adjust

Spec == Init /\ [][Next]_vars

-----------------------------------------------------------------------------
(* Type invariant.                                                         *)
LoopTypeOK ==
  /\ files \in [Slots -> Entry]
  /\ before \in [Slots -> Entry]
  /\ file_count \in 2 .. MAX_FILES
  /\ index \in 1 .. file_count - 1
  /\ i \in index .. file_count - 1
  /\ j \in 0 .. file_count
  /\ pc \in {"outer", "inner", "done"}

(* What the loops have done so far, slot by slot: the slots index .. i - 1 *)
(* (index .. i while the inner loop runs) hold their successors' entries,  *)
(* and every parent_index has been through one comparison per finished     *)
(* round, one more for the slots the inner loop has already passed.        *)
Moved == IF pc = "inner" THEN i + 1 ELSE i

Rounds(s) == IF pc = "inner" /\ s < j THEN i - index + 1 ELSE i - index

SoFar(s) ==
  LET entry == before[MovedFrom(s, index, Moved)]
  IN  [from         |-> entry.from,
       parent_index |-> ParentAfter(entry.parent_index, index, Rounds(s))]

LoopInv ==
  /\ \A s \in Slots : before[s].parent_index <= s
  /\ pc = "inner" => i < file_count - 1
  /\ pc = "done" => i = file_count - 1
  /\ \A s \in Slots :
       files[s] = IF s < file_count THEN SoFar(s) ELSE before[s]

(* The loops of fs_delete_file leave the table that FoxFS uses as the      *)
(* effect of a deletion: every later entry one slot lower, and every       *)
(* parent_index halved towards the removed slot.                           *)
LoopComputesShifted ==
  pc = "done" => files = Shifted(before, file_count, index)

(* Where the loops do what their comment (fs.c:235) says: an index up to   *)
(* two above the removed slot is renumbered correctly, and one below is    *)
(* left alone, however often the outer loop runs.                          *)
NearParentsFollow ==
  pc = "done" =>
    \A s \in 0 .. file_count - 2 :
      LET p == before[MovedFrom(s, index, file_count - 1)].parent_index
      IN  p <= index + 2 => files[s].parent_index = Renumber(p, index)
=============================================================================
