---------------------------- MODULE FsLoopProofs ----------------------------
(***************************************************************************)
(* Proofs about the loops of fs_delete_file and fs_list_dir, for every     *)
(* table size, name field and buffer.  The loops of the deletion compute   *)
(* the closed form FsShift!Shifted, which is what FoxFS uses.  The loop of *)
(* the listing stays in its buffer, the listing of ls is complete, and     *)
(* after rm it shows what rm left.                                         *)
(***************************************************************************)
EXTENDS FsListLoop, TLAPS

(* One comparison of the inner loop: a parent_index that has been through  *)
(* k of them is decremented by the next one exactly when it exceeds the    *)
(* outer counter, which is then x + k.                                     *)
LEMMA ParentAfterStep ==
  ASSUME NEW p \in Nat, NEW x \in Nat, NEW k \in Nat
  PROVE  /\ ParentAfter(p, x, k) \in Nat
         /\ ParentAfter(p, x, 0) = p
         /\ ParentAfter(p, x, k + 1) =
              IF ParentAfter(p, x, k) > x + k
              THEN ParentAfter(p, x, k) - 1
              ELSE ParentAfter(p, x, k)
  BY DEF ParentAfter

(* The repeated decrements are the one that is meant, up to two slots      *)
(* above the removed one.                                                  *)
LEMMA NearParentAfter ==
  ASSUME NEW p \in Nat, NEW x \in Nat, NEW k \in Nat, p <= x + 2, k > 0 \/ p <= x
  PROVE  ParentAfter(p, x, k) = Renumber(p, x)
  <1>1. CASE p <= x
    BY <1>1 DEF ParentAfter, Renumber
  <1>2. CASE p = x + 1 \/ p = x + 2
    <2>1. (p - x + 1) \div 2 = 1
      BY <1>2
    <2> QED
      BY <1>2, <2>1 DEF ParentAfter, Renumber
  <1> QED
    BY <1>1, <1>2

(* The start of the loops: nothing moved, nothing decremented.             *)
LEMMA LoopInit == Init => LoopTypeOK /\ LoopInv
  <1> SUFFICES ASSUME Init PROVE LoopTypeOK /\ LoopInv
    OBVIOUS
  <1> USE LoopAssumption
  <1>1. LoopTypeOK
    BY DEF Init, LoopTypeOK, Slots, Entry
  <1>2. LoopInv
    <2>1. /\ pc = "outer" /\ i = index /\ before = files
          /\ file_count \in Nat /\ index \in Nat
      BY DEF Init
    <2>2. \A s \in Slots : before[s].parent_index <= s
      BY DEF Init
    <2>3. ASSUME NEW s \in Slots PROVE files[s] = SoFar(s)
      <3>1. files[s] \in Entry
        BY <1>1 DEF LoopTypeOK
      <3>2. MovedFrom(s, index, Moved) = s /\ Rounds(s) = 0
        BY <2>1 DEF MovedFrom, Moved, Rounds, Slots
      <3>3. ParentAfter(files[s].parent_index, index, 0) = files[s].parent_index
        BY <2>1, <3>1, ParentAfterStep, Zenon DEF Entry
      <3> QED
        BY <2>1, <3>1, <3>2, <3>3 DEF SoFar, Entry
    <2> QED
      BY <2>1, <2>2, <2>3 DEF LoopInv
  <1> QED
    BY <1>1, <1>2

(* Each assignment of the loops keeps LoopTypeOK and LoopInv.              *)
LEMMA LoopStep ==
  LoopTypeOK /\ LoopInv /\ [Next]_vars => LoopTypeOK' /\ LoopInv'
  <1> SUFFICES ASSUME LoopTypeOK, LoopInv, [Next]_vars
               PROVE  LoopTypeOK' /\ LoopInv'
    OBVIOUS
  <1> USE LoopAssumption
  <1>a. /\ file_count \in Nat /\ index \in Nat /\ i \in Nat /\ j \in Nat
        /\ index <= i /\ i <= file_count - 1 /\ file_count <= MAX_FILES
        /\ j <= file_count
    BY DEF LoopTypeOK
  <1>b. \A s \in Slots : files[s] \in Entry /\ before[s] \in Entry
    BY DEF LoopTypeOK
  <1>1. CASE Move
    <2>1. CASE i < file_count - 1
      <3>1. /\ files' = [files EXCEPT ![i] = files[i + 1]]
            /\ j' = 0 /\ pc' = "inner" /\ pc = "outer"
            /\ UNCHANGED <<file_count, index, i, before>>
        BY <1>1, <2>1 DEF Move
      <3>2. i \in Slots /\ i + 1 \in Slots
        BY <1>a, <2>1 DEF Slots
      <3>3. LoopTypeOK'
        BY <1>a, <1>b, <3>1, <3>2 DEF LoopTypeOK
      <3>4. ASSUME NEW s \in Slots
            PROVE  files'[s] = IF s < file_count THEN SoFar(s)' ELSE before[s]
        <4>1. Rounds(s)' = i - index /\ Rounds(s) = i - index
              /\ Rounds(i + 1) = i - index
          BY <3>1, <1>a DEF Rounds, Slots
        <4>2. CASE s = i
          <5>1. files'[s] = SoFar(i + 1)
            BY <4>2, <3>1, <3>2, <1>a, <2>1 DEF LoopTypeOK, LoopInv
          <5>2. MovedFrom(i + 1, index, Moved) = i + 1
                /\ MovedFrom(s, index, Moved)' = i + 1
            BY <4>2, <3>1, <1>a DEF MovedFrom, Moved
          <5> QED
            BY <4>1, <4>2, <5>1, <5>2, <3>1, <1>a DEF SoFar
        <4>3. CASE s # i
          <5>1. files'[s] = files[s]
            BY <4>3, <3>1 DEF LoopTypeOK
          <5>2. MovedFrom(s, index, Moved)' = MovedFrom(s, index, Moved)
            BY <4>3, <3>1, <1>a DEF MovedFrom, Moved, Slots
          <5> QED
            BY <4>1, <5>1, <5>2, <3>1 DEF SoFar, LoopInv
        <4> QED
          BY <4>2, <4>3
      <3>5. LoopInv'
        BY <3>1, <3>4, <2>1 DEF LoopInv
      <3> QED
        BY <3>3, <3>5
    <2>2. CASE ~ (i < file_count - 1)
      <3>1. pc' = "done" /\ pc = "outer" /\ i = file_count - 1
            /\ UNCHANGED <<files, j, file_count, index, i, before>>
        BY <1>1, <1>a, <2>2 DEF Move
      <3> QED
        BY <1>a, <3>1 DEF LoopTypeOK, LoopInv, SoFar, Moved, Rounds, MovedFrom
    <2> QED
      BY <2>1, <2>2
  <1>2. CASE Adjust
    <2>1. CASE j < file_count
      <3>1. /\ files' = IF files[j].parent_index > i
                        THEN [files EXCEPT ![j].parent_index = @ - 1]
                        ELSE files
            /\ j' = j + 1 /\ pc' = "inner" /\ pc = "inner"
            /\ UNCHANGED <<file_count, index, i, before>>
        BY <1>2, <2>1 DEF Adjust
      <3>2. j \in Slots
        BY <1>a, <2>1 DEF Slots
      <3>3. \A s \in Slots :
              files'[s] = IF s = j /\ files[j].parent_index > i
                          THEN [files[j] EXCEPT !.parent_index = @ - 1]
                          ELSE files[s]
        BY <3>1, <3>2 DEF LoopTypeOK
      <3>4. LoopTypeOK'
        BY <1>a, <1>b, <2>1, <3>1, <3>2 DEF LoopTypeOK, Entry
      <3>5. ASSUME NEW s \in Slots, s < file_count
            PROVE  files'[s] = SoFar(s)'
        <4>1. PICK m \in Slots : m = MovedFrom(s, index, Moved)
          BY <1>a, <3>1, <3>5 DEF MovedFrom, Moved, Slots, LoopInv
        <4>2. before[m].parent_index \in Nat
          BY <1>b DEF Entry
        <4>3. files[s] = SoFar(s)
          BY <3>5 DEF LoopInv
        <4>4. MovedFrom(s, index, Moved)' = m
          BY <4>1, <3>1 DEF Moved
        <4>5. CASE s = j
          <5>1. Rounds(s) = i - index /\ Rounds(s)' = (i - index) + 1
            BY <4>5, <1>a, <3>1 DEF Rounds
          <5>2. PICK k \in Nat : k = i - index
            BY <1>a
          <5>3. PICK p \in Nat : p = before[m].parent_index
            BY <4>2
          <5>4. ParentAfter(p, index, k + 1) =
                  IF ParentAfter(p, index, k) > index + k
                  THEN ParentAfter(p, index, k) - 1
                  ELSE ParentAfter(p, index, k)
            BY <1>a, ParentAfterStep
          <5>5. index + k = i
            BY <5>2, <1>a
          <5> QED
            BY <5>1, <5>2, <5>3, <5>4, <5>5, <4>1, <4>3, <4>4, <4>5, <3>1, <3>3
            DEF SoFar
        <4>6. CASE s # j
          <5>1. Rounds(s)' = Rounds(s)
            BY <4>6, <1>a, <3>1 DEF Rounds, Slots
          <5> QED
            BY <5>1, <4>1, <4>3, <4>4, <4>6, <3>1, <3>3 DEF SoFar
        <4> QED
          BY <4>5, <4>6
      <3>6. ASSUME NEW s \in Slots, ~ (s < file_count)
            PROVE  files'[s] = before[s]
        BY <3>1, <3>3, <3>6, <2>1 DEF LoopInv
      <3>7. LoopInv'
        BY <3>1, <3>5, <3>6 DEF LoopInv
      <3> QED
        BY <3>4, <3>7
    <2>2. CASE ~ (j < file_count)
      <3>1. /\ i' = i + 1 /\ pc' = "outer" /\ pc = "inner" /\ i < file_count - 1
            /\ UNCHANGED <<files, j, file_count, index, before>>
        BY <1>2, <2>2 DEF Adjust, LoopInv
      <3>2. LoopTypeOK'
        BY <1>a, <3>1 DEF LoopTypeOK
      <3>3. \A s \in Slots : s < file_count => Rounds(s)' = Rounds(s)
        BY <1>a, <2>2, <3>1 DEF Rounds, Slots
      <3>4. Moved' = Moved
        BY <3>1 DEF Moved
      <3>5. LoopInv'
        BY <3>1, <3>3, <3>4, <1>a, Zenon DEF LoopInv, SoFar
      <3> QED
        BY <3>2, <3>5
    <2> QED
      BY <2>1, <2>2
  <1>3. CASE UNCHANGED vars
    BY <1>3 DEF vars, LoopTypeOK, LoopInv, SoFar, Moved, Rounds
  <1> QED
    BY <1>1, <1>2, <1>3 DEF Next

(* Type correctness and the loop invariant, for every table size.          *)
THEOREM LoopInvariant == Spec => [](LoopTypeOK /\ LoopInv)
  BY LoopInit, LoopStep, PTL DEF Spec

(* When the loops of fs_delete_file end, the table is Shifted(...): the    *)
(* one-step deletion of FoxFS does what the loops do.                      *)
THEOREM LoopComputesShift == Spec => []LoopComputesShifted
  <1>1. LoopTypeOK /\ LoopInv => LoopComputesShifted
    <2> SUFFICES ASSUME LoopTypeOK, LoopInv, pc = "done"
                 PROVE  files = Shifted(before, file_count, index)
      BY DEF LoopComputesShifted
    <2>1. ASSUME NEW s \in Slots
          PROVE  files[s] = Shifted(before, file_count, index)[s]
      <3>1. before[s] \in Entry /\ DOMAIN before = Slots
        BY DEF LoopTypeOK
      <3>2. MovedFrom(s, index, file_count - 1) \in Slots
        BY LoopAssumption DEF MovedFrom, LoopTypeOK, Slots
      <3>3. before[MovedFrom(s, index, file_count - 1)] \in Entry
        BY <3>2 DEF LoopTypeOK
      <3> QED
        BY <3>1, <3>3, Zenon DEF Shifted, ShiftedTo, LoopInv, SoFar, Moved, Rounds, Entry
    <2>2. /\ DOMAIN files = Slots /\ DOMAIN Shifted(before, file_count, index) = Slots
          /\ files = [s \in Slots |-> files[s]]
      BY DEF LoopTypeOK, Shifted, ShiftedTo
    <2>3. Shifted(before, file_count, index) =
            [s \in Slots |-> Shifted(before, file_count, index)[s]]
      BY DEF LoopTypeOK, Shifted, ShiftedTo
    <2> QED
      BY <2>1, <2>2, <2>3
  <1> QED
    BY <1>1, LoopInvariant, PTL

(* An index at most two above the removed slot is renumbered as the        *)
(* comment in the loop says, whatever the size of the table.               *)
THEOREM NearParentsFollowAlways == Spec => []NearParentsFollow
  <1>1. LoopTypeOK /\ LoopInv => NearParentsFollow
    <2> SUFFICES ASSUME LoopTypeOK, LoopInv, pc = "done",
                        NEW s \in 0 .. file_count - 2
                 PROVE  LET p == before[MovedFrom(s, index, file_count - 1)].parent_index
                        IN  p <= index + 2 => files[s].parent_index = Renumber(p, index)
      BY DEF NearParentsFollow
    <2>1. /\ s \in Slots /\ s < file_count
          /\ index \in Nat /\ file_count \in Nat /\ index < file_count
      BY LoopAssumption DEF LoopTypeOK, Slots
    <2>2. PICK m \in Slots : m = MovedFrom(s, index, file_count - 1)
      BY <2>1, LoopAssumption DEF MovedFrom, LoopTypeOK, Slots
    <2>3. PICK p \in Nat : p = before[m].parent_index
      BY DEF LoopTypeOK, Entry
    <2>4. files[s].parent_index = ParentAfter(p, index, file_count - 1 - index)
      <3>1. Moved = file_count - 1 /\ Rounds(s) = file_count - 1 - index
        BY DEF LoopInv, Moved, Rounds
      <3>2. files[s] = SoFar(s)
        BY <2>1 DEF LoopInv
      <3> QED
        BY <3>1, <3>2, <2>2, <2>3 DEF SoFar
    <2>5. index < file_count - 1 \/ p <= index
      BY <2>1, <2>2, <2>3 DEF LoopInv, MovedFrom
    <2>6. p <= index + 2 => files[s].parent_index = Renumber(p, index)
      <3>1. PICK k \in Nat : k = file_count - 1 - index
        BY <2>1
      <3>2. k > 0 \/ p <= index
        BY <2>1, <2>5, <3>1
      <3> QED
        BY <2>1, <2>4, <3>1, <3>2, NearParentAfter
    <2> QED
      BY <2>2, <2>3, <2>6
  <1> QED
    BY <1>1, LoopInvariant, PTL

-----------------------------------------------------------------------------
(***************************************************************************)
(* The listing.                                                            *)
(***************************************************************************)
ListTypeOK ==
  /\ at \in {"idle", "scan", "end"}
  /\ dir_index \in 0 .. MAX_FILES - 1
  /\ buffer_size \in Nat \ {0}
  /\ n \in Nat /\ current_pos \in Nat /\ count \in Nat

(* A finished listing is remembered only while the table stays as it was.  *)
Settled ==
  /\ at = "end" => TableAtRest
  /\ at # "idle" => dir_index < InUse
  /\ \A s \in Slots : before[s].from = s

Invariant ==
  /\ LoopTypeOK /\ LoopInv
  /\ ListTypeOK /\ ListInv /\ Settled
  /\ current_pos < buffer_size
  /\ LsIsComplete

(* An entry takes at most MAX_FILENAME + 1 bytes of the listing.           *)
LEMMA WrittenBound ==
  ASSUME NEW e \in Slots
  PROVE  Written(e) \in 1 .. MAX_FILENAME + 1
  <1>1. NameLength[e] \in 0 .. MAX_FILENAME - 1 /\ MAX_FILENAME \in Nat
    BY ListAssumption
  <1> QED
    BY <1>1 DEF Written

(* The early exit of fs_list_dir is out of ls's reach: with c entries      *)
(* written and at least one slot besides the root left over, there is room *)
(* for one more.                                                           *)
LEMMA RoomForAnother ==
  ASSUME NEW c \in Nat, c <= MAX_FILES - 2
  PROVE  LsBuffer - c * (MAX_FILENAME + 1) >= MAX_FILENAME + 3
  <1> DEFINE w == MAX_FILENAME + 1
  <1>1. MAX_FILENAME \in Nat /\ MAX_FILES \in Nat /\ w \in Nat
    BY ListAssumption, LoopAssumption
  <1>2. PICK d \in Nat : MAX_FILES = c + 2 + d
    <2>1. MAX_FILES - 2 - c \in Nat /\ MAX_FILES = c + 2 + (MAX_FILES - 2 - c)
      BY <1>1
    <2> QED
      BY <2>1
  <1>3. LsBuffer = MAX_FILES * w + MAX_FILES
    BY <1>1 DEF LsBuffer
  <1> HIDE DEF w
  <1>4. MAX_FILES * w = c * w + 2 * w + d * w
    BY <1>1, <1>2
  <1>5. d * w \in Nat /\ c * w \in Nat
    BY <1>1
  <1>6. MAX_FILES = c + 2 + d /\ d \in Nat /\ 2 * w = 2 * MAX_FILENAME + 2
    BY <1>1, <1>2 DEF w
  <1>7. LsBuffer - c * w >= MAX_FILENAME + 3
    BY <1>1, <1>2, <1>3, <1>4, <1>5, <1>6
  <1> QED
    BY <1>7 DEF w

(* One more entry of at most MAX_FILENAME + 1 bytes.                       *)
LEMMA OneMore ==
  ASSUME NEW c \in Nat, NEW p \in Nat, NEW b \in 1 .. MAX_FILENAME + 1,
         p <= c * (MAX_FILENAME + 1)
  PROVE  p + b <= (c + 1) * (MAX_FILENAME + 1)
  <1> DEFINE w == MAX_FILENAME + 1
  <1>1. w \in Nat
    BY ListAssumption
  <1>2. p <= c * w /\ b <= w /\ b \in Nat
    BY <1>1
  <1> HIDE DEF w
  <1>3. (c + 1) * w = c * w + w
    BY <1>1
  <1>4. c * w \in Nat
    BY <1>1
  <1>5. p + b <= (c + 1) * w
    BY <1>1, <1>2, <1>3, <1>4
  <1> QED
    BY <1>5 DEF w

(* Before any listing and any deletion.                                    *)
LEMMA ListStart == Init /\ ListInit => Invariant
  <1> SUFFICES ASSUME Init, ListInit PROVE Invariant
    OBVIOUS
  <1>1. LoopTypeOK /\ LoopInv
    BY LoopInit
  <1>2. ListTypeOK
    BY LoopAssumption DEF ListInit, ListTypeOK
  <1>3. ListInv /\ LsIsComplete /\ current_pos < buffer_size
    BY ListAssumption DEF ListInit, ListInv, LsIsComplete
  <1>4. Settled
    BY DEF Init, ListInit, Settled
  <1> QED
    BY <1>1, <1>2, <1>3, <1>4 DEF Invariant

(* A step of the deletion forgets the listing.                             *)
LEMMA DeletionStep ==
  ASSUME Invariant, Next, ForgetListing
  PROVE  Invariant'
  <1>1. LoopTypeOK' /\ LoopInv'
    BY LoopStep DEF Invariant
  <1>2. ListTypeOK'
    BY LoopAssumption DEF ForgetListing, ListTypeOK
  <1>3. ListInv' /\ LsIsComplete' /\ (current_pos < buffer_size)'
    BY ListAssumption DEF ForgetListing, ListInv, LsIsComplete
  <1>4. Settled'
    BY DEF Next, Move, Adjust, ForgetListing, Settled, Invariant
  <1> QED
    BY <1>1, <1>2, <1>3, <1>4 DEF Invariant

(* A round of fs_list_dir.                                                 *)
LEMMA ListingStep ==
  ASSUME Invariant, ListNext, UNCHANGED vars
  PROVE  Invariant'
  <1> USE LoopAssumption, ListAssumption
  <1>a. /\ LoopTypeOK /\ LoopInv /\ ListTypeOK /\ ListInv /\ Settled
        /\ current_pos < buffer_size /\ LsIsComplete
    BY DEF Invariant
  <1>b. LoopTypeOK' /\ LoopInv'
    BY <1>a, LoopStep
  <1>c. /\ files' = files /\ file_count' = file_count /\ pc' = pc /\ i' = i
        /\ index' = index /\ before' = before
    BY DEF vars
  <1>d. InUse' = InUse /\ TableAtRest' = TableAtRest
    BY <1>c DEF InUse, TableAtRest
  <1>e. InUse \in 1 .. MAX_FILES /\ InUse \in Nat
    BY <1>a DEF InUse, LoopTypeOK
  <1>f. n \in Nat /\ count \in Nat /\ current_pos \in Nat /\ buffer_size \in Nat
    BY <1>a DEF ListTypeOK
  <1>1. CASE StartListing
    <2>1. /\ at = "idle" /\ at' = "scan" /\ TableAtRest
          /\ dir_index' \in 0 .. InUse - 1
          /\ buffer_size' \in BufferSizes
          /\ UNCHANGED <<n, current_pos, count, listed>>
      BY <1>1 DEF StartListing
    <2>2. n = 0 /\ count = 0 /\ current_pos = 0 /\ listed = {}
      <3>1. n = 0 /\ count = 0 /\ listed = {}
        BY <1>a, <2>1 DEF ListInv
      <3>2. current_pos <= 0 * (MAX_FILENAME + 1)
        BY <1>a, <3>1 DEF ListInv
      <3> QED
        BY <1>f, <3>1, <3>2
    <2>3. ListTypeOK' /\ (current_pos < buffer_size)'
      BY <1>e, <2>1, <2>2 DEF ListTypeOK
    <2>4. Children(0) = {} /\ Children(n)' = {}
      BY <2>1, <2>2 DEF Children
    <2>5. ListInv'
      BY <1>a, <1>d, <1>e, <2>1, <2>2, <2>4 DEF ListInv
    <2>6. LsIsComplete' /\ Settled'
      BY <1>a, <1>c, <1>d, <1>e, <2>1 DEF LsIsComplete, Settled
    <2> QED
      BY <1>b, <2>3, <2>5, <2>6 DEF Invariant
  <1>2. CASE SkipEntry
    <2>1. /\ at = "scan" /\ at' = at /\ n < InUse /\ n' = n + 1
          /\ UNCHANGED <<dir_index, buffer_size, current_pos, count, listed>>
          /\ ~ IsChild(n)
      BY <1>2 DEF SkipEntry
    <2>2. ListTypeOK' /\ (current_pos < buffer_size)'
      BY <1>a, <1>f, <2>1 DEF ListTypeOK
    <2>3. Children(n)' = Children(n)
      BY <1>c, <1>f, <2>1 DEF Children, IsChild
    <2>4. ListInv'
      BY <1>a, <1>d, <1>e, <1>f, <2>1, <2>3 DEF ListInv
    <2>5. LsIsComplete' /\ Settled'
      BY <1>a, <1>c, <1>d, <2>1 DEF LsIsComplete, Settled
    <2> QED
      BY <1>b, <2>2, <2>4, <2>5 DEF Invariant
  <1>3. CASE WriteEntry
    <2>1. /\ at = "scan" /\ at' = at /\ n < InUse /\ n' = n + 1
          /\ UNCHANGED <<dir_index, buffer_size>>
          /\ current_pos' = current_pos + Written(files[n].from)
          /\ count' = count + 1
          /\ listed' = listed \cup {n}
          /\ IsChild(n)
          /\ buffer_size - current_pos >= MAX_FILENAME + 3
      BY <1>3 DEF WriteEntry, Remaining
    <2>2. PICK b \in 1 .. MAX_FILENAME + 1 : b = Written(files[n].from)
      <3>1. n \in Slots
        BY <1>e, <1>f, <2>1 DEF Slots
      <3>2. files[n].from \in Slots
        BY <1>a, <3>1 DEF LoopTypeOK, Entry
      <3> QED
        BY <3>2, WrittenBound
    <2>3. MAX_FILENAME \in Nat /\ b \in Nat /\ current_pos' = current_pos + b
      BY <2>1, <2>2
    <2>4. ListTypeOK' /\ (current_pos < buffer_size)'
      BY <1>a, <1>f, <2>1, <2>2, <2>3 DEF ListTypeOK
    <2>5. n # 0
      BY <2>1 DEF IsChild
    <2>6. Children(n)' = Children(n) \cup {n}
      BY <1>c, <1>f, <2>1, <2>5 DEF Children, IsChild
    <2>7. current_pos' <= count' * (MAX_FILENAME + 1)
      <3>1. current_pos <= count * (MAX_FILENAME + 1)
        BY <1>a DEF ListInv
      <3>2. current_pos + b <= (count + 1) * (MAX_FILENAME + 1)
        BY <1>f, <3>1, OneMore
      <3> QED
        BY <2>1, <2>3, <3>2
    <2>8. count < n
      BY <1>a, <1>f, <2>5 DEF ListInv
    <2>9. ListInv'
      BY <1>a, <1>d, <1>e, <1>f, <2>1, <2>6, <2>7, <2>8 DEF ListInv
    <2>10. LsIsComplete' /\ Settled'
      BY <1>a, <1>c, <1>d, <2>1 DEF LsIsComplete, Settled
    <2> QED
      BY <1>b, <2>4, <2>9, <2>10 DEF Invariant
  <1>4. CASE EndListing
    <2>1. /\ at = "scan" /\ at' = "end"
          /\ UNCHANGED <<dir_index, buffer_size, n, current_pos, count, listed>>
          /\ n < InUse => IsChild(n) /\ buffer_size - current_pos < MAX_FILENAME + 3
      BY <1>4 DEF EndListing, Remaining
    <2>2. ListTypeOK' /\ (current_pos < buffer_size)' /\ ListInv'
      BY <1>a, <2>1 DEF ListTypeOK, ListInv
    <2>3. Settled'
      BY <1>a, <1>c, <1>d, <2>1 DEF ListInv, Settled
    <2>4. ASSUME buffer_size = LsBuffer PROVE ~ (n < InUse)
      <3> SUFFICES ASSUME n < InUse PROVE FALSE
        OBVIOUS
      <3>1. n # 0
        BY <2>1 DEF IsChild
      <3>2. count <= MAX_FILES - 2
        BY <1>a, <1>e, <1>f, <3>1 DEF ListInv
      <3>3. LsBuffer - count * (MAX_FILENAME + 1) >= MAX_FILENAME + 3
        BY <1>f, <3>2, RoomForAnother, Zenon
      <3>4. PICK m \in Nat : m = count * (MAX_FILENAME + 1)
        BY <1>f
      <3>5. current_pos <= m
        BY <1>a, <3>4 DEF ListInv
      <3>6. LsBuffer - m >= MAX_FILENAME + 3
        BY <3>3, <3>4
      <3>7. LsBuffer - current_pos < MAX_FILENAME + 3
        BY <2>1, <2>4
      <3>8. LsBuffer \in Nat
        BY <1>f, <2>4
      <3> QED
        BY <1>f, <3>4, <3>5, <3>6, <3>7, <3>8
    <2>5. LsIsComplete'
      <3> SUFFICES ASSUME buffer_size = LsBuffer PROVE listed = Children(InUse)'
        BY <2>1 DEF LsIsComplete
      <3>1. n = InUse
        BY <1>a, <1>e, <1>f, <2>1, <2>4 DEF ListInv
      <3>2. Children(InUse)' = Children(n)
        BY <1>c, <1>d, <2>1, <3>1 DEF Children
      <3> QED
        BY <1>a, <2>1, <3>2 DEF ListInv
    <2> QED
      BY <1>b, <2>1, <2>2, <2>3, <2>5 DEF Invariant
  <1> QED
    BY <1>1, <1>2, <1>3, <1>4 DEF ListNext

(* The invariant of the two operations on the table: what fs_list_dir and  *)
(* the loops of fs_delete_file have done so far.                           *)
THEOREM ListInvariant == ListSpec => []Invariant
  <1>1. Invariant /\ [DeleteOrList]_tableVars => Invariant'
    <2> SUFFICES ASSUME Invariant, [DeleteOrList]_tableVars PROVE Invariant'
      OBVIOUS
    <2>1. CASE Next /\ ForgetListing
      BY <2>1, DeletionStep
    <2>2. CASE ListNext /\ UNCHANGED vars
      BY <2>2, ListingStep
    <2>3. CASE UNCHANGED tableVars
      <3>1. UNCHANGED vars /\ UNCHANGED listVars
        BY <2>3 DEF tableVars
      <3>2. LoopTypeOK' /\ LoopInv'
        BY <3>1, LoopStep DEF Invariant
      <3>3. /\ UNCHANGED <<files, file_count, index, i, j, pc, before>>
            /\ UNCHANGED <<at, dir_index, buffer_size, n, current_pos, count, listed>>
        BY <3>1 DEF vars, listVars
      <3>4. ListTypeOK' /\ Settled' /\ (current_pos < buffer_size)'
        BY <3>3 DEF Invariant, ListTypeOK, Settled, TableAtRest, InUse
      <3>5. ListInv' /\ LsIsComplete'
        BY <3>3 DEF Invariant, ListInv, LsIsComplete, TableAtRest, InUse, Children
      <3> QED
        BY <3>2, <3>4, <3>5 DEF Invariant
    <2> QED
      BY <2>1, <2>2, <2>3 DEF DeleteOrList
  <1> QED
    BY <1>1, ListStart, PTL DEF ListSpec, TableInit

(* Whatever the table, the names and the size of the buffer, fs_list_dir   *)
(* writes no byte outside it.                                              *)
THEOREM ListingInBufferAlways == ListSpec => []ListingInBuffer
  <1>1. Invariant => ListingInBuffer
    <2> SUFFICES ASSUME Invariant PROVE ListingInBuffer
      OBVIOUS
    <2>1. /\ n \in Nat /\ current_pos \in Nat /\ buffer_size \in Nat
          /\ LoopTypeOK /\ current_pos < buffer_size
      BY DEF Invariant, ListTypeOK
    <2>2. ASSUME n < InUse, Remaining >= MAX_FILENAME + 3
          PROVE  current_pos + Written(files[n].from) < buffer_size
      <3>1. n \in Slots
        BY <2>1, <2>2, LoopAssumption DEF LoopTypeOK, InUse, Slots
      <3>2. files[n].from \in Slots
        BY <2>1, <3>1 DEF LoopTypeOK, Entry
      <3>3. Written(files[n].from) \in 1 .. MAX_FILENAME + 1 /\ MAX_FILENAME \in Nat
        BY <3>2, WrittenBound, ListAssumption
      <3> QED
        BY <2>1, <2>2, <3>3 DEF Remaining
    <2> QED
      BY <2>1, <2>2 DEF ListingInBuffer
  <1> QED
    BY <1>1, ListInvariant, PTL

(* ls shows its whole directory, in tables of every size and with names of *)
(* every length: its buffer is never too small.                            *)
THEOREM LsIsCompleteAlways == ListSpec => []LsIsComplete
  <1>1. Invariant => LsIsComplete
    BY DEF Invariant
  <1> QED
    BY <1>1, ListInvariant, PTL

(* After rm of an entry that was nobody's parent, ls shows every directory *)
(* as it was, less the removed entry, as long as no parent lies more than  *)
(* two slots above the removed one.                                        *)
THEOREM LsAfterRmAlways == ListSpec => []LsAfterRm
  <1>1. Invariant /\ NearParentsFollow => LsAfterRm
    <2> DEFINE old  == 0 .. file_count - 1
               kept == (old \ {index}) \ {0}
               m(s) == MovedFrom(s, index, file_count - 1)
    <2> SUFFICES ASSUME Invariant, NearParentsFollow,
                        at = "end", pc = "done", buffer_size = LsBuffer,
                        \A s \in old : /\ before[s].parent_index # index
                                       /\ before[s].parent_index <= index + 2
                 PROVE  {files[s].from : s \in listed} =
                          {s \in kept : before[s].parent_index = files[dir_index].from}
      BY DEF LsAfterRm
    <2>1. /\ file_count \in Nat /\ index \in Nat /\ index >= 1
          /\ index < file_count /\ file_count <= MAX_FILES /\ MAX_FILES \in Nat
          /\ before \in [Slots -> Entry] /\ files \in [Slots -> Entry]
      BY LoopAssumption DEF Invariant, LoopTypeOK
    <2>2. /\ InUse = file_count - 1 /\ listed = Children(file_count - 1)
          /\ dir_index \in Nat /\ dir_index < file_count - 1
      BY DEF Invariant, LsIsComplete, Settled, InUse, ListTypeOK
    <2>3. ASSUME NEW s \in 0 .. file_count - 2
          PROVE  /\ m(s) \in old /\ s \in Slots /\ m(s) # index /\ m(s) \in Slots
                 /\ m(s) = IF s < index THEN s ELSE s + 1
      BY <2>1 DEF MovedFrom, Slots
    <2>4. ASSUME NEW s \in 0 .. file_count - 2
          PROVE  files[s].from = m(s)
      <3>1. i = file_count - 1 /\ s < file_count
        BY <2>1 DEF Invariant, LoopInv
      <3>2. files[s] = SoFar(s) /\ Moved = file_count - 1
        BY <2>3, <3>1 DEF Invariant, LoopInv, Moved
      <3>3. before[m(s)].from = m(s)
        BY <2>3 DEF Invariant, Settled
      <3> QED
        BY <3>2, <3>3 DEF SoFar
    <2>5. ASSUME NEW s \in 0 .. file_count - 2
          PROVE  /\ before[m(s)].parent_index \in Nat
                 /\ before[m(s)].parent_index # index
                 /\ files[s].parent_index = Renumber(before[m(s)].parent_index, index)
      <3>1. before[m(s)].parent_index \in Nat
        BY <2>1, <2>3 DEF Entry
      <3> QED
        BY <2>3, <3>1 DEF NearParentsFollow
    <2>6. dir_index \in 0 .. file_count - 2 /\ files[dir_index].from = m(dir_index)
      BY <2>1, <2>2, <2>4
    <2>7. ASSUME NEW s \in 0 .. file_count - 2
          PROVE  files[s].parent_index = dir_index
                   <=> before[m(s)].parent_index = m(dir_index)
      <3>1. m(dir_index) = IF dir_index < index THEN dir_index ELSE dir_index + 1
        BY <2>3, <2>6
      <3> QED
        BY <2>1, <2>2, <2>5, <3>1 DEF Renumber
    <2>8. ASSUME NEW s \in listed
          PROVE  files[s].from \in {t \in kept : before[t].parent_index = m(dir_index)}
      <3>1. s \in 1 .. file_count - 2 /\ files[s].parent_index = dir_index
        BY <2>1, <2>2 DEF Children
      <3>2. s \in 0 .. file_count - 2
        BY <2>1, <3>1
      <3>3. m(s) \in kept
        BY <2>1, <2>3, <3>1, <3>2
      <3> QED
        BY <2>4, <2>7, <3>1, <3>2, <3>3
    <2>9. ASSUME NEW t \in kept, before[t].parent_index = m(dir_index)
          PROVE  \E s \in listed : files[s].from = t
      <3>1. t \in Nat /\ t >= 1 /\ t # index /\ t <= file_count - 1
        BY <2>1
      <3>2. PICK s \in 1 .. file_count - 2 : t = IF s < index THEN s ELSE s + 1
        <4>1. CASE t < index
          BY <2>1, <3>1, <4>1
        <4>2. CASE t > index
          <5>1. t - 1 \in 1 .. file_count - 2 /\ ~ (t - 1 < index) /\ t = (t - 1) + 1
            BY <2>1, <3>1, <4>2
          <5> QED
            BY <5>1
        <4> QED
          BY <2>1, <3>1, <4>1, <4>2
      <3>3. s \in 0 .. file_count - 2
        BY <2>1
      <3>4. m(s) = t
        BY <2>3, <3>2, <3>3
      <3>5. files[s].parent_index = dir_index
        BY <2>7, <2>9, <3>3, <3>4
      <3>6. s \in Children(file_count - 1)
        BY <2>1, <3>5 DEF Children
      <3> QED
        BY <2>2, <2>4, <3>3, <3>4, <3>6
    <2> HIDE DEF m, kept
    <2> QED
      BY <2>6, <2>8, <2>9
  <1>2. ListSpec => Spec
    <2>1. [DeleteOrList]_tableVars => [Next]_vars
      BY DEF DeleteOrList, tableVars
    <2> QED
      BY <2>1, PTL DEF ListSpec, TableInit, Spec
  <1> QED
    BY <1>1, <1>2, ListInvariant, NearParentsFollowAlways, PTL
=============================================================================
