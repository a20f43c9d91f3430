----------------------------- MODULE FoxFSProofs -----------------------------
(***************************************************************************)
(* Proofs about FoxFS, for every table size, file size and set of names.   *)
(* The first part is about the table; of fs_parse_path it needs only that  *)
(* it finds an entry in use, or nothing.  The second part is about what it *)
(* finds, before and after a call.                                         *)
(***************************************************************************)
EXTENDS FsTree, Induction, SequenceTheorems, FiniteSetTheorems, TLAPS

(***************************************************************************)
(* The three ways the table changes, whatever command is behind them.      *)
(***************************************************************************)
Created(name, type, dir) == fs_create_file(name, type, dir)

Written(i, buffer) ==
  /\ files[i].type = "FILE"
  /\ files' = [files EXCEPT ![i] = Overwrite(@, buffer)]
  /\ UNCHANGED <<file_count, reparented>>

Removed(x) == MayDelete(x) /\ RemoveSlot(x)

(* Commands that are given a path reach the table only in these ways.      *)
LEMMA NextShape ==
  Next => \/ \E name \in Names \cup {NoName}, type \in {"FILE", "DIR"}, dir \in Live :
               Created(name, type, dir)
          \/ \E i \in Live, buffer \in Buffers : Written(i, buffer)
          \/ \E x \in Live \ {0} : Removed(x)
          \/ UNCHANGED vars
  <1> SUFFICES ASSUME NEW path \in Paths,
                      \/ fs_mkdir(path)
                      \/ fs_create(path)
                      \/ touch(path)
                      \/ \E buffer \in Buffers : fs_write(path, buffer)
                      \/ fs_delete_file(path)
                      \/ fs_read(path)
                      \/ fs_list_dir(path)
               PROVE  \/ \E name \in Names \cup {NoName}, type \in {"FILE", "DIR"},
                            dir \in Live : Created(name, type, dir)
                      \/ \E i \in Live, buffer \in Buffers : Written(i, buffer)
                      \/ \E x \in Live \ {0} : Removed(x)
                      \/ UNCHANGED vars
    BY DEF Next
  <1>1. last_name(path) \in Names \cup {NoName}
    <2>1. PICK n \in 1 .. MaxDepth : path \in [1 .. n -> Names \cup {NoName}]
      BY DEF Paths
    <2>2. n \in Nat /\ n >= 1
      BY FSAssumption
    <2>3. path \in Seq(Names \cup {NoName}) /\ Len(path) = n
      BY <2>1, <2>2, SeqDef, LenProperties
    <2> QED
      BY <2>1, <2>2, <2>3 DEF last_name
  <1>2. \A p : Found(p) \subseteq Live
    BY DEF Found
  <1>3. CASE fs_mkdir(path)
    BY <1>1, <1>2, <1>3 DEF fs_mkdir, CreateAt, Created
  <1>4. CASE fs_create(path)
    BY <1>1, <1>2, <1>4 DEF fs_create, CreateAt, Created
  <1>5. CASE touch(path)
    BY <1>1, <1>2, <1>5 DEF touch, Created
  <1>6. CASE \E buffer \in Buffers : fs_write(path, buffer)
    BY <1>2, <1>6, Zenon DEF fs_write, Written
  <1>7. CASE fs_delete_file(path)
    BY <1>2, <1>7 DEF fs_delete_file, Removed
  <1>8. CASE fs_read(path) \/ fs_list_dir(path)
    BY <1>8 DEF fs_read, fs_list_dir
  <1> QED
    BY <1>3, <1>4, <1>5, <1>6, <1>7, <1>8

-----------------------------------------------------------------------------
(* The repeated decrements never leave the naturals, never raise an index, *)
(* and lower every index above the removed slot at least once.             *)
LEMMA ParentAfterBounds ==
  ASSUME NEW p \in Nat, NEW x \in Nat, NEW k \in Nat
  PROVE  /\ ParentAfter(p, x, k) \in Nat
         /\ ParentAfter(p, x, k) <= p
         /\ p <= x => ParentAfter(p, x, k) = p
         /\ p > x /\ k > 0 => ParentAfter(p, x, k) <= p - 1
  BY DEF ParentAfter

(* An entry with another parent_index is the same entry otherwise.         *)
LEMMA EntryWithParent ==
  ASSUME NEW entry \in Entry, NEW p \in Slots \cup {UINT32_MAX}
  PROVE  LET moved == [entry EXCEPT !.parent_index = p]
         IN  /\ moved \in Entry
             /\ moved.name = entry.name
             /\ moved.type = entry.type
             /\ moved.size = entry.size
             /\ moved.data = entry.data
             /\ moved.parent_index = p
  BY DEF Entry

(* What fs_create_file makes of the slot's old content.                    *)
LEMMA EntryNew ==
  ASSUME NEW old \in Entry, NEW name \in Names \cup {NoName},
         NEW type \in {"FILE", "DIR"}, NEW dir \in Slots
  PROVE  /\ NewEntry(old, name, type, dir) \in Entry
         /\ NewEntry(old, name, type, dir).name = name
         /\ NewEntry(old, name, type, dir).type = type
         /\ NewEntry(old, name, type, dir).size = 0
         /\ NewEntry(old, name, type, dir).parent_index = dir
  <1>1. 0 \in 0 .. MAX_FILE_SIZE /\ type \in Types
    BY FSAssumption DEF Types
  <1>2. [old EXCEPT !.name = name, !.type = type, !.size = 0, !.parent_index = dir] \in Entry
    BY <1>1, Zenon DEF Entry
  <1>3. /\ NewEntry(old, name, type, dir).name = name
        /\ NewEntry(old, name, type, dir).type = type
        /\ NewEntry(old, name, type, dir).size = 0
        /\ NewEntry(old, name, type, dir).parent_index = dir
    BY DEF NewEntry, Entry
  <1> QED
    BY <1>2, <1>3 DEF NewEntry

(* What fs_write makes of an entry, for a buffer of any length.            *)
LEMMA EntryOverwritten ==
  ASSUME NEW entry \in Entry, NEW n \in Nat, NEW buffer \in [1 .. n -> Bytes],
         Len(buffer) = n
  PROVE  LET new == Overwrite(entry, buffer)
         IN  /\ new \in Entry
             /\ new.name = entry.name
             /\ new.type = entry.type
             /\ new.parent_index = entry.parent_index
             /\ new.size = Clip(n)
             /\ \A k \in 1 .. new.size :
                  new.data[k - 1] = buffer[k] /\ new.data[k - 1] \in Bytes
  <1>1. PICK size \in 0 .. MAX_FILE_SIZE : size = Clip(n) /\ size <= n
    BY FSAssumption DEF Clip
  <1> DEFINE data == [k \in DOMAIN entry.data |->
                        IF k < size THEN buffer[k + 1] ELSE entry.data[k]]
  <1>2. entry.data \in [0 .. MAX_FILE_SIZE - 1 -> Bytes \cup {Junk}]
    BY DEF Entry
  <1>3. \A k \in 0 .. MAX_FILE_SIZE - 1 : k < size => buffer[k + 1] \in Bytes
    BY <1>1, FSAssumption
  <1>4. data \in [0 .. MAX_FILE_SIZE - 1 -> Bytes \cup {Junk}]
    BY <1>2, <1>3, Zenon
  <1>5. \A k \in 1 .. size : data[k - 1] = buffer[k] /\ data[k - 1] \in Bytes
    <2> SUFFICES ASSUME NEW k \in 1 .. size
                 PROVE  data[k - 1] = buffer[k] /\ data[k - 1] \in Bytes
      BY Zenon
    <2>1. k - 1 \in 0 .. MAX_FILE_SIZE - 1 /\ k - 1 < size /\ k - 1 + 1 = k
      BY <1>1, FSAssumption
    <2>2. data[k - 1] = buffer[k - 1 + 1] /\ buffer[k - 1 + 1] \in Bytes
      BY <1>2, <1>3, <2>1, Zenon
    <2> QED
      BY <2>1, <2>2
  <1>6. Overwrite(entry, buffer) = [entry EXCEPT !.size = size, !.data = data]
    BY <1>1 DEF Overwrite
  <1> HIDE DEF data
  <1> QED
    BY <1>1, <1>4, <1>5, <1>6, Zenon DEF Entry

(* The table after a deletion, slot by slot: well typed, and what is in a  *)
(* slot that stays in use came from a slot in use other than x.            *)
LEMMA ShiftedSlot ==
  ASSUME TypeOK, TableSafe, NEW x \in Live \ {0}, NEW s \in Slots
  PROVE  LET new == Shifted(files, file_count, x)[s]
             m   == MovedFrom(s, x, file_count - 1)
         IN  /\ new \in Entry
             /\ s < file_count - 1 =>
                  /\ m \in Live \ {x}
                  /\ s = Renumber(m, x)
                  /\ new.name = files[m].name
                  /\ new.type = files[m].type
                  /\ new.size = files[m].size
                  /\ new.data = files[m].data
                  /\ new.parent_index =
                       ParentAfter(files[m].parent_index, x, file_count - 1 - x)
                  /\ new.parent_index <= s
  <1> DEFINE new == Shifted(files, file_count, x)[s]
             m   == MovedFrom(s, x, file_count - 1)
  <1>1. /\ x \in Nat /\ x > 0 /\ x < file_count /\ file_count \in Nat
        /\ file_count <= MAX_FILES /\ s \in Nat
    BY FSAssumption DEF TypeOK, Live, Slots
  <1>2. CASE s < file_count
    <2>1. m \in Live /\ m \in Slots
      BY <1>1, <1>2, FSAssumption DEF MovedFrom, Live, Slots
    <2>2. files[m] \in Entry
      BY <2>1 DEF TypeOK
    <2>3. PICK q \in Nat : q = files[m].parent_index /\ q <= m
      BY <2>1, <2>2, FSAssumption DEF TableSafe, Entry, Slots
    <2>4. PICK k \in Nat : k = file_count - 1 - x
      BY <1>1
    <2>5. PICK p \in Nat :
            /\ p = ParentAfter(q, x, k)
            /\ p <= q
            /\ q > x /\ k > 0 => p <= q - 1
      BY <1>1, ParentAfterBounds, Zenon
    <2>0. p \in Slots
      BY <2>1, <2>3, <2>5, FSAssumption DEF Slots
    <2>6. new = [files[m] EXCEPT !.parent_index = p]
      BY <1>2, <2>3, <2>4, <2>5 DEF Shifted, ShiftedTo, TypeOK
    <2>7. /\ new \in Entry /\ new.name = files[m].name
          /\ new.type = files[m].type /\ new.size = files[m].size
          /\ new.data = files[m].data /\ new.parent_index = p
      BY <2>0, <2>2, <2>6, EntryWithParent
    <2>8. ASSUME s < file_count - 1
          PROVE  m # x /\ s = Renumber(m, x) /\ p <= s
      <3>1. m # x /\ s = Renumber(m, x)
        BY <2>8, <1>1 DEF MovedFrom, Renumber
      <3>2. CASE s < x
        BY <3>1, <3>2, <2>3, <2>5, <1>1 DEF MovedFrom
      <3>3. CASE ~ (s < x)
        <4>1. m = s + 1 /\ k > 0
          BY <3>3, <2>4, <2>8, <1>1 DEF MovedFrom
        <4>2. p <= s
          BY <4>1, <3>3, <2>3, <2>5, <1>1
        <4> QED
          BY <3>1, <4>2
      <3> QED
        BY <3>1, <3>2, <3>3
    <2> QED
      BY <2>1, <2>3, <2>4, <2>5, <2>7, <2>8
  <1>3. CASE ~ (s < file_count)
    BY <1>1, <1>3 DEF Shifted, ShiftedTo, TypeOK
  <1> QED
    BY <1>2, <1>3

(* The entry fs_create_file writes, and the slots it leaves alone.         *)
LEMMA CreatedSlots ==
  ASSUME TypeOK, NEW name \in Names \cup {NoName}, NEW type \in {"FILE", "DIR"},
         NEW dir \in Live, Created(name, type, dir)
  PROVE  /\ file_count \in Slots /\ file_count' = file_count + 1
         /\ reparented' = reparented
         /\ files' \in [Slots -> Entry]
         /\ files'[file_count].name = name
         /\ files'[file_count].type = type
         /\ files'[file_count].size = 0
         /\ files'[file_count].parent_index = dir
         /\ \A s \in Slots \ {file_count} : files'[s] = files[s]
         /\ files[dir].type = "DIR"
         /\ Matches(dir, name) = {}
  <1>1. file_count \in Slots /\ dir \in Slots
    BY FSAssumption DEF Created, fs_create_file, MayCreate, TypeOK, Slots, Live
  <1>2. files[file_count] \in Entry
    BY <1>1 DEF TypeOK
  <1>3. PICK new \in Entry :
          /\ new = NewEntry(files[file_count], name, type, dir)
          /\ new.name = name /\ new.type = type
          /\ new.size = 0 /\ new.parent_index = dir
    <2>1. PICK old \in Entry : old = files[file_count]
      BY <1>2
    <2>2. NewEntry(old, name, type, dir) \in Entry
      BY <1>1, EntryNew, Zenon
    <2>3. /\ NewEntry(old, name, type, dir).name = name
          /\ NewEntry(old, name, type, dir).type = type
          /\ NewEntry(old, name, type, dir).size = 0
          /\ NewEntry(old, name, type, dir).parent_index = dir
      BY <1>1, EntryNew, SMTT(30)
    <2> QED
      BY <2>1, <2>2, <2>3
  <1>4. files' = [files EXCEPT ![file_count] = NewEntry(files[file_count], name, type, dir)]
    BY DEF Created, fs_create_file
  <1> QED
    BY <1>1, <1>3, <1>4 DEF Created, fs_create_file, MayCreate, TypeOK

(* The entry fs_write writes: only its size and its data change, to those  *)
(* of the buffer.                                                          *)
LEMMA WrittenSlots ==
  ASSUME TypeOK, NEW i \in Live, NEW buffer \in Buffers, Written(i, buffer)
  PROVE  /\ file_count' = file_count /\ reparented' = reparented
         /\ files' \in [Slots -> Entry]
         /\ files'[i].name = files[i].name
         /\ files'[i].type = files[i].type
         /\ files'[i].parent_index = files[i].parent_index
         /\ files'[i].size = Clip(Len(buffer))
         /\ \A k \in 1 .. files'[i].size :
              files'[i].data[k - 1] = buffer[k] /\ files'[i].data[k - 1] \in Bytes
         /\ \A s \in Slots \ {i} : files'[s] = files[s]
  <1>1. i \in Slots /\ files[i] \in Entry
    BY FSAssumption DEF TypeOK, Slots, Live
  <1>2. PICK n \in 0 .. MaxWrite : buffer \in [1 .. n -> Bytes]
    BY DEF Buffers
  <1>3. n \in Nat /\ Len(buffer) = n
    BY <1>2, FSAssumption, SeqDef, LenProperties
  <1>4. LET new == Overwrite(files[i], buffer)
        IN  /\ new \in Entry /\ new.name = files[i].name
            /\ new.type = files[i].type
            /\ new.parent_index = files[i].parent_index
            /\ new.size = Clip(Len(buffer))
            /\ \A k \in 1 .. new.size :
                 new.data[k - 1] = buffer[k] /\ new.data[k - 1] \in Bytes
    BY <1>1, <1>2, <1>3, EntryOverwritten
  <1>5. files' = [files EXCEPT ![i] = Overwrite(files[i], buffer)]
    BY DEF Written
  <1> QED
    BY <1>1, <1>4, <1>5 DEF Written, TypeOK

-----------------------------------------------------------------------------
(***************************************************************************)
(* Type correctness and the table's safety.  TypeOK is not inductive alone *)
(* (a parent_index of an entry in use might be UINT32_MAX, which the       *)
(* decrements would turn into no index at all); with TableSafe it is.      *)
(***************************************************************************)
(* fs_init leaves a table that is well typed and safe.                     *)
LEMMA TableInit == Init => TypeOK /\ TableSafe
  <1> SUFFICES ASSUME Init PROVE TypeOK /\ TableSafe
    OBVIOUS
  <1>1. 0 \in Slots /\ Live = {0}
    BY FSAssumption DEF Init, Slots, Live
  <1>2. Blank \in Entry /\ Blank.name = NoName /\ Blank.type = "NONE"
    <2>1. [k \in 0 .. MAX_FILE_SIZE - 1 |-> Junk]
            \in [0 .. MAX_FILE_SIZE - 1 -> Bytes \cup {Junk}]
      OBVIOUS
    <2>2. 0 \in 0 .. MAX_FILE_SIZE /\ "NONE" \in Types
      BY FSAssumption DEF Types
    <2> QED
      BY <2>1, <2>2 DEF Blank, Entry
  <1>3. PICK root \in Entry :
          /\ root = [Blank EXCEPT !.type = "DIR", !.parent_index = 0]
          /\ root.name = NoName /\ root.type = "DIR" /\ root.parent_index = 0
    <2>1. "DIR" \in Types
      BY DEF Types
    <2>2. [Blank EXCEPT !.type = "DIR", !.parent_index = 0] \in Entry
      BY <1>1, <1>2, <2>1, Zenon DEF Entry
    <2>3. /\ [Blank EXCEPT !.type = "DIR", !.parent_index = 0].name = NoName
          /\ [Blank EXCEPT !.type = "DIR", !.parent_index = 0].type = "DIR"
          /\ [Blank EXCEPT !.type = "DIR", !.parent_index = 0].parent_index = 0
      BY <1>2 DEF Entry
    <2> QED
      BY <2>2, <2>3, Zenon
  <1>4. files = [s \in Slots |-> IF s = 0 THEN root ELSE Blank]
    BY <1>3 DEF Init
  <1>5. TypeOK
    <2>1. files \in [Slots -> Entry]
      BY <1>2, <1>3, <1>4
    <2>2. file_count \in 1 .. MAX_FILES
      BY FSAssumption DEF Init
    <2>3. reparented \in BOOLEAN
      BY Zenon DEF Init
    <2> QED
      BY <2>1, <2>2, <2>3 DEF TypeOK
  <1>6. files[0] = root
    BY <1>1, <1>4
  <1>7. TableSafe
    <2>1. 0 <= 0 /\ "DIR" # "NONE"
      OBVIOUS
    <2> QED
      BY <1>1, <1>3, <1>6, <2>1, Zenon DEF TableSafe
  <1> QED
    BY <1>5, <1>7

(* Every call keeps the table well typed and safe, the deletions that      *)
(* misplace entries included.                                              *)
LEMMA TableStep == TypeOK /\ TableSafe /\ [Next]_vars => TypeOK' /\ TableSafe'
  <1> SUFFICES ASSUME TypeOK, TableSafe, [Next]_vars
               PROVE  TypeOK' /\ TableSafe'
    OBVIOUS
  <1>0. file_count \in Nat /\ file_count >= 1 /\ file_count <= MAX_FILES
    BY FSAssumption DEF TypeOK
  <1>1. ASSUME NEW name \in Names \cup {NoName}, NEW type \in {"FILE", "DIR"},
               NEW dir \in Live, Created(name, type, dir)
        PROVE  TypeOK' /\ TableSafe'
    <2>1. /\ file_count \in Slots /\ file_count' = file_count + 1
          /\ reparented' = reparented /\ files' \in [Slots -> Entry]
          /\ files'[file_count].type = type /\ files'[file_count].parent_index = dir
          /\ \A s \in Slots \ {file_count} : files'[s] = files[s]
      BY <1>1, CreatedSlots
    <2>2. TypeOK'
      BY <1>0, <2>1, FSAssumption DEF TypeOK, Slots
    <2>3. files'[0] = files[0]
      BY <1>0, <2>1, FSAssumption DEF Slots
    <2>4. ASSUME NEW i \in Live'
          PROVE  files'[i].type # "NONE" /\ files'[i].parent_index <= i
      <3>1. CASE i = file_count
        BY <3>1, <2>1, <1>0 DEF Live
      <3>2. CASE i # file_count
        <4>1. i \in Live /\ i \in Slots
          BY <3>2, <2>1, <1>0, FSAssumption DEF Live, Slots
        <4> QED
          BY <4>1, <3>2, <2>1 DEF TableSafe
      <3> QED
        BY <3>1, <3>2
    <2> QED
      BY <2>2, <2>3, <2>4 DEF TableSafe
  <1>2. ASSUME NEW i \in Live, NEW buffer \in Buffers, Written(i, buffer)
        PROVE  TypeOK' /\ TableSafe'
    <2>1. /\ file_count' = file_count /\ reparented' = reparented
          /\ files' \in [Slots -> Entry]
          /\ files'[i].name = files[i].name /\ files'[i].type = files[i].type
          /\ files'[i].parent_index = files[i].parent_index
          /\ \A s \in Slots \ {i} : files'[s] = files[s]
      BY <1>2, WrittenSlots
    <2>2. TypeOK'
      BY <2>1 DEF TypeOK
    <2>3. 0 \in Slots /\ Live \subseteq Slots /\ Live' = Live
      BY <1>0, <2>1, FSAssumption DEF Slots, Live
    <2>4. \A s \in Slots : /\ files'[s].name = files[s].name
                            /\ files'[s].type = files[s].type
                            /\ files'[s].parent_index = files[s].parent_index
      BY <2>1
    <2>5. TableSafe'
      BY <2>3, <2>4 DEF TableSafe
    <2> QED
      BY <2>2, <2>5
  <1>3. ASSUME NEW x \in Live \ {0}, Removed(x)
        PROVE  TypeOK' /\ TableSafe'
    <2>1. /\ files' = Shifted(files, file_count, x)
          /\ file_count' = file_count - 1
          /\ reparented' = (reparented \/ Misplaces(x))
      BY <1>3 DEF Removed, RemoveSlot
    <2>2. x \in Nat /\ 1 <= x /\ x < file_count
      BY <1>0 DEF Live
    <2>3. files' \in [Slots -> Entry]
      <3>1. \A s \in Slots : Shifted(files, file_count, x)[s] \in Entry
        BY ShiftedSlot
      <3> QED
        BY <2>1, <3>1 DEF Shifted, ShiftedTo, TypeOK
    <2>4. TypeOK'
      <3>1. reparented' \in BOOLEAN
        BY <2>1 DEF TypeOK, Misplaces
      <3>2. file_count' \in 1 .. MAX_FILES
        BY <1>0, <2>1, <2>2, FSAssumption
      <3> QED
        BY <2>3, <3>1, <3>2 DEF TypeOK
    <2>5. ASSUME NEW s \in Live'
          PROVE  LET m == MovedFrom(s, x, file_count - 1)
                 IN  /\ m \in Live
                     /\ files'[s].type = files[m].type
                     /\ files'[s].parent_index <= s
      <3>1. s \in Slots /\ s < file_count - 1
        BY <1>0, <2>1, FSAssumption DEF Live, Slots
      <3> QED
        BY <3>1, <2>1, ShiftedSlot
    <2>6. \A s \in Live' : files'[s].type # "NONE" /\ files'[s].parent_index <= s
      BY <2>5 DEF TableSafe
    <2>7. 0 \in Slots /\ 0 < file_count - 1 /\ MovedFrom(0, x, file_count - 1) = 0
      BY <1>0, <2>2, FSAssumption DEF Slots, MovedFrom
    <2>8. ParentAfter(0, x, file_count - 1 - x) = 0
      BY <2>2 DEF ParentAfter
    <2>9. /\ files'[0].name = files[0].name /\ files'[0].type = files[0].type
          /\ files'[0].parent_index = ParentAfter(files[0].parent_index, x, file_count - 1 - x)
      BY <2>1, <2>7, ShiftedSlot
    <2> QED
      BY <2>4, <2>6, <2>8, <2>9 DEF TableSafe
  <1>4. CASE UNCHANGED vars
    BY <1>4 DEF vars, TypeOK, TableSafe, Live
  <1> QED
    BY <1>1, <1>2, <1>3, <1>4, NextShape

(* The file table keeps its shape through any sequence of calls.           *)
THEOREM TypeCorrect == Spec => []TypeOK
  <1>1. TypeOK /\ TableSafe /\ [Next]_vars => (TypeOK /\ TableSafe)'
    BY TableStep
  <1> QED
    BY <1>1, TableInit, PTL DEF Spec

(* The root stays the root and no entry in use names a parent above        *)
(* itself, for every table size and after any number of deletions, the     *)
(* misplacing ones included.                                               *)
THEOREM TableStaysSafe == Spec => []TableSafe
  <1>1. TypeOK /\ TableSafe /\ [Next]_vars => (TypeOK /\ TableSafe)'
    BY TableStep
  <1> QED
    BY <1>1, TableInit, PTL DEF Spec

-----------------------------------------------------------------------------
(***************************************************************************)
(* The directory tree.                                                     *)
(***************************************************************************)

(* Renumbering keeps the order of the slots other than x, and MovedFrom    *)
(* undoes it.                                                              *)
LEMMA RenumberOrder ==
  ASSUME NEW x \in Nat, NEW n \in Nat, x < n,
         NEW p \in 0 .. n - 1, NEW q \in 0 .. n - 1, p # x, q # x
  PROVE  /\ Renumber(p, x) \in 0 .. n - 2
         /\ p < q <=> Renumber(p, x) < Renumber(q, x)
         /\ p = q <=> Renumber(p, x) = Renumber(q, x)
         /\ MovedFrom(Renumber(p, x), x, n - 1) = p
  BY DEF Renumber, MovedFrom

(* A deletion that fs_delete_file allows takes away nobody's parent.       *)
LEMMA NobodysParent ==
  ASSUME TypeOK, TableSafe, ParentsAreDirs, NEW x \in Live \ {0}, MayDelete(x),
         NEW m \in Live
  PROVE  files[m].parent_index # x
  <1> SUFFICES ASSUME files[m].parent_index = x PROVE FALSE
    OBVIOUS
  <1>1. m # 0
    BY DEF TableSafe
  <1>2. files[x].type = "DIR"
    BY <1>1 DEF ParentsAreDirs
  <1> QED
    BY <1>2 DEF MayDelete, Children

(* Every call keeps the tree, unless it is a deletion that misplaces.      *)
LEMMA TreeStep ==
  TypeOK /\ TableSafe /\ TreeUnlessReparented /\ [Next]_vars => TreeUnlessReparented'
  <1> SUFFICES ASSUME TypeOK, TableSafe, TreeUnlessReparented, [Next]_vars,
                      ~ reparented'
               PROVE  ParentsAreDirs' /\ SiblingsDiffer'
    BY DEF TreeUnlessReparented
  <1>0. /\ file_count \in Nat /\ file_count >= 1 /\ file_count <= MAX_FILES
        /\ Live \subseteq Slots
    BY FSAssumption DEF TypeOK, Live, Slots
  <1>1. ASSUME NEW name \in Names \cup {NoName}, NEW type \in {"FILE", "DIR"},
               NEW dir \in Live, Created(name, type, dir)
        PROVE  ParentsAreDirs' /\ SiblingsDiffer'
    <2>1. /\ file_count \in Slots /\ file_count' = file_count + 1
          /\ reparented' = reparented
          /\ files'[file_count].name = name
          /\ files'[file_count].parent_index = dir
          /\ \A s \in Slots \ {file_count} : files'[s] = files[s]
          /\ files[dir].type = "DIR" /\ Matches(dir, name) = {}
      BY <1>1, CreatedSlots
    <2>2. ParentsAreDirs /\ SiblingsDiffer
      BY <2>1 DEF TreeUnlessReparented
    <2>3. /\ Live' = Live \cup {file_count} /\ file_count \notin Live
          /\ \A i \in Live : files'[i] = files[i]
      BY <1>0, <2>1 DEF Live
    <2>4. \A i \in Live \ {0} : files[i].parent_index \in Live
      <3> SUFFICES ASSUME NEW i \in Live \ {0}
                   PROVE  files[i].parent_index \in Live
        OBVIOUS
      <3>1. files[i].parent_index \in Nat
        BY <1>0, FSAssumption DEF TypeOK, Entry, Slots
      <3>2. files[i].parent_index < i
        BY <2>2 DEF ParentsAreDirs
      <3> QED
        BY <1>0, <3>1, <3>2 DEF Live
    <2>5. ParentsAreDirs'
      <3> SUFFICES ASSUME NEW i \in Live' \ {0}
                   PROVE  /\ files'[i].parent_index < i
                          /\ files'[files'[i].parent_index].type = "DIR"
        BY DEF ParentsAreDirs
      <3>1. CASE i = file_count
        BY <1>0, <2>1, <2>3, <3>1 DEF Live
      <3>2. CASE i \in Live \ {0}
        BY <2>2, <2>3, <2>4, <3>2 DEF ParentsAreDirs
      <3> QED
        BY <2>3, <3>1, <3>2
    <2>6. SiblingsDiffer'
      <3> SUFFICES ASSUME NEW i \in Live', NEW j \in Live',
                          files'[i].parent_index = files'[j].parent_index,
                          files'[i].name = files'[j].name
                   PROVE  i = j
        BY DEF SiblingsDiffer
      <3>1. CASE i \in Live /\ j \in Live
        BY <2>2, <2>3, <3>1 DEF SiblingsDiffer
      <3>2. ~ (i \in Live /\ j = file_count) /\ ~ (i = file_count /\ j \in Live)
        BY <2>1, <2>3 DEF Matches
      <3> QED
        BY <2>3, <3>1, <3>2
    <2> QED
      BY <2>5, <2>6
  <1>2. ASSUME NEW i \in Live, NEW buffer \in Buffers, Written(i, buffer)
        PROVE  ParentsAreDirs' /\ SiblingsDiffer'
    <2>1. /\ file_count' = file_count /\ reparented' = reparented
          /\ files'[i].name = files[i].name /\ files'[i].type = files[i].type
          /\ files'[i].parent_index = files[i].parent_index
          /\ \A s \in Slots \ {i} : files'[s] = files[s]
      BY <1>2, WrittenSlots
    <2>2. ParentsAreDirs /\ SiblingsDiffer /\ Live' = Live
      BY <2>1 DEF TreeUnlessReparented, Live
    <2>3. \A s \in Slots : /\ files'[s].name = files[s].name
                            /\ files'[s].type = files[s].type
                            /\ files'[s].parent_index = files[s].parent_index
      BY <2>1
    <2>4. \A s \in Live \ {0} : files[s].parent_index \in Slots
      <3> SUFFICES ASSUME NEW s \in Live \ {0}
                   PROVE  files[s].parent_index \in Slots
        OBVIOUS
      <3>1. files[s].parent_index \in Nat
        BY <1>0, FSAssumption DEF TypeOK, Entry, Slots
      <3>2. files[s].parent_index < s
        BY <2>2 DEF ParentsAreDirs
      <3> QED
        BY <1>0, <3>1, <3>2, FSAssumption DEF Live, Slots
    <2> QED
      BY <1>0, <2>2, <2>3, <2>4 DEF ParentsAreDirs, SiblingsDiffer
  <1>3. ASSUME NEW x \in Live \ {0}, Removed(x)
        PROVE  ParentsAreDirs' /\ SiblingsDiffer'
    <2>1. /\ files' = Shifted(files, file_count, x)
          /\ file_count' = file_count - 1
          /\ ~ reparented /\ ~ Misplaces(x) /\ MayDelete(x)
      BY <1>3, Zenon DEF Removed, RemoveSlot
    <2>2. ParentsAreDirs /\ SiblingsDiffer
      BY <2>1 DEF TreeUnlessReparented
    <2>3. x \in Nat /\ x < file_count /\ Live' = 0 .. file_count - 2
      BY <1>0, <2>1 DEF Live
    <2> DEFINE from(s) == MovedFrom(s, x, file_count - 1)
               up(m)   == files[m].parent_index
    <2>4. ASSUME NEW s \in Live'
          PROVE  /\ from(s) \in Live \ {x}
                 /\ s = Renumber(from(s), x)
                 /\ files'[s].name = files[from(s)].name
                 /\ files'[s].type = files[from(s)].type
                 /\ files'[s].parent_index = Renumber(up(from(s)), x)
      <3>1. s \in Slots /\ s < file_count - 1
        BY <1>0, <2>3, FSAssumption DEF Slots
      <3>2. /\ from(s) \in Live \ {x}
            /\ s = Renumber(from(s), x)
            /\ files'[s].name = files[from(s)].name
            /\ files'[s].type = files[from(s)].type
            /\ files'[s].parent_index = ParentAfter(up(from(s)), x, file_count - 1 - x)
        BY <3>1, <2>1, ShiftedSlot
      <3> QED
        BY <3>2, <2>1 DEF Misplaces
    <2>5. ASSUME NEW m \in Live
          PROVE  up(m) \in 0 .. file_count - 1 /\ up(m) # x
      <3>1. up(m) \in Nat /\ up(m) <= m
        BY <1>0, FSAssumption DEF TypeOK, TableSafe, Entry, Slots
      <3> QED
        BY <1>0, <2>1, <2>2, <3>1, NobodysParent DEF Live
    <2> HIDE DEF from, up
    <2>6. ASSUME NEW s \in Live' \ {0}
          PROVE  /\ files'[s].parent_index < s
                 /\ files'[files'[s].parent_index].type = "DIR"
      <3>1. PICK m \in 0 .. file_count - 1 :
              m = from(s) /\ m # x /\ m \in Live /\ s = Renumber(m, x)
        BY <2>4 DEF Live
      <3>2. m # 0
        <4>1. Renumber(0, x) = 0
          BY <2>3 DEF Renumber
        <4> QED
          BY <3>1, <4>1
      <3>3. PICK p \in 0 .. file_count - 1 : p = up(m) /\ p # x
        BY <3>1, <2>5
      <3>4. p < m /\ files[p].type = "DIR"
        BY <3>1, <3>2, <3>3, <2>2, Zenon DEF ParentsAreDirs, up
      <3>5. /\ Renumber(p, x) \in Live' /\ Renumber(p, x) < s
            /\ from(Renumber(p, x)) = p
        BY <1>0, <2>3, <3>1, <3>3, <3>4, RenumberOrder DEF from
      <3>6. files'[s].parent_index = Renumber(p, x)
        BY <2>4, <3>1, <3>3, Zenon
      <3>7. files'[Renumber(p, x)].type = files[p].type
        BY <2>4, <3>5
      <3> QED
        BY <3>4, <3>5, <3>6, <3>7
    <2>7. ASSUME NEW s \in Live', NEW t \in Live',
                 files'[s].parent_index = files'[t].parent_index,
                 files'[s].name = files'[t].name
          PROVE  s = t
      <3>1. PICK m \in Live : m = from(s) /\ m # x /\ s = Renumber(m, x)
        BY <2>4
      <3>2. PICK n \in Live : n = from(t) /\ n # x /\ t = Renumber(n, x)
        BY <2>4
      <3>3. PICK p \in 0 .. file_count - 1 : p = up(m) /\ p # x
        BY <2>5
      <3>4. PICK q \in 0 .. file_count - 1 : q = up(n) /\ q # x
        BY <2>5
      <3>5. Renumber(p, x) = Renumber(q, x)
        BY <2>4, <2>7, <3>1, <3>2, <3>3, <3>4, Zenon
      <3>6. p = q
        BY <1>0, <2>3, <3>3, <3>4, <3>5, RenumberOrder
      <3>7. files[m].name = files[n].name
        BY <2>4, <2>7, <3>1, <3>2
      <3>8. m = n
        BY <2>2, <3>3, <3>4, <3>6, <3>7, Zenon DEF SiblingsDiffer, up
      <3> QED
        BY <3>1, <3>2, <3>8
    <2> QED
      BY <2>6, <2>7 DEF ParentsAreDirs, SiblingsDiffer
  <1>4. CASE UNCHANGED vars
    BY <1>4 DEF vars, TreeUnlessReparented, ParentsAreDirs, SiblingsDiffer, Live
  <1> QED
    BY <1>1, <1>2, <1>3, <1>4, NextShape

(* fs_init leaves a tree.                                                  *)
LEMMA TreeInit == Init => TreeUnlessReparented
  <1> SUFFICES ASSUME Init PROVE ParentsAreDirs /\ SiblingsDiffer
    BY DEF TreeUnlessReparented
  <1>1. Live = {0}
    BY DEF Init, Live
  <1> QED
    BY <1>1 DEF ParentsAreDirs, SiblingsDiffer

(* fs_create_file and fs_delete_file keep every parent a directory in an   *)
(* earlier slot and the names in a directory distinct, in every table,     *)
(* until the first deletion that misplaces an entry.                       *)
THEOREM TreeKept == Spec => []TreeUnlessReparented
  <1>1. Init => TreeUnlessReparented
    BY TreeInit
  <1>2. TypeOK /\ TableSafe /\ TreeUnlessReparented /\ [Next]_vars
          => (TypeOK /\ TableSafe /\ TreeUnlessReparented)'
    BY TableStep, TreeStep
  <1> QED
    BY <1>1, <1>2, TableInit, PTL DEF Spec

-----------------------------------------------------------------------------
(***************************************************************************)
(* File contents.                                                          *)
(***************************************************************************)
(* Every call keeps the bytes below the size of a file written ones.       *)
LEMMA DataStep ==
  TypeOK /\ TableSafe /\ NoJunkRead /\ [Next]_vars => NoJunkRead'
  <1> DEFINE Clean(entry) == \A k \in 1 .. entry.size : entry.data[k - 1] \in Bytes
  <1>a. NoJunkRead <=> \A i \in Live : Clean(files[i])
    BY Zenon DEF NoJunkRead, Content
  <1>b. NoJunkRead' <=> \A i \in Live' : Clean(files'[i])
    BY Zenon DEF NoJunkRead, Content
  <1> SUFFICES ASSUME TypeOK, TableSafe, \A i \in Live : Clean(files[i]), [Next]_vars,
                      NEW s \in Live'
               PROVE  Clean(files'[s])
    BY <1>a, <1>b
  <1>0. /\ file_count \in Nat /\ file_count >= 1 /\ file_count <= MAX_FILES
        /\ Live \subseteq Slots
    BY FSAssumption DEF TypeOK, Live, Slots
  <1>1. ASSUME NEW name \in Names \cup {NoName}, NEW type \in {"FILE", "DIR"},
               NEW dir \in Live, Created(name, type, dir)
        PROVE  Clean(files'[s])
    <2>1. /\ file_count' = file_count + 1 /\ files'[file_count].size = 0
          /\ \A t \in Slots \ {file_count} : files'[t] = files[t]
      BY <1>1, CreatedSlots
    <2>2. s = file_count \/ (s \in Live /\ s # file_count)
      BY <1>0, <2>1 DEF Live
    <2>3. CASE s = file_count
      BY <2>1, <2>3
    <2>4. CASE s \in Live /\ s # file_count
      BY <1>0, <2>1, <2>4
    <2> QED
      BY <2>2, <2>3, <2>4
  <1>2. ASSUME NEW i \in Live, NEW buffer \in Buffers, Written(i, buffer)
        PROVE  Clean(files'[s])
    <2>1. /\ file_count' = file_count /\ Clean(files'[i])
          /\ \A t \in Slots \ {i} : files'[t] = files[t]
      BY <1>2, WrittenSlots
    <2>2. s \in Live
      BY <2>1 DEF Live
    <2> HIDE DEF Clean
    <2> QED
      BY <1>0, <2>1, <2>2
  <1>3. ASSUME NEW x \in Live \ {0}, Removed(x)
        PROVE  Clean(files'[s])
    <2>1. files' = Shifted(files, file_count, x) /\ file_count' = file_count - 1
      BY <1>3 DEF Removed, RemoveSlot
    <2>2. s \in Slots /\ s < file_count - 1
      BY <1>0, <2>1, FSAssumption DEF Live, Slots
    <2>3. PICK m \in Live : files'[s].size = files[m].size /\ files'[s].data = files[m].data
      BY <2>1, <2>2, ShiftedSlot
    <2> QED
      BY <2>3
  <1>4. CASE UNCHANGED vars
    BY <1>4 DEF vars, Live
  <1> QED
    BY <1>1, <1>2, <1>3, <1>4, NextShape

(* No read ever returns memory that fs_init left uncleared, whatever the   *)
(* file size and however slots are reused.                                 *)
THEOREM NoJunkIsRead == Spec => []NoJunkRead
  <1>1. Init => NoJunkRead
    <2> SUFFICES ASSUME Init PROVE NoJunkRead
      OBVIOUS
    <2>1. Live = {0} /\ 0 \in Slots
      BY FSAssumption DEF Init, Live, Slots
    <2>2. files[0].size = 0
      BY <2>1, Zenon DEF Init, Blank
    <2> QED
      BY <2>1, <2>2 DEF NoJunkRead
  <1>2. TypeOK /\ TableSafe /\ NoJunkRead /\ [Next]_vars
          => (TypeOK /\ TableSafe /\ NoJunkRead)'
    BY TableStep, DataStep
  <1> QED
    BY <1>1, <1>2, TableInit, PTL DEF Spec

(* An entry that is moved takes its type and its content along.            *)
LEMMA RemovedContent ==
  ASSUME TypeOK, TableSafe, NEW x \in Live \ {0}, Removed(x), NEW i \in Live \ {x}
  PROVE  /\ files'[Renumber(i, x)].type = files[i].type
         /\ Content(files'[Renumber(i, x)]) = Content(files[i])
  <1>0. /\ file_count \in Nat /\ file_count >= 1 /\ file_count <= MAX_FILES
        /\ Live \subseteq Slots
    BY FSAssumption DEF TypeOK, Live, Slots
  <1>1. files' = Shifted(files, file_count, x)
    BY DEF Removed, RemoveSlot
  <1>2. /\ x \in Nat /\ x < file_count
        /\ i \in 0 .. file_count - 1 /\ i # x
    BY <1>0 DEF Live
  <1>3. PICK s \in 0 .. file_count - 2 :
          s = Renumber(i, x) /\ MovedFrom(s, x, file_count - 1) = i
    BY <1>0, <1>2, RenumberOrder
  <1>4. s \in Slots /\ s < file_count - 1
    BY <1>0, <1>3, FSAssumption DEF Slots
  <1>5. /\ files'[s].type = files[i].type /\ files'[s].size = files[i].size
        /\ files'[s].data = files[i].data
    BY <1>1, <1>3, <1>4, ShiftedSlot
  <1> QED
    BY <1>3, <1>5 DEF Content

-----------------------------------------------------------------------------
(***************************************************************************)
(* Paths.  A walk is the sequence of values that current_index takes while *)
(* fs_parse_path works on a path.  It depends on the table only through    *)
(* Step, so a property of lookups is an invariant of walks: it holds at    *)
(* the root and every step keeps it.                                       *)
(***************************************************************************)
(* What a path consists of.                                                *)
Components == Names \cup {NoName}

(* The entries with a name among the first n of a table t whose parent is  *)
(* cur, and the step of fs_parse_path from cur with that name.             *)
Hits(t, n, cur, name) ==
  {i \in 0 .. n - 1 : t[i].parent_index = cur /\ t[i].name = name}

Step(t, n, cur, name) ==
  IF cur = -1 \/ name = NoName THEN cur ELSE FirstOf(Hits(t, n, cur, name))

(* The values of current_index while fs_parse_path works on a path.        *)
IsWalk(f, t, n, path) ==
  /\ f \in [0 .. Len(path) -> (0 .. n - 1) \cup {-1}]
  /\ f[0] = 0
  /\ \A k \in 1 .. Len(path) : f[k] = Step(t, n, f[k - 1], path[k])

(* A scan finds nothing in an empty set, and else its first member.        *)
LEMMA FirstOfSet ==
  ASSUME NEW n \in Nat, NEW S \in SUBSET (0 .. n - 1)
  PROVE  /\ S = {} => FirstOf(S) = -1
         /\ S # {} => FirstOf(S) \in S /\ \A m \in S : FirstOf(S) <= m
<1>1. S # {} => \E x \in S : \A y \in S : x <= y
  <2>1. S \in SUBSET Nat
    OBVIOUS
  <2> QED BY <2>1, LeastNatural
<1> QED BY <1>1, Zenon DEF FirstOf, Min

(* A step of a lookup ends on an entry in use or nowhere.                  *)
LEMMA StepType ==
  ASSUME NEW t, NEW n \in Nat, NEW cur \in (0 .. n - 1) \cup {-1}, NEW name
  PROVE  Step(t, n, cur, name) \in (0 .. n - 1) \cup {-1}
<1>1. Hits(t, n, cur, name) \in SUBSET (0 .. n - 1)
  BY DEF Hits
<1>2. FirstOf(Hits(t, n, cur, name)) \in (0 .. n - 1) \cup {-1}
  BY <1>1, FirstOfSet, Zenon
<1> QED BY <1>2 DEF Step

(* Every path has a walk: the recursion of fs_parse_path is well founded.  *)
LEMMA WalkExists ==
  ASSUME NEW t, NEW n \in Nat \ {0}, NEW path \in Seq(Components)
  PROVE  \E f : IsWalk(f, t, n, path)
<1> DEFINE Index == (0 .. n - 1) \cup {-1}
           G == [k \in 1 .. Len(path) |-> [c \in Index |-> Step(t, n, c, path[k])]]
<1>1. Len(path) \in Nat /\ 0 \in Index
  BY LenProperties
<1>2. \A k \in 1 .. Len(path) : \A c \in Index : G[k][c] \in Index
  BY StepType
<1>4. \A k \in 1 .. Len(path), c \in Index : G[k][c] = Step(t, n, c, path[k])
  OBVIOUS
<1> HIDE DEF Index, G
<1>5. PICK f : Follows(f, Len(path), Index, 0, G)
  BY <1>1, <1>2, RecursionExists, Zenon
<1> USE DEF Follows
<1>6. ASSUME NEW k \in 1 .. Len(path) PROVE f[k] = Step(t, n, f[k - 1], path[k])
  <2>1. k - 1 \in 0 .. Len(path)
    BY <1>1
  <2> QED BY <1>4, <1>5, <2>1
<1>7. IsWalk(f, t, n, path)
  BY <1>5, <1>6 DEF IsWalk, Index
<1> QED BY <1>7

(* A path has only one walk.                                               *)
LEMMA WalkUnique ==
  ASSUME NEW t, NEW n, NEW path \in Seq(Components), NEW f, NEW g,
         IsWalk(f, t, n, path), IsWalk(g, t, n, path)
  PROVE  \A k \in 0 .. Len(path) : f[k] = g[k]
<1>1. Len(path) \in Nat
  BY LenProperties
<1>2. \A k \in 1 .. Len(path) : f[k - 1] = g[k - 1] => f[k] = g[k]
  BY DEF IsWalk
<1>3. f[0] = g[0]
  BY DEF IsWalk
<1> QED BY <1>1, <1>2, <1>3, RecursionUnique, ZenonT(30)

(* Two walks of one path stay related if every step keeps them related.    *)
LEMMA WalksRelated ==
  ASSUME NEW t, NEW n, NEW u, NEW m, NEW path \in Seq(Components), NEW f, NEW g,
         IsWalk(f, t, n, path), IsWalk(g, u, m, path), NEW R, <<0, 0>> \in R,
         \A c \in (0 .. n - 1) \cup {-1}, d \in (0 .. m - 1) \cup {-1}, name \in Components :
           <<c, d>> \in R => <<Step(t, n, c, name), Step(u, m, d, name)>> \in R
  PROVE  <<f[Len(path)], g[Len(path)]>> \in R
<1>1. Len(path) \in Nat
  BY LenProperties
<1> DEFINE T == {k \in 0 .. Len(path) : <<f[k], g[k]>> \in R}
<1>2. 0 \in T
  BY <1>1 DEF IsWalk
<1>3. ASSUME NEW k \in 0 .. Len(path) - 1, k \in T PROVE k + 1 \in T
  <2>1. k \in 0 .. Len(path) /\ k + 1 \in 1 .. Len(path) /\ k + 1 - 1 = k
    BY <1>1
  <2>2. path[k + 1] \in Components
    BY <2>1, ElementOfSeq
  <2>3. f[k + 1] = Step(t, n, f[k], path[k + 1]) /\ g[k + 1] = Step(u, m, g[k], path[k + 1])
    BY <2>1 DEF IsWalk
  <2>4. f[k] \in (0 .. n - 1) \cup {-1} /\ g[k] \in (0 .. m - 1) \cup {-1}
    BY <2>1, Zenon DEF IsWalk
  <2>5. <<f[k], g[k]>> \in R
    BY <1>3
  <2>6. <<f[k + 1], g[k + 1]>> \in R
    BY <2>2, <2>3, <2>4, <2>5
  <2> QED BY <1>1, <2>1, <2>6
<1> HIDE DEF T
<1>4. 0 .. Len(path) \subseteq T
  BY <1>1, <1>2, <1>3, InductiveUpTo, Zenon
<1>5. Len(path) \in T
  BY <1>1, <1>4
<1> QED BY <1>5 DEF T

(* A path leads from the root to entry i of a table (or to -1).            *)
Leads(t, n, path, i) == \E f : IsWalk(f, t, n, path) /\ f[Len(path)] = i

(* The empty path leads to the root.                                       *)
LEMMA LeadsEmpty ==
  ASSUME NEW t, NEW n \in Nat \ {0}
  PROVE  Leads(t, n, << >>, 0)
<1> DEFINE f == [k \in 0 .. 0 |-> 0]
<1>1. IsWalk(f, t, n, << >>) /\ f[Len(<< >>)] = 0
  BY DEF IsWalk
<1> HIDE DEF f
<1> QED BY <1>1 DEF Leads

(* One more component is one more step.                                    *)
LEMMA LeadsAppend ==
  ASSUME NEW t, NEW n \in Nat \ {0}, NEW q \in Seq(Components), NEW name \in Components,
         NEW c, Leads(t, n, q, c)
  PROVE  Leads(t, n, Append(q, name), Step(t, n, c, name))
<1>1. PICK f : IsWalk(f, t, n, q) /\ f[Len(q)] = c
  BY DEF Leads
<1> DEFINE e == Step(t, n, c, name)
           p == Append(q, name)
           Index == (0 .. n - 1) \cup {-1}
           h == [k \in 0 .. Len(q) + 1 |-> IF k <= Len(q) THEN f[k] ELSE e]
<1>2. Len(q) \in Nat /\ f \in [0 .. Len(q) -> Index] /\ f[0] = 0
  BY <1>1, LenProperties DEF IsWalk
<1>3. c \in Index
  BY <1>1, <1>2
<1>4. e \in Index
  BY <1>3, StepType
<1>5. /\ Len(p) = Len(q) + 1 /\ p[Len(q) + 1] = name
      /\ \A k \in 1 .. Len(q) : p[k] = q[k]
  BY <1>2
<1>6. h \in [0 .. Len(p) -> Index] /\ h[0] = 0 /\ h[Len(p)] = e
  BY <1>2, <1>4, <1>5
<1>7. ASSUME NEW k \in 1 .. Len(p) PROVE h[k] = Step(t, n, h[k - 1], p[k])
  <2>1. CASE k <= Len(q)
    <3>1. k \in 1 .. Len(q) /\ h[k] = f[k] /\ h[k - 1] = f[k - 1] /\ p[k] = q[k]
      BY <1>2, <1>5, <2>1
    <3> QED BY <1>1, <3>1 DEF IsWalk
  <2>2. CASE k = Len(q) + 1
    <3>1. h[k] = e /\ h[k - 1] = c /\ p[k] = name
      BY <1>1, <1>2, <1>5, <2>2
    <3> QED BY <3>1
  <2> QED BY <1>2, <1>5, <2>1, <2>2
<1>8. IsWalk(h, t, n, p)
  BY <1>6, <1>7, Zenon DEF IsWalk
<1>9. h[Len(p)] = e
  BY <1>6
<1> HIDE DEF h, p, e
<1>10. Leads(t, n, p, e)
  BY <1>8, <1>9 DEF Leads
<1> QED BY <1>10 DEF p, e

(* The paths of the model are sequences of components.                     *)
LEMMA PathsAreSequences ==
  /\ \A path \in Paths : /\ path \in Seq(Components)
                         /\ Len(path) \in 1 .. MaxDepth
  /\ \A path \in NamePaths : path \in Seq(Components)
<1>1. ASSUME NEW n \in 1 .. MaxDepth, NEW path \in [1 .. n -> Components]
      PROVE  path \in Seq(Components) /\ Len(path) = n
  <2>1. n \in Nat
    BY FSAssumption
  <2> QED BY <2>1, SeqDef, LenProperties
<1>2. \A n \in 1 .. MaxDepth : \A path \in [1 .. n -> Names] : path \in [1 .. n -> Components]
  BY DEF Components
<1> QED BY <1>1, <1>2 DEF Paths, NamePaths, Components

(* The path of the parent is one component shorter.                        *)
LEMMA FrontOfPath ==
  ASSUME NEW p \in Seq(Components), 1 <= Len(p)
  PROVE  /\ parent_path(p) \in Seq(Components) /\ Len(parent_path(p)) = Len(p) - 1
         /\ \A k \in 1 .. Len(p) - 1 : parent_path(p)[k] = p[k]
<1>0. Len(p) \in Nat
  BY LenProperties
<1>1. Len(p) - 1 \in Int /\ \A k \in 1 .. Len(p) - 1 : p[k] \in Components
  BY <1>0, ElementOfSeq
<1>2. SubSeq(p, 1, Len(p) - 1) \in Seq(Components)
  BY <1>1, SubSeqProperties
<1>3. Len(SubSeq(p, 1, Len(p) - 1)) = IF 1 <= Len(p) - 1 THEN Len(p) - 1 - 1 + 1 ELSE 0
  BY <1>1, SubSeqProperties
<1>4. PICK r : r = parent_path(p) /\ r = SubSeq(p, 1, Len(p) - 1)
  BY Zenon DEF parent_path
<1>5. r \in Seq(Components) /\ Len(r) = IF 1 <= Len(p) - 1 THEN Len(p) - 1 - 1 + 1 ELSE 0
  BY <1>2, <1>3, <1>4
<1>6. \A n \in Nat : \A k :
        1 <= n /\ k = (IF 1 <= n - 1 THEN n - 1 - 1 + 1 ELSE 0) => k = n - 1
  OBVIOUS
<1>7. Len(r) = Len(p) - 1
  BY <1>0, <1>5, <1>6, Zenon
<1>8. \A k \in 1 .. Len(p) - 1 : parent_path(p)[k] = p[k]
  BY <1>0 DEF parent_path
<1> QED BY <1>4, <1>5, <1>7, <1>8

-----------------------------------------------------------------------------
(***************************************************************************)
(* What fs_parse_path makes of a path before and after a call.             *)
(***************************************************************************)
ParsesByWalks ==
  \A path \in Seq(Components) :
    \E f : IsWalk(f, files, file_count, path) /\ fs_parse_path(path) = f[Len(path)]

(* What fs_parse_path returns is where the walk of its path ends.          *)
LEMMA ParseWalks == TypeOK => ParsesByWalks
<1> SUFFICES ASSUME TypeOK, NEW path \in Seq(Components)
             PROVE  \E f : /\ IsWalk(f, files, file_count, path)
                           /\ fs_parse_path(path) = f[Len(path)]
  BY DEF ParsesByWalks
<1>1. file_count \in Nat \ {0} /\ Len(path) \in Nat
  BY LenProperties, FSAssumption DEF TypeOK
<1>2. PICK f : IsWalk(f, files, file_count, path)
  BY <1>1, WalkExists, Zenon
<1>3. \A c, name : Step(files, file_count, c, name) = Descend(c, name)
  BY DEF Step, Descend, Hits, FirstMatch, Matches, Live
<1> DEFINE Is(g) == g = [k \in 0 .. Len(path) |->
                           IF k = 0 THEN 0 ELSE Descend(g[k - 1], path[k])]
<1>4. Is(f)
  <2>1. \A k \in 0 .. Len(path) :
          f[k] = IF k = 0 THEN 0 ELSE Descend(f[k - 1], path[k])
    BY <1>1, <1>2, <1>3 DEF IsWalk
  <2>2. f = [k \in 0 .. Len(path) |-> f[k]]
    BY <1>2 DEF IsWalk
  <2> QED BY <2>1, <2>2
<1>5. PICK g : Is(g) /\ fs_parse_path(path) = g[Len(path)]
  BY <1>4, Zenon DEF fs_parse_path
<1>6. \A k \in 0 .. Len(path) : f[k] = g[k]
  <2>1. f[0] = g[0]
    BY <1>1, <1>4, <1>5
  <2>2. \A k \in 1 .. Len(path) : f[k - 1] = g[k - 1] => f[k] = g[k]
    BY <1>1, <1>4, <1>5
  <2>3. Len(path) \in Nat
    BY <1>1
  <2> HIDE DEF Is
  <2> QED BY <2>1, <2>2, <2>3, RecursionUnique, Zenon
<1>7. fs_parse_path(path) = f[Len(path)]
  BY <1>1, <1>5, <1>6
<1> QED BY <1>2, <1>7

(* The same after a step.                                                  *)
LEMMA ParseWalksNext == TypeOK' => ParsesByWalks'
  BY ParseWalks, PTL

(* The same for one path parsed before and after a call.                   *)
LEMMA ParsesRelated ==
  ASSUME TypeOK, TypeOK', NEW R, <<0, 0>> \in R,
         \A c \in Live \cup {-1}, d \in Live' \cup {-1}, name \in Components :
           <<c, d>> \in R =>
             <<Step(files, file_count, c, name), Step(files', file_count', d, name)>> \in R,
         NEW path \in Seq(Components)
  PROVE  <<fs_parse_path(path), fs_parse_path(path)'>> \in R
<1>1. PICK f : IsWalk(f, files, file_count, path) /\ fs_parse_path(path) = f[Len(path)]
  BY ParseWalks DEF ParsesByWalks
<1>3. PICK g : IsWalk(g, files', file_count', path) /\ fs_parse_path(path)' = g[Len(path)]
  BY ParseWalksNext DEF ParsesByWalks
<1>4. <<f[Len(path)], g[Len(path)]>> \in R
  <2>1. \A c \in (0 .. file_count - 1) \cup {-1}, d \in (0 .. file_count' - 1) \cup {-1},
           name \in Components :
           <<c, d>> \in R =>
             <<Step(files, file_count, c, name), Step(files', file_count', d, name)>> \in R
    BY DEF Live
  <2>2. IsWalk(f, files, file_count, path) /\ IsWalk(g, files', file_count', path)
    BY <1>1, <1>3
  <2> QED BY <2>1, <2>2, WalksRelated
<1> QED BY <1>1, <1>3, <1>4

-----------------------------------------------------------------------------
(* After fs_create_file a path means what it meant, or it meant nothing    *)
(* and means the new entry. The duplicate check covers every name a lookup *)
(* could find, and no entry in use has the new slot as its parent.         *)
LEMMA CreatedLookups ==
  ASSUME TypeOK, TableSafe, TypeOK', NEW name \in Components, NEW type \in {"FILE", "DIR"},
         NEW dir \in Live, Created(name, type, dir), NEW path \in Seq(Components)
  PROVE  \/ fs_parse_path(path)' = fs_parse_path(path)
         \/ fs_parse_path(path) = -1 /\ fs_parse_path(path)' = file_count
<1>0. /\ file_count \in Nat /\ file_count >= 1 /\ file_count <= MAX_FILES
      /\ Live = 0 .. file_count - 1 /\ Live \subseteq Slots
  BY FSAssumption DEF TypeOK, Live, Slots
<1>1. /\ file_count \in Slots /\ file_count' = file_count + 1
      /\ files'[file_count].name = name
      /\ files'[file_count].parent_index = dir
      /\ \A s \in Slots \ {file_count} : files'[s] = files[s]
      /\ Matches(dir, name) = {}
  BY CreatedSlots, Zenon DEF Components
<1>2. /\ Live' = Live \cup {file_count} /\ file_count \notin Live
      /\ \A i \in Live : files'[i] = files[i]
  BY <1>0, <1>1 DEF Live
<1> DEFINE R == {pair \in (Live \cup {-1}) \X (Live' \cup {-1}) :
                   pair[2] = pair[1] \/ (pair[1] = -1 /\ pair[2] = file_count)}
<1>3. \A c, d : <<c, d>> \in R <=> /\ c \in Live \cup {-1} /\ d \in Live' \cup {-1}
                                   /\ d = c \/ (c = -1 /\ d = file_count)
  OBVIOUS
<1>4. ASSUME NEW c \in Live \cup {-1}, NEW d \in Live' \cup {-1}, NEW nm \in Components,
             <<c, d>> \in R
      PROVE  <<Step(files, file_count, c, nm), Step(files', file_count', d, nm)>> \in R
  <2>1. d = c \/ (c = -1 /\ d = file_count)
    BY <1>3, <1>4
  <2>2. /\ Step(files, file_count, c, nm) \in Live \cup {-1}
        /\ Step(files', file_count', d, nm) \in Live' \cup {-1}
    BY <1>0, <1>1, StepType DEF Live
  <2>3. CASE nm = NoName
    BY <2>3, <1>4 DEF Step
  <2>4. CASE nm # NoName /\ c = -1 /\ d = -1
    BY <2>4, <1>4 DEF Step
  <2>5. CASE nm # NoName /\ c = -1 /\ d = file_count
    <3>1. ASSUME NEW i \in Live' PROVE files'[i].parent_index # file_count
      <4>1. CASE i = file_count
        BY <4>1, <1>1, <1>2
      <4>2. CASE i \in Live
        BY <4>2, <1>0, <1>2 DEF TableSafe
      <4> QED BY <4>1, <4>2, <1>2
    <3>2. Hits(files', file_count', d, nm) = {}
      BY <2>5, <3>1 DEF Hits, Live
    <3>3. Step(files', file_count', d, nm) = -1
      BY <1>0, <2>5, <3>2 DEF Step, FirstOf
    <3>4. Step(files, file_count, c, nm) = -1
      BY <2>5 DEF Step
    <3> QED BY <1>3, <3>3, <3>4, <2>2
  <2>6. CASE nm # NoName /\ c \in Live /\ d = c
    <3>0. c # -1 /\ d # -1
      BY <1>0, <2>6
    <3>1. CASE c = dir /\ nm = name
      <4>1. Hits(files, file_count, c, nm) = {}
        BY <3>1, <1>1 DEF Hits, Matches, Live
      <4>2. Hits(files', file_count', c, nm) = {file_count}
        BY <3>1, <4>1, <1>1, <1>2 DEF Hits, Live
      <4>3. Step(files, file_count, c, nm) = -1
        BY <4>1, <3>0, <2>6 DEF Step, FirstOf
      <4>4. Step(files', file_count', d, nm) = file_count
        <5>1. file_count' \in Nat /\ {file_count} \in SUBSET (0 .. file_count' - 1)
          BY <1>0, <1>1
        <5>2. FirstOf({file_count}) = file_count
          BY <5>1, FirstOfSet, Zenon
        <5> QED BY <5>2, <4>2, <3>0, <2>6 DEF Step
      <4> QED BY <1>3, <4>3, <4>4, <2>2
    <3>2. CASE ~ (c = dir /\ nm = name)
      <4>1. Hits(files', file_count', c, nm) = Hits(files, file_count, c, nm)
        <5>1. \A i : i \in 0 .. file_count' - 1 <=> i \in 0 .. file_count - 1 \/ i = file_count
          BY <1>2 DEF Live
        <5> QED BY <3>2, <5>1, <1>0, <1>1, <1>2 DEF Hits
      <4>2. Step(files', file_count', d, nm) = Step(files, file_count, c, nm)
        BY <4>1, <2>6 DEF Step
      <4> QED BY <1>3, <4>2, <2>2
    <3> QED BY <3>1, <3>2
  <2> QED BY <2>1, <2>3, <2>4, <2>5, <2>6
<1>5. <<0, 0>> \in R
  BY <1>0, <1>2
<1> HIDE DEF R
<1>6. <<fs_parse_path(path), fs_parse_path(path)'>> \in R
  BY <1>4, <1>5, ParsesRelated
<1> QED BY <1>3, <1>6

(* Every fs_mkdir, fs_create and touch leaves what a path meant, in every  *)
(* table, damaged ones included.                                           *)
THEOREM CreateKeepsLookups == Spec => LookupsSurviveCreate
<1>1. TypeOK /\ TableSafe /\ [Next]_vars => (TypeOK /\ TableSafe)'
  BY TableStep
<1>2. TypeOK /\ TableSafe /\ [Next]_vars
        => [file_count' = file_count + 1 =>
             \A path \in NamePaths :
               LET before == fs_parse_path(path)
                   after  == fs_parse_path(path)'
               IN  after = before \/ (before = -1 /\ after = file_count)]_vars
  <2> SUFFICES ASSUME TypeOK, TableSafe, Next, file_count' = file_count + 1,
                      NEW path \in NamePaths
               PROVE  \/ fs_parse_path(path)' = fs_parse_path(path)
                      \/ fs_parse_path(path) = -1 /\ fs_parse_path(path)' = file_count
    OBVIOUS
  <2>1. TypeOK' /\ file_count + 1 # file_count /\ file_count + 1 # file_count - 1
    BY <1>1, FSAssumption DEF TypeOK
  <2>2. PICK name \in Names \cup {NoName}, type \in {"FILE", "DIR"}, dir \in Live :
          Created(name, type, dir)
    BY <2>1, NextShape DEF Written, Removed, RemoveSlot, vars
  <2>3. path \in Seq(Components)
    BY PathsAreSequences
  <2>4. name \in Components
    BY DEF Components
  <2> QED BY <2>1, <2>2, <2>3, <2>4, CreatedLookups
<1> QED BY <1>1, <1>2, TableInit, PTL DEF Spec, LookupsSurviveCreate

-----------------------------------------------------------------------------
(* An entry that stays keeps its name, and its parent is the one it had.   *)
LEMMA RemovedSlot ==
  ASSUME TypeOK, TableSafe, ParentsAreDirs, NEW x \in Live \ {0}, Removed(x), ~Misplaces(x),
         NEW m \in Live \ {x}
  PROVE  /\ Renumber(m, x) \in Live'
         /\ files'[Renumber(m, x)].name = files[m].name
         /\ files[m].parent_index \in Live \ {x}
         /\ files'[Renumber(m, x)].parent_index = Renumber(files[m].parent_index, x)
<1>0. /\ file_count \in Nat /\ file_count >= 1 /\ file_count <= MAX_FILES
      /\ Live = 0 .. file_count - 1 /\ Live \subseteq Slots
  BY FSAssumption DEF TypeOK, Live, Slots
<1>1. files' = Shifted(files, file_count, x) /\ file_count' = file_count - 1 /\ MayDelete(x)
  BY DEF Removed, RemoveSlot
<1>2. /\ x \in Nat /\ x < file_count
      /\ m \in 0 .. file_count - 1 /\ m # x
  BY <1>0
<1>3. PICK s \in 0 .. file_count - 2 :
        s = Renumber(m, x) /\ MovedFrom(s, x, file_count - 1) = m
  BY <1>0, <1>2, RenumberOrder
<1>4. s \in Slots /\ s < file_count - 1 /\ s \in Live'
  BY <1>0, <1>1, <1>3, FSAssumption, SMTT(30) DEF Slots, Live
<1>5. /\ files'[s].name = files[m].name
      /\ files'[s].parent_index = ParentAfter(files[m].parent_index, x, file_count - 1 - x)
  BY <1>1, <1>3, <1>4, ShiftedSlot
<1>6. files[m].parent_index \in Live
  <2>1. files[m] \in Entry /\ files[m].parent_index <= m
    BY <1>0 DEF TypeOK, TableSafe
  <2>2. files[m].parent_index \in Nat
    BY <2>1, FSAssumption DEF Entry, Slots
  <2> QED BY <1>0, <1>2, <2>1, <2>2
<1>7. files[m].parent_index # x
  BY <1>1, NobodysParent
<1> QED BY <1>3, <1>4, <1>5, <1>6, <1>7 DEF Misplaces

(* After a removal that misplaces nothing a path means what it meant, one  *)
(* slot lower if that lay above the removed one.                           *)
LEMMA RemovedLookups ==
  ASSUME TypeOK, TableSafe, TypeOK', ParentsAreDirs, SiblingsDiffer,
         NEW x \in Live \ {0}, Removed(x), ~Misplaces(x), NEW path \in Seq(Components)
  PROVE  LET before == fs_parse_path(path)
             after  == fs_parse_path(path)'
         IN  IF before \in {-1, x} THEN after = -1 ELSE after = Renumber(before, x)
<1>0. /\ file_count \in Nat /\ file_count >= 1 /\ file_count <= MAX_FILES
      /\ Live = 0 .. file_count - 1 /\ Live \subseteq Slots /\ x \in Nat /\ 0 < x /\ x < file_count
  BY FSAssumption DEF TypeOK, Live, Slots
<1>1. /\ files' = Shifted(files, file_count, x)
      /\ file_count' = file_count - 1
      /\ MayDelete(x) /\ Live' = 0 .. file_count - 2
  BY <1>0 DEF Removed, RemoveSlot, Live
<1>2. \A m \in Live \ {x} : Renumber(m, x) \in Live'
  BY RemovedSlot
<1>3. ASSUME NEW s \in Live' PROVE \E m \in Live \ {x} : s = Renumber(m, x)
  <2>1. s \in Slots /\ s < file_count - 1
    BY <1>0, <1>1, FSAssumption DEF Slots
  <2> QED BY <2>1, ShiftedSlot
<1> DEFINE R == {pair \in (Live \cup {-1}) \X (Live' \cup {-1}) :
                   IF pair[1] \in {-1, x} THEN pair[2] = -1 ELSE pair[2] = Renumber(pair[1], x)}
<1>4. \A c, d : <<c, d>> \in R <=>
                  /\ c \in Live \cup {-1} /\ d \in Live' \cup {-1}
                  /\ c \in {-1, x} => d = -1
                  /\ c \notin {-1, x} => d = Renumber(c, x)
  OBVIOUS
<1> HIDE DEF R
<1>5. ASSUME NEW c \in Live \cup {-1}, NEW d \in Live' \cup {-1}, NEW name \in Components,
             <<c, d>> \in R
      PROVE  <<Step(files, file_count, c, name), Step(files', file_count', d, name)>> \in R
  <2>1. CASE name = NoName
    BY <2>1, <1>5 DEF Step
  <2>2. CASE name # NoName /\ c = -1
    <3>1. d = -1
      BY <1>4, <1>5, <2>2
    <3> QED BY <2>2, <3>1, <1>5 DEF Step
  <2>3. CASE name # NoName /\ c = x
    <3>1. d = -1 /\ c # -1
      BY <1>0, <1>4, <1>5, <2>3
    <3>2. \A i \in Live : files[i].parent_index # x
      BY <1>1, NobodysParent
    <3>3. Hits(files, file_count, c, name) = {}
      BY <2>3, <3>2 DEF Hits, Live
    <3>4. Step(files, file_count, c, name) = -1 /\ Step(files', file_count', d, name) = -1
      BY <2>3, <3>1, <3>3 DEF Step, FirstOf
    <3> QED BY <1>4, <3>4
  <2>4. CASE name # NoName /\ c \in Live \ {x}
    <3>1. d = Renumber(c, x) /\ d \in Live' /\ c # -1 /\ d # -1
      BY <1>0, <1>1, <1>2, <1>4, <1>5, <2>4
    <3>2. ASSUME NEW m \in Live \ {x}
          PROVE  Renumber(m, x) \in Hits(files', file_count', d, name)
                   <=> m \in Hits(files, file_count, c, name)
      <4>1. PICK p \in Live \ {x} : p = files[m].parent_index
        BY RemovedSlot
      <4>2. /\ Renumber(m, x) \in Live'
            /\ files'[Renumber(m, x)].name = files[m].name
            /\ files'[Renumber(m, x)].parent_index = Renumber(p, x)
        BY <4>1, RemovedSlot
      <4>3. Renumber(p, x) = d <=> p = c
        BY <1>0, <2>4, <3>1, RenumberOrder
      <4> QED BY <4>1, <4>2, <4>3 DEF Hits, Live
    <3>3. \A h, k \in Hits(files, file_count, c, name) : h = k
      BY DEF Hits, Live, SiblingsDiffer
    <3>4. /\ Hits(files, file_count, c, name) \in SUBSET Live
          /\ Hits(files', file_count', d, name) \in SUBSET Live'
      BY DEF Hits, Live
    <3>5. CASE \E h \in Live \ {x} : h \in Hits(files, file_count, c, name)
      <4>1. PICK h \in Live \ {x} : h \in Hits(files, file_count, c, name)
        BY <3>5
      <4>2. Hits(files, file_count, c, name) = {h}
        BY <3>3, <4>1
      <4>3. Hits(files', file_count', d, name) = {Renumber(h, x)}
        BY <3>2, <3>4, <4>1, <4>2, <1>3
      <4>4. Step(files, file_count, c, name) = h
        <5>1. {h} \in SUBSET (0 .. file_count - 1)
          BY <1>0, <4>1
        <5>2. FirstOf({h}) = h
          BY <1>0, <5>1, FirstOfSet, Zenon
        <5> QED BY <2>4, <3>1, <4>2, <5>2 DEF Step
      <4>5. Step(files', file_count', d, name) = Renumber(h, x)
        <5>1. {Renumber(h, x)} \in SUBSET (0 .. file_count' - 1) /\ file_count' \in Nat
          BY <1>0, <1>1, <1>2, <4>1
        <5>2. FirstOf({Renumber(h, x)}) = Renumber(h, x)
          BY <5>1, FirstOfSet, Zenon
        <5> QED BY <2>4, <3>1, <4>3, <5>2 DEF Step
      <4>6. h \notin {-1, x} /\ Renumber(h, x) \in Live'
        BY <1>0, <1>2, <4>1
      <4> QED BY <1>4, <4>1, <4>4, <4>5, <4>6
    <3>6. CASE ~ \E h \in Live \ {x} : h \in Hits(files, file_count, c, name)
      <4>1. Hits(files', file_count', d, name) = {}
        BY <3>2, <3>4, <3>6, <1>3
      <4>2. Step(files', file_count', d, name) = -1
        BY <2>4, <3>1, <4>1 DEF Step, FirstOf
      <4>3. Hits(files, file_count, c, name) \in SUBSET {x}
        BY <3>4, <3>6
      <4>4. FirstOf(Hits(files, file_count, c, name)) \in {-1, x}
        <5>1. Hits(files, file_count, c, name) \in SUBSET (0 .. file_count - 1)
          BY <1>0, <3>4
        <5> QED BY <1>0, <4>3, <5>1, FirstOfSet, Zenon
      <4>5. Step(files, file_count, c, name) \in {-1, x}
        BY <2>4, <3>1, <4>4 DEF Step
      <4> QED BY <1>4, <4>2, <4>5
    <3> QED BY <3>5, <3>6
  <2> QED BY <2>1, <2>2, <2>3, <2>4
<1>6. <<0, 0>> \in R
  BY <1>0, <1>1, <1>4 DEF Renumber
<1>7. <<fs_parse_path(path), fs_parse_path(path)'>> \in R
  BY <1>5, <1>6, ParsesRelated
<1> QED BY <1>4, <1>7

(* Deleting one entry takes away its own paths and no others, in every     *)
(* tree that no deletion has damaged.                                      *)
THEOREM DeleteKeepsLookups == Spec => LookupsSurviveDelete
<1>1. TypeOK /\ TableSafe /\ TreeUnlessReparented /\ [Next]_vars
        => (TypeOK /\ TableSafe /\ TreeUnlessReparented)'
  BY TableStep, TreeStep
<1>2. Init => TypeOK /\ TableSafe /\ TreeUnlessReparented
  BY TableInit, TreeInit
<1>3. TypeOK /\ TableSafe /\ TreeUnlessReparented /\ [Next]_vars
        => [file_count' = file_count - 1 /\ ~reparented' =>
             \E x \in Live \ {0} :
               /\ files' = Shifted(files, file_count, x)
               /\ \A path \in NamePaths :
                    LET before == fs_parse_path(path)
                        after  == fs_parse_path(path)'
                    IN  IF before \in {-1, x} THEN after = -1
                        ELSE after = Renumber(before, x)]_vars
  <2> SUFFICES ASSUME TypeOK, TableSafe, TreeUnlessReparented, Next,
                      file_count' = file_count - 1, ~reparented'
               PROVE  \E x \in Live \ {0} :
                        /\ files' = Shifted(files, file_count, x)
                        /\ \A path \in NamePaths :
                             LET before == fs_parse_path(path)
                                 after  == fs_parse_path(path)'
                             IN  IF before \in {-1, x} THEN after = -1
                                 ELSE after = Renumber(before, x)
    OBVIOUS
  <2>1. TypeOK' /\ file_count - 1 # file_count /\ file_count + 1 # file_count - 1
    BY <1>1, FSAssumption DEF TypeOK
  <2>2. PICK x \in Live \ {0} : Removed(x)
    BY <2>1, NextShape DEF Written, Created, fs_create_file, vars
  <2>3. /\ files' = Shifted(files, file_count, x)
        /\ ~reparented /\ ~Misplaces(x)
    BY <2>2, Zenon DEF Removed, RemoveSlot
  <2>4. ParentsAreDirs /\ SiblingsDiffer
    BY <2>3 DEF TreeUnlessReparented
  <2>5. \A path \in NamePaths :
          LET before == fs_parse_path(path)
              after  == fs_parse_path(path)'
          IN  IF before \in {-1, x} THEN after = -1 ELSE after = Renumber(before, x)
    BY <2>1, <2>2, <2>3, <2>4, RemovedLookups, PathsAreSequences
  <2> QED BY <2>3, <2>5
<1> QED BY <1>1, <1>2, <1>3, PTL DEF Spec, LookupsSurviveDelete

-----------------------------------------------------------------------------
(* No path leads to an entry without a name, except the root.              *)
LEMMA ParseNamed ==
  ASSUME TypeOK, NEW path \in Seq(Components)
  PROVE  /\ fs_parse_path(path) \in Live \cup {-1}
         /\ fs_parse_path(path) \in Live \ {0} => files[fs_parse_path(path)].name # NoName
<1>0. file_count \in Nat \ {0} /\ Len(path) \in Nat
  BY LenProperties, FSAssumption DEF TypeOK
<1>1. PICK f : IsWalk(f, files, file_count, path) /\ fs_parse_path(path) = f[Len(path)]
  BY ParseWalks DEF ParsesByWalks
<1> DEFINE T == {k \in 0 .. Len(path) : f[k] \in Live \ {0} => files[f[k]].name # NoName}
<1>2. 0 \in T
  BY <1>0, <1>1 DEF IsWalk
<1>3. ASSUME NEW k \in 0 .. Len(path) - 1, k \in T PROVE k + 1 \in T
  <2>1. /\ k \in 0 .. Len(path) /\ k + 1 \in 0 .. Len(path)
        /\ f[k + 1] = Step(files, file_count, f[k], path[k + 1])
    BY <1>0, <1>1 DEF IsWalk
  <2>2. CASE f[k] = -1 \/ path[k + 1] = NoName
    BY <1>3, <2>1, <2>2 DEF Step
  <2>3. CASE f[k] # -1 /\ path[k + 1] # NoName
    <3>1. Hits(files, file_count, f[k], path[k + 1]) \in SUBSET (0 .. file_count - 1)
      BY DEF Hits
    <3>2. f[k + 1] = -1 \/ f[k + 1] \in Hits(files, file_count, f[k], path[k + 1])
      BY <1>0, <2>1, <2>3, <3>1, FirstOfSet, Zenon DEF Step
    <3>3. f[k + 1] \in Live => files[f[k + 1]].name # NoName
      BY <1>0, <2>3, <3>2 DEF Hits, Live
    <3> QED BY <2>1, <3>3
  <2> QED BY <2>2, <2>3
<1> HIDE DEF T
<1>4. 0 .. Len(path) \subseteq T
  BY <1>0, <1>2, <1>3, InductiveUpTo
<1>5. Len(path) \in T
  BY <1>0, <1>4
<1>6. f[Len(path)] \in Live \cup {-1}
  BY <1>0, <1>1 DEF IsWalk, Live
<1> QED BY <1>1, <1>5, <1>6 DEF T

ParsesToNames ==
  \A path \in Seq(Components) :
    fs_parse_path(path) \in Live \ {0} => files[fs_parse_path(path)].name # NoName

(* The same after a step.                                                  *)
LEMMA ParseNamedNext == TypeOK' => ParsesToNames'
<1>1. TypeOK => ParsesToNames
  BY ParseNamed DEF ParsesToNames
<1> QED BY <1>1, PTL

(* How a call uses its path: fs_create_file is given the directory that    *)
(* all but the last component lead to, and what is removed is what the     *)
(* path leads to.                                                          *)
LEMMA NextByPath ==
  Next => \/ \E path \in Paths, type \in {"FILE", "DIR"} :
               \E dir \in Found(parent_path(path)) : Created(last_name(path), type, dir)
          \/ \E i \in Live, buffer \in Buffers : Written(i, buffer)
          \/ \E path \in Paths : \E x \in Found(path) \ {0} : Removed(x)
          \/ UNCHANGED vars
<1> SUFFICES ASSUME NEW path \in Paths,
                    \/ fs_mkdir(path)
                    \/ fs_create(path)
                    \/ touch(path)
                    \/ \E buffer \in Buffers : fs_write(path, buffer)
                    \/ fs_delete_file(path)
                    \/ fs_read(path)
                    \/ fs_list_dir(path)
             PROVE  \/ \E type \in {"FILE", "DIR"} :
                         \E dir \in Found(parent_path(path)) : Created(last_name(path), type, dir)
                    \/ \E i \in Live, buffer \in Buffers : Written(i, buffer)
                    \/ \E x \in Found(path) \ {0} : Removed(x)
                    \/ UNCHANGED vars
  BY DEF Next
<1>1. CASE fs_mkdir(path) \/ fs_create(path) \/ touch(path)
  BY <1>1 DEF fs_mkdir, fs_create, CreateAt, touch, Created
<1>2. CASE \E buffer \in Buffers : fs_write(path, buffer)
  BY <1>2, Zenon DEF fs_write, Written, Found
<1>3. CASE fs_delete_file(path)
  BY <1>3, SMTT(30) DEF fs_delete_file, Removed
<1>4. CASE fs_read(path) \/ fs_list_dir(path)
  BY <1>4 DEF fs_read, fs_list_dir
<1> QED
  BY <1>1, <1>2, <1>3, <1>4

(* No call removes an entry without a name: the entries that stay keep     *)
(* their names, and the removed one had one.                               *)
LEMMA NamelessStep ==
  TypeOK /\ TableSafe /\ [Next]_vars => Cardinality(Nameless') >= Cardinality(Nameless)
<1> SUFFICES ASSUME TypeOK, TableSafe, [Next]_vars
             PROVE  Cardinality(Nameless') >= Cardinality(Nameless)
  OBVIOUS
<1>0. /\ file_count \in Nat /\ file_count >= 1 /\ file_count <= MAX_FILES
      /\ Live \subseteq Slots /\ TypeOK'
  BY TableStep, FSAssumption DEF TypeOK, Live, Slots
<1>1. IsFiniteSet(Nameless) /\ IsFiniteSet(Nameless')
  <2>1. file_count' \in Nat
    BY <1>0, FSAssumption DEF TypeOK
  <2>2. \A k \in Nat : IsFiniteSet(0 .. k - 1)
    <3>1. \A k \in Nat : k - 1 \in Int
      OBVIOUS
    <3> QED BY <3>1, FS_Interval
  <2>3. IsFiniteSet(Live) /\ IsFiniteSet(Live')
    BY <1>0, <2>1, <2>2 DEF Live
  <2>4. Nameless \in SUBSET Live /\ Nameless' \in SUBSET Live'
    BY DEF Nameless
  <2> QED BY <2>3, <2>4, FS_Subset
<1>2. Cardinality(Nameless) \in Nat /\ Cardinality(Nameless') \in Nat
  BY <1>1, FS_CardinalityType
<1>3. ASSUME Nameless \subseteq Nameless' PROVE Cardinality(Nameless') >= Cardinality(Nameless)
  BY <1>1, <1>2, <1>3, FS_Subset
<1>4. ASSUME NEW name \in Names \cup {NoName}, NEW type \in {"FILE", "DIR"},
             NEW dir \in Live, Created(name, type, dir)
      PROVE  Nameless \subseteq Nameless'
  <2>1. /\ file_count' = file_count + 1
        /\ \A s \in Slots \ {file_count} : files'[s] = files[s]
    BY <1>4, CreatedSlots
  <2>2. Live \subseteq Live' /\ \A i \in Live : files'[i] = files[i]
    BY <1>0, <2>1 DEF Live
  <2> QED BY <2>2 DEF Nameless
<1>5. ASSUME NEW i \in Live, NEW buffer \in Buffers, Written(i, buffer)
      PROVE  Nameless \subseteq Nameless'
  <2>1. /\ file_count' = file_count /\ files'[i].name = files[i].name
        /\ \A s \in Slots \ {i} : files'[s] = files[s]
    BY <1>5, WrittenSlots
  <2>2. Live' = Live /\ \A s \in Live : files'[s].name = files[s].name
    BY <1>0, <2>1 DEF Live
  <2> QED BY <2>2 DEF Nameless
<1>6. ASSUME NEW path \in Paths, NEW x \in Found(path) \ {0}, Removed(x)
      PROVE  Cardinality(Nameless') >= Cardinality(Nameless)
  <2>1. x = fs_parse_path(path) /\ x \in Live \ {0}
    BY DEF Found
  <2>2. files[x].name # NoName
    BY <2>1, ParseNamed, PathsAreSequences
  <2>3. files' = Shifted(files, file_count, x) /\ file_count' = file_count - 1
    BY <1>6 DEF Removed, RemoveSlot
  <2>4. x \in Nat /\ 0 < x /\ x < file_count
    BY <1>0, <2>1 DEF Live
  <2>5. ASSUME NEW m \in Nameless PROVE Renumber(m, x) \in Nameless'
    <3>1. m \in 0 .. file_count - 1 /\ m # x /\ m # 0 /\ files[m].name = NoName
      BY <2>2 DEF Nameless, Live
    <3>2. PICK s \in 0 .. file_count - 2 :
            s = Renumber(m, x) /\ MovedFrom(s, x, file_count - 1) = m
      BY <1>0, <2>4, <3>1, RenumberOrder
    <3>3. s \in Slots /\ s < file_count - 1 /\ s \in Live' /\ s # 0
      BY <1>0, <2>3, <2>4, <3>1, <3>2, FSAssumption, SMTT(30) DEF Slots, Live, Renumber
    <3>4. files'[s].name = files[m].name
      BY <2>1, <2>3, <3>2, <3>3, ShiftedSlot
    <3> QED BY <3>1, <3>2, <3>3, <3>4 DEF Nameless
  <2>6. ASSUME NEW m \in Nameless, NEW k \in Nameless, Renumber(m, x) = Renumber(k, x)
        PROVE  m = k
    <3>1. m \in 0 .. file_count - 1 /\ m # x /\ k \in 0 .. file_count - 1 /\ k # x
      BY <2>2 DEF Nameless, Live
    <3> QED BY <1>0, <2>4, <2>6, <3>1 DEF Renumber
  <2> DEFINE h == [m \in Nameless |-> Renumber(m, x)]
  <2>7. h \in Injection(Nameless, Nameless')
    BY <2>5, <2>6 DEF Injection, IsInjective
  <2> HIDE DEF h
  <2>8. Cardinality(Nameless) <= Cardinality(Nameless')
    BY <1>1, <2>7, FS_Injection
  <2> QED BY <1>2, <2>8
<1>7. CASE UNCHANGED vars
  BY <1>3, <1>7 DEF vars, Nameless, Live
<1>8. CASE Next
  <2>1. CASE \E path \in Paths, type \in {"FILE", "DIR"} :
               \E dir \in Found(parent_path(path)) : Created(last_name(path), type, dir)
    <3>1. file_count' # file_count - 1 /\ file_count' # file_count
      BY <1>0, <2>1 DEF Created, fs_create_file
    <3>2. PICK name \in Names \cup {NoName}, type \in {"FILE", "DIR"}, dir \in Live :
            Created(name, type, dir)
      BY <1>8, <3>1, NextShape DEF Written, Removed, RemoveSlot, vars
    <3> QED BY <1>3, <1>4, <3>2
  <2> QED BY <1>3, <1>5, <1>6, <1>7, <1>8, <2>1, NextByPath
<1> QED BY <1>7, <1>8

(* An entry that touch created with the empty name stays for good.         *)
THEOREM NamelessNeverLeave == Spec => NamelessStay
<1>1. TypeOK /\ TableSafe /\ [Next]_vars => (TypeOK /\ TableSafe)'
  BY TableStep
<1>2. TypeOK /\ TableSafe /\ [Next]_vars
        => [Cardinality(Nameless') >= Cardinality(Nameless)]_vars
  BY NamelessStep
<1> QED BY <1>1, <1>2, TableInit, PTL DEF Spec, NamelessStay

-----------------------------------------------------------------------------
(***************************************************************************)
(* Paths without empty components.                                         *)
(***************************************************************************)
(* Named's recursion: the named components among the first k.              *)
IsNamed(g, path) ==
  /\ g \in [0 .. Len(path) -> Seq(Names)]
  /\ g[0] = << >>
  /\ \A k \in 1 .. Len(path) :
       g[k] = IF path[k] = NoName THEN g[k - 1] ELSE Append(g[k - 1], path[k])

(* Named is what its recursion ends with.                                  *)
LEMMA NamedExists ==
  ASSUME NEW path \in Seq(Components)
  PROVE  \E g : IsNamed(g, path) /\ Named(path) = g[Len(path)]
<1> DEFINE Add(r, name) == IF name = NoName THEN r ELSE Append(r, name)
           G == [k \in 1 .. Len(path) |-> [r \in Seq(Names) |-> Add(r, path[k])]]
<1>1. Len(path) \in Nat /\ << >> \in Seq(Names)
  BY LenProperties
<1>2. ASSUME NEW k \in 1 .. Len(path), NEW r \in Seq(Names)
      PROVE  G[k][r] = Add(r, path[k]) /\ G[k][r] \in Seq(Names)
  <2>1. path[k] \in Names \cup {NoName}
    BY ElementOfSeq DEF Components
  <2> QED BY <2>1
<1>3. \A k \in 1 .. Len(path), r \in Seq(Names) : G[k][r] = Add(r, path[k])
  BY <1>2
<1>4. \A k \in 1 .. Len(path) : \A r \in Seq(Names) : G[k][r] \in Seq(Names)
  BY <1>2
<1> HIDE DEF G
<1>5. PICK g : Follows(g, Len(path), Seq(Names), << >>, G)
  BY <1>1, <1>4, RecursionExists, Zenon
<1>6. ASSUME NEW k \in 1 .. Len(path) PROVE g[k] = Add(g[k - 1], path[k])
  <2>1. k - 1 \in 0 .. Len(path)
    BY <1>1
  <2> QED BY <1>3, <1>5, <2>1, Zenon DEF Follows
<1>7. IsNamed(g, path)
  BY <1>5, <1>6 DEF IsNamed, Follows
<1> DEFINE Is(h) == h = [k \in 0 .. Len(path) |->
                           IF k = 0 THEN << >>
                           ELSE IF path[k] = NoName THEN h[k - 1]
                           ELSE Append(h[k - 1], path[k])]
<1>8. Is(g)
  <2>1. \A k \in 0 .. Len(path) :
          g[k] = IF k = 0 THEN << >> ELSE Add(g[k - 1], path[k])
    <3> HIDE DEF Add
    <3>1. \A k \in 0 .. Len(path) : k = 0 \/ k \in 1 .. Len(path)
      BY <1>1
    <3> QED BY <1>5, <1>6, <3>1, Zenon DEF Follows
  <2>2. g = [k \in 0 .. Len(path) |-> g[k]]
    BY <1>5 DEF Follows
  <2> QED BY <2>1, <2>2
<1>9. PICK h : Is(h) /\ Named(path) = h[Len(path)]
  BY <1>8, Zenon DEF Named
<1>10. \A k \in 0 .. Len(path) : g[k] = h[k]
  <2>1. g[0] = h[0]
    BY <1>1, <1>8, <1>9
  <2>2. \A k \in 1 .. Len(path) : g[k - 1] = h[k - 1] => g[k] = h[k]
    <3>1. \A k \in 1 .. Len(path) : k # 0 /\ k \in 0 .. Len(path)
      BY <1>1
    <3>2. \A k \in 1 .. Len(path) : h[k] = Add(h[k - 1], path[k])
      BY <1>9, <3>1, Zenon
    <3> HIDE DEF Add, Is
    <3> QED BY <1>6, <3>2, Zenon
  <2>3. Len(path) \in Nat
    BY <1>1
  <2> HIDE DEF Is
  <2> QED BY <2>1, <2>2, <2>3, RecursionUnique, Zenon
<1>11. Named(path) = g[Len(path)]
  BY <1>1, <1>9, <1>10
<1> QED BY <1>7, <1>11

(* Sequences of names are sequences of components.                         *)
LEMMA NamesAreComponents ==
  ASSUME NEW q \in Seq(Names)
  PROVE  q \in Seq(Components) /\ Len(q) \in Nat
<1>1. Len(q) \in Nat /\ q \in [1 .. Len(q) -> Names]
  BY LenProperties
<1>2. q \in [1 .. Len(q) -> Components]
  BY <1>1 DEF Components
<1> QED BY <1>1, <1>2, SeqDef

(* What a path leads to, the same path without its empty components leads  *)
(* to as well.                                                             *)
LEMMA NamedLeads ==
  ASSUME NEW t, NEW n \in Nat \ {0}, NEW path \in Seq(Components), NEW i,
         Leads(t, n, path, i)
  PROVE  /\ Named(path) \in Seq(Names) /\ Len(Named(path)) <= Len(path)
         /\ Leads(t, n, Named(path), i)
<1>1. PICK f : IsWalk(f, t, n, path) /\ f[Len(path)] = i
  BY DEF Leads
<1>2. Len(path) \in Nat
  BY LenProperties
<1>3. PICK g : IsNamed(g, path) /\ Named(path) = g[Len(path)]
  BY NamedExists
<1> DEFINE T == {k \in 0 .. Len(path) : Len(g[k]) <= k /\ Leads(t, n, g[k], f[k])}
<1>4. 0 \in T
  <2>1. g[0] = << >> /\ Len(g[0]) <= 0 /\ f[0] = 0 /\ 0 \in 0 .. Len(path)
    BY <1>1, <1>2, <1>3 DEF IsWalk, IsNamed
  <2>2. Leads(t, n, g[0], f[0])
    BY <2>1, LeadsEmpty
  <2> QED BY <2>1, <2>2
<1>5. ASSUME NEW k \in 0 .. Len(path) - 1, k \in T PROVE k + 1 \in T
  <2>1. /\ k \in Nat /\ k + 1 \in 0 .. Len(path) /\ k + 1 \in 1 .. Len(path)
        /\ f[k + 1] = Step(t, n, f[k], path[k + 1])
    BY <1>1, <1>2 DEF IsWalk
  <2>2. PICK q \in Seq(Names) : q = g[k] /\ Len(q) <= k /\ Leads(t, n, q, f[k])
    BY <1>3, <1>5, <2>1 DEF IsNamed
  <2>3. q \in Seq(Components) /\ Len(q) \in Nat
    BY NamesAreComponents
  <2>4. g[k + 1] = IF path[k + 1] = NoName THEN q ELSE Append(q, path[k + 1])
    BY <1>3, <2>1, <2>2, SMTT(30) DEF IsNamed
  <2>5. CASE path[k + 1] = NoName
    <3>1. f[k + 1] = f[k] /\ g[k + 1] = q /\ Len(q) <= k + 1
      BY <2>1, <2>2, <2>3, <2>4, <2>5 DEF Step
    <3> QED BY <2>1, <2>2, <3>1
  <2>6. CASE path[k + 1] # NoName
    <3>1. path[k + 1] \in Names /\ path[k + 1] \in Components
      BY <2>1, <2>6, ElementOfSeq DEF Components
    <3>2. PICK name \in Names : name = path[k + 1] /\ name \in Components
      BY <3>1
    <3>3. Leads(t, n, Append(q, name), f[k + 1])
      BY <2>1, <2>2, <2>3, <3>2, LeadsAppend, SMTT(30)
    <3>4. Len(Append(q, name)) <= k + 1
      BY <2>1, <2>2, <2>3
    <3>5. g[k + 1] = Append(q, name)
      BY <2>4, <2>6, <3>2
    <3> QED BY <2>1, <3>3, <3>4, <3>5, Zenon
  <2> QED BY <2>5, <2>6
<1> HIDE DEF T
<1>6. 0 .. Len(path) \subseteq T
  BY <1>2, <1>4, <1>5, InductiveUpTo, Zenon
<1>7. Len(path) \in T /\ Len(path) \in 0 .. Len(path)
  BY <1>2, <1>6
<1>8. g[Len(path)] \in Seq(Names)
  BY <1>3, <1>7 DEF IsNamed
<1> QED BY <1>1, <1>3, <1>7, <1>8 DEF T

(* A path with a last name is the path of its parent and that name.        *)
LEMMA NamedAppend ==
  ASSUME NEW path \in Seq(Components), 1 <= Len(path), last_name(path) # NoName
  PROVE  Named(path) = Append(Named(parent_path(path)), last_name(path))
<1>0. Len(path) \in Nat
  BY LenProperties
<1>1. PICK n \in Nat : Len(path) = n + 1
  <2>1. Len(path) - 1 \in Nat /\ Len(path) = Len(path) - 1 + 1
    BY <1>0
  <2> QED BY <2>1, Zenon
<1>2. PICK q \in Seq(Components) :
        /\ q = parent_path(path) /\ Len(q) = n
        /\ \A k \in 1 .. n : q[k] = path[k]
  <2>1. Len(path) - 1 = n
    BY <1>1
  <2> QED BY <2>1, FrontOfPath, SMTT(30)
<1>3. PICK g : IsNamed(g, path) /\ Named(path) = g[Len(path)]
  BY NamedExists
<1>4. PICK h : IsNamed(h, q) /\ Named(q) = h[Len(q)]
  BY NamedExists
<1>5. \A k \in 0 .. n : h[k] = g[k]
  <2>1. h[0] = g[0]
    BY <1>3, <1>4 DEF IsNamed
  <2>2. InStep(h, g, n)
    <3>1. \A k \in 1 .. n : k \in 1 .. Len(path) /\ k \in 1 .. Len(q) /\ q[k] = path[k]
      BY <1>1, <1>2
    <3> QED BY <1>3, <1>4, <3>1, Zenon DEF IsNamed, InStep
  <2> QED BY <2>1, <2>2, InStepAgree
<1>6. g[n + 1] = Append(g[n], path[n + 1])
  <2>1. PICK k \in 1 .. Len(path) : k = n + 1 /\ k - 1 = n
    BY <1>1
  <2>2. path[k] # NoName
    BY <1>1, <2>1 DEF last_name
  <2>3. g[k] = Append(g[k - 1], path[k])
    BY <1>3, <2>2, Zenon DEF IsNamed
  <2> QED BY <2>1, <2>3
<1>7. h[n] = g[n] /\ Named(q) = h[n] /\ Named(path) = g[n + 1]
  BY <1>1, <1>2, <1>3, <1>4, <1>5
<1>8. last_name(path) = path[n + 1] /\ Named(parent_path(path)) = g[n]
  BY <1>1, <1>2, <1>7 DEF last_name
<1> QED BY <1>6, <1>7, <1>8

(* The named paths of the model are the sequences of names of its lengths. *)
LEMMA NamePathsAreSequences ==
  ASSUME NEW p
  PROVE  p \in NamePaths <=> p \in Seq(Names) /\ Len(p) \in 1 .. MaxDepth
<1>1. ASSUME p \in NamePaths PROVE p \in Seq(Names) /\ Len(p) \in 1 .. MaxDepth
  <2>1. PICK n \in 1 .. MaxDepth : p \in [1 .. n -> Names]
    BY <1>1 DEF NamePaths
  <2>2. n \in Nat
    BY FSAssumption
  <2> QED BY <2>1, <2>2, SeqDef, LenProperties
<1>2. ASSUME p \in Seq(Names), Len(p) \in 1 .. MaxDepth PROVE p \in NamePaths
  <2>1. p \in [1 .. Len(p) -> Names]
    BY <1>2, LenProperties
  <2> QED BY <1>2, <2>1 DEF NamePaths
<1> QED BY <1>1, <1>2

-----------------------------------------------------------------------------
(* fs_parse_path returns what its path leads to.                           *)
LEMMA ParseIsLed ==
  ASSUME TypeOK, NEW path \in Seq(Components)
  PROVE  /\ Leads(files, file_count, path, fs_parse_path(path))
         /\ \A i : Leads(files, file_count, path, i) => i = fs_parse_path(path)
<1>1. PICK f : IsWalk(f, files, file_count, path) /\ fs_parse_path(path) = f[Len(path)]
  BY ParseWalks DEF ParsesByWalks
<1>2. ASSUME NEW i, NEW g, IsWalk(g, files, file_count, path), g[Len(path)] = i
      PROVE  i = fs_parse_path(path)
  <2>1. \A k \in 0 .. Len(path) : f[k] = g[k]
    BY <1>1, <1>2, WalkUnique
  <2>2. Len(path) \in 0 .. Len(path)
    BY LenProperties
  <2> QED BY <1>1, <1>2, <2>1, <2>2
<1> QED BY <1>1, <1>2 DEF Leads

ParseIsLedAlways ==
  \A path \in Seq(Components) :
    /\ Leads(files, file_count, path, fs_parse_path(path))
    /\ \A i : Leads(files, file_count, path, i) => i = fs_parse_path(path)

(* The same after a step.                                                  *)
LEMMA ParseIsLedNext == TypeOK' => ParseIsLedAlways'
<1>1. TypeOK => ParseIsLedAlways
  BY ParseIsLed DEF ParseIsLedAlways
<1> QED BY <1>1, PTL

(* What leaves the table alone leaves what every path means.               *)
LEMMA UnchangedLookups ==
  ASSUME TypeOK, TypeOK', UNCHANGED vars, NEW path \in Seq(Components)
  PROVE  fs_parse_path(path)' = fs_parse_path(path)
<1>1. files' = files /\ file_count' = file_count
  BY DEF vars
<1>2. Leads(files', file_count', path, fs_parse_path(path))
  BY <1>1, ParseIsLed
<1> QED BY <1>2, ParseIsLedNext DEF ParseIsLedAlways

(* A write leaves what every path means.                                   *)
LEMMA WrittenLookups ==
  ASSUME TypeOK, TypeOK', NEW i \in Live, NEW buffer \in Buffers, Written(i, buffer),
         NEW path \in Seq(Components)
  PROVE  fs_parse_path(path)' = fs_parse_path(path)
<1>0. Live \subseteq Slots /\ file_count \in Nat
  BY FSAssumption DEF TypeOK, Live, Slots
<1>1. /\ file_count' = file_count
      /\ \A s \in Live : /\ files'[s].name = files[s].name
                         /\ files'[s].parent_index = files[s].parent_index
  BY <1>0, WrittenSlots
<1>2. \A c, name : Hits(files', file_count', c, name) = Hits(files, file_count, c, name)
  BY <1>1 DEF Hits, Live
<1>3. \A c, name : Step(files', file_count', c, name) = Step(files, file_count, c, name)
  BY <1>2 DEF Step
<1> DEFINE R == {pair \in (Live \cup {-1}) \X (Live \cup {-1}) : pair[1] = pair[2]}
<1>4. \A c, d : <<c, d>> \in R <=> c \in Live \cup {-1} /\ c = d
  OBVIOUS
<1>5. ASSUME NEW c \in Live \cup {-1}, NEW d \in Live' \cup {-1}, NEW name \in Components,
             <<c, d>> \in R
      PROVE  <<Step(files, file_count, c, name), Step(files', file_count', d, name)>> \in R
  <2>1. Step(files, file_count, c, name) \in Live \cup {-1}
    BY <1>0, StepType DEF Live
  <2> QED BY <1>3, <1>4, <1>5, <2>1
<1>6. <<0, 0>> \in R
  BY <1>4, FSAssumption DEF TypeOK, Live
<1> HIDE DEF R
<1>7. <<fs_parse_path(path), fs_parse_path(path)'>> \in R
  BY <1>5, <1>6, ParsesRelated
<1> QED BY <1>4, <1>7

(* After fs_create_file its entry is the one its name leads to.            *)
LEMMA CreatedIsFound ==
  ASSUME TypeOK, NEW name \in Names, NEW type \in {"FILE", "DIR"},
         NEW dir \in Live, Created(name, type, dir)
  PROVE  Step(files', file_count', dir, name) = file_count
<1>0. file_count \in Nat /\ Live \subseteq Slots
  BY FSAssumption DEF TypeOK, Live, Slots
<1>1. /\ file_count \in Slots /\ file_count' = file_count + 1
      /\ files'[file_count].name = name
      /\ files'[file_count].parent_index = dir
      /\ \A s \in Slots \ {file_count} : files'[s] = files[s]
      /\ Matches(dir, name) = {}
  BY CreatedSlots
<1>2. /\ Live' = Live \cup {file_count}
      /\ \A i \in Live : files'[i] = files[i]
  BY <1>0, <1>1 DEF Live
<1>3. Hits(files', file_count', dir, name) = {file_count}
  BY <1>1, <1>2 DEF Hits, Live, Matches
<1>4. file_count' \in Nat /\ {file_count} \in SUBSET (0 .. file_count' - 1)
  BY <1>0, <1>1
<1>5. FirstOf({file_count}) = file_count
  BY <1>4, FirstOfSet, Zenon
<1> QED BY <1>3, <1>5, FSAssumption DEF Step, Live

(* And so is its whole path, without the empty components.                 *)
LEMMA CreatedAtPath ==
  ASSUME TypeOK, TableSafe, TypeOK', NEW path \in Paths, last_name(path) # NoName,
         NEW type \in {"FILE", "DIR"}, NEW dir \in Found(parent_path(path)),
         Created(last_name(path), type, dir)
  PROVE  Named(path) \in NamePaths /\ fs_parse_path(Named(path))' = file_count
<1>0. file_count \in Nat \ {0} /\ file_count' \in Nat \ {0} /\ dir # -1
  BY FSAssumption DEF TypeOK, Found, Live
<1>1. path \in Seq(Components) /\ Len(path) \in Nat /\ 1 <= Len(path) /\ Len(path) <= MaxDepth
  BY PathsAreSequences, FSAssumption
<1>2. PICK name \in Names : name = last_name(path) /\ name \in Components
  <2>1. last_name(path) \in Components
    BY <1>1, ElementOfSeq DEF last_name
  <2> QED BY <2>1 DEF Components
<1>3. parent_path(path) \in Seq(Components) /\ Len(parent_path(path)) = Len(path) - 1
  BY <1>1, FrontOfPath
<1>4. dir = fs_parse_path(parent_path(path)) /\ dir \in Live /\ Created(name, type, dir)
  BY <1>2 DEF Found
<1>5. Leads(files, file_count, parent_path(path), dir)
  BY <1>3, <1>4, ParseIsLed
<1>6. PICK q \in Seq(Names) :
        /\ q = Named(parent_path(path)) /\ Len(q) <= Len(path) - 1
        /\ Leads(files, file_count, q, dir)
  BY <1>0, <1>3, <1>5, NamedLeads, Zenon
<1>7. q \in Seq(Components) /\ Len(q) \in Nat
  BY NamesAreComponents
<1>8. fs_parse_path(q)' = dir
  <2>1. fs_parse_path(q) = dir
    BY <1>6, <1>7, ParseIsLed
  <2> QED BY <1>0, <1>2, <1>4, <1>7, <2>1, CreatedLookups
<1>9. Leads(files', file_count', Append(q, name), file_count)
  <2>1. Leads(files', file_count', q, dir)
    BY <1>7, <1>8, ParseIsLedNext DEF ParseIsLedAlways
  <2>2. Step(files', file_count', dir, name) = file_count
    BY <1>4, CreatedIsFound
  <2> QED BY <1>0, <1>2, <1>7, <2>1, <2>2, LeadsAppend
<1>10. Append(q, name) \in Seq(Components)
  BY <1>2, <1>7
<1>11. fs_parse_path(Append(q, name))' = file_count
  BY <1>9, <1>10, ParseIsLedNext, Zenon DEF ParseIsLedAlways
<1>12. Append(q, name) \in NamePaths
  <2>1. Append(q, name) \in Seq(Names) /\ Len(Append(q, name)) = Len(q) + 1
    OBVIOUS
  <2>2. Len(q) + 1 \in 1 .. MaxDepth
    BY <1>1, <1>6, <1>7, FSAssumption
  <2> QED BY <2>1, <2>2, NamePathsAreSequences, Zenon
<1>13. Named(path) = Append(q, name)
  BY <1>1, <1>2, <1>6, NamedAppend
<1> QED BY <1>11, <1>12, <1>13

(* Every call keeps the entries with a name within reach: one that creates *)
(* makes an entry that its own path leads to, one that deletes moves what  *)
(* a path means along with the entry.                                      *)
LEMMA AddressableStep ==
  TypeOK /\ TableSafe /\ TreeUnlessReparented /\ AddressableUnlessReparented /\ [Next]_vars
    => AddressableUnlessReparented'
<1> SUFFICES ASSUME TypeOK, TableSafe, TreeUnlessReparented, AddressableUnlessReparented,
                    [Next]_vars, ~reparented', NEW i \in Live' \ {0}, files'[i].name # NoName
             PROVE  \E path \in NamePaths : fs_parse_path(path)' = i
  BY DEF AddressableUnlessReparented
<1>0. /\ file_count \in Nat \ {0} /\ file_count >= 1 /\ file_count <= MAX_FILES
      /\ Live \subseteq Slots /\ TypeOK'
  BY TableStep, FSAssumption, SMTT(30) DEF TypeOK, Live, Slots
<1>1. ASSUME NEW p \in Paths, NEW type \in {"FILE", "DIR"}, NEW dir \in Found(parent_path(p)),
             Created(last_name(p), type, dir)
      PROVE  \E path \in NamePaths : fs_parse_path(path)' = i
  <2>1. p \in Seq(Components) /\ Len(p) \in Nat /\ 1 <= Len(p) /\ Len(p) <= MaxDepth
    BY PathsAreSequences, FSAssumption
  <2>2. last_name(p) \in Components
    BY <2>1, ElementOfSeq DEF last_name
  <2>3. PICK name \in Components : name = last_name(p)
    BY <2>2
  <2>4. dir = fs_parse_path(parent_path(p)) /\ dir \in Live
    BY DEF Found
  <2>5. Created(name, type, dir)
    BY <1>1, <2>3, SMTT(30)
  <2>6. /\ file_count \in Slots /\ file_count' = file_count + 1
        /\ reparented' = reparented
        /\ files'[file_count].name = name
        /\ \A s \in Slots \ {file_count} : files'[s] = files[s]
    BY <2>4, <2>5, CreatedSlots DEF Components
  <2>7. CASE i \in Live
    <3>1. files[i].name # NoName
      BY <1>0, <2>6, <2>7, SMTT(30) DEF Live
    <3>2. PICK path \in NamePaths : fs_parse_path(path) = i
      BY <2>6, <2>7, <3>1 DEF AddressableUnlessReparented
    <3>3. path \in Seq(Components) /\ i # -1
      BY <1>0, <2>7, PathsAreSequences DEF Live
    <3>4. fs_parse_path(path)' = i
      BY <1>0, <2>4, <2>5, <3>2, <3>3, CreatedLookups
    <3> QED BY <3>4, Zenon
  <2>8. CASE i = file_count
    <3>1. last_name(p) # NoName
      BY <2>3, <2>6, <2>8
    <3>2. Named(p) \in NamePaths /\ fs_parse_path(Named(p))' = file_count
      BY <1>0, <1>1, <3>1, CreatedAtPath
    <3> QED BY <2>8, <3>2, Zenon
  <2>9. i \in Live \/ i = file_count
    BY <1>0, <2>6 DEF Live
  <2> QED BY <2>7, <2>8, <2>9, Zenon
<1>2. ASSUME NEW j \in Live, NEW buffer \in Buffers, Written(j, buffer)
      PROVE  \E path \in NamePaths : fs_parse_path(path)' = i
  <2>1. /\ file_count' = file_count /\ reparented' = reparented
        /\ files'[j].name = files[j].name
        /\ \A s \in Slots \ {j} : files'[s] = files[s]
    BY <1>2, WrittenSlots
  <2>2. i \in Live \ {0} /\ files[i].name # NoName
    BY <1>0, <2>1 DEF Live
  <2>3. PICK path \in NamePaths : fs_parse_path(path) = i
    BY <2>1, <2>2 DEF AddressableUnlessReparented
  <2>4. fs_parse_path(path)' = i
    BY <1>0, <1>2, <2>3, PathsAreSequences, WrittenLookups
  <2> QED BY <2>4
<1>3. ASSUME NEW x \in Live \ {0}, Removed(x)
      PROVE  \E path \in NamePaths : fs_parse_path(path)' = i
  <2>1. /\ files' = Shifted(files, file_count, x) /\ file_count' = file_count - 1
        /\ ~reparented /\ ~Misplaces(x)
    BY <1>3, Zenon DEF Removed, RemoveSlot
  <2>2. ParentsAreDirs /\ SiblingsDiffer
    BY <2>1 DEF TreeUnlessReparented
  <2>3. i \in Slots /\ i < file_count - 1
    BY <1>0, <2>1, FSAssumption DEF Live, Slots
  <2>4. PICK m \in Live \ {x} : i = Renumber(m, x) /\ files'[i].name = files[m].name
    BY <2>1, <2>3, ShiftedSlot
  <2>5. m # 0 /\ m \notin {-1, x}
    BY <1>0, <2>4 DEF Live, Renumber
  <2>6. PICK path \in NamePaths : fs_parse_path(path) = m
    BY <2>1, <2>4, <2>5 DEF AddressableUnlessReparented
  <2>7. fs_parse_path(path)' = Renumber(m, x)
    BY <1>0, <1>3, <2>1, <2>2, <2>5, <2>6, PathsAreSequences, RemovedLookups
  <2> QED BY <2>4, <2>7
<1>4. CASE UNCHANGED vars
  <2>1. /\ files' = files /\ file_count' = file_count /\ reparented' = reparented
        /\ i \in Live \ {0} /\ files[i].name # NoName
    BY <1>4 DEF vars, Live
  <2>2. PICK path \in NamePaths : fs_parse_path(path) = i
    BY <2>1 DEF AddressableUnlessReparented
  <2>3. path \in Seq(Components)
    BY PathsAreSequences
  <2>4. fs_parse_path(path)' = i
    BY <1>0, <1>4, <2>2, <2>3, UnchangedLookups
  <2> QED BY <2>4
<1>5. ASSUME NEW path \in Paths, NEW x \in Found(path) \ {0} PROVE x \in Live \ {0}
  BY DEF Found
<1> QED BY <1>1, <1>2, <1>3, <1>4, <1>5, NextByPath

(* No file is lost while its slot stays taken: until a deletion misplaces  *)
(* an entry, some path leads to every entry with a name.                   *)
THEOREM NamedStayAddressable == Spec => []AddressableUnlessReparented
<1>1. Init => AddressableUnlessReparented
  <2>1. Init => Live = {0}
    BY DEF Init, Live
  <2> QED BY <2>1 DEF AddressableUnlessReparented
<1>2. TypeOK /\ TableSafe /\ TreeUnlessReparented /\ AddressableUnlessReparented /\ [Next]_vars
        => (TypeOK /\ TableSafe /\ TreeUnlessReparented /\ AddressableUnlessReparented)'
  BY TableStep, TreeStep, AddressableStep
<1> QED BY <1>1, <1>2, TableInit, TreeInit, PTL DEF Spec
=============================================================================
