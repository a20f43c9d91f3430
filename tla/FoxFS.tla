-------------------------------- MODULE FoxFS --------------------------------
(***************************************************************************)
(* The in-memory file system of FoxOS (src/fs.c): one array of MAX_FILES   *)
(* entries, the first file_count of them in use, each holding the index of *)
(* its parent directory.  Slot 0 is the root and is its own parent.        *)
(*                                                                         *)
(* A path is the sequence of its components.  A component is NoName (the   *)
(* empty string) where the text has two slashes in a row, ends in a slash, *)
(* or is just "/"; fs_parse_path skips those.  All callers pass absolute   *)
(* paths, so the last component is what follows the last slash.            *)
(*                                                                         *)
(* A call that returns -1 changes nothing and is a stuttering step.        *)
(***************************************************************************)
EXTENDS Sequences, FiniteSetsExt, FsShift

CONSTANTS
  MAX_FILES,      \* slots of the table (256 in fs.h)
  MAX_FILE_SIZE,  \* bytes a file can hold (4096 in fs.h)
  UINT32_MAX,     \* what parent_index = -1 stores in a uint32_t
  Names,          \* non-empty component names
  NoName,         \* the empty string
  Bytes,          \* values of a data byte
  Junk,           \* content of memory nobody has written (data is not cleared)
  MaxDepth,       \* bound: components in a path handed to the file system
  MaxWrite        \* bound: bytes handed to one fs_write

ASSUME FSAssumption ==
  /\ MAX_FILES \in Nat \ {0}
  /\ MAX_FILE_SIZE \in Nat
  /\ UINT32_MAX \in Nat /\ UINT32_MAX >= MAX_FILES
  /\ NoName \notin Names
  /\ Junk \notin Bytes
  /\ MaxDepth \in Nat \ {0} /\ MaxWrite \in Nat

VARIABLES
  files,       \* the table
  file_count,  \* slots in use: 0 .. file_count - 1
  reparented   \* history: some deletion left an entry under another directory

vars == <<files, file_count, reparented>>

Slots == 0 .. MAX_FILES - 1
Live  == 0 .. file_count - 1
Types == {"NONE", "FILE", "DIR"}

Entry == [name         : Names \cup {NoName},
          type         : Types,
          size         : 0 .. MAX_FILE_SIZE,
          parent_index : Slots \cup {UINT32_MAX},
          data         : [0 .. MAX_FILE_SIZE - 1 -> Bytes \cup {Junk}]]

Paths == UNION {[1 .. n -> Names \cup {NoName}] : n \in 1 .. MaxDepth}

(* The paths without empty components: what a path means depends only on   *)
(* its non-empty ones.                                                     *)
NamePaths == UNION {[1 .. n -> Names] : n \in 1 .. MaxDepth}

Buffers == UNION {[1 .. n -> Bytes] : n \in 0 .. MaxWrite}

-----------------------------------------------------------------------------
(***************************************************************************)
(* Looking up.                                                             *)
(***************************************************************************)

(* The entries a directory scan would compare equal.                       *)
Matches(dir, name) ==
  {i \in Live : files[i].parent_index = dir /\ files[i].name = name}

FirstOf(found) == IF found = {} THEN -1 ELSE Min(found)

(* Mutants: a scan that stops one entry early, and one that runs one slot  *)
(* too far and sees what a deletion left behind.                           *)
FirstMatchShort(dir, name) == FirstOf(Matches(dir, name) \ {file_count - 1})

FirstMatchLong(dir, name) ==
  FirstOf({i \in Slots : i <= file_count /\ files[i].parent_index = dir
                                        /\ files[i].name = name})

(* The directory scan of fs_parse_path: the first match wins.              *)
FirstMatch(dir, name) == FirstOf(Matches(dir, name))

(* One round of its outer loop: an empty component is skipped, and what    *)
(* was already lost stays lost.                                            *)
Descend(cur, name) ==
  IF cur = -1 \/ name = NoName THEN cur ELSE FirstMatch(cur, name)

fs_parse_path(path) ==
  LET current_index[k \in 0 .. Len(path)] ==
        IF k = 0 THEN 0 ELSE Descend(current_index[k - 1], path[k])
  IN  current_index[Len(path)]

(* The two parts of a path that is split at its last slash.                *)
parent_path(path) == SubSeq(path, 1, Len(path) - 1)

last_name(path) == path[Len(path)]

(* Mutant: a trailing slash is looked up as an empty name.                 *)
FoundTrailing(path) ==
  IF path # << >> /\ last_name(path) = NoName
  THEN Matches(fs_parse_path(parent_path(path)), NoName)
  ELSE {fs_parse_path(path)} \cap Live

(* fs_get_file: the entry a path leads to, none if it leads nowhere.       *)
Found(path) == {fs_parse_path(path)} \cap Live

(* What fs_read returns for an entry.                                      *)
Content(entry) == [k \in 1 .. entry.size |-> entry.data[k - 1]]

-----------------------------------------------------------------------------
(***************************************************************************)
(* Creating.                                                               *)
(***************************************************************************)
(* Mutants: the full table noticed one slot too late; no duplicate check.  *)
MayCreateLate(name, dir) ==
  /\ file_count <= MAX_FILES
  /\ dir < MAX_FILES
  /\ files[dir].type = "DIR"
  /\ Matches(dir, name) = {}

MayCreateTwice(name, dir) ==
  /\ file_count < MAX_FILES
  /\ dir < MAX_FILES
  /\ files[dir].type = "DIR"

MayCreate(name, dir) ==
  /\ file_count < MAX_FILES
  /\ dir < MAX_FILES
  /\ files[dir].type = "DIR"
  /\ Matches(dir, name) = {}

(* Mutant: the size of the slot's previous owner is kept.                  *)
NewEntryStaleSize(old, name, type, dir) ==
  [old EXCEPT !.name = name, !.type = type, !.parent_index = dir]

(* The new entry keeps whatever data bytes the slot held before.           *)
NewEntry(old, name, type, dir) ==
  [old EXCEPT !.name = name, !.type = type, !.size = 0, !.parent_index = dir]

fs_create_file(name, type, dir) ==
  /\ MayCreate(name, dir)
  /\ files' = [files EXCEPT ![file_count] = NewEntry(@, name, type, dir)]
  /\ file_count' = file_count + 1
  /\ UNCHANGED reparented

(* The shared body of fs_mkdir and fs_create: refuse an empty last         *)
(* component, find the parent, create.                                     *)
CreateAt(path, type) ==
  /\ last_name(path) # NoName
  /\ \E dir \in Found(parent_path(path)) : fs_create_file(last_name(path), type, dir)

fs_mkdir(path) == CreateAt(path, "DIR")

fs_create(path) == CreateAt(path, "FILE")

(* The touch command splits the path itself and does not refuse an empty   *)
(* last component.                                                         *)
touch(path) ==
  \E dir \in Found(parent_path(path)) : fs_create_file(last_name(path), "FILE", dir)

-----------------------------------------------------------------------------
(***************************************************************************)
(* Writing.                                                                *)
(***************************************************************************)
Clip(size) == IF size > MAX_FILE_SIZE THEN MAX_FILE_SIZE ELSE size

(* Mutant: the copy loop stops one byte short.                             *)
OverwriteShort(entry, buffer) ==
  LET size == Clip(Len(buffer))
  IN  [entry EXCEPT !.size = size,
                    !.data = [k \in DOMAIN @ |->
                                IF k < size - 1 THEN buffer[k + 1] ELSE @[k]]]

Overwrite(entry, buffer) ==
  LET size == Clip(Len(buffer))
  IN  [entry EXCEPT !.size = size,
                    !.data = [k \in DOMAIN @ |->
                                IF k < size THEN buffer[k + 1] ELSE @[k]]]

fs_write(path, buffer) ==
  \E i \in Found(path) :
    /\ files[i].type = "FILE"
    /\ files' = [files EXCEPT ![i] = Overwrite(@, buffer)]
    /\ UNCHANGED <<file_count, reparented>>

-----------------------------------------------------------------------------
(***************************************************************************)
(* Deleting.                                                               *)
(***************************************************************************)
Children(dir) == {i \in Live : files[i].parent_index = dir}

(* Mutant: a directory is removed whatever is in it.                       *)
MayDeleteAny(x) == x \in Live

MayDelete(x) == files[x].type = "DIR" => Children(x) = {}

(* The deletion of x leaves some entry under another directory.            *)
Misplaces(x) ==
  \E i \in Live \ {x} :
    ParentAfter(files[i].parent_index, x, file_count - 1 - x)
      # Renumber(files[i].parent_index, x)

(* Mutant: the slot is blanked in place, the way the unused fs_delete does *)
(* it, and the entries above keep their indices.                           *)
BlankSlot(x) ==
  /\ files' = [files EXCEPT ![x].name = NoName, ![x].type = "NONE",
                            ![x].size = 0, ![x].parent_index = UINT32_MAX]
  /\ UNCHANGED <<file_count, reparented>>

RemoveSlot(x) ==
  /\ files' = Shifted(files, file_count, x)
  /\ file_count' = file_count - 1
  /\ reparented' = (reparented \/ Misplaces(x))

(* The root (index 0) and a path that leads nowhere (-1) are refused.      *)
fs_delete_file(path) ==
  \E x \in Found(path) \ {0} :
    /\ MayDelete(x)
    /\ RemoveSlot(x)

-----------------------------------------------------------------------------
(***************************************************************************)
(* Reading: both calls leave the table alone.                              *)
(***************************************************************************)
fs_read(path) ==
  /\ \E i \in Found(path) : files[i].type = "FILE"
  /\ UNCHANGED vars

fs_list_dir(path) ==
  /\ \E i \in Found(path) : files[i].type = "DIR"
  /\ UNCHANGED vars

-----------------------------------------------------------------------------
Blank == [name |-> NoName, type |-> "NONE", size |-> 0,
          parent_index |-> UINT32_MAX,
          data |-> [k \in 0 .. MAX_FILE_SIZE - 1 |-> Junk]]

(* fs_init: every slot blank, then the root in slot 0.                     *)
Init ==
  /\ files = [s \in Slots |->
                IF s = 0 THEN [Blank EXCEPT !.type = "DIR", !.parent_index = 0]
                ELSE Blank]
  /\ file_count = 1
  /\ reparented = FALSE

Next ==
  \E path \in Paths :
    \/ fs_mkdir(path)
    \/ fs_create(path)
    \/ touch(path)
    \/ \E buffer \in Buffers : fs_write(path, buffer)
    \/ fs_delete_file(path)
    \/ fs_read(path)
    \/ fs_list_dir(path)

Spec == Init /\ [][Next]_vars

-----------------------------------------------------------------------------
(***************************************************************************)
(* Properties.                                                             *)
(***************************************************************************)

(* Type invariant: the table keeps its shape and file_count never leaves   *)
(* 1 .. MAX_FILES, so file_count++ and file_count-- never leave the array. *)
TypeOK ==
  /\ files \in [Slots -> Entry]
  /\ file_count \in 1 .. MAX_FILES
  /\ reparented \in BOOLEAN

(* Whatever was created and deleted before, and even after a deletion has  *)
(* put entries under the wrong directory: slot 0 is still the root, and no *)
(* entry in use names a parent above itself.  So fs_parse_path and the     *)
(* directory scans only ever follow indices of entries in use.             *)
TableSafe ==
  /\ files[0].type = "DIR" /\ files[0].parent_index = 0 /\ files[0].name = NoName
  /\ \A i \in Live : files[i].type # "NONE" /\ files[i].parent_index <= i

(* The tree a user expects: parents are directories in an earlier slot,    *)
(* and a directory has no two entries of one name.                         *)
ParentsAreDirs ==
  \A i \in Live \ {0} :
    files[i].parent_index < i /\ files[files[i].parent_index].type = "DIR"

SiblingsDiffer ==
  \A i, j \in Live :
    files[i].parent_index = files[j].parent_index /\ files[i].name = files[j].name
      => i = j

(* fs_create_file and fs_delete_file keep that tree until the first        *)
(* deletion that misplaces an entry.                                       *)
TreeUnlessReparented == reparented \/ (ParentsAreDirs /\ SiblingsDiffer)

(* Until then every entry with a name can be reached by some path, so no   *)
(* file is lost while its slot stays taken.                                *)
AddressableUnlessReparented ==
  reparented \/ \A i \in Live \ {0} :
    files[i].name # NoName => \E path \in NamePaths : fs_parse_path(path) = i

(* Creating an entry never changes what an existing path means, and every  *)
(* path that starts to mean something means the new entry.  This holds in  *)
(* a damaged tree too: the scan for duplicates covers every name a lookup  *)
(* could find, and no entry in use names the freed slot as its parent.     *)
LookupsSurviveCreate ==
  [][file_count' = file_count + 1 =>
       \A path \in NamePaths :
         LET before == fs_parse_path(path)
             after  == fs_parse_path(path)'
         IN  after = before \/ (before = -1 /\ after = file_count)]_vars

(* Deleting one entry takes away exactly its own paths: unless the step    *)
(* misplaces an entry, every other path still leads to the same entry, one *)
(* slot lower if it lay above the removed one.                             *)
LookupsSurviveDelete ==
  [][file_count' = file_count - 1 /\ ~reparented' =>
       \E x \in Live \ {0} :
         /\ files' = Shifted(files, file_count, x)
         /\ \A path \in NamePaths :
              LET before == fs_parse_path(path)
                  after  == fs_parse_path(path)'
              IN  IF before \in {-1, x} THEN after = -1
                  ELSE after = Renumber(before, x)]_vars

(* An entry touch has created with the empty name (a path that ends in a   *)
(* slash) takes its slot for good: fs_parse_path skips empty components,   *)
(* so no path leads to it and no fs_delete_file removes it, neither does   *)
(* one by mistake after entries have been renumbered.                      *)
Nameless == {i \in Live \ {0} : files[i].name = NoName}

NamelessStay == [][Cardinality(Nameless') >= Cardinality(Nameless)]_vars

(* Memory that fs_init did not clear is never returned by a read.          *)
NoJunkRead ==
  \A i \in Live : \A k \in 1 .. files[i].size : Content(files[i])[k] \in Bytes

(* The promise of the comment inside the loop of fs_delete_file            *)
(* (fs.c:235): entries that refer to a moved entry follow it.              *)
ParentsFollow == ~reparented
=============================================================================
