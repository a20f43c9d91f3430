------------------------------- MODULE FsTree -------------------------------
(***************************************************************************)
(* What the callers of the file system have built by their calls: a tree   *)
(* that gives every path a file with its text, a directory, or nothing.    *)
(* The tree knows only the arguments of the calls that succeed; it has no  *)
(* slots, indices, sizes or parents, and no call looks at it.  FoxFS is    *)
(* right if what it finds at every path is what the tree has there.        *)
(***************************************************************************)
EXTENDS FoxFS

VARIABLE tree   \* history: what the calls have put at each path

treeVars == <<vars, tree>>

Nothing   == [type |-> "NONE", text |-> << >>]
Directory == [type |-> "DIR", text |-> << >>]
File(text) == [type |-> "FILE", text |-> text]

(* A path without its empty components.                                    *)
Named(path) ==
  LET part[k \in 0 .. Len(path)] ==
        IF k = 0 THEN << >>
        ELSE IF path[k] = NoName THEN part[k - 1]
        ELSE Append(part[k - 1], path[k])
  IN  part[Len(path)]

(* A file holds the beginning of the last buffer written to it.            *)
Beginning(buffer) ==
  SubSeq(buffer, 1, IF Len(buffer) < MAX_FILE_SIZE THEN Len(buffer) ELSE MAX_FILE_SIZE)

Bare == [p \in NamePaths |-> Nothing]

(* A deletion that misplaces an entry ends the comparison.                 *)
Put(path, node) ==
  tree' = IF reparented' THEN Bare ELSE [tree EXCEPT ![Named(path)] = node]

(* An entry that touch creates without a name is not on any path.          *)
TreeNext ==
  \E path \in Paths :
    \/ fs_mkdir(path) /\ Put(path, Directory)
    \/ fs_create(path) /\ Put(path, File(<< >>))
    \/ touch(path) /\ last_name(path) # NoName /\ Put(path, File(<< >>))
    \/ touch(path) /\ last_name(path) = NoName /\ UNCHANGED tree
    \/ \E buffer \in Buffers : fs_write(path, buffer) /\ Put(path, File(Beginning(buffer)))
    \/ fs_delete_file(path) /\ Put(path, Nothing)
    \/ fs_read(path) /\ UNCHANGED tree
    \/ fs_list_dir(path) /\ UNCHANGED tree

TreeSpec == Init /\ tree = Bare /\ [][TreeNext]_treeVars

-----------------------------------------------------------------------------
(* What fs_get_file and fs_read make of a path.                            *)
Seen(path) ==
  LET i == fs_parse_path(path)
  IN  IF i = -1 THEN Nothing ELSE [type |-> files[i].type, text |-> Content(files[i])]

(* Every path leads to what the calls have put there, and to nothing else: *)
(* a new file is empty although its slot may hold the bytes of a deleted   *)
(* one, a write changes the file it names, and no other, to the bytes it   *)
(* was given, cut off at MAX_FILE_SIZE, and a deletion takes away one path *)
(* and moves every other entry together with its content.  This holds      *)
(* until a deletion misplaces an entry.                                    *)
TableIsTree == ~reparented => \A path \in NamePaths : Seen(path) = tree[path]
=============================================================================
