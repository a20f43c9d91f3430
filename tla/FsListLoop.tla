----------------------------- MODULE FsListLoop -----------------------------
(***************************************************************************)
(* The loop of fs_list_dir (fs.c), one round per action, on the same table *)
(* as the loops of fs_delete_file and run before or after them: what ls    *)
(* shows of a directory, and what it shows once rm has renumbered the      *)
(* table.  Names are cut down to their lengths.                            *)
(***************************************************************************)
EXTENDS FsDeleteLoop

CONSTANTS
  MAX_FILENAME,  \* size of the name field, its terminator included
  NameLength,    \* the length of each entry's name
  Dirs,          \* the entries with type FILE_TYPE_DIR
  BufferSizes    \* the values of the argument buffer_size

(* Mutant: no room for the slash and the end of the line.                  *)
LsBufferShort == MAX_FILES * MAX_FILENAME

(* The buffer of the ls command (terminal.c).                              *)
LsBuffer == MAX_FILES * (MAX_FILENAME + 2)

(* fs_list_dir does not ask whether buffer_size is 0, and would write its  *)
(* terminator all the same; the one caller, ls, passes LsBuffer.           *)
ASSUME ListAssumption ==
  /\ MAX_FILENAME \in Nat \ {0}
  /\ NameLength \in [Slots -> 0 .. MAX_FILENAME - 1]
  /\ Dirs \subseteq Slots
  /\ BufferSizes \subseteq Nat \ {0}

VARIABLES
  at,           \* "idle", "scan" (in the loop) or "end" (returned)
  dir_index,    \* the directory to list
  buffer_size,  \* the size of the caller's buffer
  n,            \* the loop counter, i in the code
  current_pos,  \* where the next byte goes, from the start of the buffer
  count,        \* the entries written
  listed        \* history: the slots of these entries

listVars == <<at, dir_index, buffer_size, n, current_pos, count, listed>>

ListInit ==
  /\ at = "idle"
  /\ dir_index = 0 /\ buffer_size = 1
  /\ n = 0 /\ current_pos = 0 /\ count = 0
  /\ listed = {}

(* Mutant: the slot that fell out of use still counts.                     *)
InUseBefore == file_count

(* fs_delete_file decrements file_count when its loops are over.           *)
InUse == IF pc = "done" THEN file_count - 1 ELSE file_count

(* The two operations exclude each other: no listing half way through the  *)
(* loops of a deletion.                                                    *)
TableAtRest == pc = "done" \/ (pc = "outer" /\ i = index)

(* The head of fs_list_dir, for a path that resolves to a directory.       *)
StartListing ==
  /\ at = "idle"
  /\ TableAtRest
  /\ dir_index' \in {s \in 0 .. InUse - 1 : files[s].from \in Dirs}
  /\ buffer_size' \in BufferSizes
  /\ at' = "scan"
  /\ UNCHANGED <<n, current_pos, count, listed>>

IsChild(s) == s # 0 /\ files[s].parent_index = dir_index

(* The name, a slash after a directory, and the end of the line.           *)
Written(entry) == NameLength[entry] + (IF entry \in Dirs THEN 1 ELSE 0) + 1

Remaining == buffer_size - current_pos

SkipEntry ==
  /\ at = "scan" /\ n < InUse
  /\ ~ IsChild(n)
  /\ n' = n + 1
  /\ UNCHANGED <<at, dir_index, buffer_size, current_pos, count, listed>>

(* Mutant: room is asked for the name alone.                               *)
WriteEntryTight ==
  /\ at = "scan" /\ n < InUse
  /\ IsChild(n)
  /\ Remaining >= MAX_FILENAME
  /\ n' = n + 1
  /\ current_pos' = current_pos + Written(files[n].from)
  /\ count' = count + 1
  /\ listed' = listed \cup {n}
  /\ UNCHANGED <<at, dir_index, buffer_size>>

WriteEntry ==
  /\ at = "scan" /\ n < InUse
  /\ IsChild(n)
  /\ Remaining >= MAX_FILENAME + 3
  /\ n' = n + 1
  /\ current_pos' = current_pos + Written(files[n].from)
  /\ count' = count + 1
  /\ listed' = listed \cup {n}
  /\ UNCHANGED <<at, dir_index, buffer_size>>

(* The loop is left at its end, or early when the buffer may not hold      *)
(* another entry; the terminator goes to current_pos.                      *)
EndListing ==
  /\ at = "scan"
  /\ n < InUse => IsChild(n) /\ Remaining < MAX_FILENAME + 3
  /\ at' = "end"
  /\ UNCHANGED <<dir_index, buffer_size, n, current_pos, count, listed>>

ListNext == StartListing \/ SkipEntry \/ WriteEntry \/ EndListing

(* A deletion that follows a listing; nothing of the listing is kept.      *)
ForgetListing ==
  /\ at' = "idle"
  /\ dir_index' = 0 /\ buffer_size' = 1
  /\ n' = 0 /\ current_pos' = 0 /\ count' = 0
  /\ listed' = {}

DeleteOrList ==
  \/ at # "scan" /\ Next /\ ForgetListing
  \/ ListNext /\ UNCHANGED vars

tableVars == <<vars, listVars>>

TableInit == Init /\ ListInit

ListSpec == TableInit /\ [][DeleteOrList]_tableVars

-----------------------------------------------------------------------------
(* While ls has not returned, the table is the one it started on.          *)
Children(limit) == {s \in 1 .. limit - 1 : files[s].parent_index = dir_index}

(* What the loop of fs_list_dir has done so far: it has written the        *)
(* children below n, each in at most MAX_FILENAME + 1 bytes, and there     *)
(* are fewer of them than slots passed, since the root is skipped.         *)
ListInv ==
  /\ at = "idle" => n = 0 /\ count = 0 /\ listed = {}
  /\ at = "scan" => TableAtRest /\ n <= InUse /\ listed = Children(n)
  /\ count <= n /\ (n > 0 => count < n)
  /\ current_pos <= count * (MAX_FILENAME + 1)

(* Every byte fs_list_dir writes lies in the caller's buffer, whatever its *)
(* size above 0: the name with its terminator, the slash, the end of the   *)
(* line, and the final terminator at current_pos.                          *)
ListingInBuffer ==
  /\ current_pos < buffer_size
  /\ at = "scan" /\ n < InUse /\ IsChild(n) /\ Remaining >= MAX_FILENAME + 3
       => current_pos + Written(files[n].from) < buffer_size

(* The ls command shows its whole directory: with a buffer of              *)
(* MAX_FILES * (MAX_FILENAME + 2) bytes fs_list_dir never takes its early  *)
(* exit, even in a full table.                                             *)
LsIsComplete ==
  at = "end" /\ buffer_size = LsBuffer => listed = Children(InUse)

(* rm followed by ls: where the renumbering is right (NearParentsFollow)   *)
(* and the entry removed was nobody's parent, ls shows of every directory  *)
(* exactly the entries it held before the removal, less the removed one.   *)
LsAfterRm ==
  LET old  == 0 .. file_count - 1
      kept == (old \ {index}) \ {0}
      near == \A s \in old : /\ before[s].parent_index # index
                             /\ before[s].parent_index <= index + 2
  IN  at = "end" /\ pc = "done" /\ buffer_size = LsBuffer /\ near =>
        {files[s].from : s \in listed} =
          {s \in kept : before[s].parent_index = files[dir_index].from}
=============================================================================
