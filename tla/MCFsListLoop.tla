---------------------------- MODULE MCFsListLoop ----------------------------
EXTENDS FsListLoop

(* The longest names, and an empty one: the names fs_create allows.        *)
AnyLengths == [s \in Slots |-> IF s = 2 THEN 0 ELSE MAX_FILENAME - 1]

(* A buffer for one or two entries, and the buffer of the ls command.      *)
SmallAndLs == {MAX_FILENAME + 4, LsBuffer}
=============================================================================
