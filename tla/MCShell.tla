------------------------------- MODULE MCShell -------------------------------
(***************************************************************************)
(* A small instance of Shell for TLC.                                      *)
(***************************************************************************)
EXTENDS TLC, Shell

NameSymmetry == Permutations(Names)

(* What the free slots hold is never looked at.                            *)
ShellView == <<SubSeq([k \in 1 .. MAX_FILES |-> files[k - 1]], 1, file_count),
               reparented, current_dir>>
=============================================================================
