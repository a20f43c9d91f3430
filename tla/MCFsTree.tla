------------------------------ MODULE MCFsTree ------------------------------
(***************************************************************************)
(* A small instance of FsTree for TLC, with the view and the symmetry of   *)
(* MCFoxFS.                                                                *)
(***************************************************************************)
EXTENDS MCFoxFS, FsTree

TreeView == <<LiveView, tree>>
=============================================================================
