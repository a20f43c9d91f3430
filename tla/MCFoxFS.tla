------------------------------ MODULE MCFoxFS ------------------------------
(***************************************************************************)
(* Small instances of FoxFS for TLC.  Names and byte values are            *)
(* interchangeable.  Of a slot out of use only the data bytes matter:      *)
(* fs_create_file assigns all its other fields before anything reads them. *)
(***************************************************************************)
EXTENDS TLC, FoxFS

NameSymmetry == Permutations(Names)

DataSymmetry == NameSymmetry \cup Permutations(Bytes)

LiveView ==
  <<file_count, reparented,
    [s \in Slots |-> IF s \in Live THEN files[s] ELSE files[s].data]>>
=============================================================================
