------------------------------ MODULE MCKeyboard ------------------------------
(***************************************************************************)
(* Small instances of Keyboard for TLC.  Letters are interchangeable, and  *)
(* so are the two shift keys.                                              *)
(***************************************************************************)
EXTENDS TLC, Keyboard

KeySymmetry == Permutations(Letters) \cup Permutations(Shifts)
=============================================================================
