------------------------------ MODULE MCTerminal ------------------------------
(***************************************************************************)
(* Small instances of Terminal for TLC.                                    *)
(***************************************************************************)
EXTENDS Terminal

Prompt == <<"$", " ">>

TwoChars == {"p", "q"}

OneChar == {"p"}
===============================================================================
