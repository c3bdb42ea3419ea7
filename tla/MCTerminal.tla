----------------------------- MODULE MCTerminal -----------------------------
(***************************************************************************)
(* An instance of Terminal for TLC.                                        *)
(***************************************************************************)
EXTENDS Terminal

CONSTANT a  \* a character

=============================================================================
