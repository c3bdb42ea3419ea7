--------------------------- MODULE MCFilingSystem ---------------------------
(***************************************************************************)
(* Instances of FilingSystem for TLC.                                      *)
(***************************************************************************)
EXTENDS FilingSystem

==============================================================================
