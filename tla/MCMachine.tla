------------------------------ MODULE MCMachine ------------------------------
(***************************************************************************)
(* Instances of Machine for TLC: one disk is connected, two are not, and   *)
(* disk 4 selects none.                                                    *)
(***************************************************************************)
EXTENDS Machine

==============================================================================
