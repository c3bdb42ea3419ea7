----------------------------- MODULE MCScheduler ------------------------------
(***************************************************************************)
(* Instances of Scheduler for TLC: a bitmap of two bytes of two bits.      *)
(***************************************************************************)
EXTENDS Scheduler

==============================================================================
