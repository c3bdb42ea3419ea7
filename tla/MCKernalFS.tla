----------------------------- MODULE MCKernalFS -----------------------------
(***************************************************************************)
(* Instances of KernalFS for TLC.                                          *)
(***************************************************************************)
EXTENDS KernalFS

CONSTANT f  \* a file name

\* A file of another system that shows a live entry and links behind itself.
OneLook == {[sfs |-> FALSE, version |-> 1, free |-> 0, link |-> LastSlot,
             list |-> [p \in Places |-> f]]}

=============================================================================
