-------------------------------- MODULE Store --------------------------------
(***************************************************************************)
(* A random-access store: what a memory with several windows and banks     *)
(* promises.  Every cell keeps its own value until it is written itself.   *)
(***************************************************************************)
CONSTANTS Cells, Values

VARIABLE store

TypeOK == store \in [Cells -> Values]

Init == TypeOK

\* One cell takes a value; all the others keep theirs.
Write(c) ==
  /\ store'[c] \in Values
  /\ store' = [store EXCEPT ![c] = store'[c]]

Next == \E c \in Cells : Write(c)

Spec == Init /\ [][Next]_store

==============================================================================
