----------------------------- MODULE MCMemoryMap ------------------------------
(***************************************************************************)
(* A small layout with the proportions of the real one: the lock byte lies *)
(* in the last cells of bank 8 of building B, and bank 9 outside the       *)
(* mapping.                                                                *)
(***************************************************************************)
EXTENDS MemoryMap

\* Both nibbles over no bank, the first two, the last one of building B that
\* is mapped, the first one behind it and the last one.
MCNibbles == {0, 1, 2, 8, 9, 15}
MCSelects == {low + 16 * high : low \in MCNibbles, high \in MCNibbles}

==============================================================================
