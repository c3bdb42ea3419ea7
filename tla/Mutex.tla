-------------------------------- MODULE Mutex --------------------------------
(***************************************************************************)
(* What the lock byte of the shared memory promises to the processes that  *)
(* map it (emulator/src/shared_memory.c, tools/sysdbg/src/shared_memory.c):*)
(* one process at a time owns the memory, and a process that dies while it *)
(* owns it poisons the lock for everyone, since nothing ever clears it.    *)
(***************************************************************************)
CONSTANT Procs          \* the processes that map the shared memory

VARIABLES inside,       \* the processes that own the memory
          poisoned      \* an owner died: the lock byte stays set

vars == <<inside, poisoned>>

TypeOK ==
  /\ inside \subseteq Procs
  /\ poisoned \in BOOLEAN

Init ==
  /\ inside = {}
  /\ poisoned = FALSE

Acquire(p) ==
  /\ inside = {}
  /\ ~poisoned
  /\ inside' = {p}
  /\ UNCHANGED poisoned

Release(p) ==
  /\ p \in inside
  /\ inside' = inside \ {p}
  /\ UNCHANGED poisoned

Die(p) ==
  /\ p \in inside
  /\ inside' = inside \ {p}
  /\ poisoned' = TRUE

Next == \E p \in Procs : Acquire(p) \/ Release(p) \/ Die(p)

Spec == Init /\ [][Next]_vars

==============================================================================
