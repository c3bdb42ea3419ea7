----------------------------- MODULE SharedMemory -----------------------------
(***************************************************************************)
(* The shared memory of the emulator process and of the debuggers (sysdbg) *)
(* that attach to it: the lock byte at its end, the emulator_flags byte,   *)
(* the IPS word, and the life of the processes around them.                *)
(*                                                                         *)
(* The emulator has two threads: "main" (SDL events, shutdown) and the     *)
(* emulation thread, which takes the lock for every byte the CPU reads or  *)
(* writes.  The flags byte is read-modified-written by both, without the   *)
(* lock and without atomics, so a modification is a load and a store.      *)
(*                                                                         *)
(* A tick of the CPU is the sequence of its operations on the shared       *)
(* memory (todo):                                                          *)
(*   "mem"       a byte read or written under the lock                     *)
(*   "rom"       a byte written to the KERNAL ROM range                    *)
(*   "lockbyte"  a zero written through bank B onto the lock byte itself   *)
(*   "setR" "setW" "setS" "clearW" "clearS"  a bit of emulator_flags       *)
(*   "check"     the test of W and S before an instruction is fetched      *)
(***************************************************************************)
EXTENDS Naturals, Sequences

CONSTANTS Debuggers,     \* the sysdbg processes
          Emulator,      \* the emulator process
          Instructions,  \* the instructions of the program, as operations
          MayCrash,      \* the processes that may be killed
          MaxBoots       \* bound: how often the emulator is started

Procs == Debuggers \cup {Emulator}

Accesses == {"mem", "rom", "lockbyte"}
FlagOps  == {"setR", "setW", "setS", "clearW", "clearS"}
Ops      == Accesses \cup FlagOps \cup {"check"}

ASSUME ProcsAssumption == Emulator \notin Debuggers
ASSUME InstructionsAssumption ==
  Instructions \subseteq Seq(Accesses \cup {"setW", "setS"}) \ {<<>>}
ASSUME MayCrashAssumption == MayCrash \subseteq Procs
ASSUME MaxBootsAssumption == MaxBoots \in Nat

VARIABLES
  lock,      \* the atomic_flag in the last byte of the shared memory
  owned,     \* lock_owned of each process
  flags,     \* emulator_flags, as the set of the bits that are 1: W, S, R
  paused,    \* IPS = 0
  running,   \* running of the emulator
  pcMain, regMain,       \* main thread: place, flags it has loaded
  pcEmu, regEmu, todo,   \* emulation thread: place, flags loaded, rest of tick
  boots,     \* how often the emulator was started
  pcDbg, dbgRunning      \* debuggers: place, their own running

emuVars  == <<pcEmu, regEmu, todo>>
mainVars == <<pcMain, regMain, running, boots>>
dbgVars  == <<pcDbg, dbgRunning>>
vars == <<lock, owned, flags, paused, emuVars, mainVars, dbgVars>>

Bits == {"W", "S", "R"}

TypeOK ==
  /\ lock \in BOOLEAN
  /\ owned \in [Procs -> BOOLEAN]
  /\ flags \subseteq Bits
  /\ paused \in BOOLEAN
  /\ running \in BOOLEAN
  /\ pcMain \in {"off", "loop", "load", "store", "join", "exited", "crashed"}
  /\ regMain \subseteq Bits
  /\ pcEmu \in {"off", "loop", "op", "crit", "store", "done"}
  /\ regEmu \subseteq Bits
  /\ todo \in Seq(Ops)
  /\ pcEmu \in {"op", "crit", "store"} => todo # <<>>
  /\ pcEmu = "store" => Head(todo) \in FlagOps
  /\ boots \in 0..MaxBoots
  /\ pcDbg \in [Debuggers -> {"off", "top", "spin", "draw", "key", "gone"}]
  /\ dbgRunning \in [Debuggers -> BOOLEAN]

\* A fresh object is all zeroes: the lock is free.
Init ==
  /\ lock = FALSE
  /\ owned = [p \in Procs |-> FALSE]
  /\ flags = {}
  /\ paused = TRUE
  /\ running = TRUE
  /\ pcMain = "off" /\ regMain = {}
  /\ pcEmu = "off" /\ regEmu = {} /\ todo = <<>>
  /\ boots = 0
  /\ pcDbg = [d \in Debuggers |-> "off"]
  /\ dbgRunning = [d \in Debuggers |-> TRUE]

------------------------------------------------------------------------------
\* The lock.  lock_owned is private to the process, so it changes with the byte.

AcquireLock(p) ==
  /\ ~lock
  /\ lock' = TRUE
  /\ owned' = [owned EXCEPT ![p] = TRUE]

ReleaseLock(p) ==
  /\ lock' = FALSE
  /\ owned' = [owned EXCEPT ![p] = FALSE]

\* A process that is gone takes its lock_owned with it and leaves the byte.
Vanish(p) ==
  /\ owned' = [owned EXCEPT ![p] = FALSE]
  /\ UNCHANGED lock

------------------------------------------------------------------------------
\* The emulation thread.

PushInterrupt == <<"mem", "mem", "clearW">>   \* PC high, PC low, unset W
VectorAndPush == <<"mem", "mem", "mem">>      \* vector low, high, PHP

\* What call_interrupt does on the shared memory: NMI and IRQ, or reset.
Interrupts == {PushInterrupt \o VectorAndPush,
               PushInterrupt \o <<"clearS">> \o VectorAndPush}

\* tick_65C02 first tests the pins (any value here), then W and S.
Ticks == {<<"check">>} \cup {i \o <<"check">> : i \in Interrupts}

\* MUTANT of NextOp: the end of a tick goes unnoticed.
NextOpRunningOn ==
  /\ todo' = Tail(todo)
  /\ pcEmu' = "op"

NextOp ==
  /\ todo' = Tail(todo)
  /\ pcEmu' = IF Tail(todo) = <<>> THEN "loop" ELSE "op"

\* MUTANT of EmuLoop: a paused thread spins until IPS is set again.
EmuLoopWaitingForIps ==
  /\ pcEmu = "loop" /\ ~paused
  /\ \/ ~running /\ pcEmu' = "done" /\ UNCHANGED todo
     \/ running /\ pcEmu' = "op" /\ todo' \in Ticks
  /\ UNCHANGED <<lock, owned, flags, paused, regEmu, mainVars, dbgVars>>

\* The loop test, IPS test and entry into tick_65C02.
EmuLoop ==
  /\ pcEmu = "loop"
  /\ \/ ~running /\ pcEmu' = "done" /\ UNCHANGED todo
     \/ running /\ ~paused /\ pcEmu' = "op" /\ todo' \in Ticks
  /\ UNCHANGED <<lock, owned, flags, paused, regEmu, mainVars, dbgVars>>

\* A waiting or stopped CPU returns; otherwise the next instruction runs.
EmuCheck ==
  /\ pcEmu = "op" /\ Head(todo) = "check"
  /\ IF flags \cap {"W", "S"} # {}
       THEN pcEmu' = "loop" /\ todo' = <<>>
       ELSE pcEmu' = "op" /\ todo' \in Instructions
  /\ UNCHANGED <<lock, owned, flags, paused, regEmu, mainVars, dbgVars>>

EmuAcquire ==
  /\ pcEmu = "op" /\ Head(todo) \in Accesses
  /\ AcquireLock(Emulator)
  /\ pcEmu' = "crit"
  /\ UNCHANGED <<flags, paused, regEmu, todo, mainVars, dbgVars>>

\* The body of mem_byte_read and mem_byte_write, and the release on its way
\* out; when the byte written is the lock byte, the release is still to come.
EmuAccess ==
  /\ pcEmu = "crit" /\ Head(todo) # "rom"
  /\ IF Head(todo) = "lockbyte"
       THEN /\ lock' = FALSE
            /\ todo' = <<"mem">> \o Tail(todo)
            /\ UNCHANGED <<owned, pcEmu>>
       ELSE ReleaseLock(Emulator) /\ NextOp
  /\ UNCHANGED <<flags, paused, regEmu, mainVars, dbgVars>>

\* A write to the ROM range returns early, without the release.
EmuRomWrite ==
  /\ pcEmu = "crit" /\ Head(todo) = "rom"
  /\ NextOp
  /\ UNCHANGED <<lock, owned, flags, paused, regEmu, mainVars, dbgVars>>

EmuFlagLoad ==
  /\ pcEmu = "op" /\ Head(todo) \in FlagOps
  /\ regEmu' = flags
  /\ pcEmu' = "store"
  /\ UNCHANGED <<lock, owned, flags, paused, todo, mainVars, dbgVars>>

FlagAfter(op, f) ==
  CASE op = "setR"   -> f \cup {"R"}
    [] op = "setW"   -> f \cup {"W"}
    [] op = "setS"   -> f \cup {"S"}
    [] op = "clearW" -> f \ {"W"}
    [] op = "clearS" -> f \ {"S"}

EmuFlagStore ==
  /\ pcEmu = "store"
  /\ flags' = FlagAfter(Head(todo), regEmu)
  /\ NextOp
  /\ UNCHANGED <<lock, owned, paused, regEmu, mainVars, dbgVars>>

EmuThread ==
  \/ EmuLoop \/ EmuCheck \/ EmuAcquire \/ EmuAccess \/ EmuRomWrite
  \/ EmuFlagLoad \/ EmuFlagStore

------------------------------------------------------------------------------
\* The main thread of the emulator.

\* MUTANT of Boot: the host also clears the lock byte.
BootClearingLock ==
  /\ pcMain \in {"off", "crashed"}
  /\ boots < MaxBoots
  /\ boots' = boots + 1
  /\ running' = TRUE /\ paused' = FALSE /\ flags' = {} /\ lock' = FALSE
  /\ pcMain' = "loop"
  /\ pcEmu' = "op" /\ todo' = <<"setR">>
  /\ UNCHANGED <<owned, regMain, regEmu, dbgVars>>

\* main up to its loop: map the object (a new one, or the one a killed emulator
\* left behind, lock byte included), set IPS, clear the flags, start the thread.
Boot ==
  /\ pcMain \in {"off", "crashed"}
  /\ boots < MaxBoots
  /\ boots' = boots + 1
  /\ running' = TRUE /\ paused' = FALSE /\ flags' = {}
  /\ pcMain' = "loop"
  /\ pcEmu' = "op" /\ todo' = <<"setR">>
  /\ UNCHANGED <<lock, owned, regMain, regEmu, dbgVars>>

\* SDL_QUIT in update: running = 0, then emulator_flags &= ~R.
MainQuit ==
  /\ pcMain = "loop"
  /\ running' = FALSE
  /\ pcMain' = "load"
  /\ UNCHANGED <<lock, owned, flags, paused, regMain, boots, emuVars, dbgVars>>

MainFlagLoad ==
  /\ pcMain = "load"
  /\ regMain' = flags
  /\ pcMain' = "store"
  /\ UNCHANGED <<lock, owned, flags, paused, running, boots, emuVars, dbgVars>>

MainFlagStore ==
  /\ pcMain = "store"
  /\ flags' = regMain \ {"R"}
  /\ pcMain' = "join"
  /\ UNCHANGED <<lock, owned, paused, regMain, running, boots, emuVars, dbgVars>>

\* MUTANTS of MainExit: the release is unconditional, or forgotten.
MainExitReleasing ==
  /\ pcMain = "join" /\ pcEmu = "done"
  /\ ReleaseLock(Emulator)
  /\ pcMain' = "exited"
  /\ UNCHANGED <<flags, paused, regMain, running, boots, emuVars, dbgVars>>

MainExitKeeping ==
  /\ pcMain = "join" /\ pcEmu = "done"
  /\ pcMain' = "exited"
  /\ UNCHANGED <<lock, owned, flags, paused, regMain, running, boots, emuVars,
                 dbgVars>>

\* pthread_join, the release of a lock the thread left behind, and the unlink.
MainExit ==
  /\ pcMain = "join" /\ pcEmu = "done"
  /\ IF owned[Emulator] THEN ReleaseLock(Emulator) ELSE UNCHANGED <<lock, owned>>
  /\ pcMain' = "exited"
  /\ UNCHANGED <<flags, paused, regMain, running, boots, emuVars, dbgVars>>

\* The process is killed: both threads stop, the object stays.
EmuCrash ==
  /\ Emulator \in MayCrash
  /\ pcMain \in {"loop", "load", "store", "join"}
  /\ Vanish(Emulator)
  /\ pcMain' = "crashed"
  /\ pcEmu' = "off" /\ todo' = <<>>
  /\ UNCHANGED <<flags, paused, regMain, running, boots, regEmu, dbgVars>>

MainThread ==
  \/ Boot \/ MainQuit \/ MainFlagLoad \/ MainFlagStore \/ MainExit \/ EmuCrash

------------------------------------------------------------------------------
\* A debugger.

GoTo(d, place) == pcDbg' = [pcDbg EXCEPT ![d] = place]

\* init_shared_memory_client: the name exists from the first start of the
\* emulator until a clean exit unlinks it.
DbgOpen(d) ==
  /\ pcDbg[d] = "off" /\ boots > 0
  /\ GoTo(d, IF pcMain = "exited" THEN "gone" ELSE "top")
  /\ UNCHANGED <<lock, owned, flags, paused, emuVars, mainVars, dbgRunning>>

\* MUTANT of DbgTop: the loop does not look at R.
DbgTopIgnoringR(d) ==
  /\ pcDbg[d] = "top"
  /\ GoTo(d, IF dbgRunning[d] THEN "spin" ELSE "gone")
  /\ UNCHANGED <<lock, owned, flags, paused, emuVars, mainVars, dbgRunning>>

\* The loop condition; behind the loop a lock still owned would be released.
DbgTop(d) ==
  /\ pcDbg[d] = "top"
  /\ IF dbgRunning[d] /\ "R" \in flags
       THEN GoTo(d, "spin") /\ UNCHANGED <<lock, owned>>
       ELSE /\ GoTo(d, "gone")
            /\ IF owned[d] THEN ReleaseLock(d) ELSE UNCHANGED <<lock, owned>>
  /\ UNCHANGED <<flags, paused, emuVars, mainVars, dbgRunning>>

DbgAcquire(d) ==
  /\ pcDbg[d] = "spin"
  /\ AcquireLock(d)
  /\ GoTo(d, "draw")
  /\ UNCHANGED <<flags, paused, emuVars, mainVars, dbgRunning>>

\* Draw the frame, where a label with a breakpoint sets IPS to 0, and release.
DbgDraw(d) ==
  /\ pcDbg[d] = "draw"
  /\ ReleaseLock(d)
  /\ paused' \in {paused, TRUE}
  /\ GoTo(d, "key")
  /\ UNCHANGED <<flags, emuVars, mainVars, dbgRunning>>

\* getch, interpret_key (which may write IPS without the lock), usleep.
DbgKey(d) ==
  /\ pcDbg[d] = "key"
  /\ paused' \in BOOLEAN
  /\ GoTo(d, "top")
  /\ UNCHANGED <<lock, owned, flags, emuVars, mainVars, dbgRunning>>

\* SIGINT: terminate clears running.
DbgInterrupt(d) ==
  /\ pcDbg[d] \notin {"off", "gone"} /\ dbgRunning[d]
  /\ dbgRunning' = [dbgRunning EXCEPT ![d] = FALSE]
  /\ UNCHANGED <<lock, owned, flags, paused, emuVars, mainVars, pcDbg>>

DbgCrash(d) ==
  /\ d \in MayCrash /\ pcDbg[d] \notin {"off", "gone"}
  /\ Vanish(d)
  /\ GoTo(d, "gone")
  /\ UNCHANGED <<flags, paused, emuVars, mainVars, dbgRunning>>

DbgLoop(d) == DbgTop(d) \/ DbgDraw(d) \/ DbgKey(d)

Debugger(d) ==
  \/ DbgOpen(d) \/ DbgLoop(d) \/ DbgAcquire(d) \/ DbgInterrupt(d) \/ DbgCrash(d)

------------------------------------------------------------------------------
Next == EmuThread \/ MainThread \/ \E d \in Debuggers : Debugger(d)

Spec == Init /\ [][Next]_vars

\* Both threads and every debugger keep running (the scheduler is weakly fair).
\* EmuAcquire is strongly fair: a debugger that has held the lock sleeps 16 ms
\* before it asks again (main.c:150), and the thread polls without a pause.
\* Nothing of the kind holds for a debugger while the emulator runs.
Fairness ==
  /\ WF_vars(EmuThread)
  /\ SF_vars(EmuAcquire)
  /\ WF_vars(MainFlagLoad \/ MainFlagStore \/ MainExit)
  /\ \A d \in Debuggers : WF_vars(DbgLoop(d)) /\ WF_vars(DbgAcquire(d))

FairSpec == Spec /\ Fairness

------------------------------------------------------------------------------
\* Who is between the acquire and the release of the lock.
InCritical ==
  {p \in Procs : IF p = Emulator THEN pcEmu = "crit" ELSE pcDbg[p] = "draw"}

\* Two processes never use the memory under the lock at the same time, whatever
\* exits, early returns and killed processes did to the lock before
\* (shared_memory_acquire_lock, the release of main behind pthread_join).
MutualExclusion == \A p, q \in InCritical : p = q

\* Once the emulator has exited, a lock byte that is set is some debugger's (or
\* was that of a killed process), never the one a ROM write left behind.
ExitReleases == pcMain = "exited" => ~owned[Emulator]

\* The lock byte is set and no process is going to clear it.
Leaked == lock /\ InCritical = {}

\* Closing the window ends the emulator: pthread_join returns, unless a killed
\* process or a ROM write has left the lock byte set.
QuitCompletes == ~running ~> (pcMain \in {"exited", "crashed"} \/ Leaked)

\* When the emulator is gone and its running bit is clear, every attached
\* debugger leaves its loop, however many of them wait for the lock.
DebuggersDrain ==
  (pcMain = "exited" /\ "R" \notin flags) ~>
    (Leaked \/ \A d \in Debuggers : pcDbg[d] \in {"off", "gone"})

\* emulator_flags.R says whether the emulator runs (shared_memory.h:33): a bit
\* that was set when main loaded the byte to clear it (video.c:99) is clear when
\* the emulator has exited. The thread has set R once and for all by then, so
\* only the store of another bit, from a byte loaded before, can bring R back.
StoppedIsVisible ==
  (pcMain = "exited" /\ "R" \in regMain) => "R" \notin flags

\* The lock byte is a mutex that a killed owner poisons for good.
Lock == INSTANCE Mutex WITH
          inside   <- {p \in Procs : owned[p]},
          poisoned <- lock /\ \A p \in Procs : ~owned[p]

LockIsMutex == Lock!Spec

==============================================================================
