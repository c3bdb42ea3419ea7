-------------------------- MODULE SharedMemoryProofs --------------------------
(***************************************************************************)
(* Proofs about SharedMemory: for any set of debuggers, any program whose  *)
(* writes stay away from the lock byte, any set of processes that may be   *)
(* killed and any number of starts.                                        *)
(***************************************************************************)
EXTENDS SharedMemory, TLAPS

\* The only writes that can reach the lock byte go through bank B (MemoryMap
\* says which); a program without them consists of these operations.
SafeOps == Ops \ {"lockbyte"}

SparesLockByte ==
  Instructions \subseteq Seq({"mem", "rom", "setW", "setS"}) \ {<<>>}

------------------------------------------------------------------------------
(* The inductive invariant.  lock_owned is what ties the lock byte to a    *)
(* place in the code: it outlives the critical section when a ROM write    *)
(* returns early, and MainExit relies on it.                               *)

OwnerUnique == \A p, q \in Procs : owned[p] /\ owned[q] => p = q

OwnedIsLocked == \A p \in Procs : owned[p] => lock

CriticalOwns ==
  /\ pcEmu = "crit" => owned[Emulator]
  /\ \A d \in Debuggers : pcDbg[d] = "draw" => owned[d]

ExitedIsDone == pcMain = "exited" => pcEmu = "done" /\ ~owned[Emulator]

IInv ==
  /\ TypeOK
  /\ todo \in Seq(SafeOps)
  /\ OwnerUnique
  /\ OwnedIsLocked
  /\ CriticalOwns
  /\ ExitedIsDone

------------------------------------------------------------------------------
\* What is left of a tick after its first operation is still a safe sequence.
LEMMA RestOfTick ==
  ASSUME NEW S, NEW s \in Seq(S), s # <<>>
  PROVE  Head(s) \in S /\ Tail(s) \in Seq(S)
  OBVIOUS

\* A sequence over a set is one over a larger set.
LEMMA LargerSeq ==
  ASSUME NEW S, NEW T, S \subseteq T, NEW s \in Seq(S)
  PROVE  s \in Seq(T)
  OBVIOUS

\* Where NextOp leaves the emulation thread and its tick.
LEMMA NextOpTyped ==
  ASSUME todo \in Seq(SafeOps), todo # <<>>, NextOp
  PROVE  /\ todo' \in Seq(SafeOps) /\ todo' \in Seq(Ops)
         /\ pcEmu' \in {"op", "loop"}
         /\ pcEmu' = "op" => todo' # <<>>
<1>1. todo' \in Seq(SafeOps)
  BY RestOfTick DEF NextOp
<1>2. todo' \in Seq(Ops)
  BY <1>1, LargerSeq DEF SafeOps
<1>3. QED
  BY <1>1, <1>2 DEF NextOp

\* The sequences a tick starts with are safe and not empty.
LEMMA TickStart == Ticks \subseteq Seq(SafeOps) \ {<<>>}
<1>1. SafeOps = {"mem", "rom", "setR", "setW", "setS", "clearW", "clearS",
                 "check"}
  BY DEF SafeOps, Ops, Accesses, FlagOps
<1>2. /\ PushInterrupt \in Seq(SafeOps)
      /\ VectorAndPush \in Seq(SafeOps)
      /\ <<"clearS">> \in Seq(SafeOps)
      /\ <<"check">> \in Seq(SafeOps) \ {<<>>}
  BY <1>1 DEF PushInterrupt, VectorAndPush
<1>3. Interrupts \subseteq Seq(SafeOps)
  BY <1>2 DEF Interrupts
<1>4. \A i \in Seq(SafeOps) : i \o <<"check">> \in Seq(SafeOps) \ {<<>>}
  BY <1>2
<1>5. QED
  BY <1>2, <1>3, <1>4 DEF Ticks

\* Every step of the lock that the program takes leaves it with one owner.
LEMMA AcquireKeepsOwner ==
  ASSUME NEW p \in Procs, owned \in [Procs -> BOOLEAN],
         OwnedIsLocked, AcquireLock(p)
  PROVE  /\ lock' \in BOOLEAN /\ owned' \in [Procs -> BOOLEAN]
         /\ OwnerUnique' /\ OwnedIsLocked'
         /\ \A q \in Procs : owned'[q] <=> q = p
  BY DEF AcquireLock, OwnerUnique, OwnedIsLocked

\* shared_memory_release_lock by the owner leaves no owner.
LEMMA ReleaseKeepsOwner ==
  ASSUME NEW p \in Procs, owned \in [Procs -> BOOLEAN],
         OwnerUnique, owned[p], ReleaseLock(p)
  PROVE  /\ lock' \in BOOLEAN /\ owned' \in [Procs -> BOOLEAN]
         /\ OwnerUnique' /\ OwnedIsLocked'
         /\ \A q \in Procs : ~owned'[q]
  BY DEF ReleaseLock, OwnerUnique, OwnedIsLocked

\* A killed process takes its ownership along and keeps the rest as it is.
LEMMA VanishKeepsOwner ==
  ASSUME NEW p \in Procs, lock \in BOOLEAN, owned \in [Procs -> BOOLEAN],
         OwnerUnique, OwnedIsLocked, Vanish(p)
  PROVE  /\ lock' \in BOOLEAN /\ owned' \in [Procs -> BOOLEAN]
         /\ OwnerUnique' /\ OwnedIsLocked'
         /\ ~owned'[p]
         /\ \A q \in Procs : q # p => owned'[q] = owned[q]
  BY DEF Vanish, OwnerUnique, OwnedIsLocked

\* The initial states satisfy the invariant.
LEMMA IInvInit == Init => IInv
<1> SUFFICES ASSUME Init PROVE IInv
  OBVIOUS
<1>1. 0 \in 0..MaxBoots
  BY MaxBootsAssumption
<1>2. <<>> \in Seq(Ops) /\ <<>> \in Seq(SafeOps)
  OBVIOUS
<1>3. TypeOK
  BY <1>1, <1>2 DEF Init, TypeOK, Bits
<1>4. OwnerUnique /\ OwnedIsLocked /\ CriticalOwns /\ ExitedIsDone
  BY DEF Init, OwnerUnique, OwnedIsLocked, CriticalOwns, ExitedIsDone, Procs
<1>5. QED
  BY <1>2, <1>3, <1>4 DEF Init, IInv

------------------------------------------------------------------------------
\* The steps of the emulation thread.
LEMMA EmuKeepsIInv ==
  ASSUME SparesLockByte, IInv, EmuThread
  PROVE  IInv'
<1> USE DEF IInv, TypeOK
<1>a. Emulator \in Procs
  BY DEF Procs
<1>1. CASE EmuLoop
  <2>1. todo' \in Seq(SafeOps) /\ (pcEmu' = "op" => todo' # <<>>)
    BY <1>1, TickStart DEF EmuLoop
  <2>2. todo' \in Seq(Ops)
    BY <2>1 DEF SafeOps
  <2>3. QED
    BY <1>1, <2>1, <2>2 DEF EmuLoop, mainVars, dbgVars, OwnerUnique,
       OwnedIsLocked, CriticalOwns, ExitedIsDone
<1>2. CASE EmuCheck
  <2>a. {"mem", "rom", "setW", "setS"} \subseteq SafeOps
    BY DEF SafeOps, Ops, Accesses, FlagOps
  <2>b. Instructions \subseteq Seq(SafeOps) \ {<<>>}
    BY <2>a, LargerSeq DEF SparesLockByte
  <2>c. <<>> \in Seq(SafeOps)
    OBVIOUS
  <2>1. todo' \in Seq(SafeOps) /\ (pcEmu' = "op" => todo' # <<>>)
    BY <1>2, <2>b, <2>c DEF EmuCheck
  <2>2. todo' \in Seq(Ops)
    BY <2>1 DEF SafeOps
  <2>3. QED
    BY <1>2, <2>1, <2>2 DEF EmuCheck, mainVars, dbgVars, OwnerUnique,
       OwnedIsLocked, CriticalOwns, ExitedIsDone
<1>3. CASE EmuAcquire
  <2>1. OwnerUnique' /\ OwnedIsLocked' /\ owned' \in [Procs -> BOOLEAN]
          /\ lock' \in BOOLEAN /\ owned'[Emulator]
    BY <1>3, <1>a, AcquireKeepsOwner DEF EmuAcquire
  <2>2. CriticalOwns'
    BY <1>3, <1>a, <2>1 DEF EmuAcquire, AcquireLock, CriticalOwns,
       OwnedIsLocked, dbgVars, Procs
  <2>3. QED
    BY <1>3, <2>1, <2>2 DEF EmuAcquire, mainVars, dbgVars, ExitedIsDone
<1>4. CASE EmuAccess
  <2>1. Head(todo) # "lockbyte"
    BY <1>4, RestOfTick DEF EmuAccess, SafeOps
  <2>2. ReleaseLock(Emulator) /\ NextOp /\ owned[Emulator]
    BY <1>4, <2>1 DEF EmuAccess, CriticalOwns
  <2>3. OwnerUnique' /\ OwnedIsLocked' /\ owned' \in [Procs -> BOOLEAN]
          /\ lock' \in BOOLEAN /\ ~owned'[Emulator]
    BY <2>2, <1>a, ReleaseKeepsOwner
  <2>4. /\ todo' \in Seq(SafeOps) /\ todo' \in Seq(Ops)
        /\ pcEmu' \in {"op", "loop"}
        /\ pcEmu' = "op" => todo' # <<>>
    BY <1>4, <2>2, NextOpTyped DEF EmuAccess
  <2>5. \A d \in Debuggers : pcDbg[d] # "draw"
    BY <1>a, <2>2, ProcsAssumption DEF CriticalOwns, OwnerUnique, Procs
  <2>6. CriticalOwns'
    BY <1>4, <2>4, <2>5 DEF EmuAccess, CriticalOwns, dbgVars
  <2>7. QED
    BY <1>4, <2>3, <2>4, <2>6 DEF EmuAccess, mainVars, dbgVars, ExitedIsDone
<1>5. CASE EmuRomWrite
  <2>1. /\ todo' \in Seq(SafeOps) /\ todo' \in Seq(Ops)
        /\ pcEmu' \in {"op", "loop"}
        /\ pcEmu' = "op" => todo' # <<>>
    BY <1>5, NextOpTyped DEF EmuRomWrite
  <2>2. QED
    BY <1>5, <2>1 DEF EmuRomWrite, mainVars, dbgVars, OwnerUnique,
       OwnedIsLocked, CriticalOwns, ExitedIsDone
<1>6. CASE EmuFlagLoad
  BY <1>6 DEF EmuFlagLoad, mainVars, dbgVars, OwnerUnique, OwnedIsLocked,
     CriticalOwns, ExitedIsDone
<1>7. CASE EmuFlagStore
  <2>1. /\ todo' \in Seq(SafeOps) /\ todo' \in Seq(Ops)
        /\ pcEmu' \in {"op", "loop"}
        /\ pcEmu' = "op" => todo' # <<>>
    BY <1>7, NextOpTyped DEF EmuFlagStore
  <2>2. FlagAfter(Head(todo), regEmu) \subseteq Bits
    BY <1>7 DEF EmuFlagStore, FlagAfter, FlagOps, Bits
  <2>3. QED
    BY <1>7, <2>1, <2>2 DEF EmuFlagStore, mainVars, dbgVars, OwnerUnique,
       OwnedIsLocked, CriticalOwns, ExitedIsDone
<1>8. QED
  BY <1>1, <1>2, <1>3, <1>4, <1>5, <1>6, <1>7 DEF EmuThread

------------------------------------------------------------------------------
\* The steps of the main thread and the death of the emulator.
LEMMA MainKeepsIInv ==
  ASSUME IInv, MainThread
  PROVE  IInv'
<1> USE DEF IInv, TypeOK
<1>a. Emulator \in Procs
  BY DEF Procs
<1>1. CASE Boot
  <2>1. <<"setR">> \in Seq(SafeOps) /\ <<"setR">> \in Seq(Ops)
    BY DEF SafeOps, Ops, FlagOps, Accesses
  <2>2. boots' \in 0..MaxBoots
    BY <1>1, MaxBootsAssumption DEF Boot
  <2>3. QED
    BY <1>1, <2>1, <2>2 DEF Boot, dbgVars, OwnerUnique, OwnedIsLocked,
       CriticalOwns, ExitedIsDone
<1>2. CASE MainQuit
  BY <1>2 DEF MainQuit, emuVars, dbgVars, OwnerUnique, OwnedIsLocked,
     CriticalOwns, ExitedIsDone
<1>3. CASE MainFlagLoad
  BY <1>3 DEF MainFlagLoad, emuVars, dbgVars, OwnerUnique, OwnedIsLocked,
     CriticalOwns, ExitedIsDone
<1>4. CASE MainFlagStore
  BY <1>4 DEF MainFlagStore, emuVars, dbgVars, OwnerUnique, OwnedIsLocked,
     CriticalOwns, ExitedIsDone
<1>5. CASE MainExit
  <2>1. CASE owned[Emulator]
    <3>1. OwnerUnique' /\ OwnedIsLocked' /\ owned' \in [Procs -> BOOLEAN]
            /\ lock' \in BOOLEAN /\ ~owned'[Emulator]
      BY <1>5, <2>1, <1>a, ReleaseKeepsOwner DEF MainExit
    <3>2. \A d \in Debuggers : pcDbg[d] # "draw"
      BY <1>a, <2>1, ProcsAssumption DEF CriticalOwns, OwnerUnique, Procs
    <3>3. QED
      BY <1>5, <3>1, <3>2 DEF MainExit, emuVars, dbgVars, CriticalOwns,
         ExitedIsDone
  <2>2. CASE ~owned[Emulator]
    BY <1>5, <2>2 DEF MainExit, emuVars, dbgVars, OwnerUnique, OwnedIsLocked,
       CriticalOwns, ExitedIsDone
  <2>3. QED
    BY <2>1, <2>2
<1>6. CASE EmuCrash
  <2>1. OwnerUnique' /\ OwnedIsLocked' /\ owned' \in [Procs -> BOOLEAN]
          /\ lock' \in BOOLEAN
          /\ \A q \in Procs : q # Emulator => owned'[q] = owned[q]
    BY <1>6, <1>a, VanishKeepsOwner DEF EmuCrash
  <2>2. CriticalOwns'
    BY <1>6, <2>1, ProcsAssumption DEF EmuCrash, CriticalOwns, dbgVars, Procs
  <2>3. <<>> \in Seq(SafeOps) /\ <<>> \in Seq(Ops)
    OBVIOUS
  <2>4. QED
    BY <1>6, <2>1, <2>2, <2>3 DEF EmuCrash, dbgVars, ExitedIsDone
<1>7. QED
  BY <1>1, <1>2, <1>3, <1>4, <1>5, <1>6 DEF MainThread

------------------------------------------------------------------------------
\* The steps of a debugger.
LEMMA DebuggerKeepsIInv ==
  ASSUME IInv, NEW d \in Debuggers, Debugger(d)
  PROVE  IInv'
<1> USE DEF IInv, TypeOK
<1>a. d \in Procs /\ d # Emulator /\ Emulator \in Procs
  BY ProcsAssumption DEF Procs
<1>1. CASE DbgOpen(d)
  BY <1>1 DEF DbgOpen, GoTo, emuVars, mainVars, OwnerUnique, OwnedIsLocked,
     CriticalOwns, ExitedIsDone
<1>2. CASE DbgTop(d)
  <2>1. CASE ~owned[d] \/ (dbgRunning[d] /\ "R" \in flags)
    BY <1>2, <2>1 DEF DbgTop, GoTo, emuVars, mainVars, OwnerUnique,
       OwnedIsLocked, CriticalOwns, ExitedIsDone
  <2>2. CASE ~(~owned[d] \/ (dbgRunning[d] /\ "R" \in flags))
    <3>1. OwnerUnique' /\ OwnedIsLocked' /\ owned' \in [Procs -> BOOLEAN]
            /\ lock' \in BOOLEAN /\ \A q \in Procs : ~owned'[q]
      BY <1>2, <2>2, <1>a, ReleaseKeepsOwner DEF DbgTop
    <3>2. \A q \in Procs : owned[q] => q = d
      BY <1>a, <2>2 DEF OwnerUnique
    <3>3. CriticalOwns'
      BY <1>2, <2>2, <3>2, <1>a DEF DbgTop, GoTo, CriticalOwns, emuVars, Procs
    <3>4. QED
      BY <1>2, <2>2, <3>1, <3>3, <1>a DEF DbgTop, GoTo, emuVars, mainVars,
         ExitedIsDone
  <2> HIDE DEF IInv
  <2>3. QED
    BY <2>1, <2>2
<1>3. CASE DbgAcquire(d)
  <2>1. OwnerUnique' /\ OwnedIsLocked' /\ owned' \in [Procs -> BOOLEAN]
          /\ lock' \in BOOLEAN /\ \A q \in Procs : owned'[q] <=> q = d
    BY <1>3, <1>a, AcquireKeepsOwner DEF DbgAcquire
  <2>2. \A q \in Procs : ~owned[q]
    BY <1>3 DEF DbgAcquire, AcquireLock, OwnedIsLocked
  <2>3. CriticalOwns'
    BY <1>3, <1>a, <2>1, <2>2 DEF DbgAcquire, GoTo, CriticalOwns, emuVars, Procs
  <2>4. QED
    BY <1>3, <1>a, <2>1, <2>3 DEF DbgAcquire, GoTo, emuVars, mainVars,
       ExitedIsDone
<1>4. CASE DbgDraw(d)
  <2>1. owned[d]
    BY <1>4 DEF DbgDraw, CriticalOwns
  <2>2. OwnerUnique' /\ OwnedIsLocked' /\ owned' \in [Procs -> BOOLEAN]
          /\ lock' \in BOOLEAN /\ \A q \in Procs : ~owned'[q]
    BY <1>4, <1>a, <2>1, ReleaseKeepsOwner DEF DbgDraw
  <2>3. \A q \in Procs : owned[q] => q = d
    BY <1>a, <2>1 DEF OwnerUnique
  <2>4. CriticalOwns'
    BY <1>4, <1>a, <2>3 DEF DbgDraw, GoTo, CriticalOwns, emuVars, Procs
  <2>5. QED
    BY <1>4, <1>a, <2>2, <2>4 DEF DbgDraw, GoTo, emuVars, mainVars,
       ExitedIsDone
<1>5. CASE DbgKey(d)
  BY <1>5 DEF DbgKey, GoTo, emuVars, mainVars, OwnerUnique, OwnedIsLocked,
     CriticalOwns, ExitedIsDone
<1>6. CASE DbgInterrupt(d)
  BY <1>6 DEF DbgInterrupt, emuVars, mainVars, OwnerUnique, OwnedIsLocked,
     CriticalOwns, ExitedIsDone
<1>7. CASE DbgCrash(d)
  <2>1. OwnerUnique' /\ OwnedIsLocked' /\ owned' \in [Procs -> BOOLEAN]
          /\ lock' \in BOOLEAN
          /\ \A q \in Procs : q # d => owned'[q] = owned[q]
    BY <1>7, <1>a, VanishKeepsOwner DEF DbgCrash
  <2>2. CriticalOwns'
    BY <1>7, <1>a, <2>1 DEF DbgCrash, GoTo, CriticalOwns, emuVars, Procs
  <2>3. QED
    BY <1>7, <1>a, <2>1, <2>2 DEF DbgCrash, GoTo, emuVars, mainVars,
       ExitedIsDone
<1>8. QED
  BY <1>1, <1>2, <1>3, <1>4, <1>5, <1>6, <1>7 DEF Debugger, DbgLoop

------------------------------------------------------------------------------
\* Every step of the system keeps the invariant.
LEMMA IInvStep == SparesLockByte /\ IInv /\ [Next]_vars => IInv'
<1> SUFFICES ASSUME SparesLockByte, IInv, [Next]_vars PROVE IInv'
  OBVIOUS
<1>1. CASE Next
  BY <1>1, EmuKeepsIInv, MainKeepsIInv, DebuggerKeepsIInv DEF Next
<1>2. CASE UNCHANGED vars
  BY <1>2 DEF vars, emuVars, mainVars, dbgVars, IInv, TypeOK, OwnerUnique,
     OwnedIsLocked, CriticalOwns, ExitedIsDone
<1>3. QED
  BY <1>1, <1>2

\* What the invariant says of the processes inside the critical section.
LEMMA IInvExcludes == IInv => MutualExclusion
<1> SUFFICES ASSUME IInv, NEW p \in InCritical, NEW q \in InCritical
             PROVE  p = q
  BY DEF MutualExclusion
<1>1. p \in Procs /\ q \in Procs /\ owned[p] /\ owned[q]
  BY DEF IInv, CriticalOwns, InCritical, Procs
<1>2. QED
  BY <1>1 DEF IInv, OwnerUnique

\* The inductive invariant holds of every behaviour of a safe program.
LEMMA Invariance == ASSUME SparesLockByte PROVE Spec => []IInv
<1>1. IInv /\ [Next]_vars => IInv'
  BY IInvStep
<1>2. QED
  BY IInvInit, <1>1, PTL DEF Spec

\* Type correctness of the whole state, for every instance.
THEOREM TypeCorrect == ASSUME SparesLockByte PROVE Spec => []TypeOK
<1>1. IInv => TypeOK
  BY DEF IInv
<1>2. QED
  BY <1>1, Invariance, PTL

\* Two processes never use the memory under the lock at the same time, for any
\* number of debuggers, any crashes and any program that spares the lock byte.
THEOREM Exclusion == ASSUME SparesLockByte PROVE Spec => []MutualExclusion
  BY IInvExcludes, Invariance, PTL

\* The emulator's clean exit never leaves the lock byte set behind it.
THEOREM CleanExit == ASSUME SparesLockByte PROVE Spec => []ExitReleases
<1>1. IInv => ExitReleases
  BY DEF IInv, ExitedIsDone, ExitReleases
<1>2. QED
  BY <1>1, Invariance, PTL

------------------------------------------------------------------------------
(* The lock byte implements the mutex.                                     *)

\* An acquire, a release by the owner and the death of a process, as the mutex
\* sees them.
LEMMA AcquireMaps ==
  ASSUME IInv, NEW p \in Procs, AcquireLock(p)
  PROVE  Lock!Acquire(p)
  BY DEF IInv, TypeOK, OwnedIsLocked, AcquireLock, Lock!Acquire

\* A release by the owner is a release of the abstract mutex.
LEMMA ReleaseMaps ==
  ASSUME IInv, NEW p \in Procs, owned[p], ReleaseLock(p)
  PROVE  Lock!Release(p)
  BY DEF IInv, TypeOK, ReleaseLock, Lock!Release

\* A killed owner is the death of an owner of the abstract mutex.
LEMMA VanishMaps ==
  ASSUME IInv, NEW p \in Procs, Vanish(p)
  PROVE  Lock!Die(p) \/ UNCHANGED Lock!vars
<1>1. CASE owned[p]
  BY <1>1 DEF IInv, TypeOK, OwnerUnique, OwnedIsLocked, Vanish, Lock!Die
<1>2. CASE ~owned[p]
  <2>1. owned' = owned
    BY <1>2 DEF IInv, TypeOK, Vanish
  <2>2. QED
    BY <2>1 DEF Vanish, Lock!vars
<1>3. QED
  BY <1>1, <1>2

\* A step that touches neither the byte nor lock_owned is invisible.
LEMMA SilentMaps ==
  ASSUME UNCHANGED <<lock, owned>>
  PROVE  UNCHANGED Lock!vars
  BY DEF Lock!vars

\* Every step of the system is a step of the mutex or leaves it alone.
LEMMA StepMaps ==
  ASSUME SparesLockByte, IInv, [Next]_vars
  PROVE  [Lock!Next]_Lock!vars
<1>a. Emulator \in Procs /\ \A d \in Debuggers : d \in Procs
  BY DEF Procs
<1>1. CASE EmuThread
  <2>1. CASE EmuAcquire
    BY <2>1, <1>a, AcquireMaps DEF EmuAcquire, Lock!Next
  <2>2. CASE EmuAccess
    <3>1. todo \in Seq(SafeOps) /\ todo # <<>> /\ owned[Emulator]
      BY <2>2 DEF EmuAccess, IInv, TypeOK, CriticalOwns
    <3>2. Head(todo) # "lockbyte"
      BY <3>1, RestOfTick DEF SafeOps
    <3>3. ReleaseLock(Emulator)
      BY <2>2, <3>2 DEF EmuAccess
    <3>4. QED
      BY <3>1, <3>3, <1>a, ReleaseMaps DEF Lock!Next
  <2>3. CASE EmuLoop \/ EmuCheck \/ EmuRomWrite \/ EmuFlagLoad \/ EmuFlagStore
    BY <2>3, SilentMaps DEF EmuLoop, EmuCheck, EmuRomWrite, EmuFlagLoad,
       EmuFlagStore
  <2>4. QED
    BY <1>1, <2>1, <2>2, <2>3 DEF EmuThread
<1>2. CASE MainThread
  <2>1. CASE MainExit
    <3>1. CASE owned[Emulator]
      BY <2>1, <3>1, <1>a, ReleaseMaps DEF MainExit, Lock!Next
    <3>2. CASE ~owned[Emulator]
      BY <2>1, <3>2, SilentMaps DEF MainExit
    <3>3. QED
      BY <3>1, <3>2
  <2>2. CASE EmuCrash
    BY <2>2, <1>a, VanishMaps DEF EmuCrash, Lock!Next
  <2>3. CASE Boot \/ MainQuit \/ MainFlagLoad \/ MainFlagStore
    BY <2>3, SilentMaps DEF Boot, MainQuit, MainFlagLoad, MainFlagStore
  <2>4. QED
    BY <1>2, <2>1, <2>2, <2>3 DEF MainThread
<1>3. ASSUME NEW d \in Debuggers, Debugger(d)
      PROVE  [Lock!Next]_Lock!vars
  <2>1. CASE DbgTop(d)
    <3>1. CASE UNCHANGED <<lock, owned>>
      BY <3>1, SilentMaps
    <3>2. CASE owned[d] /\ ReleaseLock(d)
      BY <3>2, <1>a, ReleaseMaps DEF Lock!Next
    <3>3. QED
      BY <2>1, <3>1, <3>2 DEF DbgTop
  <2>2. CASE DbgAcquire(d)
    BY <2>2, <1>a, AcquireMaps DEF DbgAcquire, Lock!Next
  <2>3. CASE DbgDraw(d)
    BY <2>3, <1>a, ReleaseMaps DEF DbgDraw, IInv, CriticalOwns, Lock!Next
  <2>4. CASE DbgCrash(d)
    BY <2>4, <1>a, VanishMaps DEF DbgCrash, Lock!Next
  <2>5. CASE DbgOpen(d) \/ DbgKey(d) \/ DbgInterrupt(d)
    BY <2>5, SilentMaps DEF DbgOpen, DbgKey, DbgInterrupt
  <2>6. QED
    BY <1>3, <2>1, <2>2, <2>3, <2>4, <2>5 DEF Debugger, DbgLoop
<1>4. CASE UNCHANGED vars
  BY <1>4, SilentMaps DEF vars
<1>5. QED
  BY <1>1, <1>2, <1>3, <1>4 DEF Next

\* The detailed lock, with its lock_owned bytes, ROM writes, kills and exits,
\* implements the abstract mutex for every instance.
THEOREM LockImplementsMutex == ASSUME SparesLockByte PROVE Spec => LockIsMutex
<1>1. Init => Lock!Init
  BY DEF Init, Lock!Init
<1>2. IInv /\ [Next]_vars => [Lock!Next]_Lock!vars
  BY StepMaps
<1>3. QED
  BY <1>1, <1>2, Invariance, PTL DEF Spec, LockIsMutex, Lock!Spec

==============================================================================
