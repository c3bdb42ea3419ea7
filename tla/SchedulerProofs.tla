--------------------------- MODULE SchedulerProofs ---------------------------
(***************************************************************************)
(* Proofs about Scheduler, for every size of the list, number of jobs and  *)
(* clock: the types, that no job runs twice however the two threads        *)
(* interleave, and that the list is consistent until schedule_function and *)
(* task_complete overlap.                                                  *)
(***************************************************************************)
EXTENDS Scheduler, TLAPS

\* The first slot of the list, and the one after any slot.
LEMMA SlotZero == 0 \in Rows /\ 0 \in Cols /\ <<0, 0>> \in Slots
  BY SizesAssumption DEF Rows, Cols, Slots

\* The loop of do_task goes from one entry to another.
LEMMA NextIsSlot == ASSUME NEW s \in Slots PROVE NextSlot(s) \in Slots
  BY SlotZero DEF NextSlot, Slots

\* A slot is its row and its column.
LEMMA SlotIsPair ==
  ASSUME NEW s \in Slots, NEW t \in Slots
  PROVE  /\ s[1] \in Rows /\ s[2] \in Cols
         /\ (s[1] = t[1] /\ s[2] = t[2]) => s = t
  BY DEF Slots

\* Where a step of task_complete leaves the main thread.
LEMMA CompleteOrTyped ==
  ASSUME NEW rest \in SUBSET {"entry", "bit"}, slotM \in Slots, CompleteOr(rest)
  PROVE  /\ left' \subseteq {"entry", "bit"} /\ slotM' \in Slots
         /\ pcM' \in {"load", "complete"}
  BY NextIsSlot DEF CompleteOr

------------------------------------------------------------------------------
\* A call is issued before it is anywhere else in the list.
IssuedBusy == Scheduling => issued \in Jobs

TInv == TypeOK /\ IssuedBusy

\* The initial states are typed.
LEMMA TInvInit == ASSUME Init PROVE TInv
<1>1. 0 \in Times /\ 1 \in Times /\ 0 \in 0..MaxJobs
  BY SizesAssumption DEF Times
<1>2. QED
  BY <1>1, SlotZero DEF Init, TInv, TypeOK, IssuedBusy, Scheduling

\* Every step of the emulation thread keeps the types.
LEMMA ScheduleTyped ==
  ASSUME TInv, schedule_function
  PROVE  TInv'
<1> USE DEF TInv, TypeOK, IssuedBusy, Scheduling
<1>1. CASE Schedule
  <2>1. clock + DELAY \in Times /\ issued + 1 \in 0..MaxJobs /\ issued + 1 \in Jobs
    BY <1>1, SizesAssumption DEF Schedule, Times, Jobs
  <2>2. QED
    BY <1>1, <2>1, SlotZero DEF Schedule, Watch, Completing, arrays, mVars
<1>2. CASE ScanByte
  <2>1. PICK c \in LowestFree(bmp[rowE]) : slotE' = <<rowE, c>>
    BY <1>2 DEF ScanByte
  <2>2. slotE' \in Slots
    BY <2>1 DEF LowestFree, Slots
  <2>3. regE' \subseteq Cols
    BY <1>2 DEF ScanByte
  <2>4. QED
    BY <1>2, <2>2, <2>3 DEF ScanByte, Watch, Completing, arrays, mVars, history
<1>3. CASE SkipByte
  <2>1. 0 \in Times
    BY SizesAssumption DEF Times
  <2>2. QED
    BY <1>3, <2>1, SlotZero DEF SkipByte, Watch, Completing, arrays, mVars
<1>4. CASE MarkBit
  <2>1. slotE[1] \in Rows /\ regE \cup {slotE[2]} \in SUBSET Cols
    BY SlotIsPair
  <2>2. bmp' \in [Rows -> SUBSET Cols]
    BY <1>4, <2>1 DEF MarkBit
  <2>3. QED
    BY <1>4, <2>2 DEF MarkBit, Watch, Completing, mVars, history
<1>5. CASE StoreFunction
  BY <1>5 DEF StoreFunction, Watch, Completing, mVars, history
<1>6. CASE StoreWhen
  <2>1. 0 \in Times
    BY SizesAssumption DEF Times
  <2>2. QED
    BY <1>6, <2>1, SlotZero DEF StoreWhen, Watch, Completing, mVars, history
<1>7. QED
  BY <1>1, <1>2, <1>3, <1>4, <1>5, <1>6 DEF schedule_function

\* Every step of the main thread keeps the types.
LEMMA TaskTyped ==
  ASSUME TInv, do_task
  PROVE  TInv'
<1> USE DEF TInv, TypeOK, IssuedBusy, Scheduling
<1>1. CASE LoadWhen
  BY <1>1 DEF LoadWhen, arrays, eVars, history
<1>2. CASE TestWhen
  <2>1. 0 \in Times
    BY SizesAssumption DEF Times
  <2>2. QED
    BY <1>2, <2>1, NextIsSlot DEF TestWhen, arrays, eVars, history
<1>3. CASE CallFunction
  <2>1. CASE function[slotM] = NULL
    BY <1>3, <2>1 DEF CallFunction, Watch, Completing, arrays, eVars
  <2>2. CASE function[slotM] # NULL
    <3>1. function[slotM] \in Jobs
      BY <2>2
    <3>2. runs' \in [Jobs -> Nat]
      BY <1>3, <2>2, <3>1 DEF CallFunction
    <3>3. QED
      BY <1>3, <2>2, <3>2 DEF CallFunction, Watch, Completing, arrays, eVars
  <2>3. QED
    BY <2>1, <2>2
<1>4. CASE WipeEntry
  <2>1. /\ left' \subseteq {"entry", "bit"} /\ slotM' \in Slots
        /\ pcM' \in {"load", "complete"}
    BY <1>4, CompleteOrTyped DEF WipeEntry
  <2>2. 0 \in Times
    BY SizesAssumption DEF Times
  <2>3. QED
    BY <1>4, <2>1, <2>2 DEF WipeEntry, Watch, Completing, eVars, history
<1>5. CASE LoadByte
  <2>1. bmp[slotM[1]] \subseteq Cols
    BY SlotIsPair
  <2>2. QED
    BY <1>5, <2>1 DEF LoadByte, Watch, Completing, arrays, eVars, history
<1>6. CASE ClearBit
  <2>1. /\ left' \subseteq {"entry", "bit"} /\ slotM' \in Slots
        /\ pcM' \in {"load", "complete"}
    BY <1>6, CompleteOrTyped DEF ClearBit
  <2>2. bmp' \in [Rows -> SUBSET Cols]
    BY <1>6, SlotIsPair DEF ClearBit
  <2>3. QED
    BY <1>6, <2>1, <2>2 DEF ClearBit, Watch, Completing, eVars, history
<1>7. QED
  BY <1>1, <1>2, <1>3, <1>4, <1>5, <1>6 DEF do_task, task_complete

\* Every step preserves the types.
LEMMA TInvStep == TInv /\ [Next]_vars => TInv'
<1> SUFFICES ASSUME TInv, [Next]_vars PROVE TInv'
  OBVIOUS
<1>1. CASE Tick
  <2>1. clock + 1 \in Times
    BY <1>1, SizesAssumption DEF Tick, Times, TInv, TypeOK
  <2>2. QED
    BY <1>1, <2>1 DEF Tick, TInv, TypeOK, IssuedBusy, Scheduling, arrays, eVars,
       mVars, history
<1>2. CASE UNCHANGED vars
  BY <1>2 DEF vars, TInv, TypeOK, IssuedBusy, Scheduling, arrays, eVars, mVars,
     history
<1>3. QED
  BY <1>1, <1>2, ScheduleTyped, TaskTyped DEF Next

\* The list stays a list of jobs and times, and both threads stay in it.
THEOREM TypeCorrect == Spec => []TypeOK
<1>1. Init => TInv
  BY TInvInit
<1>2. TInv => TypeOK
  BY DEF TInv
<1>3. QED
  BY <1>1, <1>2, TInvStep, PTL DEF Spec

------------------------------------------------------------------------------
(* No job runs twice.  A job is stored in one slot only, and once it has   *)
(* run its entry is the very one that task_complete is going to wipe.      *)

\* The jobs that have not reached the list yet.
Unstored ==
  {j \in Jobs : j > issued \/ (j = issued /\ pcE \in {"scan", "mark", "function"})}

UnstoredIsNew ==
  \A j \in Unstored : runs[j] = 0 /\ \A s \in Slots : function[s] # j

StoredOnce ==
  \A s, t \in Slots : function[s] # NULL /\ function[s] = function[t] => s = t

RunIsLeaving ==
  \A s \in Slots :
    function[s] # NULL /\ runs[function[s]] > 0 =>
      Completing /\ s = slotM /\ "entry" \in left

OInv == TInv /\ UnstoredIsNew /\ StoredOnce /\ RunIsLeaving /\ AtMostOnce

\* The NULL of an empty entry is not the number of a job.
LEMMA NullIsNoJob == NULL \notin Jobs
  BY DEF NULL, Jobs

\* Nothing is scheduled and nothing has run in the beginning.
LEMMA OInvInit == ASSUME Init PROVE OInv
<1>1. TInv
  BY TInvInit
<1>2. /\ Unstored \subseteq Jobs
      /\ \A j \in Jobs : runs[j] = 0
      /\ \A s \in Slots : function[s] = NULL
  BY DEF Init, Unstored
<1>3. QED
  BY <1>1, <1>2, NullIsNoJob DEF OInv, UnstoredIsNew, StoredOnce, RunIsLeaving,
     AtMostOnce

\* A step that leaves the list, the counts, task_complete and the set of unstored
\* jobs alone, or makes that set smaller, keeps the invariant.
LEMMA SilentKeepsOInv ==
  ASSUME OInv, TInv', UNCHANGED <<function, runs, slotM>>,
         Unstored' \subseteq Unstored,
         Completing => Completing' /\ ("entry" \in left => "entry" \in left')
  PROVE  OInv'
  BY DEF OInv, UnstoredIsNew, StoredOnce, RunIsLeaving, AtMostOnce

\* Every step keeps the places of a job apart: on its way into the table, in one
\* entry of it, or run.
LEMMA OInvStep == OInv /\ [Next]_vars => OInv'
<1> SUFFICES ASSUME OInv, [Next]_vars PROVE OInv'
  OBVIOUS
<1>a. TInv'
  BY TInvStep DEF OInv
<1>b. TInv
  BY DEF OInv
<1>1. CASE Tick \/ UNCHANGED vars
  <2>1. UNCHANGED <<function, runs, issued, pcE, pcM, slotM, left>>
    BY <1>1 DEF Tick, vars, arrays, eVars, mVars, history
  <2>2. Unstored' = Unstored
    BY <2>1 DEF Unstored
  <2>3. QED
    BY <1>a, <2>1, <2>2, SilentKeepsOInv DEF Completing
<1>2. CASE Schedule
  <2>1. UNCHANGED <<function, runs, pcM, slotM, left>>
    BY <1>2 DEF Schedule, arrays, mVars
  <2>2. Unstored' \subseteq Unstored
    <3>1. issued \in Nat /\ issued' = issued + 1
      BY <1>2, <1>b DEF Schedule, TInv, TypeOK
    <3>2. QED
      BY <3>1 DEF Unstored, Jobs
  <2>3. QED
    BY <1>a, <2>1, <2>2, SilentKeepsOInv DEF Completing
<1>3. CASE ScanByte \/ SkipByte \/ MarkBit \/ StoreWhen
  <2>1. UNCHANGED <<function, runs, issued, pcM, slotM, left>>
    BY <1>3 DEF ScanByte, SkipByte, MarkBit, StoreWhen, arrays, mVars, history
  <2>2. Unstored' \subseteq Unstored
    BY <1>3, <2>1 DEF ScanByte, SkipByte, MarkBit, StoreWhen, Unstored
  <2>3. QED
    BY <1>a, <2>1, <2>2, SilentKeepsOInv DEF Completing
<1>4. CASE StoreFunction
  <2>1. /\ UNCHANGED <<runs, issued, pcM, slotM, left>>
        /\ function' = [function EXCEPT ![slotE] = issued]
        /\ pcE = "function" /\ pcE' = "when"
    BY <1>4 DEF StoreFunction, mVars, history
  <2>2. issued \in Jobs /\ slotE \in Slots /\ function \in [Slots -> Jobs \cup {NULL}]
    BY <2>1, <1>b DEF TInv, TypeOK, IssuedBusy, Scheduling
  <2>3. issued \in Unstored /\ Unstored' = Unstored \ {issued}
    BY <2>1, <2>2 DEF Unstored, Jobs
  <2>4. runs[issued] = 0 /\ \A s \in Slots : function[s] # issued
    BY <2>3 DEF OInv, UnstoredIsNew
  <2>5. UnstoredIsNew'
    BY <2>1, <2>2, <2>3 DEF OInv, UnstoredIsNew
  <2>6. StoredOnce'
    BY <2>1, <2>2, <2>4 DEF OInv, StoredOnce
  <2>7. RunIsLeaving'
    BY <2>1, <2>2, <2>4 DEF OInv, RunIsLeaving, Completing
  <2>8. QED
    BY <1>a, <2>1, <2>5, <2>6, <2>7 DEF OInv, AtMostOnce
<1>5. CASE LoadWhen \/ TestWhen
  <2>1. UNCHANGED <<function, runs, issued, pcE>> /\ ~Completing
    BY <1>5 DEF LoadWhen, TestWhen, arrays, eVars, history, Completing
  <2>2. Unstored' = Unstored
    BY <2>1 DEF Unstored
  <2>3. QED
    BY <1>a, <2>1, <2>2 DEF OInv, UnstoredIsNew, StoredOnce, RunIsLeaving, AtMostOnce
<1>6. CASE CallFunction
  <2>1. UNCHANGED <<function, issued, pcE, slotM>> /\ ~Completing
    BY <1>6 DEF CallFunction, arrays, eVars, Completing
  <2>2. Unstored' = Unstored
    BY <2>1 DEF Unstored
  <2>3. CASE function[slotM] = NULL
    BY <1>6, <1>a, <2>1, <2>2, <2>3 DEF CallFunction, OInv, UnstoredIsNew, StoredOnce,
       RunIsLeaving, AtMostOnce
  <2>4. CASE function[slotM] # NULL
    <3>1. slotM \in Slots /\ function[slotM] \in Jobs /\ runs \in [Jobs -> Nat]
      BY <2>4, <1>b DEF TInv, TypeOK
    <3>2. runs[function[slotM]] = 0
      BY <2>1, <2>4, <3>1 DEF OInv, RunIsLeaving
    <3>3. /\ runs' = [runs EXCEPT ![function[slotM]] = 1]
          /\ pcM' = "complete" /\ left' = {"entry", "bit"}
      BY <1>6, <2>4, <3>1, <3>2 DEF CallFunction
    <3>4. UnstoredIsNew'
      <4>1. function[slotM] \notin Unstored
        BY <3>1 DEF OInv, UnstoredIsNew
      <4>2. QED
        BY <2>1, <2>2, <3>1, <3>3, <4>1 DEF OInv, UnstoredIsNew, Unstored
    <3>5. RunIsLeaving'
      <4> SUFFICES ASSUME NEW s \in Slots, function[s] # NULL, runs'[function[s]] > 0
                   PROVE  s = slotM
        BY <2>1, <3>3 DEF RunIsLeaving, Completing
      <4>1. function[s] \in Jobs
        BY <1>b DEF TInv, TypeOK
      <4>2. runs[function[s]] = 0
        BY <2>1, <4>1, <3>1 DEF OInv, RunIsLeaving
      <4>3. function[s] = function[slotM]
        BY <3>1, <3>3, <4>1, <4>2
      <4>4. QED
        BY <2>4, <3>1, <4>3 DEF OInv, StoredOnce
    <3>6. AtMostOnce'
      BY <3>1, <3>3 DEF OInv, AtMostOnce
    <3>7. QED
      BY <1>a, <2>1, <3>4, <3>5, <3>6 DEF OInv, StoredOnce
  <2>5. QED
    BY <2>3, <2>4
<1>7. CASE WipeEntry
  <2>1. /\ UNCHANGED <<runs, issued, pcE>>
        /\ function' = [function EXCEPT ![slotM] = NULL]
    BY <1>7 DEF WipeEntry, eVars, history
  <2>2. slotM \in Slots /\ function \in [Slots -> Jobs \cup {NULL}]
    BY <1>b DEF TInv, TypeOK
  <2>3. Unstored' = Unstored
    BY <2>1 DEF Unstored
  <2>4. UnstoredIsNew'
    BY <2>1, <2>2, <2>3, NullIsNoJob DEF OInv, UnstoredIsNew, Unstored
  <2>5. StoredOnce'
    BY <2>1, <2>2 DEF OInv, StoredOnce
  <2>6. RunIsLeaving'
    BY <2>1, <2>2 DEF OInv, RunIsLeaving
  <2>7. QED
    BY <1>a, <2>1, <2>4, <2>5, <2>6 DEF OInv, AtMostOnce
<1>8. CASE LoadByte
  <2>1. UNCHANGED <<function, runs, issued, pcE, slotM, left>> /\ Completing'
    BY <1>8 DEF LoadByte, arrays, eVars, history, Completing
  <2>2. Unstored' = Unstored
    BY <2>1 DEF Unstored
  <2>3. QED
    BY <1>a, <2>1, <2>2, SilentKeepsOInv
<1>9. CASE ClearBit
  <2>1. /\ UNCHANGED <<function, runs, issued, pcE>>
        /\ CompleteOr(left \ {"bit"})
    BY <1>9 DEF ClearBit, eVars, history
  <2>2. Unstored' = Unstored
    BY <2>1 DEF Unstored
  <2>3. CASE "entry" \in left
    <3>1. slotM' = slotM /\ "entry" \in left' /\ pcM' = "complete"
      BY <2>1, <2>3 DEF CompleteOr
    <3>2. QED
      BY <1>a, <2>1, <2>2, <3>1, SilentKeepsOInv DEF Completing
  <2>4. CASE "entry" \notin left
    BY <1>a, <2>1, <2>2, <2>4 DEF OInv, UnstoredIsNew, StoredOnce, RunIsLeaving,
       AtMostOnce
  <2>5. QED
    BY <2>3, <2>4
<1>10. QED
  BY <1>1, <1>2, <1>3, <1>4, <1>5, <1>6, <1>7, <1>8, <1>9
     DEF Next, schedule_function, do_task, task_complete

\* However the two threads interleave, lost bits and wiped entries included, the
\* main thread calls the function of a job at most once.
THEOREM JobsRunOnce == Spec => []AtMostOnce
<1>1. Init => OInv
  BY OInvInit
<1>2. OInv => AtMostOnce
  BY DEF OInv
<1>3. QED
  BY <1>1, <1>2, OInvStep, PTL DEF Spec

------------------------------------------------------------------------------
(* The list is consistent as long as schedule_function and task_complete   *)
(* do not overlap: each of the two then has the bytes it loaded to itself. *)

\* Slot s is needed, in the terms of InUse.
Needed(s) ==
  IF Completing /\ s = slotM
    THEN "bit" \in left
    ELSE when[s] # 0 \/ (pcE \in {"function", "when"} /\ s = slotE)

Exact == \A s \in Slots : s[2] \in bmp[s[1]] <=> Needed(s)

\* What the emulation thread knows: its byte and its slot are still as it found
\* them, and the time it is about to store is not 0.
ScheduleKnows ==
  /\ Scheduling => whenE # 0 /\ ~Completing
  /\ pcE = "mark" => regE = bmp[slotE[1]] /\ slotE[2] \notin regE
  /\ pcE = "when" => function[slotE] # NULL

\* What the main thread knows: the task it calls has an entry, the byte it loaded
\* is still the same, and a wiped entry stays empty.
TaskKnows ==
  /\ pcM = "call" => when[slotM] # 0
  /\ Completing => left # {}
  /\ pcM = "store" => regM = bmp[slotM[1]] /\ "bit" \in left
  /\ Completing /\ "entry" \notin left => when[slotM] = 0
  /\ pcM # "crashed"

EntriesAreWhole == \A s \in Slots : when[s] # 0 => function[s] # NULL

Consistent == Exact /\ ScheduleKnows /\ TaskKnows /\ EntriesAreWhole

EInv == TInv /\ (overlapped \/ Consistent)

\* In the beginning the bitmap and the entries agree.
LEMMA EInvInit == ASSUME Init PROVE EInv
<1>1. TInv
  BY TInvInit
<1>2. /\ pcE = "idle" /\ pcM = "load"
      /\ \A s \in Slots : when[s] = 0 /\ s[1] \in Rows /\ bmp[s[1]] = {}
  BY SlotIsPair DEF Init
<1>3. QED
  BY <1>1, <1>2 DEF EInv, Consistent, Exact, Needed, ScheduleKnows, TaskKnows,
     EntriesAreWhole, Scheduling, Completing

\* A step that keeps overlapped FALSE does so from FALSE and leaves the threads
\* apart.
LEMMA WatchKeeps ==
  ASSUME EInv, Watch, ~overlapped'
  PROVE  Consistent /\ ~(Scheduling' /\ Completing')
  BY DEF EInv, Watch, TInv, TypeOK

\* The steps of the emulation thread.
LEMMA ScheduleConsistent ==
  ASSUME EInv, TInv', schedule_function, ~overlapped'
  PROVE  Consistent'
<1> USE DEF Scheduling, Completing
<1>a. Watch
  BY DEF schedule_function, Schedule, ScanByte, SkipByte, MarkBit, StoreFunction,
     StoreWhen
<1>b. Consistent /\ ~(Scheduling' /\ Completing')
  BY <1>a, WatchKeeps
<1>c. TypeOK /\ IssuedBusy
  BY DEF EInv, TInv
<1>d. UNCHANGED <<pcM, slotM, whenM, regM, left>>
  BY DEF schedule_function, Schedule, ScanByte, SkipByte, MarkBit, StoreFunction,
     StoreWhen, mVars
<1>1. CASE Schedule
  <2>1. UNCHANGED <<bmp, function, when>> /\ pcE = "idle" /\ pcE' = "scan"
    BY <1>1 DEF Schedule, arrays
  <2>2. whenE' # 0
    BY <1>1, <1>c, SizesAssumption DEF Schedule, TypeOK, Times
  <2>3. \A s \in Slots : Needed(s)' = Needed(s)
    BY <1>d, <2>1 DEF Needed
  <2>4. QED
    BY <1>b, <1>d, <2>1, <2>2, <2>3 DEF Consistent, Exact, ScheduleKnows, TaskKnows,
       EntriesAreWhole
<1>2. CASE ScanByte
  <2>1. /\ UNCHANGED <<bmp, function, when, whenE>> /\ pcE = "scan" /\ pcE' = "mark"
        /\ regE' = bmp[rowE]
    BY <1>2 DEF ScanByte, arrays
  <2>2. PICK c \in LowestFree(bmp[rowE]) : slotE' = <<rowE, c>>
    BY <1>2 DEF ScanByte
  <2>3. slotE'[1] = rowE /\ slotE'[2] \notin bmp[rowE]
    BY <2>2 DEF LowestFree
  <2>4. \A s \in Slots : Needed(s)' = Needed(s)
    BY <1>d, <2>1 DEF Needed
  <2>5. QED
    BY <1>b, <1>d, <2>1, <2>3, <2>4 DEF Consistent, Exact, ScheduleKnows, TaskKnows,
       EntriesAreWhole
<1>3. CASE SkipByte
  <2>1. /\ UNCHANGED <<bmp, function, when, slotE>> /\ pcE = "scan"
        /\ (pcE' = "scan" /\ whenE' = whenE) \/ pcE' = "idle"
    BY <1>3 DEF SkipByte, arrays
  <2>2. \A s \in Slots : Needed(s)' = Needed(s)
    BY <1>d, <2>1 DEF Needed
  <2>3. QED
    BY <1>b, <1>d, <2>1, <2>2 DEF Consistent, Exact, ScheduleKnows, TaskKnows,
       EntriesAreWhole
<1>4. CASE MarkBit
  <2>1. /\ UNCHANGED <<function, when, slotE, whenE>>
        /\ pcE = "mark" /\ pcE' = "function"
        /\ bmp' = [bmp EXCEPT ![slotE[1]] = regE \cup {slotE[2]}]
    BY <1>4 DEF MarkBit
  <2>2. ~Completing /\ regE = bmp[slotE[1]]
    BY <1>b, <2>1 DEF Consistent, ScheduleKnows
  <2>3. slotE \in Slots /\ bmp \in [Rows -> SUBSET Cols]
    BY <1>c DEF TypeOK
  <2>4. \A s \in Slots : s[2] \in bmp'[s[1]] <=> s[2] \in bmp[s[1]] \/ s = slotE
    BY <2>1, <2>2, <2>3, SlotIsPair
  <2>5. \A s \in Slots : Needed(s)' <=> Needed(s) \/ s = slotE
    BY <1>d, <2>1, <2>2 DEF Needed
  <2>6. QED
    BY <1>b, <1>d, <2>1, <2>2, <2>4, <2>5 DEF Consistent, Exact, ScheduleKnows,
       TaskKnows, EntriesAreWhole
<1>5. CASE StoreFunction
  <2>1. /\ UNCHANGED <<bmp, when, slotE, whenE>>
        /\ pcE = "function" /\ pcE' = "when"
        /\ function' = [function EXCEPT ![slotE] = issued]
    BY <1>5 DEF StoreFunction
  <2>2. issued # NULL /\ slotE \in Slots /\ function \in [Slots -> Jobs \cup {NULL}]
    BY <1>c, <2>1, NullIsNoJob DEF TypeOK, IssuedBusy
  <2>3. function'[slotE] # NULL /\ EntriesAreWhole'
    BY <1>b, <2>1, <2>2 DEF Consistent, EntriesAreWhole
  <2>4. \A s \in Slots : Needed(s)' = Needed(s)
    BY <1>d, <2>1 DEF Needed
  <2>5. QED
    BY <1>b, <1>d, <2>1, <2>3, <2>4 DEF Consistent, Exact, ScheduleKnows, TaskKnows
<1>6. CASE StoreWhen
  <2>1. /\ UNCHANGED <<bmp, function>> /\ pcE = "when" /\ pcE' = "idle"
        /\ when' = [when EXCEPT ![slotE] = whenE]
    BY <1>6 DEF StoreWhen
  <2>2. whenE # 0 /\ ~Completing /\ function[slotE] # NULL
    BY <1>b, <2>1 DEF Consistent, ScheduleKnows
  <2>3. slotE \in Slots /\ when \in [Slots -> Times]
    BY <1>c DEF TypeOK
  <2>4. \A s \in Slots : when'[s] # 0 <=> when[s] # 0 \/ s = slotE
    BY <2>1, <2>2, <2>3
  <2>5. \A s \in Slots : Needed(s)' <=> Needed(s)
    BY <1>d, <2>1, <2>2, <2>4 DEF Needed
  <2>6. slotM \in Slots
    BY <1>c DEF TypeOK
  <2>7. QED
    BY <1>b, <1>d, <2>1, <2>2, <2>4, <2>5, <2>6 DEF Consistent, Exact, ScheduleKnows,
       TaskKnows, EntriesAreWhole
<1>7. QED
  BY <1>1, <1>2, <1>3, <1>4, <1>5, <1>6 DEF schedule_function

\* The steps of the main thread.
LEMMA TaskConsistent ==
  ASSUME EInv, TInv', do_task, ~overlapped'
  PROVE  Consistent'
<1> USE DEF Scheduling, Completing
<1>a. TypeOK
  BY DEF EInv, TInv
<1>b. UNCHANGED <<pcE, rowE, regE, slotE, whenE>>
  BY DEF do_task, task_complete, LoadWhen, TestWhen, CallFunction, WipeEntry,
     LoadByte, ClearBit, eVars
<1>c. slotM \in Slots /\ slotE \in Slots
  BY <1>a DEF TypeOK
<1>1. CASE LoadWhen \/ TestWhen
  <2>1. /\ UNCHANGED <<bmp, function, when, overlapped>>
        /\ pcM \in {"load", "test"} /\ pcM' \in {"load", "test", "call"}
        /\ pcM' = "call" => when[slotM] # 0 /\ slotM' = slotM
    BY <1>1 DEF LoadWhen, TestWhen, arrays
  <2>2. Consistent
    BY <2>1 DEF EInv
  <2>3. \A s \in Slots : Needed(s)' = Needed(s)
    BY <1>b, <2>1 DEF Needed
  <2>4. QED
    BY <1>b, <2>1, <2>2, <2>3 DEF Consistent, Exact, ScheduleKnows, TaskKnows,
       EntriesAreWhole
<1>2. CASE CallFunction
  <2>1. UNCHANGED <<bmp, function, when, slotM>> /\ pcM = "call" /\ Watch
    BY <1>2 DEF CallFunction, arrays
  <2>2. Consistent /\ ~(Scheduling' /\ Completing')
    BY <2>1, WatchKeeps
  <2>3. when[slotM] # 0 /\ function[slotM] # NULL
    BY <1>c, <2>1, <2>2 DEF Consistent, TaskKnows, EntriesAreWhole
  <2>4. pcM' = "complete" /\ left' = {"entry", "bit"}
    BY <1>2, <2>3 DEF CallFunction
  <2>5. ~Scheduling
    BY <1>b, <2>2, <2>4
  <2>6. \A s \in Slots : Needed(s)' <=> Needed(s)
    BY <1>b, <2>1, <2>3, <2>4, <2>5 DEF Needed
  <2>7. QED
    BY <1>b, <2>1, <2>2, <2>4, <2>5, <2>6 DEF Consistent, Exact, ScheduleKnows,
       TaskKnows, EntriesAreWhole
<1>3. CASE WipeEntry
  <2>1. /\ UNCHANGED bmp /\ pcM = "complete" /\ "entry" \in left /\ Watch
        /\ function' = [function EXCEPT ![slotM] = NULL]
        /\ when' = [when EXCEPT ![slotM] = 0]
        /\ CompleteOr(left \ {"entry"})
    BY <1>3 DEF WipeEntry
  <2>2. Consistent /\ ~Scheduling
    BY <2>1, WatchKeeps DEF Consistent, ScheduleKnows
  <2>3. /\ \A s \in Slots : s # slotM => when'[s] = when[s] /\ function'[s] = function[s]
        /\ when'[slotM] = 0
    BY <1>a, <1>c, <2>1 DEF TypeOK
  <2>4. EntriesAreWhole'
    BY <2>2, <2>3 DEF Consistent, EntriesAreWhole
  <2>5. left' = left \ {"entry"}
    BY <2>1 DEF CompleteOr
  <2>6. CASE left' = {}
    <3>1. pcM' = "load" /\ "bit" \notin left
      BY <1>a, <2>1, <2>5, <2>6 DEF CompleteOr, TypeOK
    <3>2. \A s \in Slots : Needed(s)' <=> Needed(s)
      BY <1>b, <2>1, <2>2, <2>3, <3>1 DEF Needed
    <3>3. QED
      BY <1>b, <2>1, <2>2, <2>4, <3>1, <3>2 DEF Consistent, Exact, ScheduleKnows,
         TaskKnows
  <2>7. CASE left' # {}
    <3>1. pcM' = "complete" /\ slotM' = slotM
      BY <2>1, <2>5, <2>7 DEF CompleteOr
    <3>2. \A s \in Slots : Needed(s)' <=> Needed(s)
      BY <1>b, <2>1, <2>2, <2>3, <2>5, <3>1 DEF Needed
    <3>3. QED
      BY <1>b, <2>1, <2>2, <2>3, <2>4, <2>7, <3>1, <3>2 DEF Consistent, Exact,
         ScheduleKnows, TaskKnows
  <2>8. QED
    BY <2>6, <2>7
<1>4. CASE LoadByte
  <2>1. /\ UNCHANGED <<bmp, function, when, slotM, left>>
        /\ pcM = "complete" /\ "bit" \in left /\ pcM' = "store"
        /\ regM' = bmp[slotM[1]] /\ Watch
    BY <1>4 DEF LoadByte, arrays
  <2>2. Consistent
    BY <2>1, WatchKeeps
  <2>3. \A s \in Slots : Needed(s)' = Needed(s)
    BY <1>b, <2>1 DEF Needed
  <2>4. QED
    BY <1>b, <2>1, <2>2, <2>3 DEF Consistent, Exact, ScheduleKnows, TaskKnows,
       EntriesAreWhole
<1>5. CASE ClearBit
  <2>1. /\ UNCHANGED <<function, when>> /\ pcM = "store" /\ Watch
        /\ bmp' = [bmp EXCEPT ![slotM[1]] = regM \ {slotM[2]}]
        /\ CompleteOr(left \ {"bit"})
    BY <1>5 DEF ClearBit
  <2>2. Consistent /\ ~Scheduling /\ "bit" \in left /\ regM = bmp[slotM[1]]
    BY <2>1, WatchKeeps DEF Consistent, ScheduleKnows, TaskKnows
  <2>3. \A s \in Slots : s[2] \in bmp'[s[1]] <=> s[2] \in bmp[s[1]] /\ s # slotM
    <3>1. bmp \in [Rows -> SUBSET Cols]
      BY <1>a DEF TypeOK
    <3>2. QED
      BY <1>c, <2>1, <2>2, <3>1, SlotIsPair
  <2>4. left' = left \ {"bit"}
    BY <2>1 DEF CompleteOr
  <2>5. CASE left' = {}
    <3>1. pcM' = "load" /\ "entry" \notin left
      BY <1>a, <2>1, <2>4, <2>5 DEF CompleteOr, TypeOK
    <3>2. when[slotM] = 0
      BY <2>1, <2>2, <3>1 DEF Consistent, TaskKnows
    <3>3. \A s \in Slots : Needed(s)' <=> Needed(s) /\ s # slotM
      BY <1>b, <2>1, <2>2, <3>1, <3>2 DEF Needed
    <3>4. QED
      BY <1>b, <2>1, <2>2, <2>3, <3>1, <3>3 DEF Consistent, Exact, ScheduleKnows,
         TaskKnows, EntriesAreWhole
  <2>6. CASE left' # {}
    <3>1. pcM' = "complete" /\ slotM' = slotM
      BY <2>1, <2>4, <2>6 DEF CompleteOr
    <3>2. \A s \in Slots : Needed(s)' <=> Needed(s) /\ s # slotM
      BY <1>b, <2>1, <2>2, <2>4, <3>1 DEF Needed
    <3>3. "entry" \in left'
      BY <1>a, <2>4, <2>6 DEF TypeOK
    <3>4. QED
      BY <1>b, <2>1, <2>2, <2>3, <3>1, <3>2, <3>3 DEF Consistent, Exact,
         ScheduleKnows, TaskKnows, EntriesAreWhole
  <2>7. QED
    BY <2>5, <2>6
<1>6. QED
  BY <1>1, <1>2, <1>3, <1>4, <1>5 DEF do_task, task_complete

\* As long as the threads have not overlapped, every step keeps the bitmap and the
\* entries in agreement.
LEMMA EInvStep == EInv /\ [Next]_vars => EInv'
<1> SUFFICES ASSUME EInv, [Next]_vars PROVE EInv'
  OBVIOUS
<1>1. TInv'
  BY TInvStep DEF EInv
<1>2. CASE overlapped'
  BY <1>1, <1>2 DEF EInv
<1>3. CASE ~overlapped' /\ (Tick \/ UNCHANGED vars)
  <2>1. UNCHANGED <<arrays, eVars, mVars, overlapped>>
    BY <1>3 DEF Tick, vars
  <2>2. Consistent
    BY <1>3, <2>1 DEF EInv
  <2>3. \A s \in Slots : Needed(s)' = Needed(s)
    BY <2>1 DEF Needed, Completing, arrays, eVars, mVars
  <2>4. QED
    BY <1>1, <2>1, <2>2, <2>3 DEF EInv, Consistent, Exact, ScheduleKnows, TaskKnows,
       EntriesAreWhole, Scheduling, Completing, arrays, eVars, mVars
<1>4. CASE ~overlapped' /\ schedule_function
  BY <1>1, <1>4, ScheduleConsistent DEF EInv
<1>5. CASE ~overlapped' /\ do_task
  BY <1>1, <1>5, TaskConsistent DEF EInv
<1>6. QED
  BY <1>2, <1>3, <1>4, <1>5 DEF Next

\* Until the two functions overlap for the first time, the bits of the bitmap are
\* those of the slots in use: none is lost and none is given out twice.
THEOREM BitmapStaysExact == Spec => []BitmapIsExact
<1>1. Init => EInv
  BY EInvInit
<1>2. EInv => BitmapIsExact
  BY DEF EInv, Consistent, Exact, Needed, BitmapIsExact, Marked, InUse
<1>3. QED
  BY <1>1, <1>2, EInvStep, PTL DEF Spec

\* And no cleared function pointer is called.
THEOREM NoNullCall == Spec => []NullIsNotCalled
<1>1. Init => EInv
  BY EInvInit
<1>2. EInv => NullIsNotCalled
  BY DEF EInv, Consistent, TaskKnows, NullIsNotCalled
<1>3. QED
  BY <1>1, <1>2, EInvStep, PTL DEF Spec

==============================================================================
