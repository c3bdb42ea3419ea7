------------------------------ MODULE Scheduler ------------------------------
(***************************************************************************)
(* The list of delayed functions (emulator/src/shceduler.c).  The          *)
(* emulation thread puts an entry in when a disk operation ends, to        *)
(* interrupt the CPU 250 ms later; the main thread runs the entries that   *)
(* are due and removes them.  Nothing locks the list: the threads          *)
(* interleave at every load and store of the shared arrays, in the order   *)
(* the program has them; the two stores of task_complete, which a compiler *)
(* is free to exchange (gcc -O3 does), come in either order.               *)
(*                                                                         *)
(* Locals are reset where their value is dead.                             *)
(*                                                                         *)
(* An index i * 8 + j of the arrays is the pair <<i, j>>.  Every call of   *)
(* schedule_function is a job; the code stores the pointer of send_irq for *)
(* each of them, the model the job.                                        *)
(***************************************************************************)
EXTENDS Integers

CONSTANTS BYTES, BITS,   \* 16 bytes of 8 bits: MAX_EVENTS = 128
          DELAY,         \* 250 ticks
          MaxJobs,       \* bound: calls of schedule_function
          MaxTime        \* bound: the clock

ASSUME SizesAssumption ==
  /\ BYTES \in Nat \ {0} /\ BITS \in Nat \ {0} /\ DELAY \in Nat \ {0}
  /\ MaxJobs \in Nat /\ MaxTime \in Nat \ {0}

Rows  == 0..(BYTES - 1)
Cols  == 0..(BITS - 1)
Slots == Rows \X Cols
Jobs  == 1..MaxJobs
Times == 0..MaxTime
NULL  == 0               \* the zero of memset, as a function pointer

VARIABLES
  clock,                     \* SDL_GetTicks64
  bmp,                       \* schedule_bmp: the bits that are 1 in each byte
  function, when,            \* the two fields of scheduled
  pcE, rowE, regE, slotE, whenE,   \* emulation thread in schedule_function
  pcM, slotM, whenM, regM, left,   \* main thread in do_task
  issued,                    \* history: calls so far
  due, runs, dropped,        \* history: of each job
  overlapped                 \* history: both threads have been at the list's end

arrays  == <<bmp, function, when>>
eVars   == <<pcE, rowE, regE, slotE, whenE>>
mVars   == <<pcM, slotM, whenM, regM, left>>
history == <<issued, due, runs, dropped>>
vars    == <<clock, arrays, eVars, mVars, history, overlapped>>

TypeOK ==
  /\ clock \in Times
  /\ bmp \in [Rows -> SUBSET Cols]
  /\ function \in [Slots -> Jobs \cup {NULL}]
  /\ when \in [Slots -> Times]
  /\ pcE \in {"idle", "scan", "mark", "function", "when"}
  /\ rowE \in Rows /\ regE \subseteq Cols /\ slotE \in Slots /\ whenE \in Times
  /\ pcM \in {"load", "test", "call", "complete", "store", "crashed"}
  /\ slotM \in Slots /\ whenM \in Times /\ regM \subseteq Cols
  /\ left \subseteq {"entry", "bit"}
  /\ issued \in 0..MaxJobs
  /\ due \in [Jobs -> Times]
  /\ runs \in [Jobs -> Nat]
  /\ dropped \subseteq Jobs
  /\ overlapped \in BOOLEAN

Init ==
  /\ clock = 1
  /\ bmp = [r \in Rows |-> {}]
  /\ function = [s \in Slots |-> NULL]
  /\ when = [s \in Slots |-> 0]
  /\ pcE = "idle" /\ rowE = 0 /\ regE = {} /\ slotE = <<0, 0>> /\ whenE = 0
  /\ pcM = "load" /\ slotM = <<0, 0>> /\ whenM = 0 /\ regM = {} /\ left = {}
  /\ issued = 0
  /\ due = [j \in Jobs |-> 0]
  /\ runs = [j \in Jobs |-> 0]
  /\ dropped = {}
  /\ overlapped = FALSE

Alive      == pcM # "crashed"
Scheduling == pcE # "idle"
Completing == pcM \in {"complete", "store"}

\* Note whether the threads are in schedule_function and task_complete at once.
Watch == overlapped' = (overlapped \/ (Scheduling' /\ Completing'))

Tick ==
  /\ clock < MaxTime
  /\ clock' = clock + 1
  /\ UNCHANGED <<arrays, eVars, mVars, history, overlapped>>

------------------------------------------------------------------------------
\* The emulation thread: schedule_function(&send_irq, SDL_GetTicks64() + 250).

Schedule ==
  /\ pcE = "idle" /\ Alive
  /\ issued < MaxJobs /\ clock + DELAY < MaxTime
  /\ issued' = issued + 1
  /\ due' = [due EXCEPT ![issued + 1] = clock + DELAY]
  /\ whenE' = clock + DELAY
  /\ pcE' = "scan" /\ rowE' = 0
  /\ UNCHANGED <<clock, arrays, regE, slotE, mVars, runs, dropped>>
  /\ Watch

\* MUTANT of LowestFree: the first bit is taken without a look at it.
FirstAlways(byte) == {0}

\* The lowest bit of a byte that is 0, if there is one.
LowestFree(byte) == {c \in Cols \ byte : 0..(c - 1) \subseteq byte}

\* One byte of the bitmap is loaded, and its first free bit is going to be taken.
ScanByte ==
  /\ pcE = "scan" /\ Alive
  /\ \E c \in LowestFree(bmp[rowE]) : slotE' = <<rowE, c>>
  /\ regE' = bmp[rowE]
  /\ pcE' = "mark"
  /\ UNCHANGED <<clock, arrays, rowE, whenE, mVars, history>>
  /\ Watch

\* A full byte sends the loop to the next one, and behind the last byte the
\* function returns without a word.
SkipByte ==
  /\ pcE = "scan" /\ Alive
  /\ bmp[rowE] = Cols
  /\ IF rowE + 1 \in Rows
       THEN rowE' = rowE + 1 /\ UNCHANGED <<pcE, whenE, dropped>>
       ELSE /\ pcE' = "idle" /\ rowE' = 0 /\ whenE' = 0
            /\ dropped' = dropped \cup {issued}
  /\ UNCHANGED <<clock, arrays, regE, slotE, mVars, issued, due, runs>>
  /\ Watch

\* schedule_bmp[i] |= 1 << j, with the byte as it was loaded.
MarkBit ==
  /\ pcE = "mark" /\ Alive
  /\ bmp' = [bmp EXCEPT ![slotE[1]] = regE \cup {slotE[2]}]
  /\ pcE' = "function" /\ regE' = {}
  /\ UNCHANGED <<clock, function, when, rowE, slotE, whenE, mVars, history>>
  /\ Watch

StoreFunction ==
  /\ pcE = "function" /\ Alive
  /\ function' = [function EXCEPT ![slotE] = issued]
  /\ pcE' = "when"
  /\ UNCHANGED <<clock, bmp, when, rowE, regE, slotE, whenE, mVars, history>>
  /\ Watch

StoreWhen ==
  /\ pcE = "when" /\ Alive
  /\ when' = [when EXCEPT ![slotE] = whenE]
  /\ pcE' = "idle" /\ rowE' = 0 /\ slotE' = <<0, 0>> /\ whenE' = 0
  /\ UNCHANGED <<clock, bmp, function, regE, mVars, history>>
  /\ Watch

schedule_function ==
  Schedule \/ ScanByte \/ SkipByte \/ MarkBit \/ StoreFunction \/ StoreWhen

------------------------------------------------------------------------------
\* The main thread: do_task, over and over.

\* MUTANT of NextSlot: the loop runs once too often.
NextSlotTooFar(s) ==
  IF s[2] + 1 \in Cols THEN <<s[1], s[2] + 1>> ELSE <<s[1] + 1, 0>>

NextSlot(s) ==
  IF s[2] + 1 \in Cols THEN <<s[1], s[2] + 1>>
  ELSE IF s[1] + 1 \in Rows THEN <<s[1] + 1, 0>> ELSE <<0, 0>>

\* when is loaded to be compared with the clock, and again to be compared with 0.
LoadWhen ==
  /\ pcM = "load"
  /\ whenM' = when[slotM]
  /\ pcM' = "test"
  /\ UNCHANGED <<clock, arrays, eVars, slotM, regM, left, history, overlapped>>

\* MUTANT of TestWhen: the test for an empty entry is dropped.
TestWhenOnce ==
  /\ pcM = "test"
  /\ IF whenM < clock
       THEN pcM' = "call" /\ UNCHANGED slotM
       ELSE pcM' = "load" /\ slotM' = NextSlot(slotM)
  /\ whenM' = 0
  /\ UNCHANGED <<clock, arrays, eVars, regM, left, history, overlapped>>

TestWhen ==
  /\ pcM = "test"
  /\ IF whenM < clock /\ when[slotM] # 0
       THEN pcM' = "call" /\ UNCHANGED slotM
       ELSE pcM' = "load" /\ slotM' = NextSlot(slotM)
  /\ whenM' = 0
  /\ UNCHANGED <<clock, arrays, eVars, regM, left, history, overlapped>>

\* A call through the zero of memset ends the process.
CallFunction ==
  /\ pcM = "call"
  /\ IF function[slotM] = NULL
       THEN pcM' = "crashed" /\ UNCHANGED <<left, runs>>
       ELSE /\ pcM' = "complete" /\ left' = {"entry", "bit"}
            /\ runs' = [runs EXCEPT ![function[slotM]] = @ + 1]
  /\ UNCHANGED <<clock, arrays, eVars, slotM, whenM, regM, issued, due, dropped>>
  /\ Watch

\* task_complete is over when both of its stores are.
CompleteOr(rest) ==
  /\ left' = rest
  /\ IF rest = {} THEN pcM' = "load" /\ slotM' = NextSlot(slotM)
                  ELSE pcM' = "complete" /\ UNCHANGED slotM

\* MUTANT of WipeEntry: the entry is left in the list.
WipeNothing ==
  /\ pcM = "complete" /\ "entry" \in left
  /\ CompleteOr(left \ {"entry"})
  /\ UNCHANGED <<clock, arrays, eVars, whenM, regM, history>>
  /\ Watch

WipeEntry ==
  /\ pcM = "complete" /\ "entry" \in left
  /\ function' = [function EXCEPT ![slotM] = NULL]
  /\ when' = [when EXCEPT ![slotM] = 0]
  /\ CompleteOr(left \ {"entry"})
  /\ UNCHANGED <<clock, bmp, eVars, whenM, regM, history>>
  /\ Watch

\* schedule_bmp[byte] &= ~(1 << bit).
LoadByte ==
  /\ pcM = "complete" /\ "bit" \in left
  /\ regM' = bmp[slotM[1]]
  /\ pcM' = "store"
  /\ UNCHANGED <<clock, arrays, eVars, slotM, whenM, left, history>>
  /\ Watch

\* MUTANT of ClearBit: a bit next to the task's is cleared.
ClearNextBit ==
  /\ pcM = "store"
  /\ bmp' = [bmp EXCEPT ![slotM[1]] = regM \ {slotM[2] + 1}]
  /\ regM' = {}
  /\ CompleteOr(left \ {"bit"})
  /\ UNCHANGED <<clock, function, when, eVars, whenM, history>>
  /\ Watch

ClearBit ==
  /\ pcM = "store"
  /\ bmp' = [bmp EXCEPT ![slotM[1]] = regM \ {slotM[2]}]
  /\ regM' = {}
  /\ CompleteOr(left \ {"bit"})
  /\ UNCHANGED <<clock, function, when, eVars, whenM, history>>
  /\ Watch

task_complete == WipeEntry \/ LoadByte \/ ClearBit

do_task == LoadWhen \/ TestWhen \/ CallFunction \/ task_complete

------------------------------------------------------------------------------
Next == Tick \/ schedule_function \/ do_task

Spec == Init /\ [][Next]_vars

\* Time passes, the main thread goes round its loop, and the emulation thread
\* finishes a call it has begun; nothing makes it begin one.
Fairness ==
  /\ WF_vars(Tick)
  /\ WF_vars(do_task)
  /\ WF_vars(ScanByte \/ SkipByte \/ MarkBit \/ StoreFunction \/ StoreWhen)

FairSpec == Spec /\ Fairness

------------------------------------------------------------------------------
\* A job is put in once and removed after it has run: it never runs twice,
\* however the threads interleave in schedule_function and task_complete.
AtMostOnce == \A j \in Jobs : runs[j] <= 1

\* The slots with a bit in the bitmap.
Marked == {s \in Slots : s[2] \in bmp[s[1]]}

\* The slots that someone needs: the one whose task is being completed keeps its
\* bit to the end, the others have an entry or are about to get one.
InUse ==
  {s \in Slots :
     IF Completing /\ s = slotM
       THEN "bit" \in left
       ELSE when[s] # 0 \/ (pcE \in {"function", "when"} /\ s = slotE)}

\* As long as schedule_function and task_complete never overlap, the bitmap is
\* exactly the slots in use: no slot is lost and none is given out twice.
BitmapIsExact == ~overlapped => Marked = InUse

\* Nor is a zero pointer called, which would end the emulator.
NullIsNotCalled == ~overlapped => pcM # "crashed"

\* Every job runs, unless it found the list full or the two functions overlapped.
EveryJobRuns ==
  \A j \in Jobs : (issued >= j) ~> (runs[j] > 0 \/ j \in dropped \/ overlapped)

==============================================================================
