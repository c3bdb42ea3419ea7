------------------------------- MODULE Machine -------------------------------
(***************************************************************************)
(* Interrupts of the emulated machine: the keyboard and the disk on one    *)
(* side, the IRQ handler, the disk routines and the terminal of the kernal *)
(* on the other.                                                           *)
(*                                                                         *)
(* A step of the CPU is one round of emulate_thread: an interrupt or an    *)
(* instruction, and tick_control_register.  Instructions that touch        *)
(* nothing the main thread or the handler touches are part of the step     *)
(* before them.  The main thread runs keyboard_request, whose two stores   *)
(* are two steps, and send_irq.                                            *)
(*                                                                         *)
(* SDL leaves the last event in place when there is no new one, and update *)
(* handles it again: such a repeated request is a key like any other here. *)
(*                                                                         *)
(* No user program is running (CURRENT_PROGRAM_BASE is 0).                 *)
(***************************************************************************)
EXTENDS Integers, Sequences

CONSTANTS Chars,       \* scan codes of characters
          Disks,       \* the disk numbers a command may name; 4 selects none
          Connected,   \* the disks given with -disk
          MaxKeys      \* bound: calls of keyboard_request

ASSUME DisksAssumption ==
  /\ Connected \subseteq 1..3
  /\ 1 \in Disks /\ Disks \subseteq 1..4
ASSUME MaxKeysAssumption == MaxKeys \in Nat
ASSUME CharsAssumption == Chars \cap {"enter", "backspace", "none"} = {}

Scans == Chars \cup {"enter", "backspace"}
None  == "none"

VARIABLES
  low,        \* pin_IRQ is 0
  scan,       \* zero page $3
  status,     \* TERMINAL_STATUS: none, or what the handler saw
  mask,       \* the I flag
  waiting,    \* the W flag of emulator_flags
  irq,        \* place in irq_handler; none outside of it
  pc,         \* place in the terminal and the disk routines
  command,    \* what the requests are for: boot or dir
  todo,       \* the requests of the command, the current one first
  saved,      \* the I flag php has pushed
  result,     \* what the disk routine has returned
  code, done, \* DISK_REG_CODE, and the disks whose completion bit is set
  last,       \* the timer entry of the last request: new, ripe behind its WAI,
              \* lost, or early, when it has run before the WAI
  older,      \* how many entries of earlier requests are still to fire
  line,       \* the terminal buffer is not empty
  pcMain, keys,         \* main thread: place, keyboard requests so far
  owed, watched, seen   \* history: see ActsAreCaused, IdleKeyTyped, AckedIsHandled

device   == <<code, done, last, older>>
kernal   == <<pc, command, todo, saved, result, line>>
keyboard == <<pcMain, keys>>
vars == <<low, scan, status, mask, waiting, irq, kernal, device, keyboard,
          owed, watched, seen>>

Kinds    == {"enter", "backspace", "char"}
Requests == [op : {"read", "write"}, disk : Disks]
Asking   == {"bind", "start", "wai", "check", "next"}

FlagsOK ==
  /\ low \in BOOLEAN /\ mask \in BOOLEAN /\ saved \in BOOLEAN
  /\ waiting \in BOOLEAN /\ line \in BOOLEAN /\ seen \in BOOLEAN

ValuesOK ==
  /\ scan \in Scans \cup {None} /\ watched \in Scans \cup {None}
  /\ status \in Kinds \cup {None}
  /\ irq \in {None, "classify", "ack"}
  /\ pc \in {"poll", "char", "clear", "end"} \cup Asking
  /\ command \in {"boot", "dir"}
  /\ todo \in Seq(Requests)
  /\ pc \in Asking => todo # <<>>
  /\ result \in {None, "ok", "failed"}
  /\ code \in 0..4 /\ done \subseteq 1..3
  /\ last \in {None, "new", "ripe", "lost", "early"} /\ older \in Nat
  /\ pcMain \in {"loop", "pin"} /\ keys \in 0..MaxKeys
  /\ owed \in Int

TypeOK == FlagsOK /\ ValuesOK

Read(d)  == [op |-> "read", disk |-> d]
Write(d) == [op |-> "write", disk |-> d]

\* fs_initialize and fs_new_dir_desc: the initial directory is read twice and
\* written back, the next directory is read if there is one, then the directory
\* that links to the new descriptor and the descriptor are written.
BootRequests ==
  {<<Read(1), Read(1), Write(1)>> \o next \o <<Write(1), Write(1)>> :
     next \in {<<>>, <<Read(1)>>}}

\* fs_list_directory: the initial directory, and the next one of disk 1.
DirRequests == {<<Read(d)>> : d \in Disks} \cup {<<Read(d), Read(1)>> : d \in Disks}

\* The kernal at its first fs_initialize, behind cli.
Init ==
  /\ low = FALSE /\ scan = None /\ status = None
  /\ mask = FALSE /\ waiting = FALSE /\ irq = None
  /\ pc = "bind" /\ command = "boot" /\ todo \in BootRequests
  /\ saved = FALSE /\ result = None /\ line = FALSE
  /\ code = 0 /\ done = {} /\ last = None /\ older = 0
  /\ pcMain = "loop" /\ keys = 0
  /\ owed = 0 /\ watched = None /\ seen = TRUE

------------------------------------------------------------------------------
\* The main thread.

\* The machine is at its prompt and no interrupt is on its way.
Quiet ==
  /\ pc = "poll" /\ status = None /\ irq = None /\ ~low
  /\ last \in {None, "lost", "early"} /\ older = 0

\* keyboard_request: the scan code is stored, then the pin pulled low.
KeyScan(k) ==
  /\ pcMain = "loop" /\ keys < MaxKeys
  /\ scan' = k
  /\ pcMain' = "pin" /\ keys' = keys + 1
  /\ watched' = IF Quiet THEN k ELSE None
  /\ seen' = FALSE
  /\ UNCHANGED <<low, status, mask, waiting, irq, kernal, device, owed>>

\* MUTANT of KeyPin: the pin is set instead of cleared.
KeyPinHigh ==
  /\ pcMain = "pin"
  /\ low' = FALSE /\ owed' = owed + 1
  /\ pcMain' = "loop"
  /\ UNCHANGED <<scan, status, mask, waiting, irq, kernal, device, keys, watched,
                 seen>>

KeyPin ==
  /\ pcMain = "pin"
  /\ low' = TRUE /\ owed' = owed + 1
  /\ pcMain' = "loop"
  /\ UNCHANGED <<scan, status, mask, waiting, irq, kernal, device, keys, watched,
                 seen>>

\* do_task runs an entry that is due, or one that schedule_function is just
\* filling: it reads the zero of the empty slot for the time that has passed and
\* the new time for the one that is not 0 (shceduler.c:39, TestWhen of Scheduler).
send_irq ==
  /\ pcMain = "loop"
  /\ low' = TRUE /\ owed' = owed + 1
  /\ \/ older > 0 /\ older' = older - 1 /\ UNCHANGED last
     \/ last = "ripe" /\ last' = None /\ UNCHANGED older
     \/ last = "new" /\ last' = "early" /\ UNCHANGED older
  /\ UNCHANGED <<scan, status, mask, waiting, irq, kernal, code, done, keyboard,
                 watched, seen>>

------------------------------------------------------------------------------
\* The CPU: interrupts.

Pending == low /\ ~mask

\* call_interrupt: the waiting CPU goes on, the I flag is pushed and set.
call_interrupt ==
  /\ Pending
  /\ waiting' = FALSE /\ mask' = TRUE
  /\ irq' = "classify"
  /\ UNCHANGED <<low, scan, status, kernal, device, keyboard, owed, watched, seen>>

KindOf(k) == IF k \in {"enter", "backspace"} THEN k ELSE "char"

\* terminal_handler: whatever the interrupt is for, the scan code is looked at.
terminal_handler ==
  /\ irq = "classify"
  /\ status' = KindOf(scan)
  /\ seen' = TRUE
  /\ irq' = "ack"
  /\ UNCHANGED <<low, scan, mask, waiting, kernal, device, keyboard, owed, watched>>

\* The store to IRQ_ACK_BYTE, which releases the pin for every device, and RTI.
Acknowledge ==
  /\ irq = "ack"
  /\ low' = FALSE
  /\ irq' = None /\ mask' = FALSE
  /\ UNCHANGED <<scan, status, waiting, kernal, device, keyboard, owed, watched,
                 seen>>

------------------------------------------------------------------------------
\* The CPU: read_disk and write_disk.

Running == irq = None /\ ~Pending /\ ~waiting

outside == <<low, scan, irq, keyboard, owed, watched, seen>>

\* php, cli and the selection of the disk, which clears the completion bits.
Bind ==
  /\ Running /\ pc = "bind"
  /\ saved' = mask /\ mask' = FALSE
  /\ done' = {}
  /\ pc' = "start"
  /\ UNCHANGED <<status, waiting, command, todo, result, line, code, last, older,
                 outside>>

\* disk_operation_buffer: several disks or none are code 3, a disk that is not
\* there is code 4, the others answer with their index.
CodeOf(disk) ==
  IF disk = 4 THEN 3 ELSE IF disk \notin Connected THEN 4 ELSE disk - 1

\* D1 is stored and tick_control_register performs the request at once; only its
\* interrupt is delayed.  The new timer entry may be lost while do_task removes
\* an earlier one (Scheduler).
Start ==
  /\ Running /\ pc = "start"
  /\ code' = CodeOf(Head(todo).disk)
  /\ done' = IF code' <= 2 THEN {code' + 1} ELSE {}
  /\ older' = IF last \in {"new", "ripe"} THEN older + 1 ELSE older
  /\ last' \in IF older' > 0 THEN {"new", "lost"} ELSE {"new"}
  /\ pc' = "wai"
  /\ UNCHANGED <<status, mask, waiting, command, todo, saved, result, line, outside>>

WaitForIrq ==
  /\ Running /\ pc = "wai"
  /\ waiting' = TRUE
  /\ last' = IF last = "new" THEN "ripe" ELSE last
  /\ pc' = "check"
  /\ UNCHANGED <<status, mask, command, todo, saved, result, line, code, done, older,
                 outside>>

Return(r) ==
  /\ result' = r
  /\ mask' = saved
  /\ pc' = "next"

Failed   == Head(todo).op = "read" /\ code >= 3
Complete == Head(todo).disk \in done

\* MUTANTS of Check: every interrupt counts as the completion; code 3 is taken
\* for a success.
CheckNothing ==
  /\ Running /\ pc = "check"
  /\ Return("ok")
  /\ UNCHANGED <<status, waiting, command, todo, saved, line, device, outside>>

CheckAboveThree ==
  /\ Running /\ pc = "check"
  /\ IF Failed /\ code > 3 THEN Return("failed")
     ELSE IF Complete THEN Return("ok")
     ELSE pc' = "wai" /\ UNCHANGED <<mask, result>>
  /\ UNCHANGED <<status, waiting, command, todo, saved, line, device, outside>>

\* Behind the WAI: only read_disk looks at the code before the completion bit.
Check ==
  /\ Running /\ pc = "check"
  /\ IF Failed THEN Return("failed")
     ELSE IF Complete THEN Return("ok")
     ELSE pc' = "wai" /\ UNCHANGED <<mask, result>>
  /\ UNCHANGED <<status, waiting, command, todo, saved, line, device, outside>>

\* MUTANT of NextRequest: the caller does not notice that it is through.
NextRequestAlways ==
  /\ Running /\ pc = "next"
  /\ todo' = Tail(todo)
  /\ pc' = "bind" /\ mask' = TRUE
  /\ UNCHANGED <<status, waiting, command, saved, result, line, device, outside>>

\* The caller goes on: a directory is listed only if it was read, the boot looks
\* at no result.  Behind its first request interrupts are disabled (sei).
NextRequest ==
  /\ Running /\ pc = "next"
  /\ IF Tail(todo) = <<>> \/ (command = "dir" /\ result = "failed")
       THEN todo' = <<>> /\ pc' = "end" /\ UNCHANGED mask
       ELSE todo' = Tail(todo) /\ pc' = "bind" /\ mask' = TRUE
  /\ UNCHANGED <<status, waiting, command, saved, result, line, device, outside>>

\* MUTANT of EndCommand: the return path without cli.
EndCommandMasked ==
  /\ Running /\ pc = "end"
  /\ pc' = "clear"
  /\ UNCHANGED <<status, mask, waiting, command, todo, saved, result, line, device,
                 outside>>

\* cli and the return to the terminal.
EndCommand ==
  /\ Running /\ pc = "end"
  /\ mask' = FALSE
  /\ pc' = "clear"
  /\ UNCHANGED <<status, waiting, command, todo, saved, result, line, device, outside>>

------------------------------------------------------------------------------
\* The CPU: the terminal.

Act(k) ==
  /\ owed' = owed - 1
  /\ watched' = IF k = watched THEN None ELSE watched

Terminal(kind) == Running /\ pc = "poll" /\ status = kind

\* A line is executed: DIR reads disks, the other commands do not matter here.
\* The buffer is cleared behind it, so that the next line starts empty.
Enter ==
  /\ Terminal("enter")
  /\ Act("enter")
  /\ line' = FALSE
  /\ \/ /\ pc' = "clear"
        /\ UNCHANGED <<mask, command, todo>>
     \/ /\ line
        /\ command' = "dir" /\ todo' \in DirRequests
        /\ pc' = "bind" /\ mask' = TRUE
  /\ UNCHANGED <<low, scan, status, waiting, irq, saved, result, device, keyboard,
                 seen>>

Backspace ==
  /\ Terminal("backspace")
  /\ Act("backspace")
  /\ line' \in {line, FALSE}
  /\ pc' = "clear"
  /\ UNCHANGED <<low, scan, status, mask, waiting, irq, command, todo, saved, result,
                 device, keyboard, seen>>

RegChar ==
  /\ Terminal("char")
  /\ pc' = "char"
  /\ UNCHANGED <<status, mask, waiting, command, todo, saved, result, line, device,
                 outside>>

\* reg_char_routine reads the scan code again.
TypeChar ==
  /\ Running /\ pc = "char"
  /\ Act(scan)
  /\ line' = TRUE
  /\ pc' = "clear"
  /\ UNCHANGED <<low, scan, status, mask, waiting, irq, command, todo, saved, result,
                 device, keyboard, seen>>

\* MUTANT of Clear: the status is left as it is.
ClearNothing ==
  /\ Running /\ pc = "clear"
  /\ pc' = "poll"
  /\ UNCHANGED <<status, mask, waiting, command, todo, saved, result, line, device,
                 outside>>

\* "Zero status, we have handled it": also what came in since it was read.
Clear ==
  /\ Running /\ pc = "clear"
  /\ status' = None
  /\ pc' = "poll"
  /\ UNCHANGED <<mask, waiting, command, todo, saved, result, line, device, outside>>

------------------------------------------------------------------------------
Interrupts == call_interrupt \/ terminal_handler \/ Acknowledge
DiskDriver == Bind \/ Start \/ WaitForIrq \/ Check \/ NextRequest \/ EndCommand
Prompt     == Enter \/ Backspace \/ RegChar \/ TypeChar \/ Clear

CPU  == Interrupts \/ DiskDriver \/ Prompt
Main == (\E k \in Scans : KeyScan(k)) \/ KeyPin \/ send_irq

Next == CPU \/ Main

Spec == Init /\ [][Next]_vars

\* The CPU executes instructions, the main thread finishes keyboard_request and
\* goes round its loop, where do_task finds what is due; no key has to come.
Fairness == WF_vars(CPU) /\ WF_vars(KeyPin) /\ WF_vars(send_irq)

FairSpec == Spec /\ Fairness

------------------------------------------------------------------------------
\* What read_disk and write_disk tell their caller is true of this request and
\* not of an earlier one, although interrupts of the keyboard and of earlier
\* requests end the wait as well: success exactly if the disk is connected.
ResultIsRight ==
  pc = "next" => (result = "ok" <=> Head(todo).disk \in Connected)

\* The terminal acts at most once for an interrupt: owed is the number of
\* interrupts requested (keyboard_request, send_irq) minus the actions.
ActsAreCaused == owed >= 0

\* A request of the disk returns to its caller, unless the race of
\* schedule_function with do_task has lost its timer entry or has run it before
\* the CPU was at its WAI.
RequestReturns ==
  (pc \in Asking \ {"next"}) ~> (pc = "next" \/ last \in {"lost", "early"})

\* A key pressed at the prompt, with no interrupt under way and no other key
\* behind it, is typed: it survives the zero page, the handler and the mailbox.
IdleKeyTyped == \A k \in Scans : (watched = k) ~> (watched # k)

\* An interrupt is acknowledged some day, also one that comes in a section
\* between sei and cli.
IrqIsServed == low ~> ~low

\* With the acknowledgement "all interrupts have been taken care off"
\* (kernal.s:1265): the handler has looked at the key of each of them.
AckedIsHandled == [][low /\ ~low' => seen \/ pcMain = "pin"]_vars

==============================================================================
