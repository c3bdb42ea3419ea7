---------------------------- MODULE MachineProofs ----------------------------
(***************************************************************************)
(* Proofs about Machine, for any characters, disks and number of keys, and *)
(* with or without the assumption that the CPU is in time.                 *)
(***************************************************************************)
EXTENDS Machine, TLAPS

------------------------------------------------------------------------------
(* The inductive invariant.                                                *)

\* The registers of the disk answer the request that is waited for: D1 makes the
\* device answer in the same round, whatever interrupts come before the check.
DeviceAnswers ==
  pc \in {"wai", "check"} =>
    /\ code = CodeOf(Head(todo).disk)
    /\ done = IF code <= 2 THEN {code + 1} ELSE {}

\* irq_handler is not interrupted.
HandlerIsMasked == irq # None => mask

\* Somebody still has to look at an interrupt; the terminal has to act on one.
ToHandle == irq = "classify" \/ (irq = None /\ low)
ToAct    == pc = "char" \/ (pc = "poll" /\ status # None)

One(b) == IF b THEN 1 ELSE 0

\* There is an interrupt for everything that is still to be done.
Covered == owed >= One(ToHandle) + One(ToAct)

IInv ==
  /\ TypeOK
  /\ DeviceAnswers
  /\ ResultIsRight
  /\ HandlerIsMasked
  /\ Covered

------------------------------------------------------------------------------
\* The rest of the requests are requests again.
LEMMA RestOfRequests ==
  ASSUME NEW s \in Seq(Requests), s # <<>>
  PROVE  Head(s) \in Requests /\ Tail(s) \in Seq(Requests)
  OBVIOUS

\* A request names one of the disks 1 to 4.
LEMMA RequestNamesDisk ==
  ASSUME NEW r \in Requests
  PROVE  r.disk \in 1..4
  BY DisksAssumption DEF Requests

\* disk_operation_buffer answers with the index of a connected disk, and with an
\* error for all others.
LEMMA CodeTellsConnected ==
  ASSUME NEW d \in 1..4
  PROVE  /\ CodeOf(d) \in 0..4
         /\ CodeOf(d) <= 2 <=> d \in Connected
         /\ CodeOf(d) <= 2 => d = CodeOf(d) + 1
  BY DisksAssumption DEF CodeOf

\* The requests of the boot and of DIR are sequences of requests, and none is
\* empty.
LEMMA CommandsAreRequests ==
  /\ BootRequests \subseteq Seq(Requests) \ {<<>>}
  /\ DirRequests \subseteq Seq(Requests) \ {<<>>}
<1>1. /\ Read(1) \in Requests /\ Write(1) \in Requests
      /\ \A d \in Disks : Read(d) \in Requests
  BY DisksAssumption DEF Read, Write, Requests
<1>2. DirRequests \subseteq Seq(Requests) \ {<<>>}
  <2>1. \A r, s \in Requests :
          /\ <<r>> \in Seq(Requests) \ {<<>>}
          /\ <<r, s>> \in Seq(Requests) \ {<<>>}
    OBVIOUS
  <2>2. QED
    BY <1>1, <2>1 DEF DirRequests
<1>3. BootRequests \subseteq Seq(Requests) \ {<<>>}
  <2> DEFINE r == Read(1)
             w == Write(1)
  <2>1. r \in Requests /\ w \in Requests
    BY <1>1
  <2> HIDE DEF r, w
  <2>2. /\ <<r, r, w>> \in Seq(Requests) /\ <<w, w>> \in Seq(Requests)
        /\ <<>> \in Seq(Requests) /\ <<r>> \in Seq(Requests)
    BY <2>1
  <2>3. \A n \in Seq(Requests) : <<r, r, w>> \o n \in Seq(Requests)
    BY <2>2
  <2>4. \A n \in Seq(Requests) :
          n \o <<w, w>> \in Seq(Requests) /\ n \o <<w, w>> # <<>>
    BY <2>1
  <2>5. QED
    BY <2>2, <2>3, <2>4 DEF BootRequests, r, w
<1>4. QED
  BY <1>2, <1>3

\* The machine at the beginning of fs_initialize satisfies the invariant.
LEMMA IInvInit == Init => IInv
<1> SUFFICES ASSUME Init PROVE IInv
  OBVIOUS
<1>1. FlagsOK
  BY DEF Init, FlagsOK
<1>2. todo \in Seq(Requests) /\ todo # <<>>
  BY CommandsAreRequests DEF Init
<1>3. ValuesOK
  BY <1>2, MaxKeysAssumption DEF Init, ValuesOK, Asking
<1>4. DeviceAnswers /\ ResultIsRight /\ HandlerIsMasked
  BY DEF Init, DeviceAnswers, ResultIsRight, HandlerIsMasked, None
<1>5. Covered
  BY DEF Init, Covered, One, ToHandle, ToAct, None
<1>6. QED
  BY <1>1, <1>3, <1>4, <1>5 DEF IInv, TypeOK

------------------------------------------------------------------------------
\* The main thread touches the pin, the scan code and the timer entries only.
LEMMA MainStep == IInv /\ Main => IInv'
<1> SUFFICES ASSUME IInv, Main PROVE IInv'
  OBVIOUS
<1> USE DEF IInv
<1>1. ASSUME NEW k \in Scans, KeyScan(k) PROVE IInv'
  <2>1a. FlagsOK'
    BY Zenon, <1>1 DEF KeyScan, kernal, device, TypeOK, FlagsOK
  <2>1b. ValuesOK'
    BY <1>1, MaxKeysAssumption DEF KeyScan, kernal, device, Scans, None, Asking,
                                   TypeOK, ValuesOK
  <2>1. TypeOK'
    BY <2>1a, <2>1b DEF TypeOK
  <2>2. DeviceAnswers' /\ ResultIsRight' /\ HandlerIsMasked'
    BY <1>1 DEF KeyScan, kernal, device, DeviceAnswers, ResultIsRight, HandlerIsMasked
  <2>3. Covered'
    BY <1>1 DEF KeyScan, kernal, Covered, One, ToHandle, ToAct
  <2>4. QED
    BY <2>1, <2>2, <2>3
<1>2. CASE KeyPin
  <2>1a. FlagsOK'
    BY Zenon, <1>2 DEF KeyPin, kernal, device, TypeOK, FlagsOK
  <2>1b. ValuesOK'
    BY <1>2 DEF KeyPin, kernal, device, Asking, TypeOK, ValuesOK
  <2>1. TypeOK'
    BY <2>1a, <2>1b DEF TypeOK
  <2>2. DeviceAnswers' /\ ResultIsRight' /\ HandlerIsMasked'
    BY <1>2 DEF KeyPin, kernal, device, DeviceAnswers, ResultIsRight, HandlerIsMasked
  <2>3. Covered'
    BY <1>2 DEF KeyPin, kernal, TypeOK, ValuesOK, Covered, One, ToHandle, ToAct
  <2>4. QED
    BY <2>1, <2>2, <2>3
<1>3. CASE send_irq
  <2>1a. FlagsOK'
    BY Zenon, <1>3 DEF send_irq, kernal, keyboard, TypeOK, FlagsOK
  <2>1b. ValuesOK'
    BY <1>3 DEF send_irq, kernal, keyboard, Asking, TypeOK, ValuesOK
  <2>1. TypeOK'
    BY <2>1a, <2>1b DEF TypeOK
  <2>2. DeviceAnswers' /\ ResultIsRight' /\ HandlerIsMasked'
    BY <1>3 DEF send_irq, kernal, DeviceAnswers, ResultIsRight, HandlerIsMasked
  <2>3. Covered'
    BY <1>3 DEF send_irq, kernal, TypeOK, ValuesOK, Covered, One, ToHandle,
                ToAct
  <2>4. QED
    BY <2>1, <2>2, <2>3
<1>4. QED
  BY <1>1, <1>2, <1>3 DEF Main

\* The interrupt sequence and the handler.
LEMMA InterruptStep == IInv /\ Interrupts => IInv'
<1> SUFFICES ASSUME IInv, Interrupts PROVE IInv'
  OBVIOUS
<1> USE DEF IInv
<1>1. CASE call_interrupt
  <2>1a. FlagsOK'
    BY Zenon, <1>1 DEF call_interrupt, kernal, device, keyboard, TypeOK, FlagsOK
  <2>1b. ValuesOK'
    BY <1>1 DEF call_interrupt, kernal, device, keyboard, Asking, TypeOK,
         ValuesOK
  <2>1. TypeOK'
    BY <2>1a, <2>1b DEF TypeOK
  <2>2. DeviceAnswers' /\ ResultIsRight' /\ HandlerIsMasked'
    BY <1>1 DEF call_interrupt, kernal, device, DeviceAnswers, ResultIsRight,
                HandlerIsMasked
  <2>3. ToHandle
    BY <1>1 DEF call_interrupt, Pending, HandlerIsMasked, ToHandle
  <2>4. ToHandle' /\ owed' = owed /\ (ToAct' <=> ToAct)
    BY <1>1 DEF call_interrupt, kernal, ToHandle, ToAct
  <2>5. Covered'
    BY <2>3, <2>4 DEF Covered, One
  <2>6. QED
    BY <2>1, <2>2, <2>5
<1>2. CASE terminal_handler
  <2>1a. FlagsOK'
    BY Zenon, <1>2 DEF terminal_handler, kernal, device, keyboard, TypeOK,
         FlagsOK
  <2>1b. ValuesOK'
    BY <1>2 DEF terminal_handler, kernal, device, keyboard, Asking, KindOf,
         Kinds, TypeOK, ValuesOK
  <2>1. TypeOK'
    BY <2>1a, <2>1b DEF TypeOK
  <2>2. DeviceAnswers' /\ ResultIsRight' /\ HandlerIsMasked'
    BY <1>2 DEF terminal_handler, kernal, device, DeviceAnswers, ResultIsRight,
                HandlerIsMasked, None
  <2>3. Covered'
    BY <1>2 DEF terminal_handler, kernal, TypeOK, ValuesOK, Covered, One,
                ToHandle, ToAct, None
  <2>4. QED
    BY <2>1, <2>2, <2>3
<1>3. CASE Acknowledge
  <2>1a. FlagsOK'
    BY Zenon, <1>3 DEF Acknowledge, kernal, device, keyboard, TypeOK, FlagsOK
  <2>1b. ValuesOK'
    BY <1>3 DEF Acknowledge, kernal, device, keyboard, Asking, TypeOK, ValuesOK
  <2>1. TypeOK'
    BY <2>1a, <2>1b DEF TypeOK
  <2>2. DeviceAnswers' /\ ResultIsRight' /\ HandlerIsMasked'
    BY <1>3 DEF Acknowledge, kernal, device, DeviceAnswers, ResultIsRight,
                HandlerIsMasked
  <2>3. Covered'
    BY <1>3 DEF Acknowledge, kernal, Covered, One, ToHandle, ToAct, None
  <2>4. QED
    BY <2>1, <2>2, <2>3
<1>4. QED
  BY <1>1, <1>2, <1>3 DEF Interrupts

\* A step of the disk routines is none of the terminal's, and the interrupts stay
\* as they are.
LEMMA DriverKeepsCover ==
  ASSUME Covered, HandlerIsMasked, pc \notin {"poll", "char"},
         pc' \notin {"poll", "char"}, UNCHANGED outside, irq = None
  PROVE  Covered' /\ HandlerIsMasked'
  BY DEF Covered, HandlerIsMasked, One, ToHandle, ToAct, outside

\* The disk routines and their callers.
LEMMA DriverStep == IInv /\ DiskDriver => IInv'
<1> SUFFICES ASSUME IInv, DiskDriver PROVE IInv'
  OBVIOUS
<1>a. /\ TypeOK /\ DeviceAnswers /\ ResultIsRight /\ HandlerIsMasked /\ Covered
      /\ irq = None
  BY DEF IInv, DiskDriver, Bind, Start, WaitForIrq, Check, NextRequest, EndCommand,
         Running
<1>b. UNCHANGED outside
  BY DEF DiskDriver, Bind, Start, WaitForIrq, Check, NextRequest, EndCommand, outside
<1>1. CASE Bind
  <2>1a. FlagsOK'
    BY Zenon, <1>1, <1>a DEF Bind, outside, keyboard, TypeOK, FlagsOK
  <2>1b. ValuesOK'
    BY <1>1, <1>a DEF Bind, outside, keyboard, Asking, TypeOK, ValuesOK
  <2>1. TypeOK'
    BY <2>1a, <2>1b DEF TypeOK
  <2>2. DeviceAnswers' /\ ResultIsRight'
    BY <1>1 DEF Bind, DeviceAnswers, ResultIsRight
  <2>3. QED
    BY <1>1, <1>a, <1>b, <2>1, <2>2, DriverKeepsCover DEF Bind, IInv
<1>2. CASE Start
  <2>1. todo # <<>> /\ Head(todo).disk \in 1..4
    BY <1>2, <1>a, RestOfRequests, RequestNamesDisk DEF Start, TypeOK, ValuesOK,
                                                          Asking
  <2>2. code' \in 0..4 /\ done' \subseteq 1..3
    BY <1>2, <2>1, CodeTellsConnected DEF Start
  <2>3a. FlagsOK'
    BY Zenon, <1>2, <1>a, <2>2 DEF Start, outside, keyboard, TypeOK, FlagsOK
  <2>3b. ValuesOK'
    BY <1>2, <1>a, <2>2 DEF Start, outside, keyboard, Asking, TypeOK, ValuesOK
  <2>3. TypeOK'
    BY <2>3a, <2>3b DEF TypeOK
  <2>4. DeviceAnswers' /\ ResultIsRight'
    BY <1>2 DEF Start, DeviceAnswers, ResultIsRight
  <2>5. QED
    BY <1>2, <1>a, <1>b, <2>3, <2>4, DriverKeepsCover DEF Start, IInv
<1>3. CASE WaitForIrq
  <2>1a. FlagsOK'
    BY Zenon, <1>3, <1>a DEF WaitForIrq, outside, keyboard, TypeOK, FlagsOK
  <2>1b. ValuesOK'
    BY <1>3, <1>a DEF WaitForIrq, outside, keyboard, Asking, TypeOK, ValuesOK
  <2>1. TypeOK'
    BY <2>1a, <2>1b DEF TypeOK
  <2>2. DeviceAnswers' /\ ResultIsRight'
    BY <1>3, <1>a DEF WaitForIrq, DeviceAnswers, ResultIsRight
  <2>3. QED
    BY <1>3, <1>a, <1>b, <2>1, <2>2, DriverKeepsCover DEF WaitForIrq, IInv
<1>4. CASE Check
  <2>1a. FlagsOK'
    BY Zenon, <1>4, <1>a DEF Check, Return, device, outside, keyboard, TypeOK,
         FlagsOK
  <2>1b. ValuesOK'
    BY <1>4, <1>a DEF Check, Return, device, outside, keyboard, Asking, TypeOK,
         ValuesOK
  <2>1. TypeOK'
    BY <2>1a, <2>1b DEF TypeOK
  <2>2. pc = "check" /\ UNCHANGED <<todo, code, done>> /\ pc' \in {"next", "wai"}
    BY <1>4 DEF Check, Return, device
  <2>3. DeviceAnswers'
    BY <1>a, <2>2 DEF DeviceAnswers
  <2>4. ResultIsRight'
    <3>1. Head(todo).disk \in 1..4
      BY <1>a, <2>2, RestOfRequests, RequestNamesDisk DEF TypeOK, ValuesOK, Asking
    <3>2. /\ code \in 0..4
          /\ code <= 2 <=> Head(todo).disk \in Connected
          /\ code <= 2 => Head(todo).disk = code + 1
      BY <1>a, <2>2, <3>1, CodeTellsConnected DEF DeviceAnswers
    <3>3. Failed => Head(todo).disk \notin Connected
      BY <3>2 DEF Failed
    <3>4. Complete => Head(todo).disk \in Connected
      BY <1>a, <2>2, <3>2 DEF Complete, DeviceAnswers
    <3>5. pc' = "next" => \/ Failed /\ result' = "failed"
                          \/ Complete /\ result' = "ok"
      BY <1>4 DEF Check, Return
    <3>6. QED
      BY <2>2, <3>3, <3>4, <3>5 DEF ResultIsRight
  <2>5. QED
    BY <1>a, <1>b, <2>1, <2>2, <2>3, <2>4, DriverKeepsCover DEF IInv
<1>5. CASE NextRequest
  <2>1. todo # <<>> /\ Tail(todo) \in Seq(Requests)
    BY <1>5, <1>a, RestOfRequests DEF NextRequest, TypeOK, ValuesOK, Asking
  <2>a. \/ todo' = <<>> /\ pc' = "end"
        \/ Tail(todo) # <<>> /\ todo' = Tail(todo) /\ pc' = "bind"
    BY Zenon, <1>5 DEF NextRequest
  <2>b. <<>> \in Seq(Requests)
    OBVIOUS
  <2>2. /\ todo' \in Seq(Requests)
        /\ pc' \in {"end", "bind"} /\ (pc' = "bind" => todo' # <<>>)
    BY Zenon, <2>1, <2>a, <2>b
  <2>3a. FlagsOK'
    BY Zenon, <1>5, <1>a, <2>2 DEF NextRequest, device, outside, keyboard,
         TypeOK, FlagsOK
  <2>3b. ValuesOK'
    BY <1>5, <1>a, <2>2 DEF NextRequest, device, outside, keyboard, Asking,
         TypeOK, ValuesOK
  <2>3. TypeOK'
    BY <2>3a, <2>3b DEF TypeOK
  <2>4. DeviceAnswers' /\ ResultIsRight'
    BY <2>2 DEF DeviceAnswers, ResultIsRight
  <2>5. QED
    BY <1>5, <1>a, <1>b, <2>2, <2>3, <2>4, DriverKeepsCover DEF NextRequest, IInv
<1>6. CASE EndCommand
  <2>1a. FlagsOK'
    BY Zenon, <1>6, <1>a DEF EndCommand, device, outside, keyboard, TypeOK,
         FlagsOK
  <2>1b. ValuesOK'
    BY <1>6, <1>a DEF EndCommand, device, outside, keyboard, Asking, TypeOK,
         ValuesOK
  <2>1. TypeOK'
    BY <2>1a, <2>1b DEF TypeOK
  <2>2. DeviceAnswers' /\ ResultIsRight'
    BY <1>6 DEF EndCommand, DeviceAnswers, ResultIsRight
  <2>3. QED
    BY <1>6, <1>a, <1>b, <2>1, <2>2, DriverKeepsCover DEF EndCommand, IInv
<1>7. QED
  BY <1>1, <1>2, <1>3, <1>4, <1>5, <1>6 DEF DiskDriver

\* The terminal takes one interrupt off for every action, and clears the status
\* before it looks at it again.
LEMMA PromptStep == IInv /\ Prompt => IInv'
<1> SUFFICES ASSUME IInv, Prompt PROVE IInv'
  OBVIOUS
<1>a. /\ TypeOK /\ DeviceAnswers /\ ResultIsRight /\ HandlerIsMasked /\ Covered
      /\ irq = None
  BY DEF IInv, Prompt, Enter, Backspace, RegChar, TypeChar, Clear, Terminal, Running
<1>1. CASE Enter
  <2>1. /\ todo' \in Seq(Requests) /\ pc' \in {"clear", "bind"}
        /\ pc' = "bind" => todo' # <<>>
        /\ command' \in {"boot", "dir"} /\ mask' \in BOOLEAN
    BY <1>1, <1>a, CommandsAreRequests DEF Enter, TypeOK, FlagsOK, ValuesOK
  <2>2a. FlagsOK'
    BY Zenon, <1>1, <1>a, <2>1 DEF Enter, Act, device, keyboard, TypeOK, FlagsOK
  <2>2b. ValuesOK'
    BY <1>1, <1>a, <2>1 DEF Enter, Act, device, keyboard, Asking, TypeOK,
         ValuesOK
  <2>2. TypeOK'
    BY <2>2a, <2>2b DEF TypeOK
  <2>3. DeviceAnswers' /\ ResultIsRight' /\ HandlerIsMasked'
    BY <1>1, <1>a, <2>1 DEF Enter, DeviceAnswers, ResultIsRight, HandlerIsMasked
  <2>4. ToAct /\ ~ToAct' /\ owed' = owed - 1 /\ owed \in Int /\ (ToHandle' <=> ToHandle)
    BY <1>1, <1>a, <2>1 DEF Enter, Terminal, Act, ToAct, ToHandle, None, TypeOK,
                        ValuesOK
  <2>5. Covered'
    BY <1>a, <2>4 DEF Covered, One
  <2>6. QED
    BY <2>2, <2>3, <2>5 DEF IInv
<1>2. CASE Backspace
  <2>1a. FlagsOK'
    BY Zenon, <1>2, <1>a DEF Backspace, Act, device, keyboard, TypeOK, FlagsOK
  <2>1b. ValuesOK'
    BY <1>2, <1>a DEF Backspace, Act, device, keyboard, Asking, TypeOK, ValuesOK
  <2>1. TypeOK'
    BY <2>1a, <2>1b DEF TypeOK
  <2>2. DeviceAnswers' /\ ResultIsRight' /\ HandlerIsMasked'
    BY <1>2, <1>a DEF Backspace, DeviceAnswers, ResultIsRight, HandlerIsMasked
  <2>3. ToAct /\ ~ToAct' /\ owed' = owed - 1 /\ owed \in Int /\ (ToHandle' <=> ToHandle)
    BY <1>2, <1>a DEF Backspace, Terminal, Act, ToAct, ToHandle, None, TypeOK,
                        ValuesOK
  <2>4. Covered'
    BY <1>a, <2>3 DEF Covered, One
  <2>5. QED
    BY <2>1, <2>2, <2>4 DEF IInv
<1>3. CASE RegChar
  <2>1a. FlagsOK'
    BY Zenon, <1>3, <1>a DEF RegChar, device, outside, keyboard, TypeOK, FlagsOK
  <2>1b. ValuesOK'
    BY <1>3, <1>a DEF RegChar, device, outside, keyboard, Asking, TypeOK,
         ValuesOK
  <2>1. TypeOK'
    BY <2>1a, <2>1b DEF TypeOK
  <2>2. DeviceAnswers' /\ ResultIsRight' /\ HandlerIsMasked'
    BY <1>3, <1>a DEF RegChar, outside, DeviceAnswers, ResultIsRight, HandlerIsMasked
  <2>3. ToAct /\ ToAct' /\ owed' = owed /\ (ToHandle' <=> ToHandle)
    BY <1>3, <1>a DEF RegChar, Terminal, outside, ToAct, ToHandle, None
  <2>4. Covered'
    BY <1>a, <2>3 DEF Covered, One
  <2>5. QED
    BY <2>1, <2>2, <2>4 DEF IInv
<1>4. CASE TypeChar
  <2>1a. FlagsOK'
    BY Zenon, <1>4, <1>a DEF TypeChar, Act, device, keyboard, TypeOK, FlagsOK
  <2>1b. ValuesOK'
    BY <1>4, <1>a DEF TypeChar, Act, device, keyboard, Asking, TypeOK, ValuesOK
  <2>1. TypeOK'
    BY <2>1a, <2>1b DEF TypeOK
  <2>2. DeviceAnswers' /\ ResultIsRight' /\ HandlerIsMasked'
    BY <1>4, <1>a DEF TypeChar, DeviceAnswers, ResultIsRight, HandlerIsMasked
  <2>3. ToAct /\ ~ToAct' /\ owed' = owed - 1 /\ owed \in Int /\ (ToHandle' <=> ToHandle)
    BY <1>4, <1>a DEF TypeChar, Act, ToAct, ToHandle, TypeOK, ValuesOK
  <2>4. Covered'
    BY <1>a, <2>3 DEF Covered, One
  <2>5. QED
    BY <2>1, <2>2, <2>4 DEF IInv
<1>5. CASE Clear
  <2>1a. FlagsOK'
    BY Zenon, <1>5, <1>a DEF Clear, device, outside, keyboard, TypeOK, FlagsOK
  <2>1b. ValuesOK'
    BY <1>5, <1>a DEF Clear, device, outside, keyboard, Asking, TypeOK, ValuesOK
  <2>1. TypeOK'
    BY <2>1a, <2>1b DEF TypeOK
  <2>2. DeviceAnswers' /\ ResultIsRight' /\ HandlerIsMasked'
    BY <1>5, <1>a DEF Clear, outside, DeviceAnswers, ResultIsRight, HandlerIsMasked
  <2>3. ~ToAct /\ ~ToAct' /\ owed' = owed /\ (ToHandle' <=> ToHandle)
    BY <1>5, <1>a DEF Clear, outside, ToAct, ToHandle, None
  <2>4. Covered'
    BY <1>a, <2>3 DEF Covered, One
  <2>5. QED
    BY <2>1, <2>2, <2>4 DEF IInv
<1>6. QED
  BY <1>1, <1>2, <1>3, <1>4, <1>5 DEF Prompt

\* Every step of the machine preserves the invariant.
LEMMA IInvStep == IInv /\ [Next]_vars => IInv'
<1> SUFFICES ASSUME IInv, [Next]_vars PROVE IInv'
  OBVIOUS
<1>1. CASE UNCHANGED vars
  <2>1a. FlagsOK'
    BY Zenon, <1>1 DEF IInv, vars, kernal, device, keyboard, TypeOK, FlagsOK
  <2>1b. ValuesOK'
    BY <1>1 DEF IInv, vars, kernal, device, keyboard, Asking, TypeOK, ValuesOK
  <2>1. TypeOK'
    BY <2>1a, <2>1b DEF TypeOK
  <2>2. DeviceAnswers' /\ ResultIsRight' /\ HandlerIsMasked'
    BY <1>1 DEF IInv, vars, kernal, device, DeviceAnswers, ResultIsRight,
                HandlerIsMasked
  <2>3. Covered'
    BY <1>1 DEF IInv, vars, kernal, Covered, One, ToHandle, ToAct
  <2>4. QED
    BY <2>1, <2>2, <2>3 DEF IInv
<1>2. CASE Next
  BY <1>2, MainStep, InterruptStep, DriverStep, PromptStep DEF Next, CPU
<1>3. QED
  BY <1>1, <1>2

\* The invariant holds in every state.
THEOREM Inductive == Spec => []IInv
  BY IInvInit, IInvStep, PTL DEF Spec

\* Types, for any number of keys, disks and interrupts.
THEOREM TypeCorrect == Spec => []TypeOK
<1>1. IInv => TypeOK
  BY DEF IInv
<1>2. QED
  BY <1>1, Inductive, PTL

\* read_disk and write_disk report the outcome of the request they were called
\* for, whatever interrupts end their waits (ResultIsRight).
THEOREM ResultsAreRight == Spec => []ResultIsRight
<1>1. IInv => ResultIsRight
  BY DEF IInv
<1>2. QED
  BY <1>1, Inductive, PTL

\* The terminal never acts more often than interrupts were requested
\* (ActsAreCaused), however handler, mailbox and terminal interleave.
THEOREM ActsAreOwed == Spec => []ActsAreCaused
<1>1. IInv => ActsAreCaused
  BY DEF IInv, TypeOK, ValuesOK, Covered, One, ActsAreCaused
<1>2. QED
  BY <1>1, Inductive, PTL

==============================================================================
