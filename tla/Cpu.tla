-------------------------------- MODULE Cpu --------------------------------
(***************************************************************************)
(* The 65C02 (cpu.c, cpu/instructions/): its accumulator, flags, stack and *)
(* program counter, a tick at a time, with interrupts between any two      *)
(* instructions.                                                           *)
(*                                                                         *)
(* Code is the program in memory as the emulator decodes it: op, the       *)
(* operand bytes it consumes and, where there is one, its target.  Memory  *)
(* but page 1 and the registers X and Y belong to the environment: what    *)
(* is read from them is any byte of Data, so the addressing modes differ   *)
(* only in len.  The flags are a record, which is what PHP pushes and the  *)
(* byte they are packed into; a program that pulls one as the other gets   *)
(* any value.  B, D and the unused bit have no effect in this CPU.         *)
(***************************************************************************)
EXTENDS Integers

CONSTANTS
  Half,               \* 128
  Code,               \* address -> instruction
  NmiVector, ResetVector, IrqVector,
  Data,               \* bytes that memory and the registers X and Y hold
  NmiDepth            \* bound: no NMI comes while more than this is on the stack

Byte      == 2 * Half
Bytes     == 0..(Byte - 1)
Addresses == 0..(Byte * Byte - 1)
Lines     == {"NMI", "IRQ", "RES"}
Flags     == [C : BOOLEAN, Z : BOOLEAN, I : BOOLEAN, V : BOOLEAN, N : BOOLEAN]

ASSUME CpuAssumption ==
  /\ Half \in Nat /\ Half >= 2
  /\ DOMAIN Code \subseteq Addresses
  /\ \A w \in DOMAIN Code :
       /\ Code[w].len \in 0..2 /\ Code[w].to \in Addresses
       /\ Code[w].flag \in {"C", "Z", "V", "N"} /\ Code[w].on \in BOOLEAN
       /\ Code[w].op = "JSR" => Code[w].len = 2
       /\ Code[w].op = "BRK" => Code[w].len = 1
  /\ {NmiVector, ResetVector, IrqVector} \subseteq Addresses
  /\ Data \subseteq Bytes /\ NmiDepth \in Nat

VARIABLES
  a, s, p, pc,        \* register_a, register_s, register_p, pc
  stack,              \* page 1
  low,                \* the lines of pins that are low
  waiting, stopped,   \* bits 7 and 6 of emulator_flags
  phase,              \* where tick_65C02 is; "lost" behind an undefined step
  depth,              \* history: the bytes pushed since the start or a TXS
  calls,              \* history: calls and interrupts whose bytes are on the stack
  last                \* history: the carry or order a calculation has come to

vars == <<a, s, p, pc, stack, low, waiting, stopped, phase, depth, calls, last>>

\* What a byte of page 1 holds.  One that is not on the stack is free: its value is
\* not kept, and a program that pulls it gets any.
OfByte(v)  == [byte |-> v]
OfFlags(f) == [flags |-> f]
Free       == [free |-> TRUE]
Cells      == [byte : Bytes] \cup [flags : Flags] \cup {Free}

Calculations ==
  [op : {"none", "clear", "set", "add", "sub", "left", "right", "compare"}, due : Int]
Frames == [kind : {"call", "interrupt"}, pc : Addresses, p : Flags, top : Int,
           last : Calculations]

Size(f) == IF f.kind = "call" THEN 2 ELSE 3
None == [op |-> "none", due |-> 0]

TypeOK ==
  /\ a \in Bytes /\ s \in Bytes /\ p \in Flags /\ pc \in Addresses
  /\ stack \in [Bytes -> Cells]
  /\ low \subseteq Lines /\ waiting \in BOOLEAN /\ stopped \in BOOLEAN
  /\ phase \in {"poll", "fetch", "lost"}
  /\ depth \in Nat /\ calls \subseteq Frames
  /\ last \in Calculations

Init ==
  /\ a = 0 /\ s = Byte - 1 /\ pc = 0
  /\ p = [C |-> FALSE, Z |-> FALSE, I |-> TRUE, V |-> FALSE, N |-> FALSE]
  /\ stack = [b \in Bytes |-> Free]
  /\ low = {"RES"} /\ waiting = FALSE /\ stopped = FALSE /\ phase = "poll"
  /\ depth = 0 /\ calls = {} /\ last = None

-----------------------------------------------------------------------------
(* Bytes and flags.                                                        *)

Bit(b)      == IF b THEN 1 ELSE 0
Negative(v) == v >= Half
Low(n)      == n % Byte
High(w)     == w \div Byte
Word(n)     == n % (Byte * Byte)

SET_NZ(f, v) == [f EXCEPT !.Z = (v = 0), !.N = Negative(v)]

\* MUTANT of ARIT_ADD_SET: the carry is not added.
ADD_WITHOUT_CARRY(f, x, v) ==
  [a |-> Low(x + v), p |-> [SET_NZ(f, Low(x + v)) EXCEPT !.C = (x + v >= Byte)]]

ARIT_ADD_SET(f, x, v) ==
  LET res == x + v + Bit(f.C)
  IN  [a |-> Low(res),
       p |-> [SET_NZ(f, Low(res)) EXCEPT
                !.C = (res >= Byte), !.V = (Negative(Low(res)) # Negative(x))]]

\* Z is that of the difference before it is cut to a byte.
ARIT_SUB_SET(f, x, v) ==
  LET res == x - v - Bit(~f.C)
  IN  [a |-> Low(res),
       p |-> [C |-> res >= 0, Z |-> res = 0, I |-> f.I,
              V |-> Low(res) = Half, N |-> Negative(Low(res))]]

\* MUTANT of CMP_SET: equal operands count as less.
CMP_STRICT(f, x, v) ==
  [f EXCEPT !.C = (x > v), !.Z = (x = v), !.N = Negative(Low(x - v))]

CMP_SET(f, x, v) ==
  [f EXCEPT !.C = (x >= v), !.Z = (x = v), !.N = Negative(Low(x - v))]

\* The shifts: the carry of ASL is always clear.
Shift(op, f, v) ==
  LET res == CASE op = "ASL" -> Low(2 * v)
               [] op = "ROL" -> Low(2 * v + Bit(f.C))
               [] op = "LSR" -> v \div 2
               [] op = "ROR" -> v \div 2 + Bit(f.C) * Half
  IN  [a |-> res,
       p |-> [SET_NZ(f, res) EXCEPT
                !.C = (op = "ROL" /\ Negative(v)) \/ (op \in {"LSR", "ROR"} /\ v % 2 = 1)]]

-----------------------------------------------------------------------------
(* The stack, and what is on it.                                           *)

\* MUTANT of Down: S does not wrap.
DownOn(n) == s - n

Down(n) == (s + Byte - n) % Byte
Up(n)   == (s + n) % Byte

\* n bytes more: calls whose bytes they overwrite are gone.
Push(n, new) ==
  /\ s' = Down(n)
  /\ depth' = depth + n
  /\ calls' = {f \in calls \cup new : depth + n <= f.top - Size(f) + Byte}

\* n bytes less: calls whose bytes they are are gone.
Pull(n) ==
  /\ s' = Up(n)
  /\ depth' = IF depth < n THEN 0 ELSE depth - n
  /\ calls' = {f \in calls : f.top <= depth - n}
  /\ stack' = [b \in Bytes |-> IF b \in {Up(i) : i \in 1..n} THEN Free ELSE stack[b]]

\* What a cell of the stack is when a byte or the flags are pulled.
AsByte(c)  == IF c \in [byte : Bytes] THEN {c.byte} ELSE Bytes
AsFlags(c) == IF c \in [flags : Flags] THEN {c.flags} ELSE Flags

PulledWord(n) ==
  {l + Byte * h : l \in AsByte(stack[Up(n)]), h \in AsByte(stack[Up(n + 1)])}

Interruption(w, n) ==
  [kind |-> "interrupt", pc |-> w, p |-> p, top |-> depth + n, last |-> last]

-----------------------------------------------------------------------------
(* Calculations, for the properties: the exact carry of a sum, difference  *)
(* or shift of many bytes, or the order of what was compared.              *)

\* What a byte with its digit set right leaves for the next one.
Carry(n) == CASE n = 0 -> 0 [] n = Byte -> 1 [] n = -Byte -> -1 [] OTHER -> Byte

Continue(op, from, due) == IF last.op \in from THEN [op |-> op, due |-> due] ELSE None

\* Instructions that change Z, but not C.
Overwritten == IF last.op = "compare" THEN None ELSE last

-----------------------------------------------------------------------------
(* call_interrupt                                                          *)

Pending == ("IRQ" \in low /\ ~p.I) \/ "NMI" \in low \/ "RES" \in low

\* MUTANT of PushContext: the flags are pushed before the program counter.
PushFlagsFirst(w, f) ==
  stack' = [stack EXCEPT ![s] = OfFlags(f),
                         ![Down(1)] = OfByte(High(w)), ![Down(2)] = OfByte(Low(w))]

PushContext(w, f) ==
  stack' = [stack EXCEPT ![s] = OfByte(High(w)),
                         ![Down(1)] = OfByte(Low(w)), ![Down(2)] = OfFlags(f)]

\* A reset is no interruption: nothing returns from it.
Reset ==
  /\ "NMI" \notin low /\ ~("IRQ" \in low /\ ~p.I)
  /\ pc' = ResetVector /\ low' = low \ {"RES"} /\ stopped' = FALSE
  /\ s' = Down(3) /\ depth' = 0 /\ calls' = {}

Interrupt(vector, served) ==
  /\ pc' = vector /\ low' = low \ served
  /\ Push(3, {Interruption(pc, 3)})
  /\ UNCHANGED stopped

call_interrupt ==
  /\ phase = "poll" /\ Pending
  /\ \/ "NMI" \in low /\ Interrupt(NmiVector, {"NMI"})
     \/ "NMI" \notin low /\ "IRQ" \in low /\ ~p.I /\ Interrupt(IrqVector, {})
     \/ Reset
  /\ PushContext(pc, p)
  /\ waiting' = FALSE
  /\ p' = [p EXCEPT !.I = TRUE]
  /\ phase' = "fetch" /\ last' = None
  /\ UNCHANGED a

\* No interrupt; and a CPU that waits or is stopped does nothing.
NoInterrupt ==
  /\ phase = "poll" /\ ~Pending /\ phase' = "fetch"
  /\ UNCHANGED <<a, s, p, pc, stack, low, waiting, stopped, depth, calls, last>>

Idle ==
  /\ phase = "fetch" /\ (waiting \/ stopped) /\ phase' = "poll"
  /\ UNCHANGED <<a, s, p, pc, stack, low, waiting, stopped, depth, calls, last>>

-----------------------------------------------------------------------------
(* The instructions.  Executes names the instruction at pc, Goes takes pc  *)
(* behind it.                                                              *)

Executes(ops) ==
  /\ phase = "fetch" /\ ~waiting /\ ~stopped
  /\ pc \in DOMAIN Code /\ Code[pc].op \in ops

Behind == Word(pc + 1 + Code[pc].len)
Goes   == pc' = Behind /\ phase' = "poll"

\* Loads: A, or X and Y.
Load ==
  /\ Executes({"LDA", "LDX"}) /\ Goes
  /\ \E v \in Data : /\ a' = IF Code[pc].op = "LDA" THEN v ELSE a
                     /\ p' = SET_NZ(p, v)
  /\ last' = Overwritten
  /\ UNCHANGED <<s, stack, depth, calls, low, waiting, stopped>>

\* Stores, SMB, RMB and NOP.
Store ==
  /\ Executes({"STA"}) /\ Goes
  /\ UNCHANGED <<a, p, s, stack, depth, calls, low, waiting, stopped, last>>

\* A store to the acknowledgement, which the control register sees in the same round.
Acknowledge ==
  /\ Executes({"ACK"}) /\ Goes
  /\ low' = low \ {"IRQ"}
  /\ UNCHANGED <<a, p, s, stack, depth, calls, waiting, stopped, last>>

\* TXA and TYA; TAX and TAY; TSX.
Transfer ==
  /\ Executes({"TXA", "TAX", "TSX"}) /\ Goes
  /\ \E x \in Data :
       LET v == CASE Code[pc].op = "TXA" -> x
                  [] Code[pc].op = "TAX" -> a
                  [] Code[pc].op = "TSX" -> s
       IN  /\ a' = IF Code[pc].op = "TXA" THEN v ELSE a
           /\ p' = SET_NZ(p, v)
  /\ last' = Overwritten
  /\ UNCHANGED <<s, stack, depth, calls, low, waiting, stopped>>

\* TXS starts a stack of its own.
INST_TXS ==
  /\ Executes({"TXS"}) /\ Goes
  /\ s' \in Data /\ depth' = 0 /\ calls' = {}
  /\ UNCHANGED <<a, p, stack, low, waiting, stopped, last>>

\* INA and DEA; INX, DEX, INC and so on, of a byte that is not kept here.
Increment ==
  /\ Executes({"INA", "DEA", "INX"}) /\ Goes
  /\ \E x \in Data :
       LET v == CASE Code[pc].op = "INA" -> Low(a + 1)
                  [] Code[pc].op = "DEA" -> Low(a + Byte - 1)
                  [] Code[pc].op = "INX" -> x
       IN  /\ a' = IF Code[pc].op = "INX" THEN a ELSE v
           /\ p' = SET_NZ(p, v)
  /\ last' = Overwritten
  /\ UNCHANGED <<s, stack, depth, calls, low, waiting, stopped>>

\* AND, ORA and EOR, with any byte as the result.
Logic ==
  /\ Executes({"AND"}) /\ Goes
  /\ a' \in Data /\ p' = SET_NZ(p, a')
  /\ last' = Overwritten
  /\ UNCHANGED <<s, stack, depth, calls, low, waiting, stopped>>

\* TSB and TRB change Z; BIT also N and V, but not with an immediate operand.
TestBits ==
  /\ Executes({"TSB", "BIT"}) /\ Goes
  /\ \E v \in Data, six \in BOOLEAN :
       p' = IF Code[pc].op = "TSB" THEN [p EXCEPT !.Z = (v = 0)]
            ELSE [SET_NZ(p, v) EXCEPT !.V = six]
  /\ last' = Overwritten
  /\ UNCHANGED <<a, s, stack, depth, calls, low, waiting, stopped>>

INST_ADC ==
  /\ Executes({"ADC"}) /\ Goes
  /\ \E v \in Data :
       /\ a' = ARIT_ADD_SET(p, a, v).a /\ p' = ARIT_ADD_SET(p, a, v).p
       /\ last' = Continue("add", {"clear", "add"}, Carry((a + v + last.due) - a'))
  /\ UNCHANGED <<s, stack, depth, calls, low, waiting, stopped>>

INST_SBC ==
  /\ Executes({"SBC"}) /\ Goes
  /\ \E v \in Data :
       /\ a' = ARIT_SUB_SET(p, a, v).a /\ p' = ARIT_SUB_SET(p, a, v).p
       /\ last' = Continue("sub", {"set", "sub"}, Carry((a - v + last.due) - a'))
  /\ UNCHANGED <<s, stack, depth, calls, low, waiting, stopped>>

\* CMP; CPX and CPY.
INST_CMP ==
  /\ Executes({"CMP", "CPX"}) /\ Goes
  /\ \E x \in (IF Code[pc].op = "CMP" THEN {a} ELSE Data), v \in Data :
       /\ p' = CMP_SET(p, x, v)
       /\ last' = [op |-> "compare",
                   due |-> IF x < v THEN -1 ELSE IF x = v THEN 0 ELSE 1]
  /\ UNCHANGED <<a, s, stack, depth, calls, low, waiting, stopped>>

\* The shifts of A, and with on those of a byte in memory.  The entries of ROL for the
\* zero page rotate right, so that Code has a ROR for them.
INST_SHIFT ==
  /\ Executes({"ASL", "LSR", "ROL", "ROR"}) /\ Goes
  /\ \E v \in (IF Code[pc].on THEN Data ELSE {a}) :
       LET op == Code[pc].op
           r  == Shift(op, p, v)
       IN  /\ a' = IF Code[pc].on THEN a ELSE r.a
           /\ p' = r.p
           /\ last' = CASE op = "ASL" -> None
                        [] op = "LSR" -> [op |-> "right", due |-> v - 2 * r.a]
                        [] op = "ROL" -> Continue("left", {"clear", "left"},
                                                  Carry((2 * v + last.due) - r.a))
                        [] op = "ROR" -> Continue("right", {"clear", "right"},
                                                  (Byte * last.due + v) - 2 * r.a)
  /\ UNCHANGED <<s, stack, depth, calls, low, waiting, stopped>>

\* CLC and SEC start a calculation.
INST_CARRY ==
  /\ Executes({"CLC", "SEC"}) /\ Goes
  /\ p' = [p EXCEPT !.C = (Code[pc].op = "SEC")]
  /\ last' = [op |-> IF Code[pc].op = "SEC" THEN "set" ELSE "clear", due |-> 0]
  /\ UNCHANGED <<a, s, stack, depth, calls, low, waiting, stopped>>

INST_FLAG ==
  /\ Executes({"SEI", "CLI", "CLV"}) /\ Goes
  /\ p' = IF Code[pc].op = "CLV" THEN [p EXCEPT !.V = FALSE]
          ELSE [p EXCEPT !.I = (Code[pc].op = "SEI")]
  /\ UNCHANGED <<a, s, stack, depth, calls, low, waiting, stopped, last>>

\* PHA, PHX and PHY; PHP.
PushByte ==
  /\ Executes({"PHA", "PHX", "PHP"}) /\ Goes
  /\ \E x \in Data :
       stack' = [stack EXCEPT ![s] = CASE Code[pc].op = "PHA" -> OfByte(a)
                                       [] Code[pc].op = "PHX" -> OfByte(x)
                                       [] Code[pc].op = "PHP" -> OfFlags(p)]
  /\ Push(1, {})
  /\ UNCHANGED <<a, p, low, waiting, stopped, last>>

PullByte ==
  /\ Executes({"PLA", "PLX"}) /\ Goes
  /\ \E v \in AsByte(stack[Up(1)]) : /\ a' = IF Code[pc].op = "PLA" THEN v ELSE a
                                     /\ p' = SET_NZ(p, v)
  /\ Pull(1)
  /\ last' = Overwritten
  /\ UNCHANGED <<low, waiting, stopped>>

INST_PLP ==
  /\ Executes({"PLP"}) /\ Goes
  /\ p' \in AsFlags(stack[Up(1)])
  /\ Pull(1)
  /\ last' = None
  /\ UNCHANGED <<a, low, waiting, stopped>>

\* Where JMP and BRA, JMP (abs,X), JMP (ind) and the branches on a flag go: the
\* second adds X to its operand, the third takes two bytes of memory.
Targets ==
  CASE Code[pc].op = "JMP" -> {Code[pc].to}
    [] Code[pc].op = "JMX" -> {Word(Code[pc].to + x) : x \in Data}
    [] Code[pc].op = "JMI" -> {l + Byte * h : l \in Data, h \in Data}
    [] Code[pc].op = "Bxx" -> {IF p[Code[pc].flag] = Code[pc].on THEN Code[pc].to ELSE Behind}

Jump ==
  /\ Executes({"JMP", "JMX", "JMI", "Bxx"}) /\ phase' = "poll"
  /\ pc' \in Targets
  /\ UNCHANGED <<a, p, s, stack, depth, calls, low, waiting, stopped, last>>

\* BBS and BBR that branch move the pointer to pc instead of pc.
BranchOnBit ==
  /\ Executes({"BBS"}) /\ pc' = Behind
  /\ phase' \in {"poll", "lost"}
  /\ UNCHANGED <<a, p, s, stack, depth, calls, low, waiting, stopped, last>>

\* JSR pushes the address of the instruction behind it; RTS adds nothing.
ReturnAddress == Word(pc + 1 + 2)

INST_JSR ==
  /\ Executes({"JSR"}) /\ phase' = "poll" /\ pc' = Code[pc].to
  /\ stack' = [stack EXCEPT ![s] = OfByte(High(ReturnAddress)),
                            ![Down(1)] = OfByte(Low(ReturnAddress))]
  /\ Push(2, {[kind |-> "call", pc |-> Behind, p |-> p, top |-> depth + 2, last |-> None]})
  /\ UNCHANGED <<a, p, low, waiting, stopped, last>>

INST_RTS ==
  /\ Executes({"RTS"}) /\ phase' = "poll"
  /\ pc' \in PulledWord(1)
  /\ Pull(2)
  /\ UNCHANGED <<a, p, low, waiting, stopped, last>>

\* BRK leaves a byte behind it out.
INST_BRK ==
  /\ Executes({"BRK"}) /\ phase' = "poll" /\ pc' = IrqVector
  /\ PushContext(Word(pc + 2), p)
  /\ Push(3, {Interruption(Behind, 3)})
  /\ p' = [p EXCEPT !.I = TRUE]
  /\ last' = None
  /\ UNCHANGED <<a, low, waiting, stopped>>

INST_RTI ==
  /\ Executes({"RTI"}) /\ phase' = "poll"
  /\ p' \in AsFlags(stack[Up(1)])
  /\ pc' \in PulledWord(2)
  /\ LET from == {f \in calls : f.kind = "interrupt" /\ f.top = depth}
     IN  \/ from = {} /\ last' = None
         \/ \E f \in from : last' = f.last
  /\ Pull(3)
  /\ UNCHANGED <<a, low, waiting, stopped>>

INST_WAI ==
  /\ Executes({"WAI"}) /\ Goes
  /\ waiting' = TRUE
  /\ UNCHANGED <<a, p, s, stack, depth, calls, low, stopped, last>>

INST_STP ==
  /\ Executes({"STP"}) /\ Goes
  /\ stopped' = TRUE
  /\ UNCHANGED <<a, p, s, stack, depth, calls, low, waiting, last>>

\* An entry of the table that is not installed is called all the same.
NotInstalled ==
  /\ phase = "fetch" /\ ~waiting /\ ~stopped /\ pc \notin DOMAIN Code
  /\ phase' = "lost"
  /\ UNCHANGED <<a, s, p, pc, stack, low, waiting, stopped, depth, calls, last>>

\* Devices lower IRQ at any time.  None lowers NMI, for which the kernal has a handler.
Lower ==
  /\ phase # "lost"
  /\ \E line \in {"IRQ", "NMI"} \ low :
       /\ line = "NMI" => depth <= NmiDepth
       /\ low' = low \cup {line}
  /\ UNCHANGED <<a, s, p, pc, stack, waiting, stopped, phase, depth, calls, last>>

Next ==
  \/ call_interrupt \/ NoInterrupt \/ Idle \/ Lower
  \/ Load \/ Store \/ Acknowledge \/ Transfer \/ INST_TXS \/ Increment
  \/ Logic \/ TestBits \/ INST_ADC \/ INST_SBC \/ INST_CMP \/ INST_SHIFT
  \/ INST_CARRY \/ INST_FLAG \/ PushByte \/ PullByte \/ INST_PLP
  \/ Jump \/ BranchOnBit \/ INST_JSR \/ INST_RTS \/ INST_BRK \/ INST_RTI
  \/ INST_WAI \/ INST_STP \/ NotInstalled

Spec == Init /\ [][Next]_vars

-----------------------------------------------------------------------------
\* The return from a call whose bytes are still on the stack goes behind the JSR,
\* and that from an interrupt to the interrupted instruction with the flags it had,
\* whatever was called, pushed or interrupted in between and wherever S wraps.
ReturnsAreExact ==
  [][\A f \in calls :
       /\ f.top = depth /\ phase' = "poll"
       /\ Executes({IF f.kind = "call" THEN "RTS" ELSE "RTI"})
       => pc' = f.pc /\ (f.kind = "interrupt" => p' = f.p)]_vars

\* The carry between the bytes of a sum, a difference or a rotation is the exact one,
\* whatever the handlers of interrupts calculated in between.
CarryIsExact ==
  /\ last.op \in {"clear", "add", "left", "right"} => last.due = Bit(p.C)
  /\ last.op \in {"set", "sub"} => last.due = Bit(p.C) - 1

\* A branch on C or Z after a comparison decides by the order of what was compared.
ComparisonHolds ==
  last.op = "compare" => (p.C <=> last.due >= 0) /\ (p.Z <=> last.due = 0)
=============================================================================
