------------------------------- MODULE MCCpu -------------------------------
(***************************************************************************)
(* An instance of Cpu for TLC: a program with sums, differences, shifts,   *)
(* comparisons and a subroutine, and handlers that calculate as well.      *)
(***************************************************************************)
EXTENDS Cpu, TLC

\* An instruction, one with a target, and a shift of memory or a branch on a set flag.
I(op, len)     == [op |-> op, len |-> len, to |-> 0, flag |-> "C", on |-> FALSE]
G(op, len, to) == [I(op, len) EXCEPT !.to = to]
M(op, len)     == [I(op, len) EXCEPT !.on = TRUE]

MCCode ==
  \* A sum, a subroutine, a difference, a comparison, a rotation; JMP (ind) stops the
  \* CPU or leaves the program.
  0 :> I("STP", 0) @@ 1 :> I("CLI", 0) @@ 2 :> I("CLC", 0) @@ 3 :> I("LDA", 2)
  @@ 6 :> I("ADC", 1) @@ 8 :> I("STA", 1) @@ 10 :> I("ADC", 1) @@ 12 :> G("JSR", 2, 48)
  @@ 15 :> I("SEC", 0) @@ 16 :> I("SBC", 1) @@ 18 :> I("SBC", 1) @@ 20 :> I("CMP", 1)
  @@ 22 :> G("Bxx", 1, 2) @@ 24 :> I("LSR", 0) @@ 25 :> M("ROR", 1)
  @@ 27 :> I("WAI", 0) @@ 28 :> I("TSB", 1) @@ 30 :> I("AND", 1) @@ 32 :> I("TXS", 0)
  @@ 33 :> G("BBS", 2, 0) @@ 36 :> I("INA", 0) @@ 37 :> I("JMI", 2)
  \* The subroutine.
  @@ 48 :> I("PHP", 0) @@ 49 :> I("CLC", 0) @@ 50 :> M("ROL", 1) @@ 52 :> M("ROL", 1)
  @@ 54 :> I("PLP", 0) @@ 55 :> I("BRK", 1) @@ 57 :> I("RTS", 0)
  \* The handlers; JMP (abs,X) ends in the RTI or leaves the program.
  @@ 41 :> I("PHA", 0) @@ 42 :> I("TXA", 0) @@ 43 :> I("ACK", 2)
  @@ 46 :> I("PLA", 0) @@ 47 :> I("RTI", 0)
  @@ 60 :> I("SEC", 0) @@ 61 :> G("JMX", 2, 40)

MCData == {0, 7}
=============================================================================
