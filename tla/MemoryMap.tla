------------------------------ MODULE MemoryMap ------------------------------
(***************************************************************************)
(* The translation of the CPU's 16-bit addresses to bytes of the shared    *)
(* memory object (emulator/src/ram.c), the layout of that object           *)
(* (shared_memory.h) and the translation the debugger makes of the same    *)
(* addresses (sysdbg/src/disassemble.c).                                   *)
(*                                                                         *)
(* Program memory is two windows, of buildings A and B.  The byte at       *)
(* address 0 holds the bank of A in its low nibble and that of B in its    *)
(* high nibble; bank 0 is the memory itself.                               *)
(***************************************************************************)
EXTENDS Integers, FiniteSets, TLC

CONSTANTS
  PROGRAM_MEM_BASE, PROGRAM_MEM_SZ,      \* the banked range
  KERNAL_MEM_BASE, MEMORY_SIZE,          \* the ROM, and UINT16_MAX
  REGISTERS,                             \* bytes from MEMORY_SIZE to building A
  MAPPED                                 \* bytes mmap makes accessible

ASSUME SizesAssumption ==
  /\ {PROGRAM_MEM_BASE, PROGRAM_MEM_SZ, KERNAL_MEM_BASE, MEMORY_SIZE,
      REGISTERS, MAPPED} \subseteq Nat \ {0}
  /\ PROGRAM_MEM_BASE + PROGRAM_MEM_SZ <= KERNAL_MEM_BASE
  /\ KERNAL_MEM_BASE < MEMORY_SIZE

Addresses       == 0..MEMORY_SIZE
KERNAL_DAT_BASE == PROGRAM_MEM_BASE + PROGRAM_MEM_SZ

BANK_SZ     == (PROGRAM_MEM_SZ \div 2) * 15
BANK_A_OFF  == MEMORY_SIZE + REGISTERS
BANK_B_OFF  == MEMORY_SIZE + REGISTERS + BANK_SZ
BUFFER_SIZE == MEMORY_SIZE + BANK_SZ * 2 + 1
LockByte    == BUFFER_SIZE - 1

PROGRAM_MEM(a) == PROGRAM_MEM_BASE <= a /\ a <= KERNAL_DAT_BASE - 1
KERNAL_MEM(a)  == KERNAL_MEM_BASE <= a /\ a <= MEMORY_SIZE - 1

Offset(a) == a - PROGRAM_MEM_BASE

\* bank_bucket: the first byte of the upper half still counts as building A.
InBuildingB(a) == Offset(a) > PROGRAM_MEM_SZ \div 2

BankOf(select, a) == IF InBuildingB(a) THEN select \div 16 ELSE select % 16

IsBanked(select, a) == PROGRAM_MEM(a) /\ BankOf(select, a) # 0

\* MUTANT of CellOf: the offset inside the window is not halved.
CellOfUnhalved(a) == Offset(a) % PROGRAM_MEM_SZ

\* The cell of a bank that an address selects: two addresses share each one.
CellOf(a) == (Offset(a) % PROGRAM_MEM_SZ) \div 2

\* MUTANT of BankBase: bank 1 is not the first one stored.
BankBaseFromZero(bank) == PROGRAM_MEM_SZ * bank

\* Where a bank starts in its building: the stride is that of both windows.
BankBase(bank) == PROGRAM_MEM_SZ * (bank - 1)

\* The byte of the object that a CPU access to a reaches.
Translate(select, a) ==
  IF IsBanked(select, a)
    THEN (IF InBuildingB(a) THEN BANK_B_OFF ELSE BANK_A_OFF)
           + CellOf(a) + BankBase(BankOf(select, a))
    ELSE a

\* The same in the debugger, which exchanges the two buildings.
DebuggerTranslate(select, a) ==
  IF IsBanked(select, a)
    THEN (IF InBuildingB(a) THEN BANK_A_OFF ELSE BANK_B_OFF)
           + CellOf(a) + BankBase(BankOf(select, a))
    ELSE a

------------------------------------------------------------------------------
VARIABLES mem,     \* the mapped bytes
          fault    \* an access left the mapping: SIGSEGV ends the process

vars == <<mem, fault>>

Bytes == 0..255

CONSTANTS Data,        \* bound: the values the program stores
          Selects,     \* bound: the values it stores at address 0
          MaxBytes     \* bound: how many bytes it makes different from 0

ASSUME ValuesAssumption == Data \cup Selects \subseteq Bytes

TypeOK ==
  /\ mem \in [0..(MAPPED - 1) -> Bytes]
  /\ fault \in BOOLEAN

Init ==
  /\ mem = [c \in 0..(MAPPED - 1) |-> 0]
  /\ fault = FALSE

Select == mem[0]

Touched == {c \in DOMAIN mem \ {0} : mem[c] # 0}

\* MUTANT of Put: the store is not confined to the mapping.
PutAnywhere(c, v) == mem' = (c :> v) @@ mem /\ UNCHANGED fault

\* Store one byte; the release that follows clears the lock byte in any case.
Put(c, v) ==
  IF c < MAPPED
    THEN mem' = [mem EXCEPT ![c] = v, ![LockByte] = 0] /\ UNCHANGED fault
    ELSE fault' = TRUE /\ UNCHANGED mem

\* MUTANT of mem_byte_write: the guard of the ROM is dropped.
mem_byte_write_unguarded(v, a) ==
  /\ ~fault
  /\ Put(Translate(Select, a), v)

mem_byte_write(v, a) ==
  /\ ~fault
  /\ ~KERNAL_MEM(a)
  /\ Put(Translate(Select, a), v)

\* A read changes nothing, unless the byte is not there.
mem_byte_read(a) ==
  /\ ~fault
  /\ Translate(Select, a) >= MAPPED
  /\ fault' = TRUE
  /\ UNCHANGED mem

SelectBanks == \E s \in Selects : mem_byte_write(s, 0)

StoreByte ==
  \E a \in Addresses \ {0}, v \in Data :
    /\ \/ Cardinality(Touched) < MaxBytes
       \/ v = 0
       \/ Translate(Select, a) \in Touched
    /\ mem_byte_write(v, a)

LoadByte == \E a \in Addresses : mem_byte_read(a)

Next == SelectBanks \/ StoreByte \/ LoadByte

Spec == Init /\ [][Next]_vars

------------------------------------------------------------------------------
(* The memory the program sees: flat memory, and banks of two buildings.   *)

Locate(select, a) ==
  IF IsBanked(select, a)
    THEN <<IF InBuildingB(a) THEN "B" ELSE "A", BankOf(select, a), CellOf(a)>>
    ELSE <<"flat", 0, a>>

Place(cell) ==
  CASE cell[1] = "flat" -> cell[3]
    [] cell[1] = "A"    -> BANK_A_OFF + cell[3] + BankBase(cell[2])
    [] cell[1] = "B"    -> BANK_B_OFF + cell[3] + BankBase(cell[2])

\* The cells that are really there; the lock byte is not storage.
Cells ==
  {c \in {Locate(s, a) : s \in Bytes, a \in Addresses} :
     Place(c) < MAPPED /\ Place(c) # LockByte}

Memory == INSTANCE Store WITH
            Values <- Bytes,
            store  <- [c \in Cells |-> mem[Place(c)]]

\* However the program switches banks and stores bytes, no store changes a cell
\* of another bank or building: the strides of ram.c keep the banks apart, even
\* those of building A that lie inside the room of building B.
ImplementsStore == Memory!Spec

\* Of the ROM, which goes up to the last address (ram.h:15), and of the CPU's
\* registers, which lie between it and the banks, a store of the CPU changes the
\* last byte of the ROM at most, whatever banks are selected.  That byte it does
\* change: KERNAL_MEM (ram.h:106) leaves it out (theorem TopOfRomIsWritable).
OnlyTopByteWritten ==
  [][\A c \in DOMAIN mem :
       (KERNAL_MEM_BASE <= c /\ c < BANK_A_OFF /\ mem'[c] # mem[c]) =>
         c = MEMORY_SIZE]_vars

\* An access leaves the mapping only with bank 9 or higher selected in building B;
\* building A may use all of its banks.
FaultNeedsHighBank == fault => Select \div 16 >= 9

\* The lock byte is a cell of bank 8 of building B.
LockByteNeedsBank8 ==
  \A a \in Addresses :
    Translate(Select, a) = LockByte => Select \div 16 = 8 /\ InBuildingB(a)

\* Whatever a program has stored, it gets out of its memory through the upper banks
\* of building B only: bank 8 holds the lock byte, and those above it lie behind the
\* mapping (ram.c:62-76, shared_memory.h:41).
StraysNeedHighBank == FaultNeedsHighBank /\ LockByteNeedsBank8

==============================================================================
