--------------------------- MODULE MemoryMapProofs ---------------------------
(***************************************************************************)
(* What the translation of ram.c does with the real sizes of the emulator, *)
(* for every address and every value of the bank byte.                     *)
(***************************************************************************)
EXTENDS MemoryMap, TLAPS

\* ram.h:93-112, shared_memory.h:21-41, and mmap with pages of 4096 bytes.
RealSizes ==
  /\ PROGRAM_MEM_BASE = 512
  /\ PROGRAM_MEM_SZ = 48000
  /\ KERNAL_MEM_BASE = 56512
  /\ MEMORY_SIZE = 65535
  /\ REGISTERS = 20
  /\ MAPPED = 786432

\* The layout as numbers.
LEMMA Layout ==
  ASSUME RealSizes
  PROVE  /\ KERNAL_DAT_BASE = 48512
         /\ BANK_A_OFF = 65555
         /\ BANK_B_OFF = 425555
         /\ LockByte = 785535
  BY SMT DEF RealSizes, KERNAL_DAT_BASE, BANK_SZ, BANK_A_OFF,
     BANK_B_OFF, LockByte, BUFFER_SIZE

\* The bank an access selects is a nibble.
LEMMA BankIsNibble ==
  ASSUME NEW s \in Int, 0 <= s, s <= 255, NEW a \in Int
  PROVE  BankOf(s, a) \in Int /\ 0 <= BankOf(s, a) /\ BankOf(s, a) <= 15
  BY SMT DEF BankOf

\* The two windows as ranges of cells: 12001 in building A, 11999 in B.
LEMMA CellRange ==
  ASSUME RealSizes, NEW a \in Int, PROGRAM_MEM(a)
  PROVE  /\ CellOf(a) \in Int
         /\ CellOf(a) = (a - 512) \div 2
         /\ InBuildingB(a) <=> a > 24512
         /\ ~InBuildingB(a) => 0 <= CellOf(a) /\ CellOf(a) <= 12000
         /\ InBuildingB(a) => 12000 <= CellOf(a) /\ CellOf(a) <= 23999
<1>1. /\ PROGRAM_MEM_BASE = 512 /\ PROGRAM_MEM_SZ = 48000
      /\ KERNAL_DAT_BASE = 48512
  BY SMT, Layout DEF RealSizes
<1>2. a \in Int /\ 512 <= a /\ a <= 48511
  BY SMT, <1>1 DEF PROGRAM_MEM
<1>3. Offset(a) = a - 512
  BY SMT, <1>1 DEF Offset
<1>4. (a - 512) % 48000 = a - 512
  BY SMT, <1>2
<1>5. CellOf(a) = (a - 512) \div 2
  BY SMT, <1>1, <1>3, <1>4 DEF CellOf
<1>6. InBuildingB(a) <=> a > 24512
  BY SMT, <1>1, <1>2, <1>3 DEF InBuildingB
<1>7. QED
  BY SMT, <1>2, <1>5, <1>6

\* Every address of program memory is banked unless its bank is 0; every other
\* access goes to the address itself.
LEMMA TranslateFlat ==
  ASSUME NEW s \in Int, 0 <= s, s <= 255, NEW a \in Int, ~IsBanked(s, a)
  PROVE  Translate(s, a) = a
  BY SMT DEF Translate

\* The byte behind a banked address of building A (mem_byte_read, mem_byte_write).
LEMMA TranslateA ==
  ASSUME RealSizes, NEW s \in Int, 0 <= s, s <= 255, NEW a \in Int, IsBanked(s, a),
         ~InBuildingB(a)
  PROVE  /\ BankOf(s, a) \in Int /\ 1 <= BankOf(s, a) /\ BankOf(s, a) <= 15
         /\ CellOf(a) \in Int /\ 0 <= CellOf(a) /\ CellOf(a) <= 12000
         /\ Translate(s, a) = 65555 + CellOf(a) + 48000 * (BankOf(s, a) - 1)
<1>1. BankOf(s, a) \in Int /\ 1 <= BankOf(s, a) /\ BankOf(s, a) <= 15
  BY SMT, BankIsNibble DEF IsBanked
<1>2. CellOf(a) \in Int /\ 0 <= CellOf(a) /\ CellOf(a) <= 12000
  BY SMT, CellRange DEF IsBanked
<1>3. BankBase(BankOf(s, a)) = 48000 * (BankOf(s, a) - 1)
  BY SMT, <1>1 DEF BankBase, RealSizes
<1>4. Translate(s, a) = 65555 + CellOf(a) + BankBase(BankOf(s, a))
  BY SMT, Layout DEF Translate
<1>5. QED
  BY SMT, <1>1, <1>2, <1>3, <1>4

\* The same for a banked address of building B (mem_byte_read, mem_byte_write).
LEMMA TranslateB ==
  ASSUME RealSizes, NEW s \in Int, 0 <= s, s <= 255, NEW a \in Int, IsBanked(s, a),
         InBuildingB(a)
  PROVE  /\ BankOf(s, a) \in Int /\ 1 <= BankOf(s, a) /\ BankOf(s, a) <= 15
         /\ CellOf(a) \in Int /\ 12000 <= CellOf(a) /\ CellOf(a) <= 23999
         /\ Translate(s, a) = 425555 + CellOf(a) + 48000 * (BankOf(s, a) - 1)
<1>1. BankOf(s, a) \in Int /\ 1 <= BankOf(s, a) /\ BankOf(s, a) <= 15
  BY SMT, BankIsNibble DEF IsBanked
<1>2. CellOf(a) \in Int /\ 12000 <= CellOf(a) /\ CellOf(a) <= 23999
  BY SMT, CellRange DEF IsBanked
<1>3. BankBase(BankOf(s, a)) = 48000 * (BankOf(s, a) - 1)
  BY SMT, <1>1 DEF BankBase, RealSizes
<1>4. Translate(s, a) = 425555 + CellOf(a) + BankBase(BankOf(s, a))
  BY SMT, Layout DEF Translate
<1>5. QED
  BY SMT, <1>1, <1>2, <1>3, <1>4

\* Byte x is cell k of bank i of building A, or of building B.
AtA(x, i, k) == 0 <= k /\ k <= 12000 /\ x = 65555 + k + 48000 * (i - 1)
AtB(x, i, k) == 12000 <= k /\ k <= 23999 /\ x = 425555 + k + 48000 * (i - 1)

\* A stride is longer than the windows, and the buildings are 360000 bytes or 7.5
\* strides apart, so a byte of both would need cells 24000 apart.
LEMMA Strides ==
  ASSUME NEW x \in Int, NEW i \in Int, NEW j \in Int, NEW k \in Int, NEW m \in Int
  PROVE  /\ AtA(x, i, k) /\ AtA(x, j, m) => i = j /\ k = m
         /\ AtB(x, i, k) /\ AtB(x, j, m) => i = j /\ k = m
         /\ ~(AtA(x, i, k) /\ AtB(x, j, m))
  BY SMT DEF AtA, AtB

\* The place of a banked access in these terms.
LEMMA Placed ==
  ASSUME RealSizes, NEW s \in Int, 0 <= s, s <= 255, NEW a \in Int, IsBanked(s, a)
  PROVE  /\ BankOf(s, a) \in Int /\ CellOf(a) \in Int /\ Translate(s, a) \in Int
         /\ ~InBuildingB(a) => AtA(Translate(s, a), BankOf(s, a), CellOf(a))
         /\ InBuildingB(a) => AtB(Translate(s, a), BankOf(s, a), CellOf(a))
<1>1. CASE InBuildingB(a)
  BY SMT, <1>1, TranslateB DEF AtB
<1>2. CASE ~InBuildingB(a)
  BY SMT, <1>2, TranslateA DEF AtA
<1>3. QED
  BY <1>1, <1>2

\* A byte and an address as integers.
LEMMA ByteIsInt == ASSUME NEW s \in Bytes PROVE s \in Int /\ 0 <= s /\ s <= 255
  BY SMT DEF Bytes

\* Every CPU address is an integer between 0 and UINT16_MAX.
LEMMA AddressIsInt == ASSUME RealSizes, NEW a \in Addresses
                      PROVE  a \in Int /\ 0 <= a /\ a <= 65535
  BY SMTT(20) DEF Addresses, RealSizes

------------------------------------------------------------------------------
\* Two accesses reach the same byte only if they reach the same cell of the
\* same bank of the same building: banks never overlap, although building A
\* has 15 strides of 48000 bytes in room for 7 and a half.
THEOREM BanksAreDisjoint ==
  ASSUME RealSizes, NEW s \in Bytes, NEW t \in Bytes,
         NEW a \in Addresses, NEW b \in Addresses,
         Translate(s, a) = Translate(t, b)
  PROVE  Locate(s, a) = Locate(t, b)
<1>a. /\ s \in Int /\ 0 <= s /\ s <= 255 /\ t \in Int /\ 0 <= t /\ t <= 255
      /\ a \in Int /\ 0 <= a /\ a <= 65535 /\ b \in Int /\ 0 <= b /\ b <= 65535
  BY ByteIsInt, AddressIsInt
<1> HIDE DEF Bytes, Addresses
<1>1. CASE ~IsBanked(s, a) /\ ~IsBanked(t, b)
  <2>1. a = b
    BY SMT, <1>a, <1>1, TranslateFlat
  <2>2. QED
    BY <1>1, <2>1 DEF Locate
<1>2. ASSUME NEW x \in Int, 0 <= x, x <= 255, NEW y \in Int, y <= 65535,
             IsBanked(x, y)
      PROVE  Translate(x, y) > 65535
  <2>1. CASE InBuildingB(y)
    BY SMT, <1>2, <2>1, TranslateB
  <2>2. CASE ~InBuildingB(y)
    BY SMT, <1>2, <2>2, TranslateA
  <2>3. QED
    BY <2>1, <2>2
<1>3. CASE IsBanked(s, a) /\ ~IsBanked(t, b)
  BY SMT, <1>a, <1>2, <1>3, TranslateFlat
<1>4. CASE ~IsBanked(s, a) /\ IsBanked(t, b)
  BY SMT, <1>a, <1>2, <1>4, TranslateFlat
<1>5. CASE IsBanked(s, a) /\ IsBanked(t, b)
  <2>1. /\ BankOf(s, a) \in Int /\ CellOf(a) \in Int /\ Translate(s, a) \in Int
        /\ ~InBuildingB(a) => AtA(Translate(s, a), BankOf(s, a), CellOf(a))
        /\ InBuildingB(a) => AtB(Translate(s, a), BankOf(s, a), CellOf(a))
    BY SMT, <1>a, <1>5, Placed
  <2>2. /\ BankOf(t, b) \in Int /\ CellOf(b) \in Int
        /\ ~InBuildingB(b) => AtA(Translate(t, b), BankOf(t, b), CellOf(b))
        /\ InBuildingB(b) => AtB(Translate(t, b), BankOf(t, b), CellOf(b))
    BY SMT, <1>a, <1>5, Placed
  <2>3. InBuildingB(a) <=> InBuildingB(b)
    BY <2>1, <2>2, Strides
  <2>4. BankOf(s, a) = BankOf(t, b) /\ CellOf(a) = CellOf(b)
    BY <2>1, <2>2, <2>3, Strides
  <2>5. QED
    BY <1>5, <2>3, <2>4 DEF Locate
<1>6. QED
  BY <1>1, <1>3, <1>4, <1>5

\* The lock byte is the CPU's at exactly two addresses, 48472 and 48473, while
\* bank 8 of building B is selected.
THEOREM LockByteAddresses ==
  ASSUME RealSizes, NEW s \in Bytes, NEW a \in Addresses
  PROVE  Translate(s, a) = LockByte <=>
           (s \div 16 = 8 /\ (a = 48472 \/ a = 48473))
<1>a. /\ s \in Int /\ 0 <= s /\ s <= 255 /\ a \in Int /\ 0 <= a /\ a <= 65535
      /\ LockByte = 785535 /\ KERNAL_DAT_BASE = 48512 /\ PROGRAM_MEM_BASE = 512
  BY ByteIsInt, AddressIsInt, Layout DEF RealSizes
<1>b. a = 48472 \/ a = 48473 => PROGRAM_MEM(a) /\ InBuildingB(a)
  <2>1. a = 48472 \/ a = 48473 => PROGRAM_MEM(a)
    BY SMT, <1>a DEF PROGRAM_MEM
  <2>2. QED
    BY SMT, <1>a, <2>1, CellRange
<1>c. InBuildingB(a) => BankOf(s, a) = s \div 16
  BY DEF BankOf
<1>1. CASE ~IsBanked(s, a)
  <2>1. Translate(s, a) # LockByte
    BY SMT, <1>a, <1>1, TranslateFlat
  <2>2. ~(s \div 16 = 8 /\ (a = 48472 \/ a = 48473))
    BY SMT, <1>1, <1>b, <1>c DEF IsBanked
  <2>3. QED
    BY <2>1, <2>2
<1>2. CASE IsBanked(s, a) /\ ~InBuildingB(a)
  <2>1. Translate(s, a) # LockByte
    BY SMT, <1>a, <1>2, TranslateA
  <2>2. QED
    BY <1>2, <1>b, <2>1
<1>3. CASE IsBanked(s, a) /\ InBuildingB(a)
  <2>0. /\ BankOf(s, a) \in Int /\ 1 <= BankOf(s, a) /\ BankOf(s, a) <= 15
        /\ CellOf(a) \in Int /\ 12000 <= CellOf(a) /\ CellOf(a) <= 23999
        /\ Translate(s, a) = 425555 + CellOf(a) + 48000 * (BankOf(s, a) - 1)
    BY SMT, <1>a, <1>3, TranslateB
  <2>1. Translate(s, a) = LockByte <=>
          BankOf(s, a) = 8 /\ CellOf(a) = 23980
    BY SMT, <1>a, <2>0
  <2>2. CellOf(a) = (a - 512) \div 2
    BY SMT, <1>a, <1>3, CellRange DEF IsBanked
  <2>3. CellOf(a) = 23980 <=> a = 48472 \/ a = 48473
    BY SMT, <1>a, <2>2
  <2>4. QED
    BY <1>3, <1>c, <2>1, <2>3
<1>4. QED
  BY <1>1, <1>2, <1>3

\* With a bank selected, an address at an even distance from the base and the next one are
\* the same byte: a window of 24 KB holds 12 KB (README.md:31 and ram.h:51 say 24 KB banks).
THEOREM NeighboursShare ==
  ASSUME RealSizes, NEW s \in Bytes, NEW a \in Addresses, IsBanked(s, a), IsBanked(s, a + 1),
         a % 2 = 0, a # 24512
  PROVE  Translate(s, a) = Translate(s, a + 1)
<1>1. s \in Int /\ a \in Int
  BY ByteIsInt, AddressIsInt
<1>2. CellOf(a) = (a - 512) \div 2 /\ CellOf(a + 1) = (a + 1 - 512) \div 2
  BY <1>1, CellRange DEF IsBanked
<1>3. CellOf(a) = CellOf(a + 1)
  BY SMT, <1>1, <1>2
<1>4. InBuildingB(a) <=> InBuildingB(a + 1)
  BY SMT, <1>1, CellRange DEF IsBanked
<1>5. BankOf(s, a) = BankOf(s, a + 1)
  BY <1>4 DEF BankOf
<1>6. QED
  BY <1>3, <1>4, <1>5 DEF Translate

\* The debugger sees the byte the CPU would fetch exactly where no bank is selected: it
\* exchanges the buildings (ram.h:52-53 says building A is the lower half).
THEOREM DebuggerSeesUnbanked ==
  ASSUME RealSizes, NEW s \in Bytes, NEW a \in Addresses
  PROVE  DebuggerTranslate(s, a) = Translate(s, a) <=> ~IsBanked(s, a)
<1>1. BANK_A_OFF = 65555 /\ BANK_B_OFF = 425555
  BY Layout
<1>2. CASE IsBanked(s, a)
  <2>1. s \in Int /\ a \in Int /\ 0 <= s /\ s <= 255
    BY ByteIsInt, AddressIsInt
  <2>2. CellOf(a) \in Int
    BY <1>2, <2>1, CellRange DEF IsBanked
  <2>3. BankBase(BankOf(s, a)) \in Int
    BY SMT, <2>1, BankIsNibble DEF BankBase, RealSizes
  <2> DEFINE n == CellOf(a) + BankBase(BankOf(s, a))
  <2>4. /\ Translate(s, a) = (IF InBuildingB(a) THEN 425555 ELSE 65555) + n
        /\ DebuggerTranslate(s, a) = (IF InBuildingB(a) THEN 65555 ELSE 425555) + n
    BY SMT, <1>1, <1>2, <2>2, <2>3 DEF Translate, DebuggerTranslate
  <2>5. n \in Int
    BY <2>2, <2>3
  <2>6. QED
    BY SMT, <1>2, <2>4, <2>5
<1>3. CASE ~IsBanked(s, a)
  BY <1>3 DEF Translate, DebuggerTranslate
<1>4. QED
  BY <1>2, <1>3

\* An access leaves the mapping exactly when it goes to bank 9 or higher of
\* building B.
THEOREM FaultAddresses ==
  ASSUME RealSizes, NEW s \in Bytes, NEW a \in Addresses
  PROVE  Translate(s, a) >= MAPPED <=>
           (PROGRAM_MEM(a) /\ InBuildingB(a) /\ s \div 16 >= 9)
<1>a. /\ s \in Int /\ 0 <= s /\ s <= 255 /\ a \in Int /\ 0 <= a /\ a <= 65535
      /\ MAPPED = 786432
  BY ByteIsInt, AddressIsInt DEF RealSizes
<1>b. InBuildingB(a) => BankOf(s, a) = s \div 16
  BY DEF BankOf
<1>1. CASE ~IsBanked(s, a)
  <2>1. ~(Translate(s, a) >= MAPPED)
    BY SMT, <1>a, <1>1, TranslateFlat
  <2>2. ~(PROGRAM_MEM(a) /\ InBuildingB(a) /\ s \div 16 >= 9)
    BY SMT, <1>1, <1>b DEF IsBanked
  <2>3. QED
    BY <2>1, <2>2
<1>2. CASE IsBanked(s, a) /\ ~InBuildingB(a)
  <2>1. ~(Translate(s, a) >= MAPPED)
    BY SMT, <1>a, <1>2, TranslateA
  <2>2. QED
    BY <1>2, <2>1
<1>3. CASE IsBanked(s, a) /\ InBuildingB(a)
  <2>1. Translate(s, a) >= MAPPED <=> BankOf(s, a) >= 9
    BY SMT, <1>a, <1>3, TranslateB
  <2>2. QED
    BY SMT, <1>3, <1>b, <2>1 DEF IsBanked
<1>4. QED
  BY <1>1, <1>2, <1>3

\* The translation always gives a byte of the object or a place behind it.
LEMMA TranslateIsNat ==
  ASSUME RealSizes, NEW s \in Bytes, NEW a \in Addresses
  PROVE  Translate(s, a) \in Int /\ 0 <= Translate(s, a)
<1>a. /\ s \in Int /\ 0 <= s /\ s <= 255 /\ a \in Int /\ 0 <= a /\ a <= 65535
  BY ByteIsInt, AddressIsInt
<1>1. CASE ~IsBanked(s, a)
  BY SMT, <1>a, <1>1, TranslateFlat
<1>2. CASE IsBanked(s, a) /\ ~InBuildingB(a)
  BY SMT, <1>a, <1>2, TranslateA
<1>3. CASE IsBanked(s, a) /\ InBuildingB(a)
  BY SMT, <1>a, <1>3, TranslateB
<1>4. QED
  BY <1>1, <1>2, <1>3
------------------------------------------------------------------------------
\* Facts about one store.

\* A number below n is an index of an array of n bytes.
LEMMA BelowIsInRange ==
  ASSUME NEW n \in Int, NEW x \in Int, 0 <= x, x < n
  PROVE  x \in 0..(n - 1)
  OBVIOUS

\* Address 0 and the lock byte are two mapped bytes of the object.
LEMMA MappedBytes ==
  ASSUME RealSizes
  PROVE  /\ MAPPED \in Int /\ 0 \in 0..(MAPPED - 1)
         /\ LockByte \in 0..(MAPPED - 1) /\ LockByte # 0
<1>1. /\ MAPPED \in Int /\ 0 < MAPPED
      /\ LockByte \in Int /\ 0 < LockByte /\ LockByte < MAPPED
  BY SMT, Layout DEF RealSizes
<1>2. QED
  BY <1>1, BelowIsInRange

\* What the program stores is a byte.
LEMMA ValuesAreBytes ==
  /\ \A s \in Selects : s \in Bytes
  /\ \A v \in Data : v \in Bytes
  /\ 0 \in Bytes
<1>1. 0 \in Bytes
  BY SMT DEF Bytes
<1>2. QED
  BY <1>1, ValuesAssumption

\* The store of mem_byte_write keeps the types: it goes to a mapped byte or faults.
LEMMA PutKeepsType ==
  ASSUME RealSizes, TypeOK, NEW c \in Int, 0 <= c, NEW v \in Bytes, Put(c, v)
  PROVE  TypeOK'
<1>1. 0 \in Bytes
  BY ValuesAreBytes
<1>2. CASE c < MAPPED
  <2>1. c \in 0..(MAPPED - 1)
    BY SMT, <1>2, MappedBytes
  <2>2. mem' = [mem EXCEPT ![c] = v, ![LockByte] = 0] /\ fault' = fault
    BY <1>2 DEF Put
  <2>3. QED
    BY <1>1, <2>1, <2>2 DEF TypeOK
<1>3. CASE ~(c < MAPPED)
  BY <1>3 DEF Put, TypeOK
<1>4. QED
  BY <1>2, <1>3

\* Every step is a store by mem_byte_write or a load that faults.
LEMMA StepIsAccess ==
  ASSUME RealSizes, Next
  PROVE  \/ \E a \in Addresses, v \in Bytes : mem_byte_write(v, a)
         \/ \E a \in Addresses : mem_byte_read(a)
<1>0. 0 \in Addresses
  BY SMT DEF Addresses, RealSizes
<1>1. CASE SelectBanks
  BY <1>0, <1>1, ValuesAreBytes DEF SelectBanks
<1>2. CASE StoreByte
  BY <1>2, ValuesAreBytes DEF StoreByte
<1>3. CASE LoadByte
  BY <1>3 DEF LoadByte
<1>4. QED
  BY <1>1, <1>2, <1>3 DEF Next

\* The byte that selects the banks, while the memory is typed.
LEMMA SelectIsByte ==
  ASSUME RealSizes, TypeOK
  PROVE  Select \in Bytes
  BY MappedBytes DEF Select, TypeOK

\* What the emulator relies on: its memory is typed, and it has faulted only on
\* a high bank of building B.
IInv == TypeOK /\ FaultNeedsHighBank

\* The fresh object satisfies the inductive invariant.
LEMMA IInvInit == ASSUME RealSizes, Init PROVE IInv
<1>1. TypeOK
  BY ValuesAreBytes DEF Init, TypeOK
<1>2. FaultNeedsHighBank
  BY DEF Init, FaultNeedsHighBank
<1>3. QED
  BY <1>1, <1>2 DEF IInv

\* Every access of the CPU preserves it: a fault happens only with a high bank
\* selected, and nothing changes the selection afterwards.
LEMMA IInvStep == ASSUME RealSizes, IInv, [Next]_vars PROVE IInv'
<1>1. CASE UNCHANGED vars
  BY <1>1 DEF vars, IInv, TypeOK, FaultNeedsHighBank, Select
<1>2. ASSUME NEW a \in Addresses, NEW v \in Bytes, mem_byte_write(v, a)
      PROVE  IInv'
  <2> DEFINE c == Translate(Select, a)
  <2>1. Select \in Bytes
    BY SelectIsByte DEF IInv
  <2>2. c \in Int /\ 0 <= c
    BY <2>1, TranslateIsNat
  <2>3. ~fault /\ Put(c, v)
    BY <1>2 DEF mem_byte_write
  <2> HIDE DEF c
  <2>4. TypeOK'
    BY <2>2, <2>3, PutKeepsType DEF IInv
  <2>5. CASE c < MAPPED
    BY <2>3, <2>4, <2>5 DEF Put, IInv, FaultNeedsHighBank
  <2>6. CASE ~(c < MAPPED)
    <3>1. c >= MAPPED
      BY SMT, <2>2, <2>6, MappedBytes
    <3>2. Select \div 16 >= 9
      BY <2>1, <3>1, FaultAddresses DEF c
    <3>3. Select' = Select
      BY <2>3, <2>6 DEF Put, Select
    <3>4. QED
      BY <2>4, <3>2, <3>3 DEF IInv, FaultNeedsHighBank
  <2>7. QED
    BY <2>5, <2>6
<1>3. ASSUME NEW a \in Addresses, mem_byte_read(a)
      PROVE  IInv'
  <2>1. Select \in Bytes
    BY SelectIsByte DEF IInv
  <2>2. Select \div 16 >= 9
    BY <1>3, <2>1, FaultAddresses DEF mem_byte_read
  <2>3. QED
    BY <1>3, <2>2 DEF mem_byte_read, IInv, TypeOK, FaultNeedsHighBank, Select
<1>4. QED
  BY <1>1, <1>2, <1>3, StepIsAccess

\* With the sizes of the emulator the memory stays a memory of bytes.
THEOREM TypeCorrect == ASSUME RealSizes PROVE Spec => []TypeOK
<1>1. Init => IInv
  BY IInvInit
<1>2. IInv /\ [Next]_vars => IInv'
  BY IInvStep
<1>3. IInv => TypeOK
  BY DEF IInv
<1>4. QED
  BY <1>1, <1>2, <1>3, PTL DEF Spec

\* The lock byte is reached with bank 8 of building B only, whatever the program has stored.
LEMMA LockByteGuarded == ASSUME RealSizes, IInv PROVE LockByteNeedsBank8
<1> SUFFICES ASSUME NEW a \in Addresses, Translate(Select, a) = LockByte
             PROVE  Select \div 16 = 8 /\ InBuildingB(a)
  BY DEF LockByteNeedsBank8
<1>1. Select \in Bytes
  BY SelectIsByte DEF IInv
<1>2. Select \div 16 = 8 /\ (a = 48472 \/ a = 48473)
  BY <1>1, LockByteAddresses
<1>3. PROGRAM_MEM(a)
  BY SMT, <1>2, Layout DEF PROGRAM_MEM, RealSizes
<1>4. QED
  BY SMT, <1>2, <1>3, CellRange

\* The program reaches the lock byte through bank 8 of building B only, and leaves
\* the mapping through bank 9 or higher of it.
THEOREM StraysAreHigh == ASSUME RealSizes PROVE Spec => []StraysNeedHighBank
<1>1. IInv => StraysNeedHighBank
  BY LockByteGuarded DEF IInv, StraysNeedHighBank
<1>2. QED
  BY <1>1, IInvInit, IInvStep, PTL DEF Spec

\* A store lands outside the ROM and the CPU's registers.
LEMMA StoreSparesRom ==
  ASSUME RealSizes, NEW s \in Bytes, NEW a \in Addresses, ~KERNAL_MEM(a)
  PROVE  LET c == Translate(s, a)
         IN  ~KERNAL_MEM(c) /\ ~(MEMORY_SIZE < c /\ c < BANK_A_OFF)
<1>a. /\ s \in Int /\ 0 <= s /\ s <= 255 /\ a \in Int /\ 0 <= a /\ a <= 65535
      /\ MEMORY_SIZE = 65535 /\ BANK_A_OFF = 65555
  BY ByteIsInt, AddressIsInt, Layout DEF RealSizes
<1>1. CASE ~IsBanked(s, a)
  BY SMT, <1>a, <1>1, TranslateFlat
<1>2. CASE IsBanked(s, a)
  <2>1. Translate(s, a) \in Int /\ Translate(s, a) >= 65555
    <3>1. CASE InBuildingB(a)
      BY SMT, <1>a, <1>2, <3>1, TranslateB
    <3>2. CASE ~InBuildingB(a)
      BY SMT, <1>a, <1>2, <3>2, TranslateA
    <3>3. QED
      BY <3>1, <3>2
  <2>2. QED
    BY SMT, <1>a, <2>1 DEF KERNAL_MEM
<1>3. QED
  BY <1>1, <1>2

\* Clearing the lock byte touches neither the ROM nor the registers.
LEMMA LockByteIsHigh ==
  ASSUME RealSizes
  PROVE  ~KERNAL_MEM(LockByte) /\ ~(MEMORY_SIZE < LockByte /\ LockByte < BANK_A_OFF)
  BY SMT, Layout DEF KERNAL_MEM, RealSizes

\* The bytes of the ROM that KERNAL_MEM names, and the registers, survive a step.
RomKept ==
  \A c \in DOMAIN mem :
    (KERNAL_MEM(c) \/ (MEMORY_SIZE < c /\ c < BANK_A_OFF)) => mem'[c] = mem[c]

\* What is left of the ROM and of the registers is its last byte.
OnlyTopChanges ==
  \A c \in DOMAIN mem :
    (KERNAL_MEM_BASE <= c /\ c < BANK_A_OFF /\ mem'[c] # mem[c]) => c = MEMORY_SIZE

\* No access changes them: ROM addresses return early in
\* mem_byte_write, and no other address is translated into their range.
LEMMA RomStep == ASSUME RealSizes, IInv, [Next]_vars PROVE [RomKept]_vars
<1>1. CASE UNCHANGED vars
  BY <1>1
<1>2. ASSUME NEW a \in Addresses, NEW v \in Bytes, mem_byte_write(v, a)
      PROVE  RomKept
  <2> DEFINE c == Translate(Select, a)
  <2>1. ~KERNAL_MEM(c) /\ ~(MEMORY_SIZE < c /\ c < BANK_A_OFF)
    BY <1>2, SelectIsByte, StoreSparesRom DEF mem_byte_write, IInv
  <2>2. Put(c, v)
    BY <1>2 DEF mem_byte_write
  <2> HIDE DEF c
  <2>3. CASE c < MAPPED
    <3> SUFFICES ASSUME NEW r \in DOMAIN mem,
                        KERNAL_MEM(r) \/ (MEMORY_SIZE < r /\ r < BANK_A_OFF)
                 PROVE  mem'[r] = mem[r]
      BY DEF RomKept
    <3>1. r # c /\ r # LockByte
      BY <2>1, LockByteIsHigh
    <3>2. mem' = [mem EXCEPT ![c] = v, ![LockByte] = 0]
      BY <2>2, <2>3 DEF Put
    <3>3. QED
      BY <3>1, <3>2
  <2>4. CASE ~(c < MAPPED)
    BY <2>2, <2>4 DEF Put, RomKept
  <2>5. QED
    BY <2>3, <2>4
<1>3. ASSUME NEW a \in Addresses, mem_byte_read(a)
      PROVE  RomKept
  BY <1>3 DEF mem_byte_read, RomKept
<1>4. QED
  BY <1>1, <1>2, <1>3, StepIsAccess

\* A step that keeps what KERNAL_MEM names changes the last byte of the ROM only.
LEMMA RomKeptButTop == ASSUME RealSizes, IInv, RomKept PROVE OnlyTopChanges
<1> SUFFICES ASSUME NEW c \in DOMAIN mem, KERNAL_MEM_BASE <= c, c < BANK_A_OFF,
                    mem'[c] # mem[c]
             PROVE  c = MEMORY_SIZE
  BY DEF OnlyTopChanges
<1>1. c \in Int
  <2>1. c \in 0..(MAPPED - 1)
    BY DEF IInv, TypeOK
  <2>2. MAPPED \in Int
    BY MappedBytes
  <2>3. QED
    BY <2>1, <2>2
<1>2. ~KERNAL_MEM(c) /\ ~(MEMORY_SIZE < c)
  BY DEF RomKept
<1>3. QED
  BY SMT, <1>1, <1>2 DEF KERNAL_MEM, RealSizes

\* In every behaviour the last byte of the ROM is the only one of the ROM and of
\* the registers that a store of the CPU changes (OnlyTopByteWritten).
THEOREM RomButTopSurvives == ASSUME RealSizes PROVE Spec => OnlyTopByteWritten
<1>1. Init => IInv
  BY IInvInit
<1>2. IInv /\ [Next]_vars => IInv'
  BY IInvStep
<1>3. IInv /\ [Next]_vars => [OnlyTopChanges]_vars
  BY RomStep, RomKeptButTop
<1>4. QED
  BY <1>1, <1>2, <1>3, PTL DEF Spec, OnlyTopByteWritten, OnlyTopChanges

\* That byte is written: ram.h:15 says "0xDCC0 - 0xFFFF : Kernal ROM", and yet a
\* store to $FFFF, the high byte of the IRQ vector, is neither refused nor led to
\* a bank, whatever banks are selected (ram.h:106, mem_byte_write).
THEOREM TopOfRomIsWritable ==
  ASSUME RealSizes, ~fault, NEW v \in Bytes
  PROVE  mem_byte_write(v, 65535) <=>
           mem' = [mem EXCEPT ![65535] = v, ![LockByte] = 0] /\ UNCHANGED fault
<1>1. /\ KERNAL_DAT_BASE = 48512 /\ MEMORY_SIZE = 65535 /\ MAPPED = 786432
  BY Layout DEF RealSizes
<1>2. ~KERNAL_MEM(65535)
  BY SMT, <1>1 DEF KERNAL_MEM
<1>3. ~IsBanked(Select, 65535)
  BY SMT, <1>1 DEF IsBanked, PROGRAM_MEM
<1>4. Translate(Select, 65535) = 65535
  BY <1>3 DEF Translate
<1>5. 65535 < MAPPED
  BY SMT, <1>1
<1>6. QED
  BY <1>2, <1>4, <1>5 DEF mem_byte_write, Put

------------------------------------------------------------------------------
\* The banked memory is a random-access store.

\* The place of a located cell is where the access goes.
LEMMA PlaceOfLocated ==
  ASSUME NEW s \in Bytes, NEW a \in Addresses
  PROVE  Place(Locate(s, a)) = Translate(s, a)
<1>1. CASE ~IsBanked(s, a)
  BY <1>1 DEF Place, Locate, Translate
<1>2. CASE IsBanked(s, a) /\ InBuildingB(a)
  BY <1>2 DEF Place, Locate, Translate
<1>3. CASE IsBanked(s, a) /\ ~InBuildingB(a)
  BY <1>3 DEF Place, Locate, Translate
<1>4. QED
  BY <1>1, <1>2, <1>3

\* Each cell has a byte of its own, which is not the lock byte.
LEMMA PlaceIsInjective ==
  ASSUME RealSizes, NEW c \in Cells
  PROVE  /\ Place(c) \in 0..(MAPPED - 1) /\ Place(c) # LockByte
         /\ \A d \in Cells : Place(c) = Place(d) => c = d
<1>1. PICK s \in Bytes, a \in Addresses : c = Locate(s, a)
  BY DEF Cells
<1>2. Place(c) = Translate(s, a)
  BY <1>1, PlaceOfLocated
<1>3. Place(c) \in Int /\ 0 <= Place(c)
  BY <1>2, TranslateIsNat
<1>4. Place(c) < MAPPED /\ Place(c) # LockByte
  BY DEF Cells
<1>5. Place(c) \in 0..(MAPPED - 1)
  BY SMT, <1>3, <1>4, MappedBytes
<1>6. ASSUME NEW d \in Cells, Place(c) = Place(d)
      PROVE  c = d
  <2>1. PICK t \in Bytes, b \in Addresses : d = Locate(t, b)
    BY DEF Cells
  <2>2. Place(d) = Translate(t, b)
    BY <2>1, PlaceOfLocated
  <2>3. Translate(s, a) = Translate(t, b)
    BY <1>2, <1>6, <2>2
  <2>4. Locate(s, a) = Locate(t, b)
    BY <2>3, BanksAreDisjoint
  <2>5. QED
    BY <1>1, <2>1, <2>4
<1>7. QED
  BY <1>4, <1>5, <1>6

\* The memory as the program sees it.
View == [c \in Cells |-> mem[Place(c)]]

\* The banks seen as one function from cells to bytes.
LEMMA ViewInit == ASSUME RealSizes, IInv PROVE View \in [Cells -> Bytes]
  BY PlaceIsInjective DEF View, IInv, TypeOK

\* Every step of the object changes at most one cell of that function.
LEMMA ViewStep ==
  ASSUME RealSizes, IInv, [Next]_vars
  PROVE  (\E c \in Cells : View'[c] \in Bytes
                           /\ View' = [View EXCEPT ![c] = View'[c]])
         \/ View' = View
<1>1. CASE UNCHANGED vars
  BY <1>1 DEF vars, View
<1>2. ASSUME NEW a \in Addresses, NEW v \in Bytes, mem_byte_write(v, a)
      PROVE  \/ \E c \in Cells : /\ View'[c] \in Bytes
                                 /\ View' = [View EXCEPT ![c] = View'[c]]
             \/ View' = View
  <2> DEFINE x == Translate(Select, a)
             cell == Locate(Select, a)
  <2>1. Select \in Bytes
    BY SelectIsByte DEF IInv
  <2>2. Place(cell) = x
    BY <2>1, PlaceOfLocated
  <2>3. Put(x, v)
    BY <1>2 DEF mem_byte_write
  <2>4. x < MAPPED /\ x # LockByte => cell \in Cells
    BY <2>1, <2>2 DEF Cells
  <2> HIDE DEF x, cell
  <2>5. CASE ~(x < MAPPED)
    BY <2>3, <2>5 DEF Put, View
  <2>6. CASE x < MAPPED /\ x = LockByte
    <3>1. mem' = [mem EXCEPT ![x] = v, ![LockByte] = 0]
      BY <2>3, <2>6 DEF Put
    <3>2. \A c \in Cells : mem'[Place(c)] = mem[Place(c)]
      BY <2>6, <3>1, PlaceIsInjective DEF IInv, TypeOK
    <3>3. QED
      BY <3>2 DEF View
  <2>7. CASE x < MAPPED /\ x # LockByte
    <3>1. mem' = [mem EXCEPT ![x] = v, ![LockByte] = 0]
      BY <2>3, <2>7 DEF Put
    <3>2. cell \in Cells
      BY <2>4, <2>7
    <3>3. \A c \in Cells : c # cell => mem'[Place(c)] = mem[Place(c)]
      BY <2>2, <3>1, <3>2, PlaceIsInjective DEF IInv, TypeOK
    <3>4. mem'[Place(cell)] = v
      BY <2>2, <2>7, <3>1, <3>2, PlaceIsInjective DEF IInv, TypeOK
    <3>5. View'[cell] \in Bytes
      BY <3>2, <3>4 DEF View
    <3>6. View' = [View EXCEPT ![cell] = View'[cell]]
      BY <3>2, <3>3 DEF View
    <3>7. QED
      BY <3>2, <3>5, <3>6
  <2>8. QED
    BY <2>5, <2>6, <2>7
<1>3. ASSUME NEW a \in Addresses, mem_byte_read(a)
      PROVE  View' = View
  BY <1>3 DEF mem_byte_read, View
<1>4. QED
  BY <1>1, <1>2, <1>3, StepIsAccess

\* However banks are switched, every cell keeps its value until it is written:
\* the translation of ram.c with the sizes of the emulator is a memory.
THEOREM MemoryIsStore == ASSUME RealSizes PROVE Spec => ImplementsStore
<1>1. Init => IInv
  BY IInvInit
<1>2. IInv /\ [Next]_vars => IInv'
  BY IInvStep
<1>3. IInv => Memory!Init
  BY ViewInit DEF Memory!Init, Memory!TypeOK, View
<1>4. IInv /\ [Next]_vars => [Memory!Next]_View
  BY ViewStep DEF Memory!Next, Memory!Write, View
<1>5. QED
  BY <1>1, <1>2, <1>3, <1>4, PTL DEF Spec, ImplementsStore, Memory!Spec, View

==============================================================================
