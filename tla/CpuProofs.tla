----------------------------- MODULE CpuProofs -----------------------------
(***************************************************************************)
(* Proofs about Cpu, for bytes of any width, any program, any vectors and  *)
(* interrupts at any time.                                                 *)
(***************************************************************************)
EXTENDS Cpu, TLAPS

-----------------------------------------------------------------------------
(* Arithmetic.                                                             *)

LEMMA ByteSize == Byte \in Nat /\ Byte >= 4 /\ Half \in Nat /\ Byte = 2 * Half
  BY CpuAssumption DEF Byte

\* The remainder by a byte, for all that is computed here.
LEMMA Remainder ==
  ASSUME NEW n \in Int, -Byte <= n, n < 2 * Byte
  PROVE  n % Byte = IF n < 0 THEN n + Byte ELSE IF n < Byte THEN n ELSE n - Byte
<1>1. CASE n < 0
  BY <1>1, ByteSize
<1>2. CASE 0 <= n /\ n < Byte
  BY <1>2, ByteSize
<1>3. CASE Byte <= n
  <2> DEFINE m == n - Byte
  <2>1. m \in Nat /\ m < Byte /\ n = m + Byte
    BY <1>3, ByteSize
  <2>2. (m + Byte) % Byte = m
    <3> HIDE DEF m
    <3> QED
      BY <2>1, ByteSize
  <2>3. QED
    BY <1>3, <2>1, <2>2, ByteSize
<1>4. QED
  BY <1>1, <1>2, <1>3, ByteSize

LEMMA RemainderAbove ==
  ASSUME NEW n \in Nat, n < 2 * Byte
  PROVE  n % Byte = IF n < Byte THEN n ELSE n - Byte
<1>1. n \in Int /\ -Byte <= n /\ ~(n < 0)
  BY ByteSize
<1>2. QED
  BY <1>1, Remainder

LEMMA LowOf ==
  ASSUME NEW n \in Int, -Byte <= n, n < 2 * Byte
  PROVE  /\ Low(n) \in Bytes
         /\ Low(n) = IF n < 0 THEN n + Byte ELSE IF n < Byte THEN n ELSE n - Byte
<1>1. n % Byte = IF n < 0 THEN n + Byte ELSE IF n < Byte THEN n ELSE n - Byte
  BY Remainder
<1>2. QED
  BY <1>1, ByteSize DEF Low, Bytes

LEMMA WordTyped == ASSUME NEW n \in Nat PROVE Word(n) \in Addresses
<1>1. Byte * Byte \in Nat /\ Byte * Byte > 0
  BY ByteSize
<1>2. QED
  BY <1>1 DEF Word, Addresses

\* An address is the word of its bytes.
LEMMA BytesOfWord ==
  ASSUME NEW w \in Addresses
  PROVE  /\ Low(w) \in Bytes /\ High(w) \in Bytes
         /\ Low(w) + Byte * High(w) = w
<1>1. w \in Nat /\ w < Byte * Byte /\ Byte > 0
  BY ByteSize DEF Addresses
<1>2. w % Byte = w - Byte * (w \div Byte) /\ w % Byte \in 0..(Byte - 1)
  BY <1>1, ByteSize
<1>3. w \div Byte \in Nat
  BY <1>1, ByteSize
<1>4. w \div Byte < Byte
  <2>1. SUFFICES ASSUME w \div Byte >= Byte PROVE FALSE
    BY <1>3, ByteSize
  <2>2. Byte * (w \div Byte) >= Byte * Byte
    BY <1>3, <2>1, ByteSize
  <2>3. Byte * (w \div Byte) \in Nat /\ Byte * Byte \in Nat
    BY <1>3, ByteSize
  <2>4. QED
    BY <1>1, <1>2, <2>2, <2>3, ByteSize
<1>5. Byte * (w \div Byte) \in Nat
  BY <1>3, ByteSize
<1>6. QED
  BY <1>1, <1>2, <1>3, <1>4, <1>5, ByteSize DEF Low, High, Bytes

LEMMA WordOfBytes ==
  ASSUME NEW l \in Bytes, NEW h \in Bytes
  PROVE  l + Byte * h \in Addresses
<1>1. h + 1 <= Byte /\ h \in Nat /\ l \in Nat /\ l < Byte
  BY ByteSize DEF Bytes
<1>2. Byte * (h + 1) <= Byte * Byte /\ Byte * (h + 1) = Byte * h + Byte
  BY <1>1, ByteSize
<1>3. Byte * h \in Nat /\ Byte * Byte \in Nat
  BY <1>1, ByteSize
<1>4. QED
  BY <1>1, <1>2, <1>3, ByteSize DEF Addresses

-----------------------------------------------------------------------------
(* Flags, bytes and the calculations on them.                              *)

LEMMA SetNZTyped ==
  ASSUME NEW f \in Flags, NEW v \in Int
  PROVE  SET_NZ(f, v) \in Flags /\ SET_NZ(f, v).C = f.C
<1>1. Negative(v) \in BOOLEAN
  BY DEF Negative
<1>2. QED
  BY <1>1 DEF SET_NZ, Flags

LEMMA WithC ==
  ASSUME NEW f \in Flags, NEW c \in BOOLEAN
  PROVE  [f EXCEPT !.C = c] \in Flags /\ [f EXCEPT !.C = c].C = c
  BY DEF Flags

LEMMA WithCV ==
  ASSUME NEW f \in Flags, NEW c \in BOOLEAN, NEW w \in BOOLEAN
  PROVE  [f EXCEPT !.C = c, !.V = w] \in Flags /\ [f EXCEPT !.C = c, !.V = w].C = c
  BY DEF Flags

LEMMA WithCZVN ==
  ASSUME NEW f \in Flags, NEW c \in BOOLEAN, NEW z \in BOOLEAN, NEW w \in BOOLEAN,
         NEW n \in BOOLEAN
  PROVE  /\ [C |-> c, Z |-> z, I |-> f.I, V |-> w, N |-> n] \in Flags
         /\ [C |-> c, Z |-> z, I |-> f.I, V |-> w, N |-> n].C = c
  BY DEF Flags

LEMMA BitOf == ASSUME NEW c \in BOOLEAN PROVE (c /\ Bit(c) = 1) \/ (~c /\ Bit(c) = 0)
  BY DEF Bit

LEMMA CarryOf == Carry(0) = 0 /\ Carry(Byte) = 1 /\ Carry(-Byte) = -1
  BY ByteSize DEF Carry

\* A sum: the byte and the carry are the sum.
LEMMA Sum ==
  ASSUME NEW f \in Flags, NEW x \in Bytes, NEW v \in Bytes
  PROVE  /\ ARIT_ADD_SET(f, x, v).a \in Bytes /\ ARIT_ADD_SET(f, x, v).p \in Flags
         /\ Carry((x + v + Bit(f.C)) - ARIT_ADD_SET(f, x, v).a) = Bit(ARIT_ADD_SET(f, x, v).p.C)
<1> DEFINE res == x + v + Bit(f.C)
<1>1. res \in Nat /\ res < 2 * Byte
  BY ByteSize DEF Bytes, Bit, Flags
<1>2. Low(res) \in Bytes /\ Low(res) = IF res < Byte THEN res ELSE res - Byte
  BY <1>1, LowOf, ByteSize
<1>3. ARIT_ADD_SET(f, x, v).a = Low(res)
  BY DEF ARIT_ADD_SET
<1>4. SET_NZ(f, Low(res)) \in Flags
  BY <1>2, SetNZTyped, ByteSize DEF Bytes
<1>5. Negative(Low(res)) \in BOOLEAN /\ Negative(x) \in BOOLEAN
  BY DEF Negative
<1> DEFINE c == res >= Byte
           w == Negative(Low(res)) # Negative(x)
<1>6. c \in BOOLEAN /\ w \in BOOLEAN
  OBVIOUS
<1>7. ARIT_ADD_SET(f, x, v).p = [SET_NZ(f, Low(res)) EXCEPT !.C = c, !.V = w]
  BY DEF ARIT_ADD_SET
<1>8. c <=> res >= Byte
  OBVIOUS
<1> HIDE DEF c, w
<1>9. ARIT_ADD_SET(f, x, v).p \in Flags /\ ARIT_ADD_SET(f, x, v).p.C = c
  <2> DEFINE g == SET_NZ(f, Low(res))
  <2>1. g \in Flags
    BY <1>4
  <2> HIDE DEF g
  <2>2. [g EXCEPT !.C = c, !.V = w] \in Flags /\ [g EXCEPT !.C = c, !.V = w].C = c
    BY <1>6, <2>1, WithCV
  <2>3. QED
    BY <1>7, <2>2 DEF g
<1> HIDE DEF res
<1>10. Carry(res - Low(res)) = Bit(c)
  <2>1. CASE c
    <3>1. res - Low(res) = Byte
      BY <1>1, <1>2, <1>8, <2>1, ByteSize
    <3>2. QED
      BY <1>6, <2>1, <3>1, BitOf, CarryOf
  <2>2. CASE ~c
    <3>1. res - Low(res) = 0
      BY <1>1, <1>2, <1>8, <2>2, ByteSize
    <3>2. QED
      BY <1>6, <2>2, <3>1, BitOf, CarryOf
  <2>3. QED
    BY <2>1, <2>2
<1>11. Carry(res - ARIT_ADD_SET(f, x, v).a) = Bit(ARIT_ADD_SET(f, x, v).p.C)
  BY <1>3, <1>9, <1>10
<1>12. (x + v + Bit(f.C)) - ARIT_ADD_SET(f, x, v).a = res - ARIT_ADD_SET(f, x, v).a
  BY DEF res
<1>13. ARIT_ADD_SET(f, x, v).a \in Bytes
  BY <1>2, <1>3
<1>14. QED
  BY <1>9, <1>11, <1>12, <1>13

\* A difference: the borrow is the carry that is missing.
LEMMA Difference ==
  ASSUME NEW f \in Flags, NEW x \in Bytes, NEW v \in Bytes
  PROVE  /\ ARIT_SUB_SET(f, x, v).a \in Bytes /\ ARIT_SUB_SET(f, x, v).p \in Flags
         /\ Carry((x - v + (Bit(f.C) - 1)) - ARIT_SUB_SET(f, x, v).a)
              = Bit(ARIT_SUB_SET(f, x, v).p.C) - 1
<1> DEFINE res == x - v - Bit(~f.C)
<1>1. res \in Int /\ -Byte <= res /\ res < Byte /\ res = x - v + (Bit(f.C) - 1)
  BY ByteSize DEF Bytes, Bit, Flags
<1>2. Low(res) \in Bytes /\ Low(res) = IF res < 0 THEN res + Byte ELSE res
  BY <1>1, LowOf, ByteSize
<1>3. ARIT_SUB_SET(f, x, v).a = Low(res)
  BY DEF ARIT_SUB_SET
<1> DEFINE c == res >= 0
           z == res = 0
           w == Low(res) = Half
           n == Negative(Low(res))
<1>4. c \in BOOLEAN /\ z \in BOOLEAN /\ w \in BOOLEAN /\ n \in BOOLEAN
  BY DEF Negative
<1>5. ARIT_SUB_SET(f, x, v).p = [C |-> c, Z |-> z, I |-> f.I, V |-> w, N |-> n]
  BY DEF ARIT_SUB_SET
<1>6. c <=> res >= 0
  OBVIOUS
<1> HIDE DEF c, z, w, n
<1>7. ARIT_SUB_SET(f, x, v).p \in Flags /\ ARIT_SUB_SET(f, x, v).p.C = c
  BY <1>4, <1>5, WithCZVN
<1> HIDE DEF res
<1>8. Carry(res - Low(res)) = Bit(c) - 1
  <2>1. CASE c
    <3>1. res - Low(res) = 0
      BY <1>1, <1>2, <1>6, <2>1, ByteSize
    <3>2. Carry(0) = 0 /\ Bit(c) = 1
      BY <1>4, <2>1, BitOf, CarryOf
    <3>3. QED
      BY <3>1, <3>2
  <2>2. CASE ~c
    <3>1. res - Low(res) = -Byte
      BY <1>1, <1>2, <1>6, <2>2, ByteSize
    <3>2. Carry(-Byte) = -1 /\ Bit(c) = 0
      BY <1>4, <2>2, BitOf, CarryOf
    <3>3. QED
      BY <3>1, <3>2
  <2>3. QED
    BY <2>1, <2>2
<1>9. Carry(res - ARIT_SUB_SET(f, x, v).a) = Bit(ARIT_SUB_SET(f, x, v).p.C) - 1
  BY <1>3, <1>7, <1>8
<1>10. (x - v + (Bit(f.C) - 1)) - ARIT_SUB_SET(f, x, v).a = res - ARIT_SUB_SET(f, x, v).a
  BY <1>1
<1>11. ARIT_SUB_SET(f, x, v).a \in Bytes
  BY <1>2, <1>3
<1>12. QED
  BY <1>7, <1>9, <1>10, <1>11

LEMMA Compared ==
  ASSUME NEW f \in Flags, NEW x \in Bytes, NEW v \in Bytes
  PROVE  /\ CMP_SET(f, x, v) \in Flags
         /\ CMP_SET(f, x, v).C <=> x >= v
         /\ CMP_SET(f, x, v).Z <=> x = v
<1> DEFINE c == x >= v
           z == x = v
           n == Negative(Low(x - v))
<1>1. c \in BOOLEAN /\ z \in BOOLEAN /\ n \in BOOLEAN
  BY DEF Negative
<1>2. (c <=> x >= v) /\ (z <=> x = v)
  OBVIOUS
<1>3. CMP_SET(f, x, v) = [f EXCEPT !.C = c, !.Z = z, !.N = n]
  BY DEF CMP_SET
<1> HIDE DEF c, z, n
<1>4. /\ [f EXCEPT !.C = c, !.Z = z, !.N = n] \in Flags
      /\ [f EXCEPT !.C = c, !.Z = z, !.N = n].C = c
      /\ [f EXCEPT !.C = c, !.Z = z, !.N = n].Z = z
  BY <1>1 DEF Flags
<1>5. /\ CMP_SET(f, x, v) \in Flags
      /\ CMP_SET(f, x, v).C = c /\ CMP_SET(f, x, v).Z = z
  BY Zenon, <1>3, <1>4
<1>6. QED
  BY <1>2, <1>5

\* What a shift leaves of a byte.
LEMMA Shifted ==
  ASSUME NEW op \in {"ASL", "LSR", "ROL", "ROR"}, NEW f \in Flags, NEW v \in Bytes
  PROVE  /\ Shift(op, f, v).a \in Bytes /\ Shift(op, f, v).p \in Flags
         /\ op = "ROL" => Carry((2 * v + Bit(f.C)) - Shift(op, f, v).a) = Bit(Shift(op, f, v).p.C)
         /\ op = "LSR" => v - 2 * Shift(op, f, v).a = Bit(Shift(op, f, v).p.C)
         /\ op = "ROR" => (Byte * Bit(f.C) + v) - 2 * Shift(op, f, v).a
                            = Bit(Shift(op, f, v).p.C)
<1> DEFINE res == Shift(op, f, v).a
<1>1. v \in Nat /\ v < Byte /\ Bit(f.C) \in {0, 1} /\ f.C \in BOOLEAN
  BY ByteSize DEF Bytes, Bit, Flags
<1>2. op = "ASL" => res = Low(2 * v)
  BY DEF Shift
<1>3. op = "ROL" => res = Low(2 * v + Bit(f.C))
  BY DEF Shift
<1>4. op = "LSR" => res = v \div 2
  BY DEF Shift
<1>5. op = "ROR" => res = v \div 2 + Bit(f.C) * Half
  BY DEF Shift
<1>6. op = "ASL" => res \in Bytes
  BY <1>1, <1>2, LowOf, ByteSize
<1>7. op = "ROL" => /\ res \in Bytes
                    /\ res = IF 2 * v + Bit(f.C) < Byte THEN 2 * v + Bit(f.C)
                             ELSE 2 * v + Bit(f.C) - Byte
  BY <1>1, <1>3, LowOf, ByteSize
<1>8. op \in {"LSR", "ROR"} => res \in Bytes
  BY <1>1, <1>4, <1>5, ByteSize DEF Bytes
<1>9. res \in Bytes
  BY <1>6, <1>7, <1>8
<1>10. SET_NZ(f, res) \in Flags
  BY <1>9, SetNZTyped, ByteSize DEF Bytes
<1> DEFINE c == (op = "ROL" /\ Negative(v)) \/ (op \in {"LSR", "ROR"} /\ v % 2 = 1)
<1>11. Shift(op, f, v).p = [SET_NZ(f, res) EXCEPT !.C = c]
  BY DEF Shift
<1>12. /\ c \in BOOLEAN
       /\ op = "ROL" => (c <=> v >= Half)
       /\ op \in {"LSR", "ROR"} => (c <=> v % 2 = 1)
  BY DEF Negative
<1> HIDE DEF res, c
<1>13. Shift(op, f, v).p \in Flags /\ Shift(op, f, v).p.C = c
  BY <1>10, <1>11, <1>12, WithC
<1>14. op = "ROL" => Carry((2 * v + Bit(f.C)) - res) = Bit(c)
  <2> SUFFICES ASSUME op = "ROL" PROVE Carry((2 * v + Bit(f.C)) - res) = Bit(c)
    OBVIOUS
  <2>1. CASE c
    <3>1. (2 * v + Bit(f.C)) - res = Byte
      BY <1>1, <1>7, <1>12, <2>1, ByteSize
    <3>2. Carry(Byte) = Bit(c)
      BY <1>12, <2>1, BitOf, CarryOf
    <3>3. QED
      BY <3>1, <3>2
  <2>2. CASE ~c
    <3>1. (2 * v + Bit(f.C)) - res = 0
      BY <1>1, <1>7, <1>12, <2>2, ByteSize
    <3>2. Carry(0) = Bit(c)
      BY <1>12, <2>2, BitOf, CarryOf
    <3>3. QED
      BY <3>1, <3>2
  <2>3. QED
    BY <2>1, <2>2
<1>15. op = "LSR" => v - 2 * res = Bit(c)
  BY <1>1, <1>4, <1>12, BitOf
<1>16. op = "ROR" => (Byte * Bit(f.C) + v) - 2 * res = Bit(c)
  <2>1. CASE Bit(f.C) = 0
    BY <1>1, <1>5, <1>12, <2>1, BitOf, ByteSize
  <2>2. CASE Bit(f.C) = 1
    BY <1>1, <1>5, <1>12, <2>2, BitOf, ByteSize
  <2>3. QED
    BY <1>1, <2>1, <2>2
<1>17. QED
  BY <1>9, <1>13, <1>14, <1>15, <1>16 DEF res

-----------------------------------------------------------------------------
(* The stack.  The byte k above S is Up(k); a push of n bytes goes to      *)
(* Down(0) to Down(n - 1), and a pull of n bytes takes Up(1) to Up(n).     *)

LEMMA UpDownTyped ==
  ASSUME s \in Bytes, NEW n \in 0..Byte
  PROVE  /\ Up(n) \in Bytes /\ Up(n) = IF s + n < Byte THEN s + n ELSE s + n - Byte
         /\ Down(n) \in Bytes /\ Down(n) = IF s >= n THEN s - n ELSE s + Byte - n
<1>1. s \in Nat /\ s < Byte /\ n \in Nat /\ n <= Byte
  BY ByteSize DEF Bytes
<1>2. (s + n) % Byte = IF s + n < Byte THEN s + n ELSE s + n - Byte
  <2>1. PICK w \in Nat : w = s + n
    BY <1>1
  <2>2. w < 2 * Byte
    BY <1>1, <2>1, ByteSize
  <2> DEFINE m == w % Byte
  <2>3. m = IF w < Byte THEN w ELSE w - Byte
    BY <2>2, RemainderAbove
  <2>4. (s + n) % Byte = m
    BY Zenon, <2>1
  <2> HIDE DEF m
  <2>5. m = IF s + n < Byte THEN s + n ELSE s + n - Byte
    BY <1>1, <2>1, <2>3, ByteSize
  <2>6. QED
    BY Zenon, <2>4, <2>5
<1>3. s + Byte - n \in Int /\ -Byte <= s + Byte - n /\ s + Byte - n < 2 * Byte
  BY <1>1, ByteSize
<1>4. (s + Byte - n) % Byte = IF s + Byte - n < Byte THEN s + Byte - n ELSE s - n
  <2> DEFINE m == s + Byte - n
  <2>1. m \in Int /\ -Byte <= m /\ m < 2 * Byte /\ m >= 0
    BY <1>1, <1>3, ByteSize
  <2> HIDE DEF m
  <2>2. m % Byte = IF m < Byte THEN m ELSE m - Byte
    BY <2>1, Remainder, ByteSize
  <2>3. QED
    BY <1>1, <2>2, ByteSize DEF m
<1>5. QED
  BY <1>1, <1>2, <1>4, ByteSize DEF Up, Down, Bytes

\* A push moves S, not what is above it.
LEMMA PushMoves ==
  ASSUME s \in Bytes, NEW n \in 1..3, s' = Down(n), NEW k \in 1..(Byte - n)
  PROVE  /\ Up(k + n)' = Up(k) /\ Up(k) \in Bytes
         /\ \A i \in 0..(n - 1) : Up(k) # Down(i)
<1>1. s \in Nat /\ s < Byte /\ n \in Nat /\ n <= 3 /\ n >= 1 /\ k \in Nat /\ k + n <= Byte /\ k >= 1
  BY ByteSize DEF Bytes
<1>2. s' \in Bytes /\ s' = IF s >= n THEN s - n ELSE s + Byte - n
  BY <1>1, UpDownTyped, ByteSize
<1>3. Up(k) \in Bytes /\ Up(k) = IF s + k < Byte THEN s + k ELSE s + k - Byte
  BY <1>1, UpDownTyped, ByteSize
<1>4. Up(k + n)' = (s' + (k + n)) % Byte
  BY DEF Up, Byte
<1>5. (s' + (k + n)) % Byte = IF s' + (k + n) < Byte THEN s' + (k + n) ELSE (s' + (k + n)) - Byte
  <2> DEFINE m == (IF s >= n THEN s - n ELSE s + Byte - n) + (k + n)
  <2>1. m \in Int /\ m >= 0 /\ -Byte <= m /\ m < 2 * Byte
    BY <1>1, <1>2, ByteSize DEF Bytes
  <2>2. s' + (k + n) = m
    BY <1>2
  <2> HIDE DEF m
  <2>3. m % Byte = IF m < 0 THEN m + Byte ELSE IF m < Byte THEN m ELSE m - Byte
    BY <2>1, Remainder, Zenon
  <2>4. QED
    BY <2>1, <2>2, <2>3, ByteSize
<1>6. ASSUME NEW i \in 0..(n - 1) PROVE Up(k) # Down(i)
  <2>1. i \in 0..Byte /\ i \in Nat /\ i < n
    BY <1>1, ByteSize
  <2>2. Down(i) = IF s >= i THEN s - i ELSE s + Byte - i
    BY <2>1, UpDownTyped
  <2>3. QED
    BY <1>1, <1>3, <2>1, <2>2, ByteSize
<1>7. QED
  BY <1>1, <1>2, <1>3, <1>4, <1>5, <1>6, ByteSize

\* What has been pushed is what is above S then.
LEMMA PushPuts ==
  ASSUME s \in Bytes, NEW n \in 1..3, s' = Down(n), NEW i \in 1..n
  PROVE  Up(i)' = Down(n - i)
<1>1. s \in Nat /\ s < Byte /\ n \in Nat /\ n <= 3 /\ n >= 1 /\ i \in Nat /\ i >= 1 /\ i <= n
  BY ByteSize DEF Bytes
<1>2. s' \in Bytes /\ s' = IF s >= n THEN s - n ELSE s + Byte - n
  BY <1>1, UpDownTyped, ByteSize
<1>3. n - i \in 0..Byte
  BY <1>1, ByteSize
<1>4. Down(n - i) = IF s >= n - i THEN s - (n - i) ELSE s + Byte - (n - i)
  BY <1>3, UpDownTyped
<1>5. Up(i)' = (s' + i) % Byte
  BY DEF Up, Byte
<1>6. (s' + i) % Byte = IF s' + i < Byte THEN s' + i ELSE (s' + i) - Byte
  <2> DEFINE m == (IF s >= n THEN s - n ELSE s + Byte - n) + i
  <2>1. m \in Int /\ m >= 0 /\ -Byte <= m /\ m < 2 * Byte
    BY <1>1, <1>2, ByteSize DEF Bytes
  <2>2. s' + i = m
    BY <1>2
  <2> HIDE DEF m
  <2>3. m % Byte = IF m < 0 THEN m + Byte ELSE IF m < Byte THEN m ELSE m - Byte
    BY <2>1, Remainder, Zenon
  <2>4. QED
    BY <2>1, <2>2, <2>3, ByteSize
<1>7. QED
  BY <1>1, <1>2, <1>4, <1>5, <1>6, ByteSize

\* A pull moves S up, and frees none of what stays on the stack.
LEMMA PullMoves ==
  ASSUME s \in Bytes, NEW n \in 1..3, s' = Up(n), NEW k \in 1..(Byte - n)
  PROVE  /\ Up(k)' = Up(k + n) /\ Up(k + n) \in Bytes
         /\ Up(k + n) \notin {Up(i) : i \in 1..n}
<1>1. s \in Nat /\ s < Byte /\ n \in Nat /\ n <= 3 /\ n >= 1 /\ k \in Nat /\ k + n <= Byte /\ k >= 1
  BY ByteSize DEF Bytes
<1>2. s' \in Bytes /\ s' = IF s + n < Byte THEN s + n ELSE s + n - Byte
  BY <1>1, UpDownTyped, ByteSize
<1>3. k + n \in 0..Byte
  BY <1>1, ByteSize
<1>4. Up(k + n) \in Bytes /\ Up(k + n) = IF s + (k + n) < Byte THEN s + (k + n) ELSE s + (k + n) - Byte
  BY <1>3, UpDownTyped
<1>5. Up(k)' = (s' + k) % Byte
  BY DEF Up, Byte
<1>6. (s' + k) % Byte = IF s' + k < Byte THEN s' + k ELSE (s' + k) - Byte
  <2> DEFINE m == (IF s + n < Byte THEN s + n ELSE s + n - Byte) + k
  <2>1. m \in Int /\ m >= 0 /\ -Byte <= m /\ m < 2 * Byte
    BY <1>1, <1>2, ByteSize DEF Bytes
  <2>2. s' + k = m
    BY <1>2
  <2> HIDE DEF m
  <2>3. m % Byte = IF m < 0 THEN m + Byte ELSE IF m < Byte THEN m ELSE m - Byte
    BY <2>1, Remainder, Zenon
  <2>4. QED
    BY <2>1, <2>2, <2>3, ByteSize
<1>7. ASSUME NEW i \in 1..n PROVE Up(k + n) # Up(i)
  <2>1. i \in 0..Byte /\ i \in Nat /\ i <= n /\ i >= 1
    BY <1>1, ByteSize
  <2>2. Up(i) = IF s + i < Byte THEN s + i ELSE s + i - Byte
    BY <2>1, UpDownTyped
  <2>3. QED
    BY <1>1, <1>4, <2>1, <2>2, ByteSize
<1>8. QED
  BY <1>1, <1>2, <1>4, <1>5, <1>6, <1>7, ByteSize

-----------------------------------------------------------------------------
(* Types.                                                                  *)

LEMMA AsByteTyped == ASSUME NEW c \in Cells PROVE AsByte(c) \subseteq Bytes
  BY DEF AsByte, Cells

LEMMA AsFlagsTyped == ASSUME NEW c \in Cells PROVE AsFlags(c) \subseteq Flags
  BY DEF AsFlags, Cells

LEMMA OfTyped ==
  /\ \A v \in Bytes : OfByte(v) \in Cells /\ AsByte(OfByte(v)) = {v}
  /\ \A f \in Flags : OfFlags(f) \in Cells /\ AsFlags(OfFlags(f)) = {f}
  /\ Free \in Cells
<1>1. \A v \in Bytes : OfByte(v) \in [byte : Bytes] /\ OfByte(v).byte = v
  BY DEF OfByte
<1>2. \A f \in Flags : OfFlags(f) \in [flags : Flags] /\ OfFlags(f).flags = f
  BY DEF OfFlags
<1>3. QED
  BY <1>1, <1>2 DEF AsByte, AsFlags, Cells

LEMMA PushTyped ==
  ASSUME TypeOK, NEW n \in 1..3, NEW new \in SUBSET Frames, Push(n, new)
  PROVE  s' \in Bytes /\ s' = Down(n) /\ depth' \in Nat /\ depth' = depth + n
         /\ calls' \subseteq Frames
<1>1. n \in 0..Byte
  BY ByteSize
<1>2. Down(n) \in Bytes
  BY <1>1, UpDownTyped DEF TypeOK
<1>3. QED
  BY <1>2 DEF Push, TypeOK

LEMMA PullTyped ==
  ASSUME TypeOK, NEW n \in 1..3, Pull(n)
  PROVE  /\ s' \in Bytes /\ s' = Up(n) /\ depth' \in Nat
         /\ calls' \subseteq Frames /\ stack' \in [Bytes -> Cells]
<1>1. n \in 0..Byte
  BY ByteSize
<1>2. Up(n) \in Bytes
  BY <1>1, UpDownTyped DEF TypeOK
<1>3. depth' \in Nat /\ calls' \subseteq Frames
  BY DEF Pull, TypeOK
<1>4. stack' \in [Bytes -> Cells]
  BY OfTyped DEF Pull, TypeOK
<1>5. QED
  BY <1>2, <1>3, <1>4 DEF Pull

LEMMA PulledTyped ==
  ASSUME TypeOK, NEW n \in 1..3
  PROVE  /\ stack[Up(n)] \in Cells
         /\ n < 3 => PulledWord(n) \subseteq Addresses
<1>1. Up(n) \in Bytes /\ (n < 3 => Up(n + 1) \in Bytes)
  BY UpDownTyped, ByteSize DEF TypeOK
<1>2. stack[Up(n)] \in Cells /\ (n < 3 => stack[Up(n + 1)] \in Cells)
  BY <1>1 DEF TypeOK
<1>3. QED
  BY <1>2, AsByteTyped, WordOfBytes DEF PulledWord

LEMMA BehindTyped ==
  ASSUME TypeOK, NEW ops, Executes(ops)
  PROVE  Behind \in Addresses /\ Code[pc].to \in Addresses /\ pc + 2 \in Nat
         /\ Word(pc + 2) \in Addresses /\ ReturnAddress \in Addresses
<1>1. pc \in Nat /\ Code[pc].len \in Nat /\ Code[pc].to \in Addresses
  BY CpuAssumption DEF Executes, TypeOK, Addresses
<1>2. pc + 1 + Code[pc].len \in Nat /\ pc + 2 \in Nat /\ pc + 1 + 2 \in Nat
  BY <1>1
<1>3. QED
  BY <1>1, <1>2, WordTyped DEF Behind, ReturnAddress

LEMMA FrameTyped ==
  ASSUME TypeOK, NEW w \in Addresses
  PROVE  /\ Interruption(w, 3) \in Frames
         /\ [kind |-> "call", pc |-> w, p |-> p, top |-> depth + 2, last |-> None] \in Frames
<1>1. None \in Calculations
  BY DEF None, Calculations
<1>2. QED
  BY <1>1 DEF Interruption, Frames, TypeOK

LEMMA ContextTyped ==
  ASSUME TypeOK, NEW w \in Addresses, PushContext(w, p)
  PROVE  stack' \in [Bytes -> Cells]
<1>1. OfByte(High(w)) \in Cells /\ OfByte(Low(w)) \in Cells /\ OfFlags(p) \in Cells
  BY BytesOfWord, OfTyped DEF TypeOK
<1>2. QED
  BY <1>1 DEF PushContext, TypeOK

LEMMA CalculationsTyped ==
  ASSUME TypeOK
  PROVE  /\ None \in Calculations /\ Overwritten \in Calculations
         /\ \A n \in Int : Carry(n) \in Int
<1>1. None \in Calculations
  BY DEF None, Calculations
<1>2. Overwritten \in Calculations
  BY <1>1 DEF Overwritten, TypeOK
<1>3. \A n \in Int : Carry(n) \in Int
  BY ByteSize DEF Carry
<1>4. QED
  BY <1>1, <1>2, <1>3

LEMMA ContinueTyped ==
  ASSUME NEW op \in {"add", "sub", "left", "right"}, NEW from, NEW n \in Int
  PROVE  Continue(op, from, n) \in Calculations
  BY DEF Continue, Calculations, None

LEMMA TypeInit == Init => TypeOK
<1> SUFFICES ASSUME Init PROVE TypeOK
  OBVIOUS
<1>1. 0 \in Bytes /\ Byte - 1 \in Bytes
  BY ByteSize DEF Bytes
<1>2. 0 \in Addresses
  BY ByteSize DEF Addresses
<1>3. p \in Flags
  BY DEF Init, Flags
<1>4. last \in Calculations
  BY DEF Init, None, Calculations
<1>5. stack \in [Bytes -> Cells]
  BY OfTyped DEF Init
<1>6. QED
  BY <1>1, <1>2, <1>3, <1>4, <1>5 DEF Init, TypeOK, Lines

-----------------------------------------------------------------------------
(* Every step keeps the types.                                             *)

\* What every instruction leaves alone but what its own lemma is about.
LEMMA TypeCalculates ==
  ASSUME TypeOK, Load \/ Transfer \/ Increment \/ Logic \/ TestBits \/ INST_ADC \/ INST_SBC
                 \/ INST_CMP \/ INST_SHIFT \/ INST_CARRY \/ INST_FLAG
  PROVE  TypeOK'
<1>1. /\ Data \subseteq Bytes /\ Bytes \subseteq Nat /\ None \in Calculations
      /\ Overwritten \in Calculations
  BY CalculationsTyped, CpuAssumption, ByteSize DEF Bytes
<1>2. ASSUME NEW ops, Executes(ops), Goes
      PROVE  pc' \in Addresses /\ phase' \in {"poll", "fetch", "lost"}
  BY <1>2, BehindTyped DEF Goes
<1>3. ASSUME UNCHANGED <<s, stack, depth, calls, low, waiting, stopped>>, a' \in Bytes, p' \in Flags,
             pc' \in Addresses, phase' \in {"poll", "fetch", "lost"}, last' \in Calculations
      PROVE  TypeOK'
  BY <1>3 DEF TypeOK, Cells, Bytes, Byte, Flags, Addresses, Frames, Calculations, Lines, OfByte, Free
<1>4. CASE Load
  <2>1. a' \in Bytes /\ p' \in Flags
    BY <1>1, <1>4, SetNZTyped DEF Load, TypeOK
  <2>2. QED
    BY <1>1, <1>2, <1>3, <1>4, <2>1 DEF Load
<1>5. CASE Transfer
  <2>1. PICK x \in Data :
          LET v == CASE Code[pc].op = "TXA" -> x
                     [] Code[pc].op = "TAX" -> a
                     [] Code[pc].op = "TSX" -> s
          IN  /\ a' = IF Code[pc].op = "TXA" THEN v ELSE a
              /\ p' = SET_NZ(p, v)
    BY <1>5 DEF Transfer
  <2>2. Code[pc].op \in {"TXA", "TAX", "TSX"}
    BY <1>5 DEF Transfer, Executes
  <2> DEFINE v == CASE Code[pc].op = "TXA" -> x
                    [] Code[pc].op = "TAX" -> a
                    [] Code[pc].op = "TSX" -> s
  <2>3. v \in Bytes
    BY <1>1, <2>2 DEF TypeOK
  <2>4. a' \in Bytes /\ p' = SET_NZ(p, v)
    BY <2>1, <2>3 DEF TypeOK
  <2> HIDE DEF v
  <2>5. p' \in Flags
    BY <1>1, <2>3, <2>4, SetNZTyped DEF TypeOK
  <2>6. QED
    BY <1>1, <1>2, <1>3, <1>5, <2>4, <2>5 DEF Transfer
<1>6. CASE Increment
  <2>1. PICK x \in Data :
          LET v == CASE Code[pc].op = "INA" -> Low(a + 1)
                     [] Code[pc].op = "DEA" -> Low(a + Byte - 1)
                     [] Code[pc].op = "INX" -> x
          IN  /\ a' = IF Code[pc].op = "INX" THEN a ELSE v
              /\ p' = SET_NZ(p, v)
    BY <1>6 DEF Increment
  <2>2. Code[pc].op \in {"INA", "DEA", "INX"}
    BY <1>6 DEF Increment, Executes
  <2>3. Low(a + 1) \in Bytes /\ Low(a + Byte - 1) \in Bytes
    BY LowOf, ByteSize DEF TypeOK, Bytes
  <2> DEFINE v == CASE Code[pc].op = "INA" -> Low(a + 1)
                    [] Code[pc].op = "DEA" -> Low(a + Byte - 1)
                    [] Code[pc].op = "INX" -> x
  <2>4. v \in Bytes
    BY <1>1, <2>2, <2>3
  <2>5. a' \in Bytes /\ p' = SET_NZ(p, v)
    BY <2>1, <2>4 DEF TypeOK
  <2> HIDE DEF v
  <2>6. p' \in Flags
    BY <1>1, <2>4, <2>5, SetNZTyped DEF TypeOK
  <2>7. QED
    BY <1>1, <1>2, <1>3, <1>6, <2>5, <2>6 DEF Increment
<1>7. CASE Logic
  <2>1. a' \in Bytes /\ p' \in Flags
    BY <1>1, <1>7, SetNZTyped DEF Logic, TypeOK
  <2>2. QED
    BY <1>1, <1>2, <1>3, <1>7, <2>1 DEF Logic
<1>8. CASE TestBits
  <2>1. PICK v \in Data, six \in BOOLEAN :
          p' = IF Code[pc].op = "TSB" THEN [p EXCEPT !.Z = (v = 0)]
               ELSE [SET_NZ(p, v) EXCEPT !.V = six]
    BY <1>8 DEF TestBits
  <2>2. SET_NZ(p, v) \in Flags /\ p \in Flags
    BY <1>1, <2>1, SetNZTyped DEF TypeOK
  <2>3. p' \in Flags
    BY <2>1, <2>2 DEF Flags
  <2>4. a' \in Bytes
    BY <1>8 DEF TestBits, TypeOK
  <2>5. QED
    BY <1>1, <1>2, <1>3, <1>8, <2>3, <2>4 DEF TestBits
<1>9. CASE INST_ADC
  <2>1. PICK v \in Data :
          /\ a' = ARIT_ADD_SET(p, a, v).a /\ p' = ARIT_ADD_SET(p, a, v).p
          /\ last' = Continue("add", {"clear", "add"}, Carry((a + v + last.due) - a'))
    BY <1>9 DEF INST_ADC
  <2>2. a' \in Bytes /\ p' \in Flags
    BY <1>1, <2>1, Sum DEF TypeOK
  <2>3. (a + v + last.due) - a' \in Int
    BY <1>1, <2>2 DEF TypeOK, Calculations
  <2>4. last' \in Calculations
    BY <2>1, <2>3, CalculationsTyped, ContinueTyped
  <2>5. QED
    BY <1>2, <1>3, <1>9, <2>2, <2>4 DEF INST_ADC
<1>10. CASE INST_SBC
  <2>1. PICK v \in Data :
          /\ a' = ARIT_SUB_SET(p, a, v).a /\ p' = ARIT_SUB_SET(p, a, v).p
          /\ last' = Continue("sub", {"set", "sub"}, Carry((a - v + last.due) - a'))
    BY <1>10 DEF INST_SBC
  <2>2. a' \in Bytes /\ p' \in Flags
    BY <1>1, <2>1, Difference DEF TypeOK
  <2>3. (a - v + last.due) - a' \in Int
    BY <1>1, <2>2 DEF TypeOK, Calculations
  <2>4. last' \in Calculations
    BY <2>1, <2>3, CalculationsTyped, ContinueTyped
  <2>5. QED
    BY <1>2, <1>3, <1>10, <2>2, <2>4 DEF INST_SBC
<1>11. CASE INST_CMP
  <2>1. PICK x \in (IF Code[pc].op = "CMP" THEN {a} ELSE Data), v \in Data :
          /\ p' = CMP_SET(p, x, v)
          /\ last' = [op |-> "compare",
                      due |-> IF x < v THEN -1 ELSE IF x = v THEN 0 ELSE 1]
    BY <1>11 DEF INST_CMP
  <2>2. x \in Bytes /\ v \in Bytes
    BY <1>1, <2>1 DEF TypeOK
  <2>3. p' \in Flags
    BY <2>1, <2>2, Compared DEF TypeOK
  <2>4. last' \in Calculations
    BY <2>1 DEF Calculations
  <2>5. a' \in Bytes
    BY <1>11 DEF INST_CMP, TypeOK
  <2>6. QED
    BY <1>2, <1>3, <1>11, <2>3, <2>4, <2>5 DEF INST_CMP
<1>12. CASE INST_SHIFT
  <2> DEFINE op == Code[pc].op
             r(v) == Shift(op, p, v)
  <2>1. PICK v \in (IF Code[pc].on THEN Data ELSE {a}) :
          /\ a' = IF Code[pc].on THEN a ELSE r(v).a
          /\ p' = r(v).p
          /\ last' = CASE op = "ASL" -> None
                       [] op = "LSR" -> [op |-> "right", due |-> v - 2 * r(v).a]
                       [] op = "ROL" -> Continue("left", {"clear", "left"},
                                                 Carry((2 * v + last.due) - r(v).a))
                       [] op = "ROR" -> Continue("right", {"clear", "right"},
                                                 (Byte * last.due + v) - 2 * r(v).a)
    BY <1>12 DEF INST_SHIFT
  <2>2. v \in Bytes /\ op \in {"ASL", "LSR", "ROL", "ROR"}
    BY <1>1, <1>12, <2>1 DEF TypeOK, INST_SHIFT, Executes
  <2> HIDE DEF op
  <2>3. r(v).a \in Bytes /\ r(v).p \in Flags
    BY <2>2, Shifted DEF TypeOK
  <2> HIDE DEF r
  <2>4. v \in Int /\ r(v).a \in Int /\ last.due \in Int
    <3>1. last.due \in Int
      BY DEF TypeOK, Calculations
    <3>2. Bytes \subseteq Int
      BY ByteSize DEF Bytes
    <3>3. QED
      BY <2>2, <2>3, <3>1, <3>2
  <2>5. /\ v - 2 * r(v).a \in Int /\ (2 * v + last.due) - r(v).a \in Int
        /\ (Byte * last.due + v) - 2 * r(v).a \in Int
    BY <2>4, ByteSize
  <2>6. [op |-> "right", due |-> v - 2 * r(v).a] \in Calculations
    BY <2>5 DEF Calculations
  <2>7. /\ Continue("left", {"clear", "left"}, Carry((2 * v + last.due) - r(v).a)) \in Calculations
        /\ Continue("right", {"clear", "right"}, (Byte * last.due + v) - 2 * r(v).a) \in Calculations
    BY <2>5, CalculationsTyped, ContinueTyped
  <2>8. last' \in Calculations
    BY <1>1, <2>1, <2>2, <2>6, <2>7
  <2>9. a' \in Bytes /\ p' \in Flags
    BY <2>1, <2>3 DEF TypeOK
  <2>10. QED
    BY <1>2, <1>3, <1>12, <2>8, <2>9 DEF INST_SHIFT
<1>13. CASE INST_CARRY
  <2>1. p' \in Flags /\ a' \in Bytes
    BY <1>13, WithC DEF INST_CARRY, TypeOK
  <2>2. last' \in Calculations
    BY <1>13 DEF INST_CARRY, Calculations
  <2>3. QED
    BY <1>2, <1>3, <1>13, <2>1, <2>2 DEF INST_CARRY
<1>14. CASE INST_FLAG
  <2>1. p' \in Flags /\ a' \in Bytes /\ last' \in Calculations
    BY <1>14 DEF INST_FLAG, TypeOK, Flags
  <2>2. QED
    BY <1>2, <1>3, <1>14, <2>1 DEF INST_FLAG
<1>15. QED
  BY <1>4, <1>5, <1>6, <1>7, <1>8, <1>9, <1>10, <1>11, <1>12, <1>13, <1>14

\* The parts of TypeOK, for steps that are not calculations.
LEMMA TypeParts ==
  ASSUME a' \in Bytes, s' \in Bytes, p' \in Flags, pc' \in Addresses,
         stack' \in [Bytes -> Cells], low' \subseteq Lines,
         waiting' \in BOOLEAN, stopped' \in BOOLEAN, phase' \in {"poll", "fetch", "lost"},
         depth' \in Nat, calls' \subseteq Frames, last' \in Calculations
  PROVE  TypeOK'
  BY DEF TypeOK, Cells, Bytes, Byte, Flags, Addresses, Frames, Calculations, Lines, OfByte, Free

LEMMA TypeInterrupted ==
  ASSUME TypeOK, call_interrupt
  PROVE  TypeOK'
<1>1. None \in Calculations /\ Interruption(pc, 3) \in Frames
  BY CalculationsTyped, FrameTyped DEF TypeOK
<1>2. stack' \in [Bytes -> Cells]
  BY ContextTyped DEF call_interrupt, TypeOK
<1>3. p' \in Flags
  BY DEF call_interrupt, TypeOK, Flags
<1>4. /\ a' \in Bytes /\ waiting' \in BOOLEAN /\ phase' \in {"poll", "fetch", "lost"}
      /\ last' \in Calculations
  BY <1>1 DEF call_interrupt, TypeOK
<1>5. {NmiVector, ResetVector, IrqVector} \subseteq Addresses
  BY CpuAssumption
<1>6. CASE Reset
  <2>1. s' \in Bytes
    BY <1>6, UpDownTyped, ByteSize DEF Reset, TypeOK
  <2>2. pc' \in Addresses /\ low' \subseteq Lines /\ stopped' \in BOOLEAN /\ depth' \in Nat
        /\ calls' \subseteq Frames
    BY <1>5, <1>6 DEF Reset, TypeOK
  <2>3. QED
    BY <1>2, <1>3, <1>4, <2>1, <2>2, TypeParts
<1>7. ASSUME NEW vector \in {NmiVector, IrqVector}, NEW served, Interrupt(vector, served)
      PROVE  TypeOK'
  <2>1. s' \in Bytes /\ depth' \in Nat /\ calls' \subseteq Frames
    BY <1>1, <1>7, PushTyped DEF Interrupt
  <2>2. pc' \in Addresses /\ low' \subseteq Lines /\ stopped' \in BOOLEAN
    BY <1>5, <1>7 DEF Interrupt, TypeOK
  <2>3. QED
    BY <1>2, <1>3, <1>4, <2>1, <2>2, TypeParts
<1>8. QED
  BY <1>6, <1>7 DEF call_interrupt

\* Where a jump goes is an address.
LEMMA TargetsTyped ==
  ASSUME TypeOK, Executes({"JMP", "JMX", "JMI", "Bxx"}), NEW w \in Targets
  PROVE  w \in Addresses
<1>1. /\ Code[pc].to \in Addresses /\ Behind \in Addresses
      /\ Code[pc].op \in {"JMP", "JMX", "JMI", "Bxx"}
  BY BehindTyped DEF Executes
<1>2. CASE Code[pc].op = "JMP"
  BY <1>1, <1>2 DEF Targets
<1>3. CASE Code[pc].op = "JMX"
  <2>1. PICK x \in Data : w = Word(Code[pc].to + x)
    BY <1>3 DEF Targets
  <2>2. Code[pc].to + x \in Nat
    BY <1>1, CpuAssumption DEF Addresses, Bytes
  <2>3. QED
    BY <2>1, <2>2, WordTyped
<1>4. CASE Code[pc].op = "JMI"
  <2>1. PICK l \in Data, h \in Data : w = l + Byte * h
    BY <1>4 DEF Targets
  <2>2. l \in Bytes /\ h \in Bytes
    BY CpuAssumption
  <2>3. QED
    BY <2>1, <2>2, WordOfBytes
<1>5. CASE Code[pc].op = "Bxx"
  BY <1>1, <1>5 DEF Targets
<1>6. QED
  BY <1>1, <1>2, <1>3, <1>4, <1>5

\* Steps that leave the stack alone and calculate nothing.
LEMMA TypeControls ==
  ASSUME TypeOK, NoInterrupt \/ Idle \/ Lower \/ Store \/ Acknowledge \/ INST_TXS \/ Jump
                 \/ BranchOnBit \/ INST_WAI \/ INST_STP \/ NotInstalled
  PROVE  TypeOK'
<1>1. ASSUME NEW ops, Executes(ops)
      PROVE  Behind \in Addresses /\ Code[pc].to \in Addresses
  BY <1>1, BehindTyped
<1>2. Data \subseteq Bytes
  BY CpuAssumption
<1>3. /\ a' \in Bytes /\ s' \in Bytes /\ p' \in Flags /\ stack' \in [Bytes -> Cells]
      /\ depth' \in Nat /\ calls' \subseteq Frames /\ last' \in Calculations
  BY <1>2 DEF TypeOK, NoInterrupt, Idle, Lower, Store, Acknowledge, INST_TXS, Jump,
     BranchOnBit, INST_WAI, INST_STP, NotInstalled
<1>4. /\ low' \subseteq Lines /\ waiting' \in BOOLEAN /\ stopped' \in BOOLEAN
      /\ phase' \in {"poll", "fetch", "lost"}
  BY DEF TypeOK, NoInterrupt, Idle, Lower, Store, Acknowledge, INST_TXS, Jump,
     BranchOnBit, INST_WAI, INST_STP, NotInstalled, Goes, Lines
<1>5. pc' \in Addresses
  BY <1>1, TargetsTyped DEF TypeOK, NoInterrupt, Idle, Lower, Store, Acknowledge,
     INST_TXS, Jump, BranchOnBit, INST_WAI, INST_STP, NotInstalled, Goes
<1>6. QED
  BY <1>3, <1>4, <1>5, TypeParts

LEMMA TypePushes ==
  ASSUME TypeOK, PushByte \/ INST_JSR \/ INST_BRK
  PROVE  TypeOK'
<1>1. None \in Calculations /\ Data \subseteq Bytes
  BY CalculationsTyped, CpuAssumption
<1>2. ASSUME NEW ops, Executes(ops)
      PROVE  Behind \in Addresses /\ Code[pc].to \in Addresses
             /\ Word(pc + 2) \in Addresses /\ ReturnAddress \in Addresses
  BY <1>2, BehindTyped
<1>3. CASE PushByte
  <2>1. s' \in Bytes /\ depth' \in Nat /\ calls' \subseteq Frames
    BY <1>3, PushTyped DEF PushByte
  <2>2. PICK x \in Data :
          stack' = [stack EXCEPT ![s] = CASE Code[pc].op = "PHA" -> OfByte(a)
                                          [] Code[pc].op = "PHX" -> OfByte(x)
                                          [] Code[pc].op = "PHP" -> OfFlags(p)]
    BY <1>3 DEF PushByte
  <2>3. OfByte(a) \in Cells /\ OfByte(x) \in Cells /\ OfFlags(p) \in Cells
    BY <1>1, OfTyped DEF TypeOK
  <2>4. Code[pc].op \in {"PHA", "PHX", "PHP"}
    BY <1>3 DEF PushByte, Executes
  <2>5. stack' \in [Bytes -> Cells]
    BY <2>2, <2>3, <2>4 DEF TypeOK
  <2>6. pc' \in Addresses /\ phase' \in {"poll", "fetch", "lost"}
    BY <1>2, <1>3 DEF PushByte, Goes
  <2>7. QED
    BY <1>3, <2>1, <2>5, <2>6, TypeParts DEF PushByte, TypeOK
<1>4. CASE INST_JSR
  <2>1. [kind |-> "call", pc |-> Behind, p |-> p, top |-> depth + 2, last |-> None] \in Frames
    BY <1>2, <1>4, FrameTyped DEF INST_JSR
  <2>2. s' \in Bytes /\ depth' \in Nat /\ calls' \subseteq Frames
    BY <1>4, <2>1, PushTyped DEF INST_JSR
  <2>3. ReturnAddress \in Addresses /\ pc' \in Addresses
    BY <1>2, <1>4 DEF INST_JSR
  <2>4. OfByte(High(ReturnAddress)) \in Cells /\ OfByte(Low(ReturnAddress)) \in Cells
    BY <2>3, BytesOfWord, OfTyped
  <2>5. stack' \in [Bytes -> Cells]
    BY <1>4, <2>4 DEF INST_JSR, TypeOK
  <2>6. QED
    BY <1>4, <2>2, <2>3, <2>5, TypeParts DEF INST_JSR, TypeOK
<1>5. CASE INST_BRK
  <2>1. Interruption(Behind, 3) \in Frames
    BY <1>2, <1>5, FrameTyped DEF INST_BRK
  <2>2. s' \in Bytes /\ depth' \in Nat /\ calls' \subseteq Frames
    BY <1>5, <2>1, PushTyped DEF INST_BRK
  <2>3. stack' \in [Bytes -> Cells]
    BY <1>2, <1>5, ContextTyped DEF INST_BRK
  <2>4. p' \in Flags
    BY <1>5 DEF INST_BRK, TypeOK, Flags
  <2>5. pc' \in Addresses
    BY <1>5, CpuAssumption DEF INST_BRK
  <2>6. QED
    BY <1>1, <1>5, <2>2, <2>3, <2>4, <2>5, TypeParts DEF INST_BRK, TypeOK
<1>6. QED
  BY <1>3, <1>4, <1>5

LEMMA TypePulls ==
  ASSUME TypeOK, PullByte \/ INST_PLP \/ INST_RTS \/ INST_RTI
  PROVE  TypeOK'
<1>1. None \in Calculations /\ Overwritten \in Calculations
  BY CalculationsTyped
<1>2. ASSUME NEW n \in 1..3, Pull(n)
      PROVE  /\ s' \in Bytes /\ depth' \in Nat /\ calls' \subseteq Frames
             /\ stack' \in [Bytes -> Cells]
  BY <1>2, PullTyped
<1>3. AsByte(stack[Up(1)]) \subseteq Bytes /\ AsFlags(stack[Up(1)]) \subseteq Flags
  BY PulledTyped, AsByteTyped, AsFlagsTyped
<1>4. PulledWord(1) \subseteq Addresses /\ PulledWord(2) \subseteq Addresses
  BY PulledTyped
<1>5. ASSUME NEW ops, Executes(ops)
      PROVE  Behind \in Addresses
  BY <1>5, BehindTyped
<1>6. CASE PullByte
  <2>1. a' \in Bytes /\ p' \in Flags
    <3>1. PICK v \in AsByte(stack[Up(1)]) : /\ a' = IF Code[pc].op = "PLA" THEN v ELSE a
                                            /\ p' = SET_NZ(p, v)
      BY <1>6 DEF PullByte
    <3>2. v \in Bytes /\ v \in Int
      BY <1>3, ByteSize DEF Bytes
    <3>3. QED
      BY <3>1, <3>2, SetNZTyped DEF TypeOK
  <2>2. pc' \in Addresses /\ phase' \in {"poll", "fetch", "lost"}
    BY <1>5, <1>6 DEF PullByte, Goes
  <2>3. QED
    BY <1>1, <1>2, <1>6, <2>1, <2>2, TypeParts DEF PullByte, TypeOK
<1>7. CASE INST_PLP
  <2>1. pc' \in Addresses /\ phase' \in {"poll", "fetch", "lost"}
    BY <1>5, <1>7 DEF INST_PLP, Goes
  <2>2. QED
    BY <1>1, <1>2, <1>3, <1>7, <2>1, TypeParts DEF INST_PLP, TypeOK
<1>8. CASE INST_RTS
  BY <1>2, <1>4, <1>8, TypeParts DEF INST_RTS, TypeOK
<1>9. CASE INST_RTI
  <2>1. last' \in Calculations
    BY <1>1, <1>9 DEF INST_RTI, TypeOK, Frames
  <2>2. QED
    BY <1>2, <1>3, <1>4, <1>9, <2>1, TypeParts DEF INST_RTI, TypeOK
<1>10. QED
  BY <1>6, <1>7, <1>8, <1>9

LEMMA TypeStep == TypeOK /\ [Next]_vars => TypeOK'
<1> SUFFICES ASSUME TypeOK, [Next]_vars PROVE TypeOK'
  OBVIOUS
<1>1. CASE UNCHANGED vars
  BY <1>1, TypeParts DEF vars, TypeOK
<1>2. CASE Next
  BY <1>2, TypeCalculates, TypeInterrupted, TypeControls, TypePushes, TypePulls DEF Next
<1>3. QED
  BY <1>1, <1>2

-----------------------------------------------------------------------------
(* What a calculation says of the flags (CarryIsExact, ComparisonHolds), of *)
(* the CPU and of every interrupted one.                                   *)

Right(l, f) ==
  /\ l.op \in {"clear", "add", "left", "right"} => l.due = Bit(f.C)
  /\ l.op \in {"set", "sub"} => l.due = Bit(f.C) - 1
  /\ l.op = "compare" => (f.C <=> l.due >= 0) /\ (f.Z <=> l.due = 0)

RightHeld == Right(last, p) /\ \A f \in calls : f.kind = "interrupt" => Right(f.last, f.p)

LEMMA RightNone == ASSUME NEW f PROVE Right(None, f)
  BY DEF Right, None

\* An instruction that leaves C alone.
LEMMA RightOverwritten ==
  ASSUME Right(last, p), p'.C = p.C, last' = Overwritten
  PROVE  Right(last', p')
<1>1. CASE last.op = "compare"
  <2>1. last' = None
    BY <1>1 DEF Overwritten
  <2>2. QED
    BY <2>1, RightNone
<1>2. CASE last.op # "compare"
  <2>1. last' = last
    BY <1>2 DEF Overwritten
  <2>2. QED
    BY <1>2, <2>1 DEF Right
<1>3. QED
  BY <1>1, <1>2

LEMMA RightContinue ==
  ASSUME NEW op \in {"add", "sub", "left", "right"}, NEW from, NEW due, NEW f,
         last.op \in from => due = IF op = "sub" THEN Bit(f.C) - 1 ELSE Bit(f.C)
  PROVE  Right(Continue(op, from, due), f)
<1>1. CASE last.op \in from
  <2>1. Continue(op, from, due) = [op |-> op, due |-> due]
    BY <1>1 DEF Continue
  <2>2. QED
    BY <1>1, <2>1 DEF Right
<1>2. CASE last.op \notin from
  BY <1>2, RightNone DEF Continue
<1>3. QED
  BY <1>1, <1>2

LEMMA RightCalculates ==
  ASSUME TypeOK, Right(last, p),
         Load \/ Transfer \/ Increment \/ Logic \/ TestBits \/ INST_ADC \/ INST_SBC
           \/ INST_CMP \/ INST_SHIFT \/ INST_CARRY \/ INST_FLAG
  PROVE  Right(last', p')
<1>1. Data \subseteq Bytes /\ Bytes \subseteq Int /\ a \in Bytes /\ p \in Flags /\ s \in Bytes
  BY CpuAssumption, ByteSize DEF Bytes, TypeOK
<1>2. CASE Load
  <2>1. PICK v \in Data : p' = SET_NZ(p, v)
    BY <1>2 DEF Load
  <2>2. p'.C = p.C
    BY <1>1, <2>1, SetNZTyped
  <2>3. QED
    BY <1>2, <2>2, RightOverwritten DEF Load
<1>3. CASE Transfer
  <2>1. PICK x \in Data :
          p' = SET_NZ(p, CASE Code[pc].op = "TXA" -> x
                           [] Code[pc].op = "TAX" -> a
                           [] Code[pc].op = "TSX" -> s)
    BY <1>3 DEF Transfer
  <2>2. Code[pc].op \in {"TXA", "TAX", "TSX"}
    BY <1>3 DEF Transfer, Executes
  <2>3. PICK v \in Int : p' = SET_NZ(p, v)
    BY <1>1, <2>1, <2>2
  <2>4. p'.C = p.C
    BY <1>1, <2>3, SetNZTyped
  <2>5. QED
    BY <1>3, <2>4, RightOverwritten DEF Transfer
<1>4. CASE Increment
  <2>1. PICK x \in Data :
          p' = SET_NZ(p, CASE Code[pc].op = "INA" -> Low(a + 1)
                           [] Code[pc].op = "DEA" -> Low(a + Byte - 1)
                           [] Code[pc].op = "INX" -> x)
    BY <1>4 DEF Increment
  <2>2. Code[pc].op \in {"INA", "DEA", "INX"}
    BY <1>4 DEF Increment, Executes
  <2>3. Low(a + 1) \in Int /\ Low(a + Byte - 1) \in Int
    <3>1. Low(a + 1) \in Bytes /\ Low(a + Byte - 1) \in Bytes
      BY LowOf, ByteSize DEF TypeOK, Bytes
    <3>2. QED
      BY <1>1, <3>1
  <2>4. PICK v \in Int : p' = SET_NZ(p, v)
    BY <1>1, <2>1, <2>2, <2>3
  <2>5. p'.C = p.C
    BY <1>1, <2>4, SetNZTyped
  <2>6. QED
    BY <1>4, <2>5, RightOverwritten DEF Increment
<1>5. CASE Logic
  <2>1. a' \in Int /\ p' = SET_NZ(p, a')
    BY <1>1, <1>5 DEF Logic
  <2>2. p'.C = p.C
    BY <1>1, <2>1, SetNZTyped
  <2>3. QED
    BY <1>5, <2>2, RightOverwritten DEF Logic
<1>6. CASE TestBits
  <2>1. PICK v \in Data, six \in BOOLEAN :
          p' = IF Code[pc].op = "TSB" THEN [p EXCEPT !.Z = (v = 0)]
               ELSE [SET_NZ(p, v) EXCEPT !.V = six]
    BY <1>6 DEF TestBits
  <2>2. SET_NZ(p, v) \in Flags /\ SET_NZ(p, v).C = p.C
    BY <1>1, SetNZTyped
  <2>3. p'.C = p.C
    BY <1>1, <2>1, <2>2 DEF Flags
  <2>4. QED
    BY <1>6, <2>3, RightOverwritten DEF TestBits
<1>7. CASE INST_ADC
  <2>1. PICK v \in Data :
          /\ a' = ARIT_ADD_SET(p, a, v).a /\ p' = ARIT_ADD_SET(p, a, v).p
          /\ last' = Continue("add", {"clear", "add"}, Carry((a + v + last.due) - a'))
    BY <1>7 DEF INST_ADC
  <2>2. Carry((a + v + Bit(p.C)) - a') = Bit(p'.C)
    BY <1>1, <2>1, Sum
  <2>3. last.op \in {"clear", "add"} => last.due = Bit(p.C)
    BY DEF Right
  <2>4. last.op \in {"clear", "add"} => Carry((a + v + last.due) - a') = Bit(p'.C)
    BY <2>2, <2>3
  <2>5. QED
    BY <2>1, <2>4, RightContinue
<1>8. CASE INST_SBC
  <2>1. PICK v \in Data :
          /\ a' = ARIT_SUB_SET(p, a, v).a /\ p' = ARIT_SUB_SET(p, a, v).p
          /\ last' = Continue("sub", {"set", "sub"}, Carry((a - v + last.due) - a'))
    BY <1>8 DEF INST_SBC
  <2>2. Carry((a - v + (Bit(p.C) - 1)) - a') = Bit(p'.C) - 1
    BY <1>1, <2>1, Difference
  <2>3. last.op \in {"set", "sub"} => last.due = Bit(p.C) - 1
    BY DEF Right
  <2>4. last.op \in {"set", "sub"} => Carry((a - v + last.due) - a') = Bit(p'.C) - 1
    BY <2>2, <2>3
  <2>5. QED
    BY <2>1, <2>4, RightContinue
<1>9. CASE INST_CMP
  <2>1. PICK x \in (IF Code[pc].op = "CMP" THEN {a} ELSE Data), v \in Data :
          /\ p' = CMP_SET(p, x, v)
          /\ last' = [op |-> "compare",
                      due |-> IF x < v THEN -1 ELSE IF x = v THEN 0 ELSE 1]
    BY <1>9 DEF INST_CMP
  <2>2. x \in Bytes /\ v \in Bytes /\ x \in Int /\ v \in Int
    BY <1>1, <2>1
  <2>3. (p'.C <=> x >= v) /\ (p'.Z <=> x = v)
    BY <1>1, <2>1, <2>2, Compared
  <2>4. last'.op = "compare" /\ (last'.due >= 0 <=> x >= v) /\ (last'.due = 0 <=> x = v)
    BY <2>1, <2>2
  <2>5. QED
    BY <2>3, <2>4 DEF Right
<1>10. CASE INST_SHIFT
  <2> DEFINE op == Code[pc].op
             r(v) == Shift(op, p, v)
  <2>1. PICK v \in (IF Code[pc].on THEN Data ELSE {a}) :
          /\ p' = r(v).p
          /\ last' = CASE op = "ASL" -> None
                       [] op = "LSR" -> [op |-> "right", due |-> v - 2 * r(v).a]
                       [] op = "ROL" -> Continue("left", {"clear", "left"},
                                                 Carry((2 * v + last.due) - r(v).a))
                       [] op = "ROR" -> Continue("right", {"clear", "right"},
                                                 (Byte * last.due + v) - 2 * r(v).a)
    BY <1>10 DEF INST_SHIFT
  <2>2. v \in Bytes /\ op \in {"ASL", "LSR", "ROL", "ROR"}
    BY <1>1, <1>10, <2>1 DEF INST_SHIFT, Executes
  <2> HIDE DEF op
  <2>3. /\ op = "ROL" => Carry((2 * v + Bit(p.C)) - r(v).a) = Bit(r(v).p.C)
        /\ op = "LSR" => v - 2 * r(v).a = Bit(r(v).p.C)
        /\ op = "ROR" => (Byte * Bit(p.C) + v) - 2 * r(v).a = Bit(r(v).p.C)
    BY <1>1, <2>2, Shifted
  <2> HIDE DEF r
  <2>4. CASE op = "ASL"
    BY <2>1, <2>4, RightNone
  <2>5. CASE op = "LSR"
    BY <2>1, <2>3, <2>5 DEF Right
  <2>6. CASE op = "ROL"
    <3>1. last.op \in {"clear", "left"} => last.due = Bit(p.C)
      BY DEF Right
    <3>2. last.op \in {"clear", "left"} => Carry((2 * v + last.due) - r(v).a) = Bit(p'.C)
      BY <2>1, <2>3, <2>6, <3>1
    <3>3. QED
      BY <2>1, <2>6, <3>2, RightContinue
  <2>7. CASE op = "ROR"
    <3>1. last.op \in {"clear", "right"} => last.due = Bit(p.C)
      BY DEF Right
    <3>2. last.op \in {"clear", "right"} => (Byte * last.due + v) - 2 * r(v).a = Bit(p'.C)
      BY <2>1, <2>3, <2>7, <3>1
    <3>3. QED
      BY <2>1, <2>7, <3>2, RightContinue
  <2>8. QED
    BY <2>2, <2>4, <2>5, <2>6, <2>7
<1>11. CASE INST_CARRY
  <2>1. CASE Code[pc].op = "SEC"
    <3>1. p'.C = TRUE /\ last' = [op |-> "set", due |-> 0]
      BY <1>1, <1>11, <2>1, WithC DEF INST_CARRY
    <3>2. QED
      BY <3>1 DEF Right, Bit
  <2>2. CASE Code[pc].op # "SEC"
    <3>1. p'.C = FALSE /\ last' = [op |-> "clear", due |-> 0]
      BY <1>1, <1>11, <2>2, WithC DEF INST_CARRY
    <3>2. QED
      BY <3>1 DEF Right, Bit
  <2>3. QED
    BY <2>1, <2>2
<1>12. CASE INST_FLAG
  <2>1. p'.C = p.C /\ p'.Z = p.Z /\ last' = last
    BY <1>1, <1>12 DEF INST_FLAG, Flags
  <2>2. QED
    BY <2>1 DEF Right
<1>13. QED
  BY <1>2, <1>3, <1>4, <1>5, <1>6, <1>7, <1>8, <1>9, <1>10, <1>11, <1>12

-----------------------------------------------------------------------------
(* The bytes of every call and every interrupt are where they were pushed: *)
(* byte number d since the start is at At(d) as long as no more than a     *)
(* page has been pushed on top of it.                                      *)

At(d) == Up((depth - d) + 1)

Within(f) ==
  f.top - Size(f) >= 0 /\ f.top <= depth /\ depth <= (f.top - Size(f)) + Byte

Intact(f) ==
  /\ f.kind = "call" =>
       /\ stack[At(f.top)] = OfByte(Low(f.pc))
       /\ stack[At(f.top - 1)] = OfByte(High(f.pc))
  /\ f.kind = "interrupt" =>
       /\ stack[At(f.top)] = OfFlags(f.p)
       /\ stack[At(f.top - 1)] = OfByte(Low(f.pc))
       /\ stack[At(f.top - 2)] = OfByte(High(f.pc))

Stacked == \A f \in calls : Within(f) /\ Intact(f)

LEMMA FrameSize ==
  ASSUME NEW f \in Frames
  PROVE  /\ f.top \in Int /\ Size(f) \in 2..3
         /\ f.kind = "interrupt" => Size(f) = 3
         /\ f.kind \in {"call", "interrupt"}
  BY DEF Frames, Size

\* A frame whose cells keep their contents stays intact.
LEMMA StaysIntact ==
  ASSUME NEW f \in Frames, Intact(f),
         \A d \in ((f.top - Size(f)) + 1)..f.top : stack'[At(d)'] = stack[At(d)]
  PROVE  Intact(f)'
<1>1. f.top \in Int /\ Size(f) \in 2..3 /\ (f.kind = "interrupt" => Size(f) = 3)
  BY FrameSize
<1>2. f.top \in ((f.top - Size(f)) + 1)..f.top /\ f.top - 1 \in ((f.top - Size(f)) + 1)..f.top
  BY <1>1
<1>3. f.kind = "interrupt" => f.top - 2 \in ((f.top - Size(f)) + 1)..f.top
  BY <1>1
<1>4. stack'[At(f.top)'] = stack[At(f.top)] /\ stack'[At(f.top - 1)'] = stack[At(f.top - 1)]
  BY <1>2
<1>5. f.kind = "interrupt" => stack'[At(f.top - 2)'] = stack[At(f.top - 2)]
  BY <1>3
<1>6. /\ OfByte(Low(f.pc))' = OfByte(Low(f.pc)) /\ OfByte(High(f.pc))' = OfByte(High(f.pc))
      /\ OfFlags(f.p)' = OfFlags(f.p)
  BY DEF OfByte, OfFlags, Low, High, Byte
<1>7. QED
  BY <1>4, <1>5, <1>6 DEF Intact

LEMMA PushKeeps ==
  ASSUME TypeOK, Stacked, NEW n \in 1..3, NEW new, Push(n, new),
         \A b \in Bytes : b \notin {Down(i) : i \in 0..(n - 1)} => stack'[b] = stack[b],
         NEW f \in calls, f \in calls'
  PROVE  Within(f)' /\ Intact(f)'
<1>1. f \in Frames /\ depth \in Nat /\ s \in Bytes /\ Within(f) /\ Intact(f)
  BY DEF TypeOK, Stacked
<1>2. f.top \in Int /\ Size(f) \in 2..3
  BY <1>1, FrameSize
<1>3. depth' = depth + n /\ s' = Down(n) /\ depth + n <= (f.top - Size(f)) + Byte
  BY DEF Push
<1>4. ASSUME NEW d \in ((f.top - Size(f)) + 1)..f.top
      PROVE  stack'[At(d)'] = stack[At(d)]
  <2>1. (depth - d) + 1 \in 1..(Byte - n)
    BY <1>1, <1>2, <1>3, ByteSize DEF Within
  <2>2. PICK k \in 1..(Byte - n) : k = (depth - d) + 1
    BY <2>1
  <2>3. (depth' - d) + 1 = k + n
    BY <1>1, <1>2, <1>3, <2>2
  <2>4. At(d) = Up(k) /\ At(d)' = Up(k + n)'
    BY <2>2, <2>3 DEF At, Up, Byte
  <2>5. Up(k + n)' = Up(k) /\ Up(k) \in Bytes /\ \A i \in 0..(n - 1) : Up(k) # Down(i)
    BY <1>1, <1>3, PushMoves
  <2>6. stack'[Up(k)] = stack[Up(k)]
    BY <2>5
  <2>7. QED
    BY <2>4, <2>5, <2>6
<1>5. Intact(f)'
  BY <1>1, <1>4, StaysIntact
<1>6. Within(f)'
  BY <1>1, <1>2, <1>3 DEF Within, Size, Byte
<1>7. QED
  BY <1>5, <1>6

LEMMA PullKeeps ==
  ASSUME TypeOK, Stacked, NEW n \in 1..3, Pull(n), NEW f \in calls, f.top <= depth - n
  PROVE  Within(f)' /\ Intact(f)'
<1>1. f \in Frames /\ depth \in Nat /\ s \in Bytes /\ Within(f) /\ Intact(f)
  BY DEF TypeOK, Stacked
<1>2. f.top \in Int /\ Size(f) \in 2..3
  BY <1>1, FrameSize
<1>3. depth >= n
  BY <1>1, <1>2 DEF Within
<1>4. depth' = depth - n /\ s' = Up(n)
  BY <1>1, <1>3 DEF Pull
<1>5. ASSUME NEW d \in ((f.top - Size(f)) + 1)..f.top
      PROVE  stack'[At(d)'] = stack[At(d)]
  <2>1. (depth' - d) + 1 \in 1..(Byte - n)
    BY <1>1, <1>2, <1>4, ByteSize DEF Within
  <2>2. PICK k \in 1..(Byte - n) : k = (depth' - d) + 1
    BY <2>1
  <2>3. (depth - d) + 1 = k + n
    BY <1>1, <1>2, <1>4, <2>2
  <2>4. At(d) = Up(k + n) /\ At(d)' = Up(k)'
    BY <2>2, <2>3 DEF At, Up, Byte
  <2>5. Up(k)' = Up(k + n) /\ Up(k + n) \in Bytes /\ Up(k + n) \notin {Up(i) : i \in 1..n}
    BY <1>1, <1>4, PullMoves
  <2>6. stack'[Up(k + n)] = stack[Up(k + n)]
    BY <2>5 DEF Pull
  <2>7. QED
    BY <2>4, <2>5, <2>6
<1>6. Intact(f)'
  BY <1>1, <1>5, StaysIntact
<1>7. Within(f)'
  <2>1. Size(f)' = Size(f) /\ Byte' = Byte
    BY DEF Size, Byte
  <2>2. /\ f.top - Size(f) >= 0 /\ f.top <= depth - n
        /\ depth - n <= (f.top - Size(f)) + Byte
    BY <1>1, <1>2, ByteSize DEF Within
  <2>3. QED
    BY <1>4, <2>1, <2>2 DEF Within
<1>8. QED
  BY <1>6, <1>7

LEMMA DownsDiffer ==
  ASSUME s \in Bytes
  PROVE  Down(0) = s /\ Down(1) # s /\ Down(2) # s /\ Down(1) # Down(2)
         /\ Down(1) \in Bytes /\ Down(2) \in Bytes
<1>1. s \in Nat /\ s < Byte
  BY ByteSize DEF Bytes
<1>2. /\ Down(0) = IF s >= 0 THEN s - 0 ELSE s + Byte - 0
      /\ Down(1) \in Bytes /\ Down(1) = IF s >= 1 THEN s - 1 ELSE s + Byte - 1
      /\ Down(2) \in Bytes /\ Down(2) = IF s >= 2 THEN s - 2 ELSE s + Byte - 2
  BY UpDownTyped, ByteSize
<1>3. QED
  BY <1>1, <1>2, ByteSize

LEMMA ContextStored ==
  ASSUME TypeOK, NEW w, PushContext(w, p)
  PROVE  /\ stack'[s] = OfByte(High(w)) /\ stack'[Down(1)] = OfByte(Low(w))
         /\ stack'[Down(2)] = OfFlags(p)
         /\ \A b \in Bytes : b \notin {Down(i) : i \in 0..2} => stack'[b] = stack[b]
<1>1. s \in Bytes /\ DOMAIN stack = Bytes
  BY DEF TypeOK
<1>2. Down(0) = s /\ Down(1) # s /\ Down(2) # s /\ Down(1) # Down(2)
      /\ Down(1) \in Bytes /\ Down(2) \in Bytes
  BY <1>1, DownsDiffer
<1> DEFINE x == Down(1)
           y == Down(2)
<1>3. stack' = [stack EXCEPT ![s] = OfByte(High(w)), ![x] = OfByte(Low(w)), ![y] = OfFlags(p)]
  BY DEF PushContext
<1>4. s # x /\ s # y /\ x # y /\ x \in Bytes /\ y \in Bytes
  BY <1>2
<1>5. \A b \in Bytes : b \notin {Down(i) : i \in 0..2} => b # s /\ b # x /\ b # y
  BY <1>2
<1> HIDE DEF x, y
<1>6. /\ stack'[s] = OfByte(High(w)) /\ stack'[x] = OfByte(Low(w)) /\ stack'[y] = OfFlags(p)
      /\ \A b \in Bytes : b # s /\ b # x /\ b # y => stack'[b] = stack[b]
  BY <1>1, <1>3, <1>4
<1>7. QED
  BY <1>5, <1>6 DEF x, y

\* An interrupt puts its frame on the stack.
LEMMA InterruptionIntact ==
  ASSUME TypeOK, NEW w \in Addresses, PushContext(w, p), s' = Down(3), depth' = depth + 3,
         NEW f \in {Interruption(w, 3)}
  PROVE  Within(f)' /\ Intact(f)'
<1>1. depth \in Nat /\ s \in Bytes
  BY DEF TypeOK
<1>2. f.kind = "interrupt" /\ f.pc = w /\ f.p = p /\ f.top = depth + 3 /\ Size(f) = 3
  BY DEF Interruption, Size
<1>3. Up(1)' = Down(2) /\ Up(2)' = Down(1) /\ Up(3)' = Down(0)
  <2>1. Up(1)' = Down(3 - 1) /\ Up(2)' = Down(3 - 2) /\ Up(3)' = Down(3 - 3)
    BY <1>1, PushPuts
  <2>2. QED
    BY <2>1
<1>4. At(f.top)' = Up(1)' /\ At(f.top - 1)' = Up(2)' /\ At(f.top - 2)' = Up(3)'
  <2>1. (depth' - f.top) + 1 = 1 /\ (depth' - (f.top - 1)) + 1 = 2 /\ (depth' - (f.top - 2)) + 1 = 3
    BY <1>1, <1>2
  <2>2. QED
    BY <2>1 DEF At, Up, Byte
<1>5. /\ stack'[Down(0)] = OfByte(High(w)) /\ stack'[Down(1)] = OfByte(Low(w))
      /\ stack'[Down(2)] = OfFlags(p)
  BY <1>1, ContextStored, DownsDiffer
<1>6. /\ OfByte(Low(f.pc))' = OfByte(Low(w)) /\ OfByte(High(f.pc))' = OfByte(High(w))
      /\ OfFlags(f.p)' = OfFlags(p)
  BY <1>2 DEF OfByte, OfFlags, Low, High, Byte
<1>7. Intact(f)'
  BY <1>2, <1>3, <1>4, <1>5, <1>6 DEF Intact
<1>8. Within(f)'
  BY <1>1, <1>2, ByteSize DEF Within, Size, Byte
<1>9. QED
  BY <1>7, <1>8

LEMMA CallIntact ==
  ASSUME TypeOK, INST_JSR,
         NEW f \in {[kind |-> "call", pc |-> Behind, p |-> p, top |-> depth + 2, last |-> None]}
  PROVE  Within(f)' /\ Intact(f)'
<1>1. depth \in Nat /\ s \in Bytes /\ DOMAIN stack = Bytes
  BY DEF TypeOK
<1>2. f.kind = "call" /\ f.pc = Behind /\ f.top = depth + 2 /\ Size(f) = 2
  BY DEF Size
<1>3. Behind = ReturnAddress
  BY CpuAssumption DEF INST_JSR, Executes, Behind, ReturnAddress
<1>4. s' = Down(2) /\ depth' = depth + 2
  BY DEF INST_JSR, Push
<1>5. Up(1)' = Down(1) /\ Up(2)' = Down(0)
  <2>1. Up(1)' = Down(2 - 1) /\ Up(2)' = Down(2 - 2)
    BY <1>1, <1>4, PushPuts
  <2>2. QED
    BY <2>1
<1>6. At(f.top)' = Up(1)' /\ At(f.top - 1)' = Up(2)'
  <2>1. (depth' - f.top) + 1 = 1 /\ (depth' - (f.top - 1)) + 1 = 2
    BY <1>1, <1>2, <1>4
  <2>2. QED
    BY <2>1 DEF At, Up, Byte
<1>7. /\ stack'[Down(0)] = OfByte(High(Behind)) /\ stack'[Down(1)] = OfByte(Low(Behind))
  <2>1. Down(0) = s /\ Down(1) # s /\ Down(1) \in Bytes
    BY <1>1, DownsDiffer
  <2>2. stack' = [stack EXCEPT ![s] = OfByte(High(Behind)), ![Down(1)] = OfByte(Low(Behind))]
    BY <1>3 DEF INST_JSR
  <2>3. QED
    BY <1>1, <2>1, <2>2
<1>8. OfByte(Low(f.pc))' = OfByte(Low(Behind)) /\ OfByte(High(f.pc))' = OfByte(High(Behind))
  BY <1>2 DEF OfByte, Low, High, Byte
<1>9. Intact(f)'
  BY <1>2, <1>5, <1>6, <1>7, <1>8 DEF Intact
<1>10. Within(f)'
  BY <1>1, <1>2, <1>4, ByteSize DEF Within, Size, Byte
<1>11. QED
  BY <1>9, <1>10

-----------------------------------------------------------------------------
(* The invariant.                                                          *)

IInv == TypeOK /\ Stacked /\ RightHeld

\* A step that leaves the stack and what is on it alone.
LEMMA StackedUnchanged ==
  ASSUME Stacked, UNCHANGED <<s, stack, depth, calls>>
  PROVE  Stacked'
<1>1. ASSUME NEW f \in calls PROVE Within(f)' /\ Intact(f)'
  BY <1>1 DEF Stacked, Within, Intact, Size, At, Up, Byte, OfByte, OfFlags, Low, High
<1>2. QED
  BY <1>1 DEF Stacked

LEMMA StackedPush ==
  ASSUME TypeOK, Stacked, NEW n \in 1..3, NEW new, Push(n, new),
         \A b \in Bytes : b \notin {Down(i) : i \in 0..(n - 1)} => stack'[b] = stack[b],
         \A f \in new : Within(f)' /\ Intact(f)'
  PROVE  Stacked'
<1>1. ASSUME NEW f \in calls' PROVE Within(f)' /\ Intact(f)'
  <2>1. f \in calls \/ f \in new
    BY <1>1 DEF Push
  <2>2. CASE f \in calls
    BY <1>1, <2>2, PushKeeps
  <2>3. CASE f \in new
    BY <2>3
  <2>4. QED
    BY <2>1, <2>2, <2>3
<1>2. QED
  BY <1>1 DEF Stacked

LEMMA StackedPull ==
  ASSUME TypeOK, Stacked, NEW n \in 1..3, Pull(n)
  PROVE  Stacked'
<1>1. ASSUME NEW f \in calls' PROVE Within(f)' /\ Intact(f)'
  <2>1. f \in calls /\ f.top <= depth - n
    BY <1>1 DEF Pull
  <2>2. QED
    BY <2>1, PullKeeps
<1>2. QED
  BY <1>1 DEF Stacked

LEMMA StackedInterrupt ==
  ASSUME TypeOK, Stacked, NEW w \in Addresses, PushContext(w, p), Push(3, {Interruption(w, 3)})
  PROVE  Stacked'
<1>1. s' = Down(3) /\ depth' = depth + 3
  BY DEF Push
<1>2. \A f \in {Interruption(w, 3)} : Within(f)' /\ Intact(f)'
  BY <1>1, InterruptionIntact
<1>3. \A b \in Bytes : b \notin {Down(i) : i \in 0..(3 - 1)} => stack'[b] = stack[b]
  BY ContextStored
<1>4. QED
  BY <1>2, <1>3, StackedPush

LEMMA StackedStep == IInv /\ [Next]_vars => Stacked'
<1> SUFFICES ASSUME IInv, [Next]_vars PROVE Stacked'
  OBVIOUS
<1>1. TypeOK /\ Stacked /\ s \in Bytes /\ DOMAIN stack = Bytes /\ pc \in Addresses
  BY DEF IInv, TypeOK
<1>2. CASE UNCHANGED vars
  BY <1>1, <1>2, StackedUnchanged DEF vars
<1>3. CASE call_interrupt
  <2>1. CASE Reset
    BY <2>1 DEF Reset, Stacked
  <2>2. ASSUME NEW vector, NEW served, Interrupt(vector, served) PROVE Stacked'
    BY <1>1, <1>3, <2>2, StackedInterrupt DEF Interrupt, call_interrupt
  <2>3. QED
    BY <1>3, <2>1, <2>2 DEF call_interrupt
<1>4. CASE \/ Load \/ Store \/ Acknowledge \/ Transfer \/ Increment \/ Logic \/ TestBits
           \/ INST_ADC \/ INST_SBC \/ INST_CMP \/ INST_SHIFT \/ INST_CARRY \/ INST_FLAG
           \/ Jump \/ BranchOnBit \/ INST_WAI \/ INST_STP \/ NotInstalled
           \/ NoInterrupt \/ Idle \/ Lower
  <2>1. UNCHANGED <<s, stack, depth, calls>>
    BY <1>4 DEF Load, Store, Acknowledge, Transfer, Increment, Logic, TestBits, INST_ADC,
       INST_SBC, INST_CMP, INST_SHIFT, INST_CARRY, INST_FLAG, Jump, BranchOnBit, INST_WAI,
       INST_STP, NotInstalled, NoInterrupt, Idle, Lower
  <2>2. QED
    BY <1>1, <2>1, StackedUnchanged
<1>5. CASE INST_TXS
  BY <1>5 DEF INST_TXS, Stacked
<1>6. CASE PushByte
  <2>1. Down(0) = s
    BY <1>1, DownsDiffer
  <2>2. PICK c : stack' = [stack EXCEPT ![s] = c]
    BY <1>6 DEF PushByte
  <2>3. \A b \in Bytes : b \notin {Down(i) : i \in 0..(1 - 1)} => stack'[b] = stack[b]
    BY <1>1, <2>1, <2>2
  <2>4. Push(1, {})
    BY <1>6 DEF PushByte
  <2>5. QED
    BY <1>1, <2>3, <2>4, StackedPush
<1>7. CASE PullByte \/ INST_PLP \/ INST_RTS \/ INST_RTI
  <2>1. PICK n \in 1..3 : Pull(n)
    BY <1>7 DEF PullByte, INST_PLP, INST_RTS, INST_RTI
  <2>2. QED
    BY <1>1, <2>1, StackedPull
<1>8. CASE INST_JSR
  <2> DEFINE new == {[kind |-> "call", pc |-> Behind, p |-> p, top |-> depth + 2, last |-> None]}
  <2>1. \A f \in new : Within(f)' /\ Intact(f)'
    BY <1>1, <1>8, CallIntact
  <2>2. Down(0) = s
    BY <1>1, DownsDiffer
  <2>3. stack' = [stack EXCEPT ![s] = OfByte(High(ReturnAddress)),
                               ![Down(1)] = OfByte(Low(ReturnAddress))]
    BY <1>8 DEF INST_JSR
  <2>4. \A b \in Bytes : b \notin {Down(i) : i \in 0..(2 - 1)} => b # s /\ b # Down(1)
    BY <2>2
  <2>5. \A b \in Bytes : b \notin {Down(i) : i \in 0..(2 - 1)} => stack'[b] = stack[b]
    BY <1>1, <2>3, <2>4
  <2>6. Push(2, new)
    BY <1>8 DEF INST_JSR
  <2> HIDE DEF new
  <2>7. QED
    BY <1>1, <2>1, <2>5, <2>6, StackedPush
<1>9. CASE INST_BRK
  <2>1. Behind = Word(pc + 2)
    <3>1. Code[pc].len = 1
      BY <1>9, CpuAssumption DEF INST_BRK, Executes
    <3>2. pc \in Int
      BY <1>1 DEF Addresses
    <3>3. pc + 1 + Code[pc].len = pc + 2
      BY <3>1, <3>2
    <3>4. QED
      BY <3>3 DEF Behind
  <2>2. Behind \in Addresses
    BY <1>1, <1>9, BehindTyped DEF INST_BRK
  <2>3. PushContext(Behind, p) /\ Push(3, {Interruption(Behind, 3)})
    BY <1>9, <2>1 DEF INST_BRK
  <2>4. PICK w \in Addresses : w = Behind
    BY <2>2
  <2>5. PushContext(w, p) /\ Push(3, {Interruption(w, 3)})
    BY <2>3, <2>4
  <2>6. QED
    BY <1>1, <2>5, StackedInterrupt
<1>10. QED
  BY <1>2, <1>3, <1>4, <1>5, <1>6, <1>7, <1>8, <1>9 DEF Next

\* What an RTI and an RTS at the top of a frame pull.
LEMMA TopOfFrame ==
  ASSUME IInv, NEW f \in calls, f.top = depth
  PROVE  /\ f.kind = "interrupt" => /\ AsFlags(stack[Up(1)]) = {f.p}
                                    /\ PulledWord(2) = {f.pc}
         /\ f.kind = "call" => PulledWord(1) = {f.pc}
<1>1. f \in Frames /\ Intact(f) /\ depth \in Nat
  BY DEF IInv, TypeOK, Stacked
<1>2. f.pc \in Addresses /\ f.p \in Flags
  BY <1>1 DEF Frames
<1>3. /\ Low(f.pc) \in Bytes /\ High(f.pc) \in Bytes
      /\ Low(f.pc) + Byte * High(f.pc) = f.pc
  BY <1>2, BytesOfWord
<1>4. At(f.top) = Up(1) /\ At(f.top - 1) = Up(2) /\ At(f.top - 2) = Up(3)
  <2>1. (depth - f.top) + 1 = 1 /\ (depth - (f.top - 1)) + 1 = 2 /\ (depth - (f.top - 2)) + 1 = 3
    BY <1>1
  <2>2. QED
    BY <2>1 DEF At
<1>5. ASSUME f.kind = "interrupt"
      PROVE  AsFlags(stack[Up(1)]) = {f.p} /\ PulledWord(2) = {f.pc}
  <2>1. /\ stack[Up(1)] = OfFlags(f.p)
        /\ stack[Up(2)] = OfByte(Low(f.pc)) /\ stack[Up(3)] = OfByte(High(f.pc))
    BY <1>1, <1>4, <1>5 DEF Intact
  <2>2. AsByte(stack[Up(2)]) = {Low(f.pc)} /\ AsByte(stack[Up(2 + 1)]) = {High(f.pc)}
    BY <1>3, <2>1, OfTyped
  <2>3. PulledWord(2) = {f.pc}
    BY <1>3, <2>2 DEF PulledWord
  <2>4. QED
    BY <1>2, <2>1, <2>3, OfTyped
<1>6. ASSUME f.kind = "call" PROVE PulledWord(1) = {f.pc}
  <2>1. stack[Up(1)] = OfByte(Low(f.pc)) /\ stack[Up(2)] = OfByte(High(f.pc))
    BY <1>1, <1>4, <1>6 DEF Intact
  <2>2. AsByte(stack[Up(1)]) = {Low(f.pc)} /\ AsByte(stack[Up(1 + 1)]) = {High(f.pc)}
    BY <1>3, <2>1, OfTyped
  <2>3. QED
    BY <1>3, <2>2 DEF PulledWord
<1>7. QED
  BY <1>5, <1>6

LEMMA RightStep == IInv /\ [Next]_vars => RightHeld'
<1> SUFFICES ASSUME IInv, [Next]_vars PROVE RightHeld'
  OBVIOUS
<1>1. TypeOK /\ Right(last, p) /\ \A f \in calls : f.kind = "interrupt" => Right(f.last, f.p)
  BY DEF IInv, RightHeld
<1>2. p \in Flags /\ Data \subseteq Bytes /\ Bytes \subseteq Int
  BY <1>1, CpuAssumption, ByteSize DEF TypeOK, Bytes
<1>3. Right(last', p')
  <2>1. CASE Load \/ Transfer \/ Increment \/ Logic \/ TestBits \/ INST_ADC \/ INST_SBC
               \/ INST_CMP \/ INST_SHIFT \/ INST_CARRY \/ INST_FLAG
    BY <1>1, <2>1, RightCalculates
  <2>2. CASE call_interrupt \/ INST_BRK \/ INST_PLP
    BY <2>2, RightNone DEF call_interrupt, INST_BRK, INST_PLP
  <2>3. CASE \/ UNCHANGED vars \/ NoInterrupt \/ Idle \/ Lower \/ Store \/ Acknowledge
             \/ INST_TXS \/ PushByte \/ Jump \/ BranchOnBit \/ INST_JSR \/ INST_RTS
             \/ INST_WAI \/ INST_STP \/ NotInstalled
    <3>1. p' = p /\ last' = last
      BY <2>3 DEF vars, NoInterrupt, Idle, Lower, Store, Acknowledge, INST_TXS, PushByte, Jump,
         BranchOnBit, INST_JSR, INST_RTS, INST_WAI, INST_STP, NotInstalled
    <3>2. QED
      BY <1>1, <3>1
  <2>4. CASE PullByte
    <3>1. PICK v \in AsByte(stack[Up(1)]) : p' = SET_NZ(p, v)
      BY <2>4 DEF PullByte
    <3>2. v \in Int
      <4>1. stack[Up(1)] \in Cells
        BY <1>1, PulledTyped
      <4>2. AsByte(stack[Up(1)]) \subseteq Bytes
        BY <4>1, AsByteTyped
      <4>3. QED
        BY <1>2, <3>1, <4>2
    <3>3. p'.C = p.C
      BY <1>2, <3>1, <3>2, SetNZTyped
    <3>4. QED
      BY <1>1, <2>4, <3>3, RightOverwritten DEF PullByte
  <2>5. CASE INST_RTI
    <3>1. CASE last' = None
      BY <3>1, RightNone
    <3>2. CASE \E f \in calls : f.kind = "interrupt" /\ f.top = depth /\ last' = f.last
      <4>1. PICK f \in calls : f.kind = "interrupt" /\ f.top = depth /\ last' = f.last
        BY <3>2
      <4>2. p' = f.p
        BY <2>5, <4>1, TopOfFrame DEF INST_RTI
      <4>3. QED
        BY <1>1, <4>1, <4>2
    <3>3. QED
      BY <2>5, <3>1, <3>2 DEF INST_RTI
  <2>6. QED
    BY <2>1, <2>2, <2>3, <2>4, <2>5 DEF Next
<1>4. ASSUME NEW f \in calls', f.kind = "interrupt"
      PROVE  Right(f.last, f.p)
  <2>1. f \in calls \/ (f.last = last /\ f.p = p)
    <3>1. CASE call_interrupt
      BY <1>4, <3>1 DEF call_interrupt, Reset, Interrupt, Push, Interruption
    <3>2. CASE INST_BRK
      BY <1>4, <3>2 DEF INST_BRK, Push, Interruption
    <3>3. CASE INST_JSR
      BY <1>4, <3>3 DEF INST_JSR, Push
    <3>4. CASE PushByte \/ PullByte \/ INST_PLP \/ INST_RTS \/ INST_RTI \/ INST_TXS
      BY <1>4, <3>4 DEF PushByte, PullByte, INST_PLP, INST_RTS, INST_RTI, INST_TXS, Push, Pull
    <3>5. CASE \/ UNCHANGED vars \/ Load \/ Store \/ Acknowledge \/ Transfer \/ Increment
               \/ Logic \/ TestBits \/ INST_ADC \/ INST_SBC \/ INST_CMP \/ INST_SHIFT
               \/ INST_CARRY \/ INST_FLAG \/ Jump \/ BranchOnBit \/ INST_WAI \/ INST_STP
               \/ NotInstalled \/ NoInterrupt \/ Idle \/ Lower
      BY <1>4, <3>5 DEF vars, Load, Store, Acknowledge, Transfer, Increment, Logic, TestBits,
         INST_ADC, INST_SBC, INST_CMP, INST_SHIFT, INST_CARRY, INST_FLAG, Jump, BranchOnBit,
         INST_WAI, INST_STP, NotInstalled, NoInterrupt, Idle, Lower
    <3>6. QED
      BY <3>1, <3>2, <3>3, <3>4, <3>5 DEF Next
  <2>2. QED
    BY <1>1, <1>4, <2>1
<1>5. \A f \in calls' : f.kind = "interrupt" => Right(f.last, f.p)
  BY <1>4
<1>6. ASSUME NEW l, NEW f, Right(l, f) PROVE Right(l, f)'
  BY <1>6 DEF Right, Bit
<1>7. Right(last, p)' /\ \A f \in calls' : f.kind = "interrupt" => Right(f.last, f.p)'
  <2>1. Right(last, p)'
    BY <1>3 DEF Right, Bit
  <2>2. QED
    BY <1>5, <1>6, <2>1
<1>8. QED
  BY <1>7 DEF RightHeld

-----------------------------------------------------------------------------
(* The theorems.                                                           *)

LEMMA Base == Init => IInv
<1> SUFFICES ASSUME Init PROVE IInv
  OBVIOUS
<1>1. TypeOK
  BY TypeInit
<1>2. Stacked /\ RightHeld
  BY RightNone DEF Init, Stacked, RightHeld
<1>3. QED
  BY <1>1, <1>2 DEF IInv

LEMMA Step == IInv /\ [Next]_vars => IInv'
  BY TypeStep, StackedStep, RightStep DEF IInv

\* The frames of all calls and interrupts stay intact, and every calculation right.
THEOREM Invariance == Spec => []IInv
  BY Base, Step, PTL DEF Spec

\* Every register, flag, cell of the stack and frame keeps its type, whatever program
\* runs and whatever it pulls.
THEOREM TypeCorrect == Spec => []TypeOK
<1>1. IInv => TypeOK
  BY DEF IInv
<1>2. QED
  BY <1>1, Invariance, PTL

\* The carry between two bytes is exact, whatever interrupts came in between.
THEOREM CarriesAreExact == Spec => []CarryIsExact
<1>1. IInv => CarryIsExact
  BY DEF IInv, RightHeld, Right, CarryIsExact
<1>2. QED
  BY <1>1, Invariance, PTL

\* C and Z tell the order of what was compared, whatever interrupts came in between.
THEOREM ComparisonsHold == Spec => []ComparisonHolds
<1>1. IInv => ComparisonHolds
  BY DEF IInv, RightHeld, Right, ComparisonHolds
<1>2. QED
  BY <1>1, Invariance, PTL

\* Calls and interrupts return to where they came from, at every depth less than a
\* page and across the wrap of S.
THEOREM CallsReturn == Spec => ReturnsAreExact
<1> DEFINE Exactly ==
      \A f \in calls :
        /\ f.top = depth /\ phase' = "poll"
        /\ Executes({IF f.kind = "call" THEN "RTS" ELSE "RTI"})
        => pc' = f.pc /\ (f.kind = "interrupt" => p' = f.p)
<1>1. IInv /\ [Next]_vars => Exactly
  <2> SUFFICES ASSUME IInv, [Next]_vars, NEW f \in calls,
                      f.top = depth, phase' = "poll",
                      Executes({IF f.kind = "call" THEN "RTS" ELSE "RTI"})
               PROVE  pc' = f.pc /\ (f.kind = "interrupt" => p' = f.p)
    OBVIOUS
  <2>1. f.kind \in {"call", "interrupt"}
    BY FrameSize DEF IInv, TypeOK
  <2>2. phase = "fetch" /\ ~waiting /\ ~stopped /\ pc \in DOMAIN Code
        /\ Code[pc].op = IF f.kind = "call" THEN "RTS" ELSE "RTI"
    BY DEF Executes
  <2>3. INST_RTS \/ INST_RTI
    BY <2>2 DEF Next, vars, call_interrupt, NoInterrupt, Idle, Lower, NotInstalled, Executes, Load,
       Store, Acknowledge, Transfer, INST_TXS, Increment, Logic, TestBits, INST_ADC, INST_SBC,
       INST_CMP, INST_SHIFT, INST_CARRY, INST_FLAG, PushByte, PullByte, INST_PLP, Jump,
       BranchOnBit, INST_JSR, INST_BRK, INST_WAI, INST_STP
  <2>4. CASE INST_RTS
    <3>1. f.kind = "call"
      BY <2>1, <2>2, <2>4 DEF INST_RTS, Executes
    <3>2. QED
      BY <2>4, <3>1, TopOfFrame DEF INST_RTS
  <2>5. CASE INST_RTI
    <3>1. f.kind = "interrupt"
      BY <2>1, <2>2, <2>5 DEF INST_RTI, Executes
    <3>2. QED
      BY <2>5, <3>1, TopOfFrame DEF INST_RTI
  <2>6. QED
    BY <2>3, <2>4, <2>5
<1>2. QED
  BY <1>1, Invariance, PTL DEF Spec, ReturnsAreExact
=============================================================================
