--------------------------- MODULE TerminalProofs ---------------------------
(***************************************************************************)
(* Proofs about Terminal, for any length of the buffer, any screen and any *)
(* characters.                                                             *)
(***************************************************************************)
EXTENDS Terminal, TLAPS

\* A command begins at the first column.
CommandAtStart == place # "terminal" => x = 0 /\ index = 0

IInv ==
  /\ TypeOK /\ CommandAtStart
  /\ CursorIsIndex /\ ScreenShowsLine /\ OneIsLeftOver /\ DrawsInside

-----------------------------------------------------------------------------
(* Bytes, rows and cells.                                                  *)

LEMMA Sizes ==
  /\ Byte \in Nat /\ Len \in Nat /\ Width \in Nat /\ LastRow \in Nat
  /\ Len > 0 /\ LastRow > 0 /\ Len <= Width /\ Len + 3 < Byte /\ LastRow + 1 < Byte
  BY TerminalAssumption

LEMMA IncDec ==
  ASSUME NEW b \in Bytes
  PROVE  /\ Inc(b) \in Bytes /\ (b + 1 < Byte => Inc(b) = b + 1)
         /\ Dec(b) \in Bytes /\ (b > 0 => Dec(b) = b - 1)
<1>1. b \in Nat /\ b < Byte /\ Byte > 0 /\ Byte \in Nat
  BY Sizes DEF Bytes
<1>2. (b + 1) % Byte \in 0..(Byte - 1) /\ (b + 1 < Byte => (b + 1) % Byte = b + 1)
  BY <1>1
<1>3. (b + Byte - 1) % Byte \in 0..(Byte - 1)
  BY <1>1
<1>4. b > 0 => (b + Byte - 1) % Byte = b - 1
  <2> SUFFICES ASSUME b > 0 PROVE (b + Byte - 1) % Byte = b - 1
    OBVIOUS
  <2> DEFINE m == b - 1
  <2>1. m \in Nat /\ m < Byte /\ b + Byte - 1 = m + Byte
    BY <1>1
  <2>2. (m + Byte) % Byte = m
    <3> HIDE DEF m
    <3>1. QED
      BY <1>1, <2>1
  <2>3. QED
    BY <2>1, <2>2
<1>5. QED
  BY <1>2, <1>3, <1>4 DEF Inc, Dec, Bytes

LEMMA RowInside ==
  ASSUME NEW r \in Nat
  PROVE  /\ RowOf(r) \in 0..LastRow /\ Rise(r) \in Nat
         /\ r <= LastRow => RowOf(r) = r /\ Rise(r) = 0
         /\ RowOf(RowOf(r)) = RowOf(r)
  BY Sizes DEF RowOf, Rise

\* Every column of every row is a cell, and different columns are different cells.
LEMMA CellInside ==
  ASSUME NEW col \in 0..(Width - 1), NEW r \in Nat
  PROVE  CellOf(col, r) \in Cells
<1>1. RowOf(r) \in 0..LastRow
  BY RowInside
<1>2. ASSUME NEW q \in 0..LastRow PROVE col + q * Width \in Cells
  <2>1. q * Width \in Nat
    BY Sizes
  <2>2. q * Width <= LastRow * Width
    <3>1. (LastRow - q) \in Nat
      BY Sizes
    <3>2. (LastRow - q) * Width \in Nat
      BY <3>1, Sizes
    <3>3. (LastRow - q) * Width = LastRow * Width - q * Width
      BY Sizes
    <3>4. LastRow * Width \in Nat
      BY Sizes
    <3>5. QED
      BY <2>1, <3>2, <3>3, <3>4
  <2>3. Width * (LastRow + 1) = LastRow * Width + Width /\ LastRow * Width \in Nat
    BY Sizes
  <2>4. QED
    BY <2>1, <2>2, <2>3, Sizes DEF Cells
<1>3. QED
  BY <1>1, <1>2 DEF CellOf

LEMMA ColumnsDiffer ==
  ASSUME NEW c \in Int, NEW d \in Int, c # d, NEW r \in Nat
  PROVE  CellOf(c, r) # CellOf(d, r)
<1>1. RowOf(r) \in 0..LastRow
  BY RowInside
<1>2. RowOf(r) * Width \in Int
  BY <1>1, Sizes
<1>3. QED
  BY <1>2 DEF CellOf

LEMMA ScrolledTyped ==
  ASSUME TypeOK, NEW r \in Nat
  PROVE  /\ Scrolled(r) \in [Cells -> Typed \cup {Blank}]
         /\ r <= LastRow => \A c \in Cells : Scrolled(r)[c] = screen[c]
<1>1. Scrolled(r) \in [Cells -> Typed \cup {Blank}]
  BY DEF Scrolled, TypeOK, Typed
<1>2. ASSUME r <= LastRow, NEW c \in Cells PROVE Scrolled(r)[c] = screen[c]
  <2>1. c + Rise(r) * Width = c
    <3>1. Rise(r) = 0 /\ c \in Int
      BY <1>2, RowInside DEF Cells
    <3>2. QED
      BY <3>1, Sizes
  <2>2. QED
    BY <1>2, <2>1 DEF Scrolled
<1>3. QED
  BY <1>1, <1>2

\* A character in a column of the screen is drawn inside of it.
LEMMA Draws ==
  ASSUME TypeOK, NEW ch \in Typed, NEW col \in Nat, NEW r \in Nat,
         video_draw_character(ch, col, r)
  PROVE  /\ screen' \in [Cells -> Typed \cup {Blank}] /\ damaged' \in BOOLEAN
         /\ col < Width => damaged' = damaged /\ screen'[CellOf(col, r)] = ch
         /\ r <= LastRow => \A c \in 0..(Width - 1) :
              c # col => screen'[CellOf(c, r)] = screen[CellOf(c, r)]
<1>1. Scrolled(r) \in [Cells -> Typed \cup {Blank}]
  BY ScrolledTyped
<1>2. screen' = [c \in Cells |-> IF c = CellOf(col, r) THEN ch ELSE Scrolled(r)[c]]
  BY DEF video_draw_character
<1>3. screen' \in [Cells -> Typed \cup {Blank}]
  BY <1>1, <1>2
<1>4. damaged' = (damaged \/ CellOf(col, r) \notin Cells)
  BY DEF video_draw_character
<1>5. damaged' \in BOOLEAN
  BY <1>4
<1>6. ASSUME col < Width PROVE damaged' = damaged /\ screen'[CellOf(col, r)] = ch
  <2>1. CellOf(col, r) \in Cells
    BY <1>6, CellInside, Sizes
  <2>2. damaged' = damaged
    <3>1. damaged \in BOOLEAN
      BY DEF TypeOK
    <3>2. QED
      BY <1>4, <2>1, <3>1, Zenon
  <2>3. QED
    BY <1>2, <2>1, <2>2
<1>7. ASSUME r <= LastRow, NEW c \in 0..(Width - 1), c # col
      PROVE  screen'[CellOf(c, r)] = screen[CellOf(c, r)]
  <2>1. CellOf(c, r) \in Cells /\ CellOf(c, r) # CellOf(col, r)
    BY <1>7, CellInside, ColumnsDiffer, Sizes
  <2>2. Scrolled(r)[CellOf(c, r)] = screen[CellOf(c, r)]
    BY <1>7, <2>1, ScrolledTyped
  <2>3. QED
    BY <1>2, <2>1, <2>2
<1>8. QED
  BY <1>3, <1>5, <1>6, <1>7

-----------------------------------------------------------------------------
(* The invariant.                                                          *)

LEMMA Base == Init => IInv
<1> SUFFICES ASSUME Init PROVE IInv
  OBVIOUS
<1>1. 0 \in Bytes /\ Zero \in Typed
  BY Sizes DEF Bytes, Typed
<1>2. TypeOK
  BY <1>1 DEF Init, TypeOK, NoLine
<1>3. CommandAtStart /\ CursorIsIndex /\ DrawsInside
  BY Sizes DEF Init, CommandAtStart, CursorIsIndex, DrawsInside
<1>4. ScreenShowsLine /\ OneIsLeftOver
  BY DEF Init, ScreenShowsLine, OneIsLeftOver, NoLine
<1>5. QED
  BY <1>2, <1>3, <1>4 DEF IInv

LEMMA TypeParts ==
  ASSUME buffer' \in [Columns -> Typed], index' \in Bytes, x' \in Bytes, y' \in Bytes,
         screen' \in [Cells -> Typed \cup {Blank}],
         place' \in {"terminal", "command", "dir"}, over' \in BOOLEAN, damaged' \in BOOLEAN
  PROVE  TypeOK'
  BY DEF TypeOK, Columns, Typed, Bytes, Cells

\* A character at the end of the line.
LEMMA CharacterStep ==
  ASSUME IInv, NEW ch \in Typed, reg_char_routine(ch)
  PROVE  IInv'
<1>1. /\ TypeOK /\ place = "terminal" /\ index \in Nat /\ index < Len
      /\ x \in Bytes /\ y \in Bytes /\ x \in Nat /\ y \in Nat
  BY Sizes DEF IInv, TypeOK, Bytes, reg_char_routine, Ready
<1>2. /\ buffer' = [buffer EXCEPT ![index] = ch] /\ index' = index + 1 /\ x' = Inc(x)
      /\ y' = IF Inc(x) = 0 THEN RowOf(y) + 1 ELSE RowOf(y)
      /\ place' = place /\ over' = over
      /\ video_draw_character(ch, x, y)
  BY DEF reg_char_routine
<1>3. RowOf(y) \in 0..LastRow /\ (y <= LastRow => RowOf(y) = y) /\ RowOf(RowOf(y)) = RowOf(y)
  BY <1>1, RowInside
<1>4. /\ screen' \in [Cells -> Typed \cup {Blank}] /\ damaged' \in BOOLEAN
      /\ x < Width => damaged' = damaged /\ screen'[CellOf(x, y)] = ch
      /\ y <= LastRow => \A c \in 0..(Width - 1) :
           c # x => screen'[CellOf(c, y)] = screen[CellOf(c, y)]
  BY <1>1, <1>2, Draws
<1>5. Inc(x) \in Bytes /\ (x + 1 < Byte => Inc(x) = x + 1)
  BY <1>1, IncDec
<1>6. TypeOK'
  <2>1. buffer' \in [Columns -> Typed]
    BY <1>1, <1>2 DEF TypeOK
  <2>2. index' \in Bytes /\ y' \in Bytes
    BY <1>1, <1>2, <1>3, Sizes DEF Bytes
  <2>3. QED
    BY <1>1, <1>2, <1>4, <1>5, <2>1, <2>2, TypeParts DEF TypeOK
<1>7. CommandAtStart'
  BY <1>1, <1>2 DEF CommandAtStart
<1>8. ASSUME ~over
      PROVE  /\ x = index /\ x < Width /\ x' = index' /\ index' <= Len
             /\ y' = RowOf(y) /\ y' <= LastRow /\ (index > 0 => y <= LastRow)
  <2>1. x = index /\ (index > 0 => y <= LastRow)
    BY <1>8 DEF IInv, CursorIsIndex
  <2>2. Inc(x) = x + 1
    BY <1>1, <1>5, <2>1, Sizes
  <2>3. QED
    BY <1>1, <1>2, <1>3, <2>1, <2>2, Sizes
<1>9. CursorIsIndex'
  BY <1>2, <1>8 DEF CursorIsIndex
<1>10. ScreenShowsLine'
  <2>1. ASSUME ~over, NEW c \in 0..(index' - 1)
        PROVE  screen'[CellOf(c, y)'] = buffer'[c]
    <3>1. CellOf(c, y)' = CellOf(c, y)
      BY <1>3, <1>8, <2>1 DEF CellOf, RowOf
    <3>2. CASE c = index
      <4>1. c = x /\ screen'[CellOf(x, y)] = ch
        BY <1>4, <1>8, <2>1, <3>2
      <4>2. buffer'[c] = ch
        <5>1. index \in Columns /\ DOMAIN buffer = Columns
          BY <1>1, Sizes DEF TypeOK, Columns
        <5>2. QED
          BY <1>2, <3>2, <5>1
      <4>3. QED
        BY <3>1, <4>1, <4>2
    <3>3. CASE c # index
      <4>1. c \in 0..(index - 1) /\ c \in 0..(Width - 1) /\ c # x /\ y <= LastRow
        BY <1>1, <1>2, <1>8, <2>1, <3>3, Sizes
      <4>2. screen'[CellOf(c, y)] = screen[CellOf(c, y)] /\ screen[CellOf(c, y)] = buffer[c]
        BY <1>4, <2>1, <4>1 DEF IInv, ScreenShowsLine
      <4>3. buffer'[c] = buffer[c]
        BY <1>1, <1>2, <3>3, <4>1, Sizes DEF TypeOK, Columns
      <4>4. QED
        BY <3>1, <4>2, <4>3
    <3>4. QED
      BY <3>2, <3>3
  <2>2. QED
    BY <1>2, <2>1 DEF ScreenShowsLine
<1>11. OneIsLeftOver'
  <2>1. ASSUME ~over, NEW c \in Columns, c > index' PROVE buffer'[c] = Zero
    <3>1. c > index /\ c # index
      BY <1>1, <1>2, <2>1 DEF Columns
    <3>2. buffer[c] = Zero
      BY <1>1, <2>1, <3>1 DEF IInv, OneIsLeftOver
    <3>3. QED
      BY <1>1, <1>2, <3>1, <3>2 DEF TypeOK
  <2>2. QED
    BY <1>2, <2>1 DEF OneIsLeftOver, Columns
<1>12. DrawsInside'
  BY <1>2, <1>4, <1>8 DEF IInv, DrawsInside
<1>13. QED
  BY <1>6, <1>7, <1>9, <1>10, <1>11, <1>12 DEF IInv

\* A character rubbed out; one at the start of the line sets over.
LEMMA BackspaceStep ==
  ASSUME IInv, backspace_routine
  PROVE  IInv'
<1> DEFINE row == IF x = 0 THEN y - 1 ELSE y
<1>1. /\ TypeOK /\ place = "terminal" /\ index \in Bytes /\ index \in Nat
      /\ x \in Bytes /\ y \in Bytes /\ x \in Nat /\ y \in Nat /\ (x # 0 \/ y # 0)
      /\ 0 \in Bytes /\ Zero \in Typed
  BY Sizes DEF IInv, TypeOK, Bytes, backspace_routine, Ready, Typed
<1>2. /\ buffer' = [c \in Columns |-> IF c = index THEN Zero ELSE buffer[c]]
      /\ index' = Dec(index)
      /\ x' = IF index = Len + 1 THEN 0 ELSE Dec(x)
      /\ y' = IF index = Len + 2 THEN 0 ELSE row
      /\ place' = place /\ over' = (over \/ x = 0)
      /\ video_draw_character(Zero, Dec(index), row)
  BY DEF backspace_routine
<1>3. row \in Bytes /\ row \in Nat
  BY <1>1, Sizes DEF Bytes
<1>4. /\ Dec(x) \in Bytes /\ (x > 0 => Dec(x) = x - 1)
      /\ Dec(index) \in Bytes /\ (index > 0 => Dec(index) = index - 1)
  BY <1>1, IncDec
<1>5. Dec(index) \in Nat
  BY <1>4, Sizes DEF Bytes
<1> HIDE DEF row
<1>6. /\ screen' \in [Cells -> Typed \cup {Blank}] /\ damaged' \in BOOLEAN
      /\ Dec(index) < Width => damaged' = damaged
      /\ row <= LastRow => \A c \in 0..(Width - 1) :
           c # Dec(index) => screen'[CellOf(c, row)] = screen[CellOf(c, row)]
  BY <1>1, <1>2, <1>3, <1>5, Draws
<1>7. TypeOK'
  <2>1. buffer' \in [Columns -> Typed]
    BY <1>1, <1>2 DEF TypeOK
  <2>2. x' \in Bytes /\ y' \in Bytes /\ index' \in Bytes
    BY <1>1, <1>2, <1>3, <1>4
  <2>3. over' \in BOOLEAN
    BY <1>2
  <2>4. QED
    BY <1>1, <1>2, <1>6, <2>1, <2>2, <2>3, TypeParts
<1>8. CommandAtStart'
  BY <1>1, <1>2 DEF CommandAtStart
<1>9. ASSUME ~over'
      PROVE  /\ ~over /\ x = index /\ index > 0 /\ index <= Len /\ y <= LastRow
             /\ x' = x - 1 /\ index' = index - 1 /\ y' = y /\ row = y
             /\ Dec(index) = index - 1 /\ Dec(index) < Width
  <2>1. ~over /\ x # 0
    BY <1>2, <1>9
  <2>2. x = index /\ index <= Len /\ (index > 0 => y <= LastRow)
    BY <2>1 DEF IInv, CursorIsIndex
  <2>3. row = y
    BY <2>1 DEF row
  <2>4. QED
    BY <1>1, <1>2, <1>4, <2>1, <2>2, <2>3, Sizes
<1>10. CursorIsIndex'
  BY <1>1, <1>9, Sizes DEF CursorIsIndex
<1>11. ScreenShowsLine'
  <2>1. ASSUME ~over', NEW c \in 0..(index' - 1)
        PROVE  screen'[CellOf(c, y)'] = buffer'[c]
    <3>1. CellOf(c, y)' = CellOf(c, y)
      BY <1>9, <2>1 DEF CellOf, RowOf
    <3>2. c \in 0..(index - 1) /\ c \in 0..(Width - 1) /\ c # Dec(index) /\ c # index /\ c \in Columns
      BY <1>1, <1>9, <2>1, Sizes DEF Columns
    <3>3. screen'[CellOf(c, y)] = screen[CellOf(c, y)]
      BY <1>6, <1>9, <2>1, <3>2
    <3>4. screen[CellOf(c, y)] = buffer[c]
      BY <1>9, <2>1, <3>2 DEF IInv, ScreenShowsLine
    <3>5. QED
      BY <1>2, <3>1, <3>2, <3>3, <3>4
  <2>2. QED
    BY <2>1 DEF ScreenShowsLine
<1>12. OneIsLeftOver'
  <2>1. ASSUME ~over', NEW c \in Columns, c > index' PROVE buffer'[c] = Zero
    <3>1. c = index \/ c > index
      BY <1>1, <1>9, <2>1 DEF Columns
    <3>2. c > index => buffer[c] = Zero
      BY <1>1, <1>9, <2>1 DEF IInv, OneIsLeftOver
    <3>3. QED
      BY <1>2, <3>1, <3>2
  <2>2. QED
    BY <2>1 DEF OneIsLeftOver, Columns
<1>13. DrawsInside'
  <2>1. CASE over'
    BY <2>1 DEF DrawsInside
  <2>2. CASE ~over'
    BY <1>6, <1>9, <2>2 DEF IInv, DrawsInside
  <2>3. QED
    BY <2>1, <2>2
<1>14. QED
  BY <1>7, <1>8, <1>10, <1>11, <1>12, <1>13 DEF IInv

\* Enter and the commands.
LEMMA CommandStep ==
  ASSUME IInv, enter_routine \/ (\E ch \in Typed : PrintName(ch)) \/ Jump \/ compare_end
  PROVE  IInv'
<1>1. TypeOK /\ 0 \in Bytes /\ y \in Bytes /\ y \in Nat /\ Zero \in Typed
  BY Sizes DEF IInv, TypeOK, Bytes, Typed
<1>2. CASE enter_routine
  <2>1. TypeOK'
    BY <1>1, <1>2, IncDec, TypeParts DEF enter_routine, TypeOK
  <2>2. x' = 0 /\ index' = 0 /\ place' # "terminal" /\ over' = over /\ damaged' = damaged
    BY <1>2 DEF enter_routine
  <2>3. CommandAtStart' /\ OneIsLeftOver' /\ DrawsInside'
    BY <2>2 DEF CommandAtStart, OneIsLeftOver, DrawsInside, IInv
  <2>4. CursorIsIndex' /\ ScreenShowsLine'
    BY <2>2, Sizes DEF CursorIsIndex, ScreenShowsLine
  <2>5. QED
    BY <2>1, <2>3, <2>4 DEF IInv
<1>3. ASSUME NEW ch \in Typed, PrintName(ch) PROVE IInv'
  <2>1. /\ place # "terminal" /\ x' = x /\ index' = index /\ place' = place /\ over' = over
        /\ damaged' = damaged /\ buffer' = buffer
        /\ screen' = [c \in Cells |->
             IF c - RowOf(y) * Width \in 0..(NameLen - 1) THEN ch ELSE Scrolled(y)[c]]
        /\ y' = RowOf(y) + 1
    BY <1>3 DEF PrintName, Below
  <2>2. screen' \in [Cells -> Typed \cup {Blank}]
    BY <1>1, <2>1, ScrolledTyped
  <2>3. y' \in Bytes
    <3>1. RowOf(y) \in 0..LastRow
      BY <1>1, RowInside
    <3>2. QED
      BY <2>1, <3>1, Sizes DEF Bytes
  <2>4. TypeOK'
    BY <1>1, <2>1, <2>2, <2>3, TypeParts DEF TypeOK
  <2>5. x' = 0 /\ index' = 0
    BY <2>1 DEF IInv, CommandAtStart
  <2>6. CommandAtStart' /\ OneIsLeftOver' /\ DrawsInside'
    BY <2>1, <2>5 DEF CommandAtStart, OneIsLeftOver, DrawsInside, IInv
  <2>7. CursorIsIndex' /\ ScreenShowsLine'
    BY <2>5, Sizes DEF CursorIsIndex, ScreenShowsLine
  <2>8. QED
    BY <2>4, <2>6, <2>7 DEF IInv
<1>4. CASE Jump
  <2>1. TypeOK'
    BY <1>1, <1>4, TypeParts DEF Jump, TypeOK
  <2>2. /\ x' = 0 /\ index' = 0 /\ place' # "terminal" /\ over' = over /\ damaged' = damaged
    BY <1>4 DEF Jump, IInv, CommandAtStart
  <2>3. CommandAtStart' /\ OneIsLeftOver' /\ DrawsInside'
    BY <2>2 DEF CommandAtStart, OneIsLeftOver, DrawsInside, IInv
  <2>4. CursorIsIndex' /\ ScreenShowsLine'
    BY <2>2, Sizes DEF CursorIsIndex, ScreenShowsLine
  <2>5. QED
    BY <2>1, <2>3, <2>4 DEF IInv
<1>5. CASE compare_end
  <2>1. /\ x' = 0 /\ index' = 0 /\ over' = FALSE /\ damaged' = damaged /\ ~damaged
        /\ buffer' = NoLine /\ place' = "terminal"
    BY <1>5 DEF compare_end, IInv, CommandAtStart
  <2>2. TypeOK'
    BY <1>1, <1>5, TypeParts DEF compare_end, TypeOK, NoLine
  <2>3. CommandAtStart' /\ DrawsInside'
    BY <2>1 DEF CommandAtStart, DrawsInside
  <2>4. OneIsLeftOver'
    BY <2>1 DEF OneIsLeftOver, NoLine, Columns
  <2>5. CursorIsIndex' /\ ScreenShowsLine'
    BY <2>1, Sizes DEF CursorIsIndex, ScreenShowsLine
  <2>6. QED
    BY <2>2, <2>3, <2>4, <2>5 DEF IInv
<1>6. QED
  BY <1>2, <1>3, <1>4, <1>5

LEMMA Step == IInv /\ [Next]_vars => IInv'
<1> SUFFICES ASSUME IInv, [Next]_vars PROVE IInv'
  OBVIOUS
<1>1. CASE UNCHANGED vars
  <2>1. TypeOK'
    BY <1>1, TypeParts DEF vars, IInv, TypeOK
  <2>2. QED
    BY <1>1, <2>1 DEF vars, IInv, CommandAtStart, CursorIsIndex, ScreenShowsLine, OneIsLeftOver,
       DrawsInside, CellOf, RowOf, Columns
<1>2. CASE Next
  BY <1>2, CharacterStep, BackspaceStep, CommandStep DEF Next
<1>3. QED
  BY <1>1, <1>2

-----------------------------------------------------------------------------
(* The theorems.                                                           *)

\* The line in the buffer, the cursor and the screen agree.
THEOREM Invariance == Spec => []IInv
  BY Base, Step, PTL DEF Spec

\* Index, cursor and cells keep their types, whatever is typed and rubbed out.
THEOREM TypeCorrect == Spec => []TypeOK
<1>1. IInv => TypeOK
  BY DEF IInv
<1>2. QED
  BY <1>1, Invariance, PTL

\* Until a backspace leaves the line, the cursor is at its end, inside buffer and screen.
THEOREM CursorStays == Spec => []CursorIsIndex
<1>1. IInv => CursorIsIndex
  BY DEF IInv
<1>2. QED
  BY <1>1, Invariance, PTL

\* The row of the cursor shows the line, through scrolling and rubbing out.
THEOREM LineIsShown == Spec => []ScreenShowsLine
<1>1. IInv => ScreenShowsLine
  BY DEF IInv
<1>2. QED
  BY <1>1, Invariance, PTL

\* At most one character that was rubbed out is left in the buffer.
THEOREM OneStays == Spec => []OneIsLeftOver
<1>1. IInv => OneIsLeftOver
  BY DEF IInv
<1>2. QED
  BY <1>1, Invariance, PTL

\* Only a line that a backspace has left is drawn outside of the character memory.
THEOREM DrawingStaysInside == Spec => []DrawsInside
<1>1. IInv => DrawsInside
  BY DEF IInv
<1>2. QED
  BY <1>1, Invariance, PTL
=============================================================================
