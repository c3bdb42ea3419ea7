------------------------------ MODULE Terminal ------------------------------
(***************************************************************************)
(* The line editor of the kernal's terminal (kernal.s:160-362) with the    *)
(* character memory it draws to (video.c:33-54).                           *)
(*                                                                         *)
(* A step handles one event; which events come, and what becomes of events *)
(* that come meanwhile, is the subject of Machine.  Byte is the number of  *)
(* values of a byte, and the variables of the terminal follow its buffer   *)
(* in memory: TERMINAL_BUFFER + Len is TERMINAL_INDEX, then CHAR_X, CHAR_Y *)
(* and STATUS (which the routines clear anyhow), and behind them           *)
(* FS_CUR_DIR, which every command reads from the disk again.              *)
(*                                                                         *)
(* Zero is the character 0, which the space key types as well; Blank is a  *)
(* cell that has never been drawn.  The terminal always has the scroll bit *)
(* of the video register set.                                              *)
(***************************************************************************)
EXTENDS Integers

CONSTANTS
  Byte,       \* 256
  Len,        \* TERMINAL_BUFFER_LEN, 40
  Width,      \* TERMINAL_WIDTH, 40
  LastRow,    \* TERMINAL_REAL_HEIGHT, 11
  NameLen,    \* what DIR prints of a file, 13
  Chars,      \* characters with a key
  Zero, Blank

ASSUME TerminalAssumption ==
  /\ Byte \in Nat /\ Len \in Nat \ {0} /\ Width \in Nat /\ LastRow \in Nat \ {0}
  /\ Len <= Width /\ Len + 3 < Byte /\ LastRow + 1 < Byte /\ Width < Byte
  /\ NameLen \in 1..Width
  /\ Zero \notin Chars /\ Blank \notin Chars /\ Zero # Blank

Bytes   == 0..(Byte - 1)
Cells   == 0..(Width * (LastRow + 1) - 1)
Columns == 0..(Len - 1)
Typed   == Chars \cup {Zero}

VARIABLES
  buffer,     \* TERMINAL_BUFFER
  index,      \* TERMINAL_INDEX
  x, y,       \* TERMINAL_CHAR_X, TERMINAL_CHAR_Y
  screen,     \* character_memory
  place,      \* terminal, or the command an enter has found
  over,       \* history: a backspace was taken in the first column of this line
  damaged     \* history: a character was drawn outside of character_memory

vars == <<buffer, index, x, y, screen, place, over, damaged>>

TypeOK ==
  /\ buffer \in [Columns -> Typed]
  /\ index \in Bytes /\ x \in Bytes /\ y \in Bytes
  /\ screen \in [Cells -> Typed \cup {Blank}]
  /\ place \in {"terminal", "command", "dir"}
  /\ over \in BOOLEAN /\ damaged \in BOOLEAN

NoLine == [c \in Columns |-> Zero]

Init ==
  /\ buffer = NoLine /\ index = 0 /\ x = 0 /\ y = 0
  /\ screen = [c \in Cells |-> Blank]
  /\ place = "terminal" /\ over = FALSE /\ damaged = FALSE

-----------------------------------------------------------------------------
\* MUTANT of RowOf: the row is not held inside the screen.
RowAsIs(r) == r

\* The row a character for row r comes to, and the rows the screen scrolls for it.
RowOf(r) == IF r > LastRow THEN LastRow ELSE r
Rise(r)  == IF r > LastRow THEN r - LastRow ELSE 0
CellOf(col, r) == col + RowOf(r) * Width

Scrolled(r) ==
  [c \in Cells |-> IF c + Rise(r) * Width \in Cells THEN screen[c + Rise(r) * Width] ELSE Zero]

\* Behind the memory the character goes to whatever is there.
video_draw_character(ch, col, r) ==
  /\ screen' = [c \in Cells |-> IF c = CellOf(col, r) THEN ch ELSE Scrolled(r)[c]]
  /\ damaged' = (damaged \/ CellOf(col, r) \notin Cells)

\* MUTANT of Inc: it does not wrap.
IncOn(b) == b + 1

Dec(b) == (b + Byte - 1) % Byte
Inc(b) == (b + 1) % Byte

\* A row of the screen behind what was drawn last.
Below(r) == RowOf(r) + 1

Ready == place = "terminal" /\ ~damaged

-----------------------------------------------------------------------------
\* MUTANT of reg_char_routine: the buffer is not looked at.
reg_char_unbounded(ch) ==
  /\ Ready /\ index < Byte - 1
  /\ buffer' = [buffer EXCEPT ![IF index < Len THEN index ELSE 0] = ch]
  /\ index' = index + 1
  /\ video_draw_character(ch, x, y)
  /\ x' = Inc(x)
  /\ y' = IF Inc(x) = 0 THEN RowOf(y) + 1 ELSE RowOf(y)
  /\ UNCHANGED <<place, over>>

\* MUTANT of reg_char_routine: the row is not set back to the last one.
reg_char_scrolling(ch) ==
  /\ Ready /\ index < Len
  /\ buffer' = [buffer EXCEPT ![index] = ch]
  /\ index' = index + 1
  /\ video_draw_character(ch, x, y)
  /\ x' = Inc(x)
  /\ UNCHANGED <<y, place, over>>

\* A character: dropped if the buffer is full.
reg_char_routine(ch) ==
  /\ Ready /\ index < Len
  /\ buffer' = [buffer EXCEPT ![index] = ch]
  /\ index' = index + 1
  /\ video_draw_character(ch, x, y)
  /\ x' = Inc(x)
  /\ y' = IF Inc(x) = 0 THEN RowOf(y) + 1 ELSE RowOf(y)
  /\ UNCHANGED <<place, over>>

\* MUTANT of backspace_routine: the buffer is left alone.
backspace_keeping ==
  /\ Ready /\ (x # 0 \/ y # 0)
  /\ LET row == IF x = 0 THEN y - 1 ELSE y
     IN  /\ index' = Dec(index)
         /\ x' = IF index = Len + 1 THEN 0 ELSE Dec(x)
         /\ y' = IF index = Len + 2 THEN 0 ELSE row
         /\ video_draw_character(Zero, Dec(index), row)
  /\ over' = (over \/ x = 0)
  /\ UNCHANGED <<buffer, place>>

\* Backspace zeroes the byte at TERMINAL_BUFFER + index, which lies behind the
\* character it removes, and for an index of Len or more behind the buffer, in the
\* variables of the terminal.  The cell it draws to is that of the index.
backspace_routine ==
  /\ Ready /\ (x # 0 \/ y # 0)
  /\ LET row == IF x = 0 THEN y - 1 ELSE y
     IN  /\ buffer' = [c \in Columns |-> IF c = index THEN Zero ELSE buffer[c]]
         /\ index' = Dec(index)
         /\ x' = IF index = Len + 1 THEN 0 ELSE Dec(x)
         /\ y' = IF index = Len + 2 THEN 0 ELSE row
         /\ video_draw_character(Zero, Dec(index), row)
  /\ over' = (over \/ x = 0)
  /\ UNCHANGED place

\* Enter: a line down, and the command of the buffer is looked for.
enter_routine ==
  /\ Ready
  /\ y' = Inc(y) /\ index' = 0 /\ x' = 0
  /\ place' \in {"command", "dir"}
  /\ UNCHANGED <<buffer, screen, over, damaged>>

\* DIR prints a name, or fs_initialize why it does not, and goes to the next row.
PrintName(ch) ==
  /\ place = "dir" /\ ~damaged
  /\ screen' = [c \in Cells |->
                  IF c - RowOf(y) * Width \in 0..(NameLen - 1) THEN ch ELSE Scrolled(y)[c]]
  /\ y' = Below(y)
  /\ UNCHANGED <<buffer, index, x, place, over, damaged>>

\* JUMP clears the cursor for the program; this one returns and touches nothing.
Jump ==
  /\ place = "command" /\ ~damaged
  /\ x' = 0 /\ y' = 0
  /\ UNCHANGED <<buffer, index, screen, place, over, damaged>>

\* The end of every command: the buffer is cleared.
compare_end ==
  /\ place # "terminal" /\ ~damaged
  /\ buffer' = NoLine
  /\ place' = "terminal" /\ over' = FALSE
  /\ UNCHANGED <<index, x, y, screen, damaged>>

Next ==
  \/ \E ch \in Typed : reg_char_routine(ch) \/ PrintName(ch)
  \/ backspace_routine \/ enter_routine \/ Jump \/ compare_end

Spec == Init /\ [][Next]_vars

-----------------------------------------------------------------------------
\* Until a backspace leaves the line, the cursor is at the end of the line in the
\* buffer, inside the buffer and, once there is a character, inside the screen: an
\* enter repairs all that strays have done to the variables of the terminal.
CursorIsIndex ==
  ~over => x = index /\ index <= Len /\ (index > 0 => y <= LastRow)

\* What the user sees on the row of the cursor is what the buffer holds up to the
\* index, through scrolling, rubbing out and the output of commands.
ScreenShowsLine ==
  ~over => \A c \in 0..(index - 1) : screen[CellOf(c, y)] = buffer[c]

\* Backspace leaves the last character it has removed in the buffer, where the
\* commands read it, but never more than that one.
OneIsLeftOver ==
  place = "terminal" /\ ~over => \A c \in Columns : c > index => buffer[c] = Zero

\* Characters are drawn inside character_memory, unless a backspace has left the
\* line: the column is then 255, and in the lower half of the screen the cell is
\* behind the memory.
DrawsInside == damaged => over
=============================================================================
