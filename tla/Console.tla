------------------------------ MODULE Console ------------------------------
(***************************************************************************)
(* The framebuffer text console (console.rs): a grid of glyph cells, the   *)
(* cursor, the written length of each row, and the floor that keeps        *)
(* backspace inside the terminal session.                                  *)
(*                                                                         *)
(* Screens of at least two text rows: with fewer, scroll_up clears instead *)
(* of shifting.                                                            *)
(***************************************************************************)
EXTENDS Integers, Screen

CONSTANTS
  Columns,    \* text columns of the framebuffer
  Rows,       \* text rows of the framebuffer, at most MAX_TRACKED_ROWS
  Glyphs,     \* printable bytes of the session
  MaxBytes    \* bound: bytes written in one behaviour

ASSUME ConsoleAssumption == Columns \in Nat \ {0} /\ Rows \in Nat /\ Rows >= 2 /\ MaxBytes \in Nat

VARIABLES
  con,        \* FramebufferConsole
  doc,        \* what has been written, as lines
  scrolled,   \* lines of doc that have left the screen
  banner,     \* the lines written before the session
  written     \* bytes written so far

consoleVars == <<con, doc, scrolled, banner, written>>

Blank == "blank"
RowIds == 0..(Rows - 1)
ColumnIds == 0..(Columns - 1)
BlankRow == [c \in ColumnIds |-> Blank]
NoFloor == [row |-> -1, column |-> -1]

Empty ==
  [cells |-> [r \in RowIds |-> BlankRow], row |-> 0, column |-> 0,
   lengths |-> [r \in RowIds |-> 0], floor |-> NoFloor]

-----------------------------------------------------------------------------
ScrollWithoutLengths(k) ==
  [k EXCEPT !.cells = [r \in RowIds |-> IF r = Rows - 1 THEN BlankRow ELSE @[r + 1]],
            !.floor.row = IF @ > 0 THEN @ - 1 ELSE @]
ScrollUp(k) ==
  [k EXCEPT !.cells = [r \in RowIds |-> IF r = Rows - 1 THEN BlankRow ELSE @[r + 1]],
            !.lengths = [r \in RowIds |-> IF r = Rows - 1 THEN 0 ELSE @[r + 1]],
            !.floor.row = IF @ > 0 THEN @ - 1 ELSE @]

StartLine(k) ==
  IF k.row + 1 >= Rows THEN [ScrollUp(k) EXCEPT !.column = 0, !.row = Rows - 1]
  ELSE [k EXCEPT !.column = 0, !.row = @ + 1]

DrawByte(k, byte) ==
  LET at == IF k.column >= Columns THEN StartLine(k) ELSE k
  IN  [at EXCEPT !.cells[at.row][at.column] = byte,
                 !.column = @ + 1,
                 !.lengths[at.row] = IF at.column + 1 > @ THEN at.column + 1 ELSE @]

(* previous_cursor_position: before the cursor in its row, or the end of   *)
(* the nearest row above that has text.                                    *)
PreviousPositions(k) ==
  IF k.column > 0 THEN {[row |-> k.row, column |-> k.column - 1]}
  ELSE LET above == {r \in 0..(k.row - 1) : k.lengths[r] > 0}
       IN  IF above = {} THEN {}
           ELSE {[row |-> Max(above), column |-> k.lengths[Max(above)] - 1]}

CellBefore(p, q) == p.row < q.row \/ (p.row = q.row /\ p.column < q.column)
AtFloor(k) == k.row = k.floor.row /\ k.column = k.floor.column

MayErase(k, target) == k.floor # NoFloor /\ ~AtFloor(k) /\ ~CellBefore(target, k.floor)

BackspaceFromSession(k) ==
  IF \E target \in PreviousPositions(k) : MayErase(k, target)
  THEN LET target == CHOOSE p \in PreviousPositions(k) : TRUE
       IN  [k EXCEPT !.cells[target.row][target.column] = Blank,
                     !.row = target.row, !.column = target.column,
                     !.lengths[target.row] = target.column]
  ELSE k

WriteTerminalByte(k, byte) ==
  CASE byte = "newline" -> StartLine(k)
    [] byte = "backspace" -> BackspaceFromSession(k)
    [] OTHER -> DrawByte(k, byte)

-----------------------------------------------------------------------------
InSession == con.floor # NoFloor

Expected(byte) ==
  CASE byte = "newline" -> NewLine(doc)
    [] byte = "backspace" ->
         IF InSession THEN RubOut(doc, Max({scrolled, Len(banner)}) + 1) ELSE doc
    [] OTHER -> PutChar(doc, byte, Columns)

(* console::write_terminal_byte, for terminal output and for the kernel's  *)
(* own messages.                                                           *)
Write(byte) ==
  /\ written < MaxBytes
  /\ written' = written + 1
  /\ con' = WriteTerminalByte(con, byte)
  /\ doc' = Expected(byte)
  /\ scrolled' = Max({scrolled, Len(doc') - Rows})
  /\ UNCHANGED banner

(* begin_terminal_session; the kernel's messages before it end with a      *)
(* newline.                                                                *)
BeginTerminalSession ==
  /\ ~InSession /\ con.column = 0
  /\ con' = [con EXCEPT !.floor = [row |-> con.row, column |-> con.column]]
  /\ banner' = Front(doc)
  /\ UNCHANGED <<doc, scrolled, written>>

ConsoleInit ==
  /\ con = Empty /\ doc = <<<<>>>> /\ scrolled = 0 /\ banner = <<>> /\ written = 0

BootByte == ~InSession /\ \E byte \in {"boot", "newline"} : Write(byte)
SessionByte == InSession /\ \E byte \in Glyphs \cup {"newline", "backspace"} : Write(byte)
ConsoleNext == BootByte \/ BeginTerminalSession \/ SessionByte

-----------------------------------------------------------------------------
Line(r) == IF r \in DOMAIN doc THEN doc[r] ELSE <<>>
ShownRow(line) == [c \in ColumnIds |-> IF c < Len(line) THEN line[c + 1] ELSE Blank]

(* The grid is the last lines of what was written, and the cursor stands   *)
(* behind the last character: through wrapping, scrolling and rubbing out  *)
(* across rows the cells, the cursor, row_lengths and the floor stay in    *)
(* step.                                                                   *)
ScreenShowsDocument ==
  /\ \A r \in RowIds : con.cells[r] = ShownRow(Line(scrolled + r + 1))
  /\ con.row = Len(doc) - 1 - scrolled
  /\ con.column = Len(Last(doc))
=============================================================================
