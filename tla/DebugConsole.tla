---------------------------- MODULE DebugConsole ----------------------------
(***************************************************************************)
(* bitnos::DebugConsole of debug_console.cpp.  A console is a record: the  *)
(* cursor position and, for each character cell of the screen, the glyphs  *)
(* drawn there and not wiped since.  DrawAscii sets the black pixels of a  *)
(* glyph and leaves the others, so glyphs pile up in a cell; DrawRect      *)
(* wipes a cell.  The methods map a console to the console they leave.     *)
(***************************************************************************)
EXTENDS Naturals, Sequences

CONSTANTS Width, Height  (* size_, in character cells                       *)

ASSUME ConsoleAssumption == Width \in Nat \ {0} /\ Height \in Nat \ {0}

Columns == 0 .. Width - 1
Rows == 0 .. Height - 1

Cursor == "cursor"  (* what DrawCursor draws: an underscore, kept apart    *)
                    (* from one that was typed or printed                  *)
LF == "LF"     (* the characters '\n' and '\b'                              *)
BS == "BS"

(* What the loop over all pixels of MyMain and the constructor leave.      *)
NewConsole == [x |-> 0, y |-> 0, cell |-> [p \in Columns \X Rows |-> {}]]

Here(c) == <<c.x, c.y>>

DrawAscii(c, glyph) == [c EXCEPT !.cell[Here(c)] = @ \cup {glyph}]

(* Mutant: the cursor is not wiped.                                        *)
EraseCursorMissing(c) == c

EraseCursor(c) == [c EXCEPT !.cell[Here(c)] = {}]

DrawCursor(c) == DrawAscii([c EXCEPT !.cell[Here(c)] = {}], Cursor)

(* Mutant: the last row is not looked for.                                 *)
NewlineUnbounded(c) == [c EXCEPT !.x = 0, !.y = c.y + 1]

(* On the last row the cursor goes back to its beginning: the code has no  *)
(* scrolling, and wipes nothing.                                           *)
Newline(c) == [c EXCEPT !.x = 0,
                        !.y = IF c.y < Height - 1 THEN c.y + 1 ELSE c.y]

(* Mutant: going back over the edge stays on the row.                      *)
BackspaceSameRow(c) ==
  IF c.x > 0 THEN [c EXCEPT !.x = c.x - 1]
  ELSE [c EXCEPT !.x = Width - 1]

Backspace(c) ==
  IF c.x > 0 THEN [c EXCEPT !.x = c.x - 1]
  ELSE [c EXCEPT !.x = Width - 1, !.y = IF c.y > 0 THEN c.y - 1 ELSE c.y]

(* The cursor after an ordinary character.                                 *)
Advance(c) == IF c.x < Width - 1 THEN [c EXCEPT !.x = c.x + 1] ELSE Newline(c)

(* Mutant: the cursor is drawn before it moves back.                       *)
PutCharEarlyCursor(c, ch) ==
  LET wiped == EraseCursor(c) IN
  CASE ch = LF -> Newline(wiped)
    [] ch = BS -> Backspace(DrawCursor(wiped))
    [] OTHER     -> DrawCursor(Advance(DrawAscii(wiped, ch)))

(* The cursor is not drawn after a newline, only after the next character. *)
PutChar(c, ch) ==
  LET wiped == EraseCursor(c) IN
  CASE ch = LF -> Newline(wiped)
    [] ch = BS -> DrawCursor(Backspace(wiped))
    [] OTHER     -> DrawCursor(Advance(DrawAscii(wiped, ch)))

(* The console before each character of str, and after the last one.       *)
Puts(c, str) ==
  LET put[n \in 0 .. Len(str)] == IF n = 0 THEN c ELSE PutChar(put[n - 1], str[n])
  IN  put

PutStr(c, str) == Puts(c, str)[Len(str)]
=============================================================================
