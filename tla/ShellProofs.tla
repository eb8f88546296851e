---------------------------- MODULE ShellProofs ----------------------------
(***************************************************************************)
(* Proofs about the shell of debug_console.cpp: the line editor, for       *)
(* screens of every size and commands of every output, and the loop of     *)
(* Exec that cuts a line into arguments, for lines of every length.        *)
(***************************************************************************)
EXTENDS DebugShell, CommandLine, SequenceTheorems, WellFoundedInduction, TLAPS

(* Induction up to m, over a set.                                          *)
LEMMA Upwards ==
  ASSUME NEW m \in Nat, NEW T, 0 \in T,
         \A n \in 0 .. m - 1 : n \in T => n + 1 \in T
  PROVE  0 .. m \subseteq T
<1> SUFFICES ASSUME ~(0 .. m \subseteq T) PROVE FALSE
  OBVIOUS
<1> DEFINE Bad == (0 .. m) \ T
<1>1. Bad \subseteq Nat /\ Bad # {}
  OBVIOUS
<1>2. PICK n \in Bad : \A k \in Bad : <<k, n>> \notin OpToRel(<, Nat)
  <2> HIDE DEF Bad
  <2> QED BY <1>1, WFMin, NatLessThanWellFounded, Zenon
<1>3. \A k \in Bad : ~(k < n)
  <2>1. \A k \in Bad : k \in Nat /\ n \in Nat
    BY <1>1
  <2> HIDE DEF Bad
  <2> QED BY <1>2, <2>1 DEF OpToRel
<1>4. n \in Nat /\ n # 0 /\ n <= m /\ n \notin T
  OBVIOUS
<1>5. n - 1 \in 0 .. m - 1 /\ n - 1 < n /\ (n - 1) + 1 = n
  BY <1>4
<1>6. n - 1 \notin T
  BY <1>4, <1>5
<1>7. n - 1 \in Bad
  BY <1>5, <1>6
<1> QED
  BY <1>3, <1>5, <1>7

Unfolded(c, str) ==
  /\ Puts(c, str)[0] = c
  /\ \A n \in 1 .. Len(str) :
       Puts(c, str)[n] = PutChar(Puts(c, str)[n - 1], str[n])

(* What a string does to the console, character by character.              *)
LEMMA PutsUnfold ==
  ASSUME NEW c, NEW str, Len(str) \in Nat PROVE Unfolded(c, str)
<1> DEFINE Def(f, m) ==
             f = [n \in 0 .. m |->
                    IF n = 0 THEN c ELSE PutChar(f[n - 1], str[n])]
           T == {m \in 0 .. Len(str) : \E f : Def(f, m)}
<1>1. 0 \in T
  <2>1. Def([n \in 0 .. 0 |-> c], 0)
    OBVIOUS
  <2>2. 0 \in 0 .. Len(str)
    OBVIOUS
  <2> HIDE DEF Def
  <2> QED BY <2>1, <2>2
<1>2. ASSUME NEW m \in 0 .. Len(str) - 1, m \in T PROVE m + 1 \in T
  <2>1. PICK f : Def(f, m)
    BY <1>2
  <2> DEFINE g == [n \in 0 .. m + 1 |->
                     IF n = m + 1 THEN PutChar(f[m], str[m + 1]) ELSE f[n]]
  <2>2. ASSUME NEW n \in 0 .. m + 1
        PROVE  g[n] = IF n = 0 THEN c ELSE PutChar(g[n - 1], str[n])
    <3>1. CASE n = m + 1
      <4>1. n # 0 /\ n - 1 = m /\ m \in 0 .. m + 1 /\ m # m + 1
        BY <3>1
      <4>2. g[n] = PutChar(f[m], str[m + 1]) /\ g[m] = f[m]
        BY <3>1, <4>1
      <4> HIDE DEF g
      <4> QED BY <3>1, <4>1, <4>2
    <3>2. CASE n \in 0 .. m
      <4>1. n # m + 1 /\ (n # 0 => n - 1 \in 0 .. m + 1 /\ n - 1 # m + 1)
        BY <3>2
      <4>2. g[n] = f[n] /\ (n # 0 => g[n - 1] = f[n - 1])
        BY <4>1
      <4>3. f[n] = IF n = 0 THEN c ELSE PutChar(f[n - 1], str[n])
        BY <2>1, <3>2
      <4> HIDE DEF g
      <4> QED BY <4>2, <4>3
    <3> QED BY <3>1, <3>2
  <2>3. Def(g, m + 1)
    BY <2>2
  <2>4. m + 1 \in 0 .. Len(str)
    OBVIOUS
  <2> QED BY <2>3, <2>4
<1>3. Len(str) \in T
  <2> HIDE DEF T
  <2>1. 0 .. Len(str) \subseteq T
    BY <1>1, <1>2, Upwards
  <2> QED BY <2>1
<1>4. Def(Puts(c, str), Len(str))
  BY <1>3 DEF Puts
<1>5. ASSUME NEW n \in 0 .. Len(str)
      PROVE  Puts(c, str)[n] =
               IF n = 0 THEN c ELSE PutChar(Puts(c, str)[n - 1], str[n])
  BY <1>4
<1> QED
  BY <1>5 DEF Unfolded

(* A set of consoles that the characters of a string do not lead out of.   *)
LEMMA PutsStays ==
  ASSUME NEW S, NEW c \in S, NEW str, Len(str) \in Nat,
         \A d \in S : \A k \in 1 .. Len(str) : PutChar(d, str[k]) \in S
  PROVE  /\ \A n \in 0 .. Len(str) : Puts(c, str)[n] \in S
         /\ PutStr(c, str) \in S
<1> DEFINE T == {n \in 0 .. Len(str) : Puts(c, str)[n] \in S}
<1>1. 0 \in T
  BY PutsUnfold DEF Unfolded
<1>2. ASSUME NEW n \in 0 .. Len(str) - 1, n \in T PROVE n + 1 \in T
  <2>1. n + 1 \in 1 .. Len(str) /\ (n + 1) - 1 = n
    OBVIOUS
  <2>2. Puts(c, str)[n + 1] = PutChar(Puts(c, str)[n], str[n + 1])
    BY <2>1, PutsUnfold DEF Unfolded
  <2> QED BY <1>2, <2>1, <2>2
<1>3. 0 .. Len(str) \subseteq T
  <2> HIDE DEF T
  <2> QED BY <1>1, <1>2, Upwards
<1> QED
  BY <1>3 DEF PutStr

-----------------------------------------------------------------------------
Cells == Columns \X Rows

(* The cursor of a console is one of its cells.                            *)
LEMMA HereIsCell == ASSUME NEW c \in Console PROVE Here(c) \in Cells
  BY DEF Console, Here, Cells

(* The methods of the console, cell by cell.                               *)
LEMMA WipeEffect ==
  ASSUME NEW c \in Console
  PROVE  /\ EraseCursor(c) \in Console
         /\ EraseCursor(c).x = c.x /\ EraseCursor(c).y = c.y
         /\ \A p \in Cells : EraseCursor(c).cell[p] =
                             IF p = Here(c) THEN {} ELSE c.cell[p]
<1>1. c.x \in Columns /\ c.y \in Rows /\ c.cell \in [Cells -> SUBSET Glyph]
  BY DEF Console, Cells
<1> DEFINE wiped == [c.cell EXCEPT ![Here(c)] = {}]
<1>2. wiped \in [Cells -> SUBSET Glyph]
  BY <1>1
<1>3. \A p \in Cells : wiped[p] = IF p = Here(c) THEN {} ELSE c.cell[p]
  BY <1>1
<1>4. EraseCursor(c) = [c EXCEPT !.cell = wiped]
  BY DEF EraseCursor
<1> HIDE DEF wiped
<1>5. EraseCursor(c) \in Console /\ EraseCursor(c).cell = wiped
      /\ EraseCursor(c).x = c.x /\ EraseCursor(c).y = c.y
  BY <1>2, <1>4 DEF Console, Cells
<1> QED BY <1>3, <1>5

(* Drawing a glyph adds it to the cell of the cursor and to no other.      *)
LEMMA DrawEffect ==
  ASSUME NEW c \in Console, NEW g \in Glyph
  PROVE  /\ DrawAscii(c, g) \in Console
         /\ DrawAscii(c, g).x = c.x /\ DrawAscii(c, g).y = c.y
         /\ \A p \in Cells : DrawAscii(c, g).cell[p] =
                             IF p = Here(c) THEN c.cell[p] \cup {g} ELSE c.cell[p]
<1>1. c.x \in Columns /\ c.y \in Rows /\ c.cell \in [Cells -> SUBSET Glyph]
      /\ Here(c) \in Cells
  BY HereIsCell DEF Console, Cells
<1> DEFINE drawn == [c.cell EXCEPT ![Here(c)] = c.cell[Here(c)] \cup {g}]
<1>2. drawn \in [Cells -> SUBSET Glyph]
  BY <1>1
<1>3. \A p \in Cells :
        drawn[p] = IF p = Here(c) THEN c.cell[p] \cup {g} ELSE c.cell[p]
  BY <1>1
<1>4. DrawAscii(c, g) = [c EXCEPT !.cell = drawn]
  BY DEF DrawAscii
<1> HIDE DEF drawn
<1>5. DrawAscii(c, g) \in Console /\ DrawAscii(c, g).cell = drawn
      /\ DrawAscii(c, g).x = c.x /\ DrawAscii(c, g).y = c.y
  BY <1>2, <1>4 DEF Console, Cells
<1> QED BY <1>3, <1>5

(* DrawCursor wipes the cell of the cursor first.                          *)
LEMMA CursorEffect ==
  ASSUME NEW c \in Console
  PROVE  /\ DrawCursor(c) \in Console
         /\ DrawCursor(c).x = c.x /\ DrawCursor(c).y = c.y
         /\ \A p \in Cells : DrawCursor(c).cell[p] =
                             IF p = Here(c) THEN {Cursor} ELSE c.cell[p]
<1> DEFINE e == EraseCursor(c)
<1>1. DrawCursor(c) = DrawAscii(e, Cursor)
  BY DEF DrawCursor, EraseCursor
<1>2. Cursor \in Glyph
  BY DEF Glyph
<1>3. /\ e \in Console /\ e.x = c.x /\ e.y = c.y
      /\ \A p \in Cells : e.cell[p] = IF p = Here(c) THEN {} ELSE c.cell[p]
  BY WipeEffect
<1>4. Here(e) = Here(c)
  BY <1>3 DEF Here
<1> HIDE DEF e
<1>5. /\ DrawAscii(e, Cursor) \in Console
      /\ DrawAscii(e, Cursor).x = e.x /\ DrawAscii(e, Cursor).y = e.y
      /\ \A p \in Cells : DrawAscii(e, Cursor).cell[p] =
                             IF p = Here(e) THEN e.cell[p] \cup {Cursor} ELSE e.cell[p]
  BY <1>2, <1>3, DrawEffect
<1> QED BY <1>1, <1>3, <1>4, <1>5

(* The moves keep the cursor on the screen and touch no cell.              *)
LEMMA MoveEffect ==
  ASSUME NEW c \in Console
  PROVE  /\ Newline(c) \in Console /\ Newline(c).cell = c.cell
         /\ Newline(c).x = 0
         /\ Newline(c).y = IF c.y < Height - 1 THEN c.y + 1 ELSE c.y
         /\ Backspace(c) \in Console /\ Backspace(c).cell = c.cell
         /\ c.x > 0 => Backspace(c).x = c.x - 1 /\ Backspace(c).y = c.y
         /\ c.x = 0 => /\ Backspace(c).x = Width - 1
                      /\ Backspace(c).y = IF c.y > 0 THEN c.y - 1 ELSE c.y
         /\ Advance(c) \in Console /\ Advance(c).cell = c.cell
         /\ c.x < Width - 1 => Advance(c).x = c.x + 1 /\ Advance(c).y = c.y
         /\ c.x = Width - 1 => Advance(c).x = 0 /\ Advance(c).y = Newline(c).y
<1> USE ConsoleAssumption
<1>1. /\ c.x \in Columns /\ c.y \in Rows /\ c.x \in Nat /\ c.y \in Nat
      /\ 0 \in Columns /\ Width - 1 \in Columns
  BY DEF Console, Columns, Rows
<1>2. /\ Newline(c) \in Console /\ Newline(c).cell = c.cell
      /\ Newline(c).x = 0
      /\ Newline(c).y = IF c.y < Height - 1 THEN c.y + 1 ELSE c.y
  <2>1. (IF c.y < Height - 1 THEN c.y + 1 ELSE c.y) \in Rows
    BY <1>1 DEF Rows
  <2> QED BY <1>1, <2>1 DEF Newline, Console
<1>3. /\ Backspace(c) \in Console /\ Backspace(c).cell = c.cell
      /\ c.x > 0 => Backspace(c).x = c.x - 1 /\ Backspace(c).y = c.y
      /\ c.x = 0 => /\ Backspace(c).x = Width - 1
                      /\ Backspace(c).y = IF c.y > 0 THEN c.y - 1 ELSE c.y
  <2>1. /\ (IF c.y > 0 THEN c.y - 1 ELSE c.y) \in Rows
        /\ c.x > 0 => c.x - 1 \in Columns
    BY <1>1 DEF Rows, Columns
  <2>2. CASE c.x > 0
    BY <1>1, <2>1, <2>2 DEF Backspace, Console
  <2>3. CASE c.x = 0
    <3>1. Backspace(c) = [c EXCEPT !.x = Width - 1,
                                   !.y = IF c.y > 0 THEN c.y - 1 ELSE c.y]
      BY <1>1, <2>3 DEF Backspace
    <3>2. Backspace(c) \in Console
      BY <1>1, <2>1, <3>1 DEF Console
    <3>3. /\ Backspace(c).x = Width - 1 /\ Backspace(c).cell = c.cell
          /\ Backspace(c).y = IF c.y > 0 THEN c.y - 1 ELSE c.y
      BY <1>1, <3>1 DEF Console
    <3> QED BY <1>1, <2>3, <3>2, <3>3
  <2> QED BY <1>1, <2>2, <2>3
<1>4. /\ Advance(c) \in Console /\ Advance(c).cell = c.cell
      /\ c.x < Width - 1 => Advance(c).x = c.x + 1 /\ Advance(c).y = c.y
      /\ c.x = Width - 1 => Advance(c).x = 0 /\ Advance(c).y = Newline(c).y
  <2>1. c.x < Width - 1 => c.x + 1 \in Columns
    BY <1>1 DEF Columns
  <2> QED BY <1>1, <1>2, <2>1 DEF Advance, Console
<1> QED BY <1>2, <1>3, <1>4

(* Where a move leads depends on the cursor only.                          *)
LEMMA SameMove ==
  ASSUME NEW c \in Console, NEW d \in Console, d.x = c.x, d.y = c.y
  PROVE  /\ Backspace(d).x = Backspace(c).x /\ Backspace(d).y = Backspace(c).y
         /\ Advance(d).x = Advance(c).x /\ Advance(d).y = Advance(c).y
<1>1. c.x \in Nat /\ c.y \in Nat /\ c.x <= Width - 1 /\ Width \in Nat
  BY ConsoleAssumption DEF Console, Columns, Rows
<1>2. Newline(d).y = Newline(c).y
  BY MoveEffect
<1>3. CASE c.x > 0
  BY <1>1, <1>3, MoveEffect
<1>4. CASE c.x = 0
  BY <1>1, <1>4, MoveEffect
<1>5. Backspace(d).x = Backspace(c).x /\ Backspace(d).y = Backspace(c).y
  BY <1>1, <1>3, <1>4
<1>6. CASE c.x < Width - 1
  BY <1>6, <1>5, MoveEffect
<1>7. CASE c.x = Width - 1
  BY <1>7, <1>5, <1>2, MoveEffect
<1> QED BY <1>1, <1>6, <1>7

(* The move of PutChar.                                                    *)
Move(c, ch) == CASE ch = LF -> Newline(c)
                 [] ch = BS -> Backspace(c)
                 [] OTHER -> Advance(c)

(* What PutChar does: the cursor moves, the cell it was in is wiped or     *)
(* shows the character, and the cursor is drawn again but for a newline.   *)
Redrawn(c, ch, move, r) ==
  /\ r \in Console /\ r.x = move.x /\ r.y = move.y
  /\ \A p \in Cells : r.cell[p] =
       IF ch # LF /\ p = Here(move) THEN {Cursor}
       ELSE IF p # Here(c) THEN c.cell[p]
       ELSE IF ch \in {LF, BS} THEN {} ELSE {ch}

(* A character typed on a settled console: the cells the move passes are   *)
(* wiped or written, and the cursor is drawn where the move leads, except  *)
(* after a newline.                                                        *)
LEMMA PutCharEffect ==
  ASSUME NEW c \in Console, NEW ch \in Glyph \cup {LF, BS}
  PROVE  Redrawn(c, ch, Move(c, ch), PutChar(c, ch))
<1> DEFINE w == EraseCursor(c)
<1>1. /\ w \in Console /\ w.x = c.x /\ w.y = c.y /\ Here(w) = Here(c)
      /\ \A p \in Cells : w.cell[p] = IF p = Here(c) THEN {} ELSE c.cell[p]
  BY WipeEffect DEF Here
<1>2. CASE ch = LF
  <2>1. PutChar(c, ch) = Newline(w) /\ Move(c, ch) = Newline(c)
    BY <1>2 DEF PutChar, Move, LF, BS
  <2> HIDE DEF w
  <2>2. /\ Newline(w) \in Console /\ Newline(w).cell = w.cell
        /\ Newline(w).x = Newline(c).x /\ Newline(w).y = Newline(c).y
    BY <1>1, MoveEffect
  <2> QED BY <1>1, <1>2, <2>1, <2>2 DEF Redrawn
<1>3. CASE ch = BS
  <2> DEFINE m == Backspace(w)
  <2>1. PutChar(c, ch) = DrawCursor(m) /\ Move(c, ch) = Backspace(c) /\ ch # LF
    BY <1>3 DEF PutChar, Move, LF, BS
  <2>2. m.x = Backspace(c).x /\ m.y = Backspace(c).y
    <3> HIDE DEF w
    <3> QED BY <1>1, SameMove
  <2>3. m \in Console /\ m.cell = w.cell
    <3> HIDE DEF w
    <3> QED BY <1>1, MoveEffect
  <2>4. Here(m) = Here(Backspace(c))
    BY <2>2 DEF Here
  <2> HIDE DEF w, m
  <2>5. /\ DrawCursor(m) \in Console
        /\ DrawCursor(m).x = m.x /\ DrawCursor(m).y = m.y
        /\ \A p \in Cells : DrawCursor(m).cell[p] =
                             IF p = Here(m) THEN {Cursor} ELSE m.cell[p]
    BY <2>3, CursorEffect
  <2> QED BY <1>1, <1>3, <2>1, <2>2, <2>3, <2>4, <2>5 DEF Redrawn
<1>4. CASE ch # LF /\ ch # BS
  <2> DEFINE d == DrawAscii(w, ch)
             m == Advance(d)
  <2>1. PutChar(c, ch) = DrawCursor(m) /\ Move(c, ch) = Advance(c)
    BY <1>4 DEF PutChar, Move
  <2>2. /\ d \in Console /\ d.x = c.x /\ d.y = c.y
        /\ \A p \in Cells : d.cell[p] = IF p = Here(c) THEN {ch} ELSE c.cell[p]
    <3> HIDE DEF w
    <3>1. /\ d \in Console /\ d.x = w.x /\ d.y = w.y
          /\ \A p \in Cells : d.cell[p] =
               IF p = Here(w) THEN w.cell[p] \cup {ch} ELSE w.cell[p]
      BY <1>1, <1>4, DrawEffect
    <3> HIDE DEF d
    <3> QED BY <1>1, <3>1
  <2> HIDE DEF w, d
  <2>3. m.x = Advance(c).x /\ m.y = Advance(c).y
    BY <2>2, SameMove
  <2>4. m \in Console /\ m.cell = d.cell
    BY <2>2, MoveEffect
  <2>5. Here(m) = Here(Advance(c))
    BY <2>3 DEF Here
  <2> HIDE DEF m
  <2>6. /\ DrawCursor(m) \in Console
        /\ DrawCursor(m).x = m.x /\ DrawCursor(m).y = m.y
        /\ \A p \in Cells : DrawCursor(m).cell[p] =
                             IF p = Here(m) THEN {Cursor} ELSE m.cell[p]
    BY <2>4, CursorEffect
  <2> QED BY <1>4, <2>1, <2>2, <2>3, <2>4, <2>5, <2>6 DEF Redrawn
<1> QED BY <1>2, <1>3, <1>4

(* Between two characters no glyph lies on another, and the cursor is      *)
(* nowhere but in its place.                                               *)
Settled ==
  {c \in Console :
     \A p \in Cells : /\ \A g, h \in c.cell[p] : g = h
                      /\ Cursor \in c.cell[p] => p = Here(c)}

(* No character leaves a console unsettled, and after each but the newline *)
(* the cursor is drawn.                                                    *)
LEMMA PutCharSettled ==
  ASSUME NEW c \in Settled, NEW ch \in Glyph \cup {LF, BS}, ch # Cursor
  PROVE  /\ PutChar(c, ch) \in Settled
         /\ ch # LF => Cursor \in PutChar(c, ch).cell[Here(PutChar(c, ch))]
         /\ ch = LF => PutChar(c, ch).x = 0
<1> DEFINE r == PutChar(c, ch)
           m == Move(c, ch)
<1>1. /\ r \in Console /\ Here(r) = Here(m)
      /\ \A p \in Cells : r.cell[p] =
           IF ch # LF /\ p = Here(m) THEN {Cursor}
           ELSE IF p # Here(c) THEN c.cell[p]
           ELSE IF ch \in {LF, BS} THEN {} ELSE {ch}
  BY PutCharEffect DEF Settled, Here, Redrawn
<1>2. Here(r) \in Cells
  BY <1>1, HereIsCell
<1>3. ch = LF => r.x = 0
  <2>1. ASSUME ch = LF PROVE r.x = 0
    <3>1. Move(c, ch) = Newline(c) /\ c \in Console
      BY <2>1 DEF Move, Settled, LF, BS
    <3>2. Redrawn(c, ch, Newline(c), r)
      BY <3>1, PutCharEffect
    <3>3. r.x = Newline(c).x
      BY <3>2 DEF Redrawn
    <3> QED BY <3>1, <3>3, MoveEffect
  <2> QED BY <2>1
<1> HIDE DEF r, m
<1>4. ASSUME NEW p \in Cells
      PROVE  /\ \A g, h \in r.cell[p] : g = h
             /\ Cursor \in r.cell[p] => p = Here(r)
  BY <1>1 DEF Settled
<1>5. r \in Settled
  BY <1>1, <1>4 DEF Settled
<1>6. ch # LF => Cursor \in r.cell[Here(r)]
  BY <1>1, <1>2
<1> QED BY <1>3, <1>5, <1>6 DEF r

(* What a command prints keeps the console settled and leaves it at the    *)
(* beginning of a row: its output ends in a newline.                       *)
LEMMA OutputSettled ==
  ASSUME NEW c \in Settled, c.x = 0, NEW out \in Outputs \cup {<<>>}
  PROVE  PutStr(c, out) \in Settled /\ PutStr(c, out).x = 0
<1>0. Len(out) \in Nat
  BY ShellAssumption, EmptySeq
<1>1. CASE Len(out) = 0
  <2>1. PutStr(c, out) = c
    BY <1>0, <1>1, PutsUnfold DEF PutStr, Unfolded
  <2> QED BY <2>1
<1>2. CASE Len(out) # 0
  <2>0. out \in Outputs
    BY <1>2, EmptySeq
  <2>1. /\ Len(out) \in Nat /\ DOMAIN out = 1 .. Len(out)
        /\ out[Len(out)] = LF
        /\ \A k \in 1 .. Len(out) : out[k] # Cursor /\ out[k] \in Glyph
    BY <1>0, <1>2, <2>0, ShellAssumption DEF Glyph, Printed
  <2>2. Len(out) # 0
    BY <1>2
  <2>3. \A d \in Settled :
          \A k \in 1 .. Len(out) : PutChar(d, out[k]) \in Settled
    BY <2>1, PutCharSettled
  <2>4. Puts(c, out)[Len(out) - 1] \in Settled /\ PutStr(c, out) \in Settled
    <3>1. Len(out) - 1 \in 0 .. Len(out)
      BY <2>1, <2>2
    <3> QED BY <2>1, <2>3, <3>1, PutsStays
  <2>5. PutStr(c, out) = PutChar(Puts(c, out)[Len(out) - 1], LF)
    <3>1. Len(out) \in 1 .. Len(out)
      BY <2>1, <2>2
    <3> QED BY <2>1, <3>1, PutsUnfold DEF PutStr, Unfolded
  <2>6. LF # Cursor
    BY DEF LF, Cursor
  <2> QED BY <2>4, <2>5, <2>6, PutCharSettled
<1> QED BY <1>1, <1>2

-----------------------------------------------------------------------------
(* Reading order: the n-th cell of the screen, counted from 0.             *)
Place(n) == <<n % Width, n \div Width>>
Pos(c) == c.y * Width + c.x

(* Two cells in reading order: a smaller row comes first.                  *)
LEMMA RowOrder ==
  ASSUME NEW w \in Nat, NEW a \in Nat, NEW b \in Nat, a < b,
         NEW e \in 0 .. w - 1, NEW f \in 0 .. w - 1
  PROVE  a * w + e < b * w + f
<1>1. PICK d \in Nat : b = a + 1 + d
  <2>1. b - a - 1 \in Nat /\ b = a + 1 + (b - a - 1)
    OBVIOUS
  <2> QED BY <2>1
<1>2. b * w = a * w + w + d * w
  BY <1>1
<1>3. a * w \in Nat /\ b * w \in Nat /\ d * w \in Nat /\ d * w >= 0
  OBVIOUS
<1> QED BY <1>2, <1>3

(* The places of the screen in reading order are its cells.                *)
LEMMA PlaceOfPos ==
  ASSUME NEW c \in Console, NEW n \in Nat
  PROVE  /\ Pos(c) \in Nat
         /\ n <= Pos(c) => Place(n) \in Cells
         /\ n = Pos(c) => Place(n) = Here(c)
         /\ n # Pos(c) => Place(n) # Here(c)
<1> USE ConsoleAssumption
<1>1. /\ c.x \in 0 .. Width - 1 /\ c.y \in Nat /\ c.y \in 0 .. Height - 1
      /\ Width \in Nat /\ Width # 0 /\ Height \in Nat
  BY DEF Console, Columns, Rows
<1> DEFINE u == n % Width
           v == n \div Width
<1>2. u \in 0 .. Width - 1 /\ v \in Nat /\ n = v * Width + u
  BY <1>1
<1>3. Pos(c) \in Nat
  BY <1>1 DEF Pos
<1> HIDE DEF u, v
<1>4. v < c.y => n < Pos(c)
  BY <1>1, <1>2, RowOrder DEF Pos
<1>5. c.y < v => Pos(c) < n
  BY <1>1, <1>2, RowOrder DEF Pos
<1>6. n <= Pos(c) => <<u, v>> \in Cells
  BY <1>1, <1>2, <1>3, <1>5 DEF Cells, Columns, Rows
<1>7. n = Pos(c) => u = c.x /\ v = c.y
  BY <1>1, <1>2, <1>3, <1>4, <1>5 DEF Pos
<1>8. <<u, v>> = Here(c) => n = Pos(c)
  BY <1>2 DEF Here, Pos
<1> QED BY <1>3, <1>6, <1>7, <1>8 DEF Place, Here, u, v

(* The text stands before the cursor.                                      *)
Shows(c, text) ==
  /\ Len(text) <= Pos(c)
  /\ \A k \in 1 .. Len(text) :
       c.cell[Place(Pos(c) - (Len(text) - k + 1))] = {text[k]}

(* Typing a character lengthens the text before the cursor by it.          *)
LEMMA InsertShows ==
  ASSUME NEW c \in Console, NEW ch \in Glyph, ch # LF, ch # BS,
         Here(c) # <<Width - 1, Height - 1>>,
         NEW text, NEW longer, Len(text) \in Nat, Len(longer) = Len(text) + 1,
         \A k \in 1 .. Len(text) : longer[k] = text[k],
         longer[Len(longer)] = ch, Shows(c, text)
  PROVE  /\ Shows(PutChar(c, ch), longer)
         /\ c.x < Width - 1 => /\ PutChar(c, ch).x = c.x + 1
                               /\ PutChar(c, ch).y = c.y
<1> USE ConsoleAssumption
<1> DEFINE r == PutChar(c, ch)
           size == Len(text)
<1>1. /\ c.x \in 0 .. Width - 1 /\ c.y \in 0 .. Height - 1
      /\ Width \in Nat /\ Width # 0 /\ Height \in Nat
  BY DEF Console, Columns, Rows
<1>2. Move(c, ch) = Advance(c)
  BY DEF Move
<1>3. /\ r \in Console /\ r.x = Advance(c).x /\ r.y = Advance(c).y
      /\ Here(r) = Here(Advance(c))
      /\ \A p \in Cells : r.cell[p] = IF p = Here(Advance(c)) THEN {Cursor}
                                     ELSE IF p # Here(c) THEN c.cell[p] ELSE {ch}
  <2>1. Redrawn(c, ch, Advance(c), r)
    BY <1>2, PutCharEffect
  <2> HIDE DEF r
  <2>2. Here(r) = Here(Advance(c))
    BY <2>1 DEF Here, Redrawn
  <2> QED BY <2>1, <2>2 DEF Redrawn
<1> HIDE DEF r
<1>4. Pos(r) = Pos(c) + 1
  <2> DEFINE above == c.y * Width
  <2>0. above \in Nat
    BY <1>1
  <2>1. CASE c.x < Width - 1
    <3>1. r.x = c.x + 1 /\ r.y = c.y
      BY <1>3, <2>1, MoveEffect
    <3>2. Pos(r) = above + (c.x + 1) /\ Pos(c) = above + c.x
      BY <3>1, Zenon DEF Pos
    <3> HIDE DEF above
    <3> QED BY <1>1, <2>0, <3>2
  <2>2. CASE c.x = Width - 1
    <3>1. c.y < Height - 1
      BY <1>1, <2>2 DEF Here
    <3>2. r.x = 0 /\ r.y = c.y + 1
      BY <1>3, <2>2, <3>1, MoveEffect
    <3> QED BY <1>1, <2>2, <3>2 DEF Pos
  <2> QED BY <1>1, <2>1, <2>2
<1>5. Pos(c) \in Nat /\ Pos(r) \in Nat
  BY <1>3, PlaceOfPos
<1>6. ASSUME NEW k \in 1 .. size
      PROVE  r.cell[Place(Pos(r) - (Len(longer) - k + 1))] = {longer[k]}
  <2> DEFINE n == Pos(c) - (size - k + 1)
  <2>1. n \in Nat /\ n < Pos(c) /\ n = Pos(r) - (Len(longer) - k + 1)
    BY <1>4, <1>5 DEF Shows
  <2>2. c.cell[Place(n)] = {text[k]}
    BY DEF Shows
  <2> HIDE DEF n, size
  <2>3. Place(n) \in Cells /\ Place(n) # Here(c) /\ Place(n) # Here(r)
    BY <1>3, <1>4, <1>5, <2>1, PlaceOfPos
  <2>4. r.cell[Place(n)] = c.cell[Place(n)]
    BY <1>3, <2>3
  <2> QED BY <2>1, <2>2, <2>4 DEF size
<1>7. r.cell[Place(Pos(r) - 1)] = {ch}
  <2>1. Pos(r) - 1 = Pos(c) /\ Pos(c) # Pos(r)
    BY <1>4, <1>5
  <2>2. Place(Pos(c)) = Here(c) /\ Here(c) # Here(r)
    BY <1>3, <1>5, <2>1, PlaceOfPos
  <2>3. Here(c) \in Cells
    BY HereIsCell
  <2> QED BY <1>3, <2>1, <2>2, <2>3
<1>8. Shows(r, longer)
  <2>1. Len(longer) <= Pos(r)
    BY <1>4, <1>5 DEF Shows
  <2>2. ASSUME NEW k \in 1 .. Len(longer)
        PROVE  r.cell[Place(Pos(r) - (Len(longer) - k + 1))] = {longer[k]}
    <3>1. CASE k \in 1 .. size
      BY <1>6, <3>1
    <3>2. CASE k = Len(longer)
      <4>1. Len(longer) - k + 1 = 1
        BY <3>2
      <4> QED BY <1>7, <3>2, <4>1
    <3> QED BY <3>1, <3>2
  <2> QED BY <2>1, <2>2 DEF Shows
<1>9. c.x < Width - 1 => r.x = c.x + 1 /\ r.y = c.y
  BY <1>3, MoveEffect
<1> QED BY <1>8, <1>9 DEF r

(* Backspace leaves the text before the cursor without its last character. *)
LEMMA EraseShows ==
  ASSUME NEW c \in Console, NEW text, NEW shorter,
         Len(text) \in Nat \ {0}, Len(shorter) = Len(text) - 1,
         \A k \in 1 .. Len(shorter) : shorter[k] = text[k], Shows(c, text)
  PROVE  Shows(PutChar(c, BS), shorter)
<1> USE ConsoleAssumption
<1> DEFINE r == PutChar(c, BS)
           size == Len(shorter)
<1>1. /\ c.x \in 0 .. Width - 1 /\ c.y \in 0 .. Height - 1
      /\ Width \in Nat /\ Width # 0 /\ Height \in Nat
  BY DEF Console, Columns, Rows
<1>2. Move(c, BS) = Backspace(c)
  BY DEF Move, LF, BS
<1>3. /\ r \in Console /\ r.x = Backspace(c).x /\ r.y = Backspace(c).y
      /\ Here(r) = Here(Backspace(c))
      /\ \A p \in Cells : p # Here(r) /\ p # Here(c) => r.cell[p] = c.cell[p]
  <2>1. Redrawn(c, BS, Backspace(c), r)
    BY <1>2, PutCharEffect
  <2> HIDE DEF r
  <2>2. Here(r) = Here(Backspace(c))
    BY <2>1 DEF Here, Redrawn
  <2> QED BY <2>1, <2>2 DEF Redrawn
<1> HIDE DEF r
<1>4. Pos(c) \in Nat /\ Pos(r) \in Nat /\ Pos(c) > 0
  <2>1. Pos(c) \in Nat /\ Pos(r) \in Nat
    BY <1>3, PlaceOfPos
  <2> QED BY <2>1 DEF Shows
<1>5. Pos(r) = Pos(c) - 1
  <2>1. CASE c.x > 0
    BY <1>1, <1>3, <2>1, MoveEffect DEF Pos
  <2>2. CASE c.x = 0
    <3>1. c.y > 0
      BY <1>1, <1>4, <2>2 DEF Pos
    <3>2. r.x = Width - 1 /\ r.y = c.y - 1
      BY <1>3, <2>2, <3>1, MoveEffect
    <3> QED BY <1>1, <2>2, <3>2 DEF Pos
  <2> QED BY <1>1, <2>1, <2>2
<1>6. ASSUME NEW k \in 1 .. size
      PROVE  r.cell[Place(Pos(r) - (size - k + 1))] = {shorter[k]}
  <2> DEFINE n == Pos(r) - (size - k + 1)
  <2>1. /\ n \in Nat /\ n < Pos(r) /\ n < Pos(c)
        /\ n = Pos(c) - (Len(text) - k + 1) /\ k \in 1 .. Len(text)
    BY <1>4, <1>5 DEF Shows
  <2> HIDE DEF n, size
  <2>2. c.cell[Place(n)] = {text[k]}
    BY <2>1 DEF Shows
  <2>3. Place(n) \in Cells /\ Place(n) # Here(c) /\ Place(n) # Here(r)
    BY <1>3, <1>4, <1>5, <2>1, PlaceOfPos
  <2>4. r.cell[Place(n)] = c.cell[Place(n)]
    BY <1>3, <2>3
  <2> QED BY <2>2, <2>4 DEF size, n
<1>7. size <= Pos(r)
  BY <1>4, <1>5 DEF Shows
<1> QED BY <1>6, <1>7 DEF Shows, r

(* The line as the user sees it: the prompt and n characters of b.         *)
Line(b, n) == kDefaultPrompt \o [k \in 1 .. n |-> b[k - 1]]

(* The characters of the prompt and the line.                              *)
LEMMA LineElements ==
  ASSUME NEW b, NEW n \in Nat
  PROVE  /\ Len(Line(b, n)) = n + 2
         /\ \A k \in 1 .. n + 2 :
              Line(b, n)[k] = IF k <= 2 THEN kDefaultPrompt[k] ELSE b[k - 3]
<1> DEFINE t == [k \in 1 .. n |-> b[k - 1]]
           E == {b[k - 1] : k \in 1 .. n} \cup {"$", " "}
<1>1. t \in Seq(E) /\ Len(t) = n
  <2>1. t \in [1 .. n -> E]
    OBVIOUS
  <2> HIDE DEF t, E
  <2> QED BY <2>1
<1>2. kDefaultPrompt \in Seq(E) /\ Len(kDefaultPrompt) = 2
  BY DEF kDefaultPrompt
<1>3. \A k \in 1 .. n : t[k] = b[k - 1]
  OBVIOUS
<1> HIDE DEF t, E
<1>4. /\ Len(kDefaultPrompt \o t) = 2 + n
      /\ \A k \in 1 .. 2 + n : (kDefaultPrompt \o t)[k] =
                               IF k <= 2 THEN kDefaultPrompt[k] ELSE t[k - 2]
  <2>1. /\ Len(kDefaultPrompt \o t) = Len(kDefaultPrompt) + Len(t)
        /\ \A k \in 1 .. Len(kDefaultPrompt) + Len(t) :
             (kDefaultPrompt \o t)[k] =
               IF k <= Len(kDefaultPrompt) THEN kDefaultPrompt[k]
               ELSE t[k - Len(kDefaultPrompt)]
    BY <1>1, <1>2, ConcatProperties
  <2> QED BY <1>1, <1>2, <2>1
<1>5. ASSUME NEW k \in 1 .. n + 2, ~(k <= 2) PROVE t[k - 2] = b[k - 3]
  <2>1. k - 2 \in 1 .. n /\ (k - 2) - 1 = k - 3
    BY <1>5
  <2> QED BY <1>3, <2>1
<1> QED BY <1>4, <1>5 DEF Line, t

(* A string of two characters.                                             *)
LEMMA TwoPuts ==
  ASSUME NEW c, NEW str, Len(str) = 2
  PROVE  PutStr(c, str) = PutChar(PutChar(c, str[1]), str[2])
<1> DEFINE P == Puts(c, str)
<1>1. Len(str) \in Nat
  OBVIOUS
<1>2. P[0] = c /\ \A n \in 1 .. Len(str) : P[n] = PutChar(P[n - 1], str[n])
  <2>1. Unfolded(c, str)
    BY <1>1, PutsUnfold
  <2> QED BY <2>1, Zenon DEF Unfolded
<1>3. PutStr(c, str) = P[2]
  BY DEF PutStr
<1> HIDE DEF P
<1>4. 1 \in 1 .. Len(str) /\ 2 \in 1 .. Len(str) /\ 1 - 1 = 0 /\ 2 - 1 = 1
  OBVIOUS
<1>5. P[1] = PutChar(c, str[1])
  BY <1>2, <1>4
<1>6. P[2] = PutChar(P[1], str[2])
  BY <1>2, <1>4
<1> QED BY <1>3, <1>5, <1>6

(* The prompt begins a line.                                               *)
LEMMA TwoGlyphs ==
  ASSUME NEW c \in Settled, c.x = 0, NEW str, NEW text,
         Len(str) = 2, Len(text) = 2,
         \A k \in 1 .. 2 : /\ str[k] = text[k] /\ str[k] \in Glyph
                           /\ str[k] # LF /\ str[k] # BS /\ str[k] # Cursor
  PROVE  LET r == PutStr(c, str)
         IN  r \in Settled /\ Cursor \in r.cell[Here(r)] /\ Shows(r, text)
<1> USE ConsoleAssumption
<1>1. Width \in Nat /\ Width > 2 /\ Height \in Nat
  BY ShellAssumption DEF kDefaultPrompt
<1> DEFINE d == PutChar(c, str[1])
           r == PutChar(d, str[2])
<1>2. 1 \in 1 .. 2 /\ 2 \in 1 .. 2
  OBVIOUS
<1>3. PutStr(c, str) = r
  BY TwoPuts
<1>4. c \in Console /\ d \in Settled /\ d \in Console
  BY <1>2, PutCharSettled DEF Settled
<1>5. r \in Settled /\ Cursor \in r.cell[Here(r)]
  <2> HIDE DEF d
  <2> QED BY <1>2, <1>4, PutCharSettled
<1>6. Shows(d, <<text[1]>>) /\ d.x = 1
  <2>1. Here(c) # <<Width - 1, Height - 1>> /\ c.x < Width - 1
    BY <1>1 DEF Here
  <2> DEFINE none == <<>>
             one == <<text[1]>>
             ch == str[1]
  <2>2. /\ Len(none) = 0 /\ Len(none) \in Nat /\ Len(one) = Len(none) + 1
        /\ one[Len(one)] = ch
        /\ \A k \in 1 .. Len(none) : one[k] = none[k]
    BY <1>2
  <2>3. ch \in Glyph /\ ch # LF /\ ch # BS
    BY <1>2
  <2>4. Shows(c, none)
    BY <1>4, PlaceOfPos DEF Shows
  <2> HIDE DEF none, one, ch
  <2>5. Shows(PutChar(c, ch), one) /\ PutChar(c, ch).x = c.x + 1
    BY <1>4, <2>1, <2>2, <2>3, <2>4, InsertShows
  <2> QED BY <2>5 DEF one, ch
<1>7. Shows(r, text)
  <2> HIDE DEF d
  <2>1. Here(d) # <<Width - 1, Height - 1>>
    BY <1>1, <1>6 DEF Here
  <2> DEFINE one == <<text[1]>>
             ch == str[2]
  <2>2. Len(one) = 1 /\ Len(one) \in Nat /\ one[1] = text[1]
    OBVIOUS
  <2>3. ch \in Glyph /\ ch # LF /\ ch # BS /\ text[2] = ch
    BY <1>2
  <2>4. Shows(d, one)
    BY <1>6
  <2> HIDE DEF one, ch
  <2>5. /\ Len(text) = Len(one) + 1 /\ text[Len(text)] = ch
        /\ \A k \in 1 .. Len(one) : text[k] = one[k]
    BY <2>2, <2>3
  <2>6. Shows(PutChar(d, ch), text)
    BY <1>4, <2>1, <2>2, <2>3, <2>4, <2>5, InsertShows
  <2> QED BY <2>6 DEF ch
<1> QED BY <1>3, <1>5, <1>7

(* The prompt, printed at the beginning of a row, stands before the        *)
(* cursor: the row has room for it.                                        *)
LEMMA PromptShows ==
  ASSUME NEW c \in Settled, c.x = 0, NEW b
  PROVE  LET r == PutStr(c, kDefaultPrompt)
         IN  /\ r \in Settled /\ Cursor \in r.cell[Here(r)]
             /\ Shows(r, Line(b, 0))
<1>1. /\ kDefaultPrompt[1] = "$" /\ kDefaultPrompt[2] = " "
      /\ Len(kDefaultPrompt) = 2
  BY DEF kDefaultPrompt
<1>2. 1 \in 1 .. 2 /\ 2 \in 1 .. 2
  OBVIOUS
<1>3. \A k \in 1 .. 2 : kDefaultPrompt[k] \in Glyph
  BY Zenon DEF Glyph
<1>4. \A k \in 1 .. 2 : /\ kDefaultPrompt[k] # LF /\ kDefaultPrompt[k] # BS
                        /\ kDefaultPrompt[k] # Cursor
  <2>1. "$" \notin {LF, BS, Cursor} /\ " " \notin {LF, BS, Cursor}
    BY DEF LF, BS, Cursor
  <2>2. \A k \in 1 .. 2 : k = 1 \/ k = 2
    OBVIOUS
  <2> QED BY <1>1, <2>1, <2>2
<1>5. /\ Len(Line(b, 0)) = 2
      /\ \A k \in 1 .. 2 : Line(b, 0)[k] = kDefaultPrompt[k]
  <2>1. ASSUME NEW n \in Nat, n = 0
        PROVE  /\ Len(Line(b, n)) = 2
               /\ \A k \in 1 .. 2 : Line(b, n)[k] = kDefaultPrompt[k]
    <3>1. /\ Len(Line(b, n)) = n + 2
          /\ \A k \in 1 .. n + 2 :
               Line(b, n)[k] = IF k <= 2 THEN kDefaultPrompt[k] ELSE b[k - 3]
      BY LineElements
    <3> QED BY <2>1, <3>1
  <2> QED BY <2>1
<1> QED BY <1>1, <1>3, <1>4, <1>5, TwoGlyphs

-----------------------------------------------------------------------------
(* Editing changes the last character of the line only.                    *)
LineShownNow == ~lapped => Shows(cons, Line(buf, cur))

ShellInv ==
  /\ cur \in 0 .. kLineLength
  /\ buf \in [0 .. kLineLength - 1 -> Char \cup {Zero}]
  /\ lapped \in BOOLEAN
  /\ cons \in Settled /\ Cursor \in cons.cell[Here(cons)]
  /\ LineShownNow

(* The invariant holds of the screen with its first prompt,                *)
LEMMA ShellInvInit == Init => ShellInv
<1> SUFFICES ASSUME Init PROVE ShellInv
  OBVIOUS
<1>1. NewConsole \in Settled /\ NewConsole.x = 0
  <2>1. 0 \in Columns /\ 0 \in Rows
    BY ConsoleAssumption DEF Columns, Rows
  <2>2. NewConsole \in Console /\ NewConsole.x = 0
    BY <2>1 DEF NewConsole, Console
  <2>3. \A p \in Cells : NewConsole.cell[p] = {}
    BY DEF NewConsole, Cells
  <2> QED BY <2>2, <2>3 DEF Settled
<1>2. /\ cons \in Settled /\ Cursor \in cons.cell[Here(cons)]
      /\ Shows(cons, Line(buf, 0))
  BY <1>1, PromptShows DEF Init
<1>3. 0 \in 0 .. kLineLength
  BY ShellAssumption
<1> QED BY <1>2, <1>3 DEF Init, ShellInv, LineShownNow

(* and Enter,                                                              *)
LEMMA ShellInvEnter == ASSUME ShellInv, Enter PROVE ShellInv'
<1>1. PICK out \in Outputs \cup {<<>>} :
        cons' = PutStr(PutStr(PutChar(cons, LF), out), kDefaultPrompt)
  BY DEF Enter, Exec
<1> DEFINE c == PutChar(cons, LF)
           d == PutStr(c, out)
<1>2. c \in Settled /\ c.x = 0
  <2>1. LF # Cursor
    BY DEF LF, Cursor
  <2> QED BY <2>1, PutCharSettled DEF ShellInv
<1>3. d \in Settled /\ d.x = 0
  <2> HIDE DEF c
  <2> QED BY <1>2, OutputSettled
<1>4. /\ cons' \in Settled /\ Cursor \in (cons').cell[Here(cons')]
      /\ Shows(cons', Line(buf', 0))
  <2>1. cons' = PutStr(d, kDefaultPrompt)
    BY <1>1
  <2> HIDE DEF d
  <2> QED BY <1>3, <2>1, PromptShows
<1>5. cur' = 0 /\ lapped' = FALSE /\ 0 \in 0 .. kLineLength
  <2>1. 0 \in 0 .. kLineLength
    BY ShellAssumption
  <2> QED BY <2>1 DEF Enter
<1>6. buf' \in [0 .. kLineLength - 1 -> Char \cup {Zero}]
  BY DEF Enter, ShellInv
<1>7. LineShownNow'
  BY <1>4, <1>5 DEF LineShownNow
<1> QED BY <1>4, <1>5, <1>6, <1>7 DEF ShellInv, Here

(* backspace                                                               *)
LEMMA ShellInvErase == ASSUME ShellInv, Erase PROVE ShellInv'
<1>1. /\ cur \in Nat /\ cur # 0 /\ cur' = cur - 1 /\ cur' \in Nat
      /\ cur' \in 0 .. kLineLength
      /\ cons' = PutChar(cons, BS) /\ UNCHANGED <<buf, lapped>>
  <2>1. /\ cur # 0 /\ cur' = cur - 1 /\ cons' = PutChar(cons, BS)
        /\ UNCHANGED <<buf, lapped>> /\ cur \in 0 .. kLineLength
    BY DEF Erase, ShellInv
  <2> QED BY <2>1, ShellAssumption
<1>2. /\ cons' \in Settled /\ Cursor \in (cons').cell[Here(cons')]
  <2>1. BS # Cursor /\ BS # LF
    BY DEF LF, BS, Cursor
  <2> QED BY <1>1, <2>1, PutCharSettled DEF ShellInv
<1>3. ASSUME ~lapped PROVE Shows(cons', Line(buf', cur'))
  <2> DEFINE text == Line(buf, cur)
             shorter == Line(buf, cur')
  <2>1. Len(text) = cur + 2 /\ Len(shorter) = cur' + 2
    BY <1>1, LineElements
  <2>2. \A k \in 1 .. cur' + 2 : k \in 1 .. cur + 2
    BY <1>1
  <2>3. \A k \in 1 .. cur' + 2 : shorter[k] = text[k]
    BY <1>1, <2>2, LineElements
  <2>4. Shows(cons, text) /\ cons \in Console
    BY <1>3 DEF ShellInv, LineShownNow, Settled
  <2> HIDE DEF text, shorter
  <2>5. Shows(PutChar(cons, BS), shorter)
    BY <1>1, <2>1, <2>3, <2>4, EraseShows
  <2> QED BY <1>1, <2>5 DEF shorter
<1>4. LineShownNow'
  BY <1>1, <1>3 DEF LineShownNow
<1> QED BY <1>1, <1>2, <1>4 DEF ShellInv, Here

(* and every ordinary character keep it.                                   *)
LEMMA ShellInvInsert ==
  ASSUME ShellInv, NEW ch \in Char, Insert(ch) PROVE ShellInv'
<1>1. /\ cur \in 0 .. kLineLength - 1 /\ cur' = cur + 1 /\ cur \in Nat
      /\ cur' \in 0 .. kLineLength /\ cur' \in Nat
      /\ buf' = [buf EXCEPT ![cur] = ch]
      /\ cons' = PutChar(cons, ch)
      /\ lapped' = (lapped \/ Here(cons) = <<Width - 1, Height - 1>>)
  <2>1. /\ cur' = cur + 1 /\ ~(cur > kLineLength - 1)
        /\ cur \in 0 .. kLineLength
    BY DEF Insert, ShellInv, Full
  <2>2. /\ buf' = [buf EXCEPT ![cur] = ch] /\ cons' = PutChar(cons, ch)
        /\ lapped' = (lapped \/ Here(cons) = <<Width - 1, Height - 1>>)
    BY DEF Insert
  <2>3. /\ cur \in 0 .. kLineLength - 1 /\ cur \in Nat
        /\ cur' \in 0 .. kLineLength /\ cur' \in Nat
    BY <2>1, ShellAssumption
  <2> QED BY <2>1, <2>2, <2>3
<1>2. ch \in Glyph /\ ch # LF /\ ch # BS /\ ch # Cursor
  BY ShellAssumption DEF Glyph
<1>3. /\ cons' \in Settled /\ Cursor \in (cons').cell[Here(cons')]
  BY <1>1, <1>2, PutCharSettled DEF ShellInv
<1>4. buf' \in [0 .. kLineLength - 1 -> Char \cup {Zero}]
  BY <1>1 DEF ShellInv
<1>5. ASSUME ~lapped' PROVE Shows(cons', Line(buf', cur'))
  <2> DEFINE text == Line(buf, cur)
             longer == Line(buf', cur')
  <2>1. /\ Len(text) = cur + 2 /\ Len(longer) = cur' + 2
        /\ \A k \in 1 .. cur + 2 :
             text[k] = IF k <= 2 THEN kDefaultPrompt[k] ELSE buf[k - 3]
        /\ \A k \in 1 .. cur' + 2 :
             longer[k] = IF k <= 2 THEN kDefaultPrompt[k] ELSE buf'[k - 3]
    BY <1>1, LineElements
  <2>2. Here(cons) # <<Width - 1, Height - 1>> /\ ~lapped
    BY <1>1, <1>5 DEF ShellInv
  <2>3. Shows(cons, text) /\ cons \in Console
    BY <2>2 DEF ShellInv, LineShownNow, Settled
  <2> HIDE DEF text, longer
  <2>4. \A k \in 0 .. kLineLength - 1 :
          buf'[k] = IF k = cur THEN ch ELSE buf[k]
    BY <1>1 DEF ShellInv
  <2>5. ASSUME NEW k \in 1 .. cur + 2 PROVE longer[k] = text[k]
    <3>1. /\ k \in 1 .. cur' + 2
          /\ k > 2 => k - 3 \in 0 .. kLineLength - 1 /\ k - 3 # cur
      BY <1>1, ShellAssumption
    <3> QED BY <2>1, <2>4, <3>1
  <2>6. longer[cur' + 2] = ch
    <3>1. /\ cur' + 2 \in 1 .. cur' + 2 /\ ~(cur' + 2 <= 2)
          /\ (cur' + 2) - 3 = cur
      BY <1>1
    <3>2. longer[cur' + 2] = buf'[(cur' + 2) - 3]
      BY <2>1, <3>1
    <3> QED BY <1>1, <2>4, <3>1, <3>2
  <2>7. Shows(PutChar(cons, ch), longer)
    <3>1. Len(longer) = Len(text) + 1 /\ Len(text) \in Nat
      BY <1>1, <2>1
    <3> QED BY <1>2, <2>1, <2>2, <2>3, <2>5, <2>6, <3>1, InsertShows
  <2> QED BY <1>1, <2>7 DEF longer
<1>6. LineShownNow'
  BY <1>5 DEF LineShownNow
<1>7. lapped' \in BOOLEAN
  BY <1>1
<1> QED BY <1>1, <1>3, <1>4, <1>6, <1>7 DEF ShellInv, Here

(* So does every step.                                                     *)
LEMMA ShellInvNext == ShellInv /\ [Next]_vars => ShellInv'
<1> SUFFICES ASSUME ShellInv, [Next]_vars PROVE ShellInv'
  OBVIOUS
<1>1. CASE UNCHANGED vars
  BY <1>1 DEF vars, ShellInv, LineShownNow, Here
<1>2. CASE Ignore
  BY <1>1, <1>2 DEF Ignore
<1>3. CASE Enter
  BY <1>3, ShellInvEnter
<1>4. CASE Erase
  BY <1>4, ShellInvErase
<1>5. ASSUME NEW ch \in Char, Insert(ch) PROVE ShellInv'
  BY <1>5, ShellInvInsert
<1> QED BY <1>1, <1>2, <1>3, <1>4, <1>5 DEF Next

(* The editor keeps its invariant for every screen and every length of the *)
(* line.                                                                   *)
THEOREM ShellInvHolds == Spec => []ShellInv
  BY ShellInvInit, ShellInvNext, PTL DEF Spec

(* Between two characters there is one cursor on the screen, in its        *)
(* place, whatever was typed, erased, wrapped or printed before            *)
(* (debug_console.cpp 59-96).                                              *)
THEOREM CursorIsOne == Spec => []OneCursor
<1>1. ShellInv => OneCursor
  <2> SUFFICES ASSUME ShellInv PROVE OneCursor
    OBVIOUS
  <2>1. cons \in Settled /\ Cursor \in cons.cell[Here(cons)]
    BY DEF ShellInv
  <2>2. Here(cons) \in Cells
    BY <2>1, HereIsCell DEF Settled
  <2>3. \A p \in Cells : Cursor \in cons.cell[p] <=> p = Here(cons)
    BY <2>1, <2>2 DEF Settled
  <2> QED BY <2>2, <2>3 DEF OneCursor, Cells
<1> QED BY <1>1, ShellInvHolds, PTL

(* No cell ever shows two glyphs on top of each other: every path of       *)
(* PutChar wipes a cell before it writes there, also when the rows are     *)
(* written again (debug_console.cpp 10-57).                                *)
THEOREM GlyphsApart == Spec => []NoOverstrike
<1>1. ShellInv => NoOverstrike
  BY DEF ShellInv, NoOverstrike, Settled, Cells
<1> QED BY <1>1, ShellInvHolds, PTL

(* The invariant in the words of the property.                             *)
LEMMA ShownIsLineShown ==
  ASSUME cur \in Nat, Shows(cons, Line(buf, cur)) PROVE LineShown
<1> DEFINE text == kDefaultPrompt \o [k \in 1 .. cur |-> buf[k - 1]]
<1>1. text = Line(buf, cur) /\ Len(text) \in Nat
  BY LineElements DEF Line
<1>2. ASSUME NEW n PROVE Before(n) = Place(Pos(cons) - n)
  <2> DEFINE at == (cons.y * Width + cons.x) - n
  <2>1. Before(n) = Place(at)
    BY Zenon DEF Before, Place
  <2>2. Pos(cons) - n = at
    BY Zenon DEF Pos
  <2> QED BY <2>1, <2>2, Zenon
<1>3. /\ Len(text) <= cons.y * Width + cons.x
      /\ \A k \in 1 .. Len(text) :
           cons.cell[Before(Len(text) - k + 1)] = {text[k]}
  <2> HIDE DEF text
  <2> QED BY <1>1, <1>2 DEF Shows, Pos
<1> QED BY <1>3, Zenon DEF LineShown

(* The screen shows the line that Exec will get, over as many rows as it   *)
(* takes, after any insertions and erasures, as long as the line has not   *)
(* run over the end of the screen (debug_console.cpp 161-189).             *)
THEOREM LineIsShown == Spec => []LineShown
<1>1. ShellInv => LineShown
  <2>1. ShellInv => cur \in Nat
    <3>1. ShellInv => cur \in 0 .. kLineLength
      BY Zenon DEF ShellInv
    <3> QED BY <3>1, ShellAssumption
  <2>2. ShellInv /\ ~lapped => Shows(cons, Line(buf, cur))
    BY Zenon DEF ShellInv, LineShownNow
  <2>3. lapped => LineShown
    BY Zenon DEF LineShown
  <2> QED BY <2>1, <2>2, <2>3, ShownIsLineShown, Zenon
<1> QED BY <1>1, ShellInvHolds, PTL

-----------------------------------------------------------------------------
(* The line editor that the shell implements.  The places of buf_ up to    *)
(* cur_ hold characters, never a 0.                                        *)
NoHole == \A k \in 0 .. cur - 1 : buf[k] \in Char

LineInv == NoHole /\ given \in Seq(Char)

(* The string that begins b ends at the first 0.                           *)
LEMMA FirstZero ==
  ASSUME NEW top \in Nat, NEW size \in 0 .. top, NEW b, DOMAIN b = 0 .. top,
         b[size] = Zero, \A k \in 0 .. size - 1 : b[k] # Zero
  PROVE  StringIn(b) = [k \in 1 .. size |-> b[k - 1]]
<1>1. ASSUME NEW n \in 0 .. top, b[n] = Zero, \A k \in 0 .. n - 1 : b[k] # Zero
      PROVE  n = size
  <2>1. n \in Nat /\ size \in Nat
    OBVIOUS
  <2>2. CASE n < size
    BY <1>1, <2>1, <2>2
  <2>3. CASE size < n
    BY <1>1, <2>1, <2>3
  <2> QED BY <2>1, <2>2, <2>3
<1>2. size = CHOOSE n \in DOMAIN b :
               b[n] = Zero /\ \A k \in 0 .. n - 1 : b[k] # Zero
  BY <1>1
<1> QED BY <1>2 DEF StringIn

(* The first n bytes of b as a sequence.                                   *)
LEMMA TypedIs ==
  ASSUME NEW n \in Nat, NEW b, \A k \in 0 .. n - 1 : b[k] \in Char
  PROVE  LET t == [k \in 1 .. n |-> b[k - 1]]
         IN  t \in Seq(Char) /\ Len(t) = n /\ \A k \in 1 .. n : t[k] = b[k - 1]
<1> DEFINE t == [k \in 1 .. n |-> b[k - 1]]
<1>1. \A k \in 1 .. n : b[k - 1] \in Char
  BY Z3
<1>2. t \in Seq(Char) /\ Len(t) = n
  BY <1>1
<1> QED BY <1>2

(* The types that the steps of the editor need, apart from the console.    *)
LEMMA Sizes ==
  ASSUME ShellInv
  PROVE  /\ cur \in Nat /\ kLineLength \in Nat /\ cur \in 0 .. kLineLength
         /\ buf \in [0 .. kLineLength - 1 -> Char \cup {Zero}]
         /\ ~Full => cur \in 0 .. kLineLength - 1
<1>1. /\ cur \in 0 .. kLineLength
      /\ buf \in [0 .. kLineLength - 1 -> Char \cup {Zero}]
  BY DEF ShellInv
<1>2. kLineLength \in Nat
  BY ShellAssumption
<1>3. cur \in 0 .. kLineLength
  BY <1>1
<1>4. cur \in Nat
  BY <1>2, <1>3
<1>5. ASSUME ~Full PROVE cur \in 0 .. kLineLength - 1
  <2>1. ~(cur > kLineLength - 1)
    BY <1>5 DEF Full
  <2> QED BY <1>2, <1>3, <1>4, <2>1
<1> QED BY <1>1, <1>2, <1>4, <1>5

(* A character goes to the end, and the others stay.                       *)
LEMMA InsertEffect ==
  ASSUME ShellInv, NEW ch \in Char, Insert(ch)
  PROVE  /\ cur \in 0 .. kLineLength - 1 /\ cur' = cur + 1
         /\ buf'[cur] = ch /\ \A k \in 0 .. cur - 1 : buf'[k] = buf[k]
<1>1. ~Full /\ cur' = cur + 1 /\ buf' = [buf EXCEPT ![cur] = ch]
  BY DEF Insert
<1>2. cur \in Nat /\ kLineLength \in Nat /\ cur \in 0 .. kLineLength - 1
  BY <1>1, Sizes
<1>3. buf \in [0 .. kLineLength - 1 -> Char \cup {Zero}]
  BY Sizes
<1>4. \A k \in 0 .. cur - 1 : k \in 0 .. kLineLength - 1 /\ k # cur
  BY <1>2
<1> QED BY <1>1, <1>2, <1>3, <1>4

(* On Enter Exec finds in buf_ the line that was typed, all of it and      *)
(* nothing of an earlier one: the 0 is written behind it, and there is     *)
(* none within.                                                            *)
LEMMA EnterGives ==
  ASSUME ShellInv, NoHole, Enter
  PROVE  given' = Typed /\ Typed \in Seq(Char)
<1>1. /\ ~Full /\ buf' = [buf EXCEPT ![cur] = Zero]
      /\ given' = StringIn(buf')
  BY DEF Enter
<1>2. cur \in Nat /\ kLineLength \in Nat /\ cur \in 0 .. kLineLength - 1
  BY <1>1, Sizes
<1>3. buf \in [0 .. kLineLength - 1 -> Char \cup {Zero}]
  BY Sizes
<1>4. Typed \in Seq(Char)
  BY <1>2, TypedIs DEF NoHole, Typed
<1>5. DOMAIN buf' = 0 .. kLineLength - 1 /\ buf'[cur] = Zero
  BY <1>1, <1>2, <1>3
<1>6. \A k \in 0 .. cur - 1 : k \in 0 .. kLineLength - 1 /\ k # cur
  BY <1>2
<1>7. ASSUME NEW k \in 0 .. cur - 1 PROVE buf'[k] = buf[k] /\ buf'[k] # Zero
  <2>1. buf'[k] = buf[k]
    BY <1>1, <1>3, <1>6
  <2>2. buf[k] \in Char
    BY DEF NoHole
  <2> QED BY <2>1, <2>2, NoZeroTyped
<1>8. StringIn(buf') = [k \in 1 .. cur |-> buf'[k - 1]]
  <2>1. kLineLength - 1 \in Nat /\ cur \in 0 .. kLineLength - 1
    BY <1>2
  <2>2. \A k \in 0 .. cur - 1 : buf'[k] # Zero
    BY <1>7
  <2> QED BY <1>5, <2>1, <2>2, FirstZero
<1>9. \A k \in 1 .. cur : k - 1 \in 0 .. cur - 1
  BY <1>2
<1>10. [k \in 1 .. cur |-> buf'[k - 1]] = Typed
  <2>1. \A k \in 0 .. cur - 1 : buf'[k] = buf[k]
    BY <1>7
  <2>2. \A k \in 1 .. cur : buf'[k - 1] = buf[k - 1]
    BY <1>9, <2>1
  <2> QED BY <2>2 DEF Typed
<1> QED BY <1>1, <1>4, <1>8, <1>10

(* No step leaves a 0 among the characters of the line.                    *)
LEMMA LineInvNext == ShellInv /\ LineInv /\ [Next]_vars => LineInv'
<1> SUFFICES ASSUME ShellInv, NoHole, given \in Seq(Char), [Next]_vars
             PROVE  NoHole' /\ given' \in Seq(Char)
  BY DEF LineInv
<1>0. cur \in Nat
  BY Sizes
<1>a. <<>> \in Seq(Char)
  OBVIOUS
<1>1. CASE Enter
  <2>1. cur' = 0
    BY <1>1 DEF Enter
  <2>2. \A k \in 0 .. 0 - 1 : FALSE
    OBVIOUS
  <2> QED BY <1>1, <2>1, <2>2, EnterGives DEF NoHole
<1>2. CASE Erase
  <2>1. cur' = cur - 1 /\ buf' = buf /\ given' = <<>>
    BY <1>2 DEF Erase
  <2>2. \A k \in 0 .. (cur - 1) - 1 : k \in 0 .. cur - 1
    BY <1>0
  <2> QED BY <1>a, <2>1, <2>2 DEF NoHole
<1>3. ASSUME NEW ch \in Char, Insert(ch) PROVE NoHole' /\ given' \in Seq(Char)
  <2>1. /\ cur' = cur + 1 /\ buf'[cur] = ch
        /\ \A k \in 0 .. cur - 1 : buf'[k] = buf[k]
    BY <1>3, InsertEffect
  <2>2. \A k \in 0 .. (cur + 1) - 1 : k = cur \/ k \in 0 .. cur - 1
    BY <1>0
  <2>3. given' = <<>>
    BY <1>3 DEF Insert
  <2> QED BY <1>a, <1>3, <2>1, <2>2, <2>3 DEF NoHole
<1>4. CASE Ignore \/ UNCHANGED vars
  BY <1>4 DEF Ignore, vars, NoHole
<1> QED BY <1>1, <1>2, <1>3, <1>4 DEF Next

(* Every step of the shell is one of the editor, or leaves the line as it  *)
(* is.                                                                     *)
LEMMA EditorStep ==
  ASSUME ShellInv, NoHole, [Next]_vars
  PROVE  [Editor!Next]_<<Typed, given>>
<1>0. /\ cur \in Nat /\ kLineLength \in Nat /\ cur \in 0 .. kLineLength
      /\ ~Full => cur \in 0 .. kLineLength - 1
  BY Sizes
<1>a. /\ Typed \in Seq(Char) /\ Len(Typed) = cur
      /\ \A k \in 1 .. cur : Typed[k] = buf[k - 1]
  BY <1>0, TypedIs DEF NoHole, Typed
<1>b. ~Full => Editor!Room
  BY <1>0, <1>a DEF Editor!Room
<1>1. CASE Enter
  <2>1. cur' = 0 /\ ~Full
    BY <1>1 DEF Enter
  <2>2. Typed' = [k \in 1 .. 0 |-> buf'[k - 1]]
    BY <2>1 DEF Typed
  <2>3. Typed' = <<>>
    BY <2>2
  <2> QED BY <1>1, <1>b, <2>1, <2>3, EnterGives DEF Editor!Next, Editor!Give
<1>2. CASE Erase
  <2>1. cur' = cur - 1 /\ buf' = buf /\ cur # 0 /\ ~Full /\ given' = <<>>
    BY <1>2 DEF Erase
  <2>2. Typed # <<>>
    BY <1>0, <1>a, <2>1
  <2>3. Typed' = SubSeq(Typed, 1, cur - 1)
    <3>1. Typed' = [k \in 1 .. cur - 1 |-> buf[k - 1]]
      BY <2>1 DEF Typed
    <3>2. cur - 1 \in 0 .. cur /\ cur - 1 \in Nat
      BY <1>0, <2>1
    <3>3. \A k \in 1 .. cur - 1 : k \in 1 .. cur
      BY <1>0
    <3>4. SubSeq(Typed, 1, cur - 1) = [k \in 1 .. cur - 1 |-> Typed[k]]
      BY <1>0, <1>a, <3>2
    <3> HIDE DEF Typed
    <3> QED BY <1>a, <3>1, <3>3, <3>4
  <2> QED BY <1>a, <1>b, <2>1, <2>2, <2>3 DEF Editor!Next, Editor!Rub
<1>3. ASSUME NEW ch \in Char, Insert(ch) PROVE Editor!Type(ch)
  <2>1. /\ ~Full /\ cur' = cur + 1 /\ buf'[cur] = ch /\ given' = <<>>
        /\ \A k \in 0 .. cur - 1 : buf'[k] = buf[k]
    BY <1>3, InsertEffect DEF Insert
  <2>2. Typed' = [k \in 1 .. cur + 1 |-> buf'[k - 1]]
    BY <2>1 DEF Typed
  <2>3. \A k \in 1 .. cur + 1 :
          buf'[k - 1] = IF k = cur + 1 THEN ch ELSE Typed[k]
    <3> TAKE k \in 1 .. cur + 1
    <3>1. CASE k = cur + 1
      <4>1. k - 1 = cur
        BY <1>0, <3>1
      <4> QED BY <2>1, <3>1, <4>1
    <3>2. CASE k # cur + 1
      <4>1. k \in 1 .. cur /\ k - 1 \in 0 .. cur - 1
        BY <1>0, <3>2
      <4> QED BY <1>a, <2>1, <3>2, <4>1
    <3> QED BY <3>1, <3>2
  <2>4. /\ Append(Typed, ch) \in Seq(Char) /\ Len(Append(Typed, ch)) = cur + 1
        /\ Append(Typed, ch)[cur + 1] = ch
        /\ \A k \in 1 .. cur : Append(Typed, ch)[k] = Typed[k]
    BY <1>a, AppendProperties
  <2>5. Typed' = Append(Typed, ch)
    <3> DEFINE longer == Append(Typed, ch)
               one == [k \in 1 .. cur + 1 |-> buf'[k - 1]]
    <3>1. longer = [k \in 1 .. cur + 1 |-> longer[k]]
      <4>1. longer \in Seq(Char) /\ Len(longer) = cur + 1
        BY <2>4
      <4> HIDE DEF longer
      <4>2. longer \in [1 .. cur + 1 -> Char]
        BY <4>1, LenProperties
      <4> QED BY <4>2
    <3>2. \A k \in 1 .. cur + 1 : k = cur + 1 \/ k \in 1 .. cur
      BY <1>0
    <3>3. \A k \in 1 .. cur + 1 : longer[k] = buf'[k - 1]
      BY <2>3, <2>4, <3>2
    <3> HIDE DEF longer
    <3>4. longer = one
      BY <3>1, <3>3
    <3> QED BY <2>2, <3>4 DEF longer
  <2> QED BY <1>b, <2>1, <2>5 DEF Editor!Type
<1>4. CASE Ignore \/ UNCHANGED vars
  BY <1>4 DEF Ignore, vars, Typed
<1> QED BY <1>1, <1>2, <1>3, <1>4 DEF Next, Editor!Next

(* The shell begins with an empty line.                                    *)
LEMMA EditorInit == Init => LineInv /\ Editor!Init
<1> SUFFICES ASSUME Init PROVE LineInv /\ Editor!Init
  OBVIOUS
<1>1. cur = 0 /\ given = <<>>
  BY DEF Init
<1>2. Typed = [k \in 1 .. 0 |-> buf[k - 1]]
  BY <1>1 DEF Typed
<1>3. \A k \in 0 .. 0 - 1 : FALSE
  OBVIOUS
<1> QED BY <1>1, <1>2, <1>3 DEF LineInv, NoHole, Editor!Init

(* For every kLineLength, on every screen and whatever the commands print, *)
(* the shell is a line editor: cur_ and buf_ hold what was typed and not   *)
(* erased since the last Enter, and on Enter Exec finds in buf_, as a      *)
(* string of C, this line and nothing of an earlier one                    *)
(* (debug_console.cpp 108, 161-191).                                       *)
THEOREM ShellIsEditor == Spec => IsEditor
<1>1. ShellInv /\ LineInv /\ [Next]_vars => [Editor!Next]_<<Typed, given>>
  BY EditorStep DEF LineInv
<1> QED
  BY <1>1, EditorInit, LineInvNext, ShellInvHolds, PTL
  DEF Spec, IsEditor, Editor!Spec

(* The cursor never leaves the screen and the line never its buffer:       *)
(* kLineLength characters are stored in kLineLength places, and nothing    *)
(* past them (debug_console.cpp 161-189).                                  *)
THEOREM ShellType == Spec => []TypeOK
<1>1. ShellInv /\ LineInv => TypeOK
  BY DEF ShellInv, LineInv, TypeOK, Settled
<1> QED BY <1>1, ShellInvHolds, EditorInit, LineInvNext, PTL DEF Spec

-----------------------------------------------------------------------------
(* Before the line is used up, the arguments found so far have taken two   *)
(* characters each.  While an argument is copied it has taken none yet, or *)
(* a letter: an argument begins at a letter or at the end of the line.     *)
Begun == argv[argc]

Paid ==
  /\ pc = "blanks" /\ i <= len => 2 * argc <= i
  /\ pc = "word" => /\ argc > 0
                    /\ 2 * argc <= Begun + 2
                    /\ Begun <= i /\ i <= len
                    /\ i = Begun /\ i < len => line[i] # Blank

ExecInv == ExecTypeOK /\ Paid /\ ArgcBounded

(* The invariant holds at the first character,                             *)
LEMMA ExecInvInit == ExecInit => ExecInv
<1> SUFFICES ASSUME ExecInit PROVE ExecInv
  OBVIOUS
<1>1. /\ len \in 1 .. MaxLen /\ len \in Nat /\ i = 0 /\ argc = 0 /\ argv = <<>>
      /\ line \in [0 .. len - 1 -> Letter \cup {Blank}]
      /\ s = [k \in 0 .. len |-> Junk] /\ pc = "blanks"
  BY CommandLineAssumption DEF ExecInit
<1>2. ExecTypeOK
  BY <1>1 DEF ExecTypeOK
<1> QED
  BY <1>1, <1>2 DEF ExecInv, Paid, ArgcBounded

(* and every turn of the loops keeps it.                                   *)
LEMMA ExecInvNext == ExecInv /\ [ExecNext]_exec_vars => ExecInv'
<1> SUFFICES ASSUME ExecInv, [ExecNext]_exec_vars PROVE ExecInv'
  OBVIOUS
<1>1. /\ len \in Nat /\ i \in 0 .. len + 1 /\ argc \in Nat
      /\ line \in [0 .. len - 1 -> Letter \cup {Blank}]
      /\ s \in [0 .. len -> Letter \cup {NUL, Junk}]
      /\ argv \in [1 .. argc -> 0 .. len]
      /\ len \in 1 .. MaxLen
  BY CommandLineAssumption DEF ExecInv, ExecTypeOK
<1>2. CASE SkipBlank
  <2>1. /\ pc = "blanks" /\ pc' = "blanks" /\ i < len /\ i' = i + 1
        /\ s' = [s EXCEPT ![i] = NUL]
        /\ UNCHANGED <<line, len, argc, argv>>
    BY <1>2 DEF SkipBlank
  <2>2. ExecTypeOK'
    BY <1>1, <2>1 DEF ExecTypeOK
  <2> QED
    BY <1>1, <2>1, <2>2 DEF ExecInv, Paid, ArgcBounded
<1>3. CASE Begin
  <2>1. /\ pc = "blanks" /\ pc' = "word" /\ i <= len
        /\ ~(i < len /\ line[i] = Blank)
        /\ argv' = Append(argv, i) /\ argc' = argc + 1
        /\ UNCHANGED <<line, len, s, i>>
    BY <1>3 DEF Begin
  <2>2. argv \in Seq(0 .. len) /\ Len(argv) = argc
    BY <1>1
  <2>3. argv' \in [1 .. argc' -> 0 .. len] /\ argv'[argc'] = i
    <3>1. i \in 0 .. len
      BY <1>1, <2>1
    <3>2. /\ argv' \in Seq(0 .. len) /\ Len(argv') = argc'
          /\ argv'[argc'] = i
      BY <1>1, <2>1, <2>2, <3>1
    <3> QED BY <3>2, LenProperties
  <2>4. ExecTypeOK'
    BY <1>1, <2>1, <2>3 DEF ExecTypeOK
  <2> QED
    BY <1>1, <2>1, <2>3, <2>4 DEF ExecInv, Paid, Begun, ArgcBounded
<1>4. CASE Break
  BY <1>1, <1>4 DEF Break, ExecInv, ExecTypeOK, Paid, ArgcBounded
<1>5. CASE CopyLetter
  <2>1. /\ pc = "word" /\ pc' = "word" /\ i < len /\ i' = i + 1
        /\ line[i] # Blank
        /\ s' = [s EXCEPT ![i] = line[i]]
        /\ UNCHANGED <<line, len, argc, argv>>
    BY <1>5 DEF CopyLetter
  <2>2. s' \in [0 .. len -> Letter \cup {NUL, Junk}]
    <3>1. line[i] \in Letter
      BY <1>1, <2>1
    <3> QED BY <1>1, <2>1, <3>1
  <2>3. ExecTypeOK'
    BY <1>1, <2>1, <2>2 DEF ExecTypeOK
  <2>4. Begun' = Begun /\ Begun \in 0 .. len
    BY <1>1, <2>1 DEF Begun, ExecInv, Paid
  <2> QED
    BY <1>1, <2>1, <2>3, <2>4 DEF ExecInv, Paid, ArgcBounded
<1>6. CASE EndWord
  <2>1. /\ pc = "word" /\ pc' = "blanks" /\ i' = i + 1
        /\ ~(i < len /\ line[i] # Blank)
        /\ s' = [s EXCEPT ![i] = NUL]
        /\ UNCHANGED <<line, len, argc, argv>>
    BY <1>6 DEF EndWord
  <2>2. /\ argc > 0 /\ 2 * argc <= Begun + 2 /\ Begun <= i /\ i <= len
        /\ i = Begun /\ i < len => line[i] # Blank
    BY <2>1 DEF ExecInv, Paid
  <2>3. ExecTypeOK'
    BY <1>1, <2>1, <2>2 DEF ExecTypeOK
  <2>4. Begun \in 0 .. len
    BY <1>1, <2>2 DEF Begun
  <2>5. i' <= len => 2 * argc <= i'
    <3>1. CASE i = len
      BY <1>1, <2>1, <3>1
    <3>2. CASE i < len
      <4>1. i # Begun
        BY <2>1, <2>2, <3>2
      <4> QED BY <1>1, <2>1, <2>2, <2>4, <4>1
    <3> QED BY <1>1, <2>2, <3>1, <3>2
  <2> QED
    BY <1>1, <2>1, <2>3, <2>5 DEF ExecInv, Paid, ArgcBounded
<1>7. CASE UNCHANGED exec_vars
  BY <1>7 DEF exec_vars, ExecInv, ExecTypeOK, Paid, Begun, ArgcBounded
<1> QED
  BY <1>2, <1>3, <1>4, <1>5, <1>6, <1>7 DEF ExecNext

(* So it holds for lines of every length.                                  *)
THEOREM ExecInvHolds == ExecSpec => []ExecInv
  BY ExecInvInit, ExecInvNext, PTL DEF ExecSpec

(* The arguments of a line of len characters never number more than half   *)
(* of len, plus one: argv needs no more than MaxLen / 2 + 1 elements       *)
(* (debug_console.cpp 117, 130).                                           *)
THEOREM ArgumentsBounded == ExecSpec => []ArgcBounded
<1>1. ExecInv => ArgcBounded
  BY DEF ExecInv
<1> QED
  BY <1>1, ExecInvHolds, PTL

(* Every write of the second loop goes to one of the len + 1 bytes of s    *)
(* (debug_console.cpp 131-135).                                            *)
THEOREM WritesStayInside == ExecSpec => []WritesInside
<1>1. ExecInv => WritesInside
  BY DEF ExecInv, ExecTypeOK, Paid, WritesInside
<1> QED
  BY <1>1, ExecInvHolds, PTL

(* The line, its copy and the argument pointers keep their types.          *)
THEOREM CommandLineType == ExecSpec => []ExecTypeOK
<1>1. ExecInv => ExecTypeOK
  BY DEF ExecInv
<1> QED
  BY <1>1, ExecInvHolds, PTL

-----------------------------------------------------------------------------
(* What has been copied so far.                                            *)
Copied ==
  \A k \in 0 .. len : k < i =>
    s[k] = IF k < len /\ line[k] # Blank THEN line[k] ELSE NUL

(* Where the loop is with respect to the words.                            *)
Between ==
  /\ pc = "blanks" => i = 0 \/ i = len + 1 \/ line[i - 1] = Blank
  /\ pc = "word" => /\ argc > 0 /\ argv[argc] <= i /\ i <= len
                    /\ \A k \in argv[argc] .. i - 1 : line[k] # Blank
  /\ pc = "done" => i = len + 1

(* The arguments found so far, in the order of the line: the words that    *)
(* start before i, or the empty one at the end.                            *)
Trailing == line[len - 1] = Blank

Placed ==
  \A n \in 1 .. argc : /\ argv[n] \in Starts \/ (argv[n] = len /\ Trailing)
                       /\ argv[n] <= i
                       /\ pc # "word" => argv[n] < i
Rising == \A m, n \in 1 .. argc : m < n => argv[m] < argv[n]
Complete == \A k \in Starts : k < i => \E n \in 1 .. argc : argv[n] = k
Ended == i = len + 1 /\ Trailing => argc > 0 /\ argv[argc] = len

Found == Placed /\ Rising /\ Complete /\ Ended

WordInv == Copied /\ Between /\ Found

(* Nothing is found before the first character,                            *)
LEMMA WordInvInit == ExecInit => WordInv
<1> SUFFICES ASSUME ExecInit PROVE WordInv
  OBVIOUS
<1>1. len \in Nat /\ len # 0 /\ i = 0 /\ argc = 0 /\ pc = "blanks"
  BY CommandLineAssumption DEF ExecInit
<1>2. \A k \in Starts : ~(k < i)
  BY <1>1 DEF Starts
<1> QED BY <1>1, <1>2 DEF WordInv, Copied, Between, Found,
                   Placed, Rising, Complete, Ended

(* and every turn of the loops keeps what is found right.                  *)
LEMMA WordInvNext == ExecTypeOK /\ WordInv /\ [ExecNext]_exec_vars => WordInv'
<1> SUFFICES ASSUME ExecTypeOK, WordInv, [ExecNext]_exec_vars PROVE WordInv'
  OBVIOUS
<1>1. /\ len \in Nat /\ len > 0 /\ i \in 0 .. len + 1 /\ argc \in Nat
      /\ line \in [0 .. len - 1 -> Letter \cup {Blank}]
      /\ s \in [0 .. len -> Letter \cup {NUL, Junk}]
      /\ argv \in [1 .. argc -> 0 .. len]
  BY CommandLineAssumption DEF ExecTypeOK
<1>2. UNCHANGED <<line, len>> /\ Starts' = Starts /\ (Trailing <=> Trailing')
  <2>1. UNCHANGED <<line, len>>
    BY DEF ExecNext, SkipBlank, Begin, Break, CopyLetter, EndWord, exec_vars
  <2> QED BY <2>1 DEF Starts, Trailing
<1>3. Starts \subseteq 0 .. len - 1
  BY DEF Starts
<1>10. \A n \in 1 .. argc : argv[n] \in 0 .. len /\ argv[n] \in Nat
  BY <1>1
<1>4. CASE SkipBlank
  <2>1. /\ pc = "blanks" /\ pc' = "blanks" /\ i < len /\ i' = i + 1
        /\ line[i] = Blank /\ s' = [s EXCEPT ![i] = NUL]
        /\ UNCHANGED <<argc, argv>>
    BY <1>4 DEF SkipBlank
  <2>2. Copied'
    BY <1>1, <1>2, <2>1 DEF WordInv, Copied
  <2>3. Between'
    BY <1>1, <1>2, <2>1 DEF WordInv, Between
  <2>4. i \notin Starts
    BY <2>1 DEF Starts
  <2>5. Placed'
    <3>1. \A n \in 1 .. argc :
            /\ argv[n] \in Starts \/ (argv[n] = len /\ Trailing)
            /\ argv[n] < i
      BY <2>1 DEF WordInv, Found, Placed
    <3>2. \A n \in 1 .. argc : argv[n] < i + 1 /\ argv[n] <= i + 1
      BY <1>1, <1>10, <3>1
    <3> QED BY <1>2, <2>1, <3>1, <3>2 DEF Placed
  <2>6. Complete'
    BY <1>1, <1>2, <1>3, <2>1, <2>4 DEF WordInv, Found, Complete
  <2>7. Rising' /\ Ended'
    BY <1>1, <1>2, <2>1 DEF WordInv, Found, Rising, Ended
  <2> QED BY <2>2, <2>3, <2>5, <2>6, <2>7 DEF WordInv, Found
<1>5. CASE Begin
  <2>1. /\ pc = "blanks" /\ pc' = "word" /\ i <= len
        /\ ~(i < len /\ line[i] = Blank)
        /\ argv' = Append(argv, i) /\ argc' = argc + 1
        /\ UNCHANGED <<s, i>>
    BY <1>5 DEF Begin
  <2>2. /\ \A n \in 1 .. argc : argv'[n] = argv[n]
        /\ argv'[argc + 1] = i
    <3>1. argv \in Seq(0 .. len) /\ Len(argv) = argc
      BY <1>1
    <3> QED BY <1>1, <2>1, <3>1
  <2>3. i \in Starts \/ (i = len /\ Trailing)
    BY <1>1, <2>1 DEF WordInv, Between, Starts, Trailing
  <2>4. Copied'
    BY <1>2, <2>1 DEF WordInv, Copied
  <2>5. Between'
    BY <1>1, <1>2, <2>1, <2>2 DEF Between
  <2>6. \A n \in 1 .. argc : argv[n] < i
    BY <2>1 DEF WordInv, Found, Placed
  <2>7. \A n \in 1 .. argc' : n \in 1 .. argc \/ n = argc + 1
    BY <1>1, <2>1
  <2>8. Found'
    <3>1. ASSUME NEW n \in 1 .. argc'
          PROVE  /\ argv'[n] \in Starts \/ (argv'[n] = len /\ Trailing)
                 /\ argv'[n] <= i
      <4>1. CASE n = argc + 1
        BY <1>1, <2>2, <2>3, <4>1
      <4>2. CASE n \in 1 .. argc
        BY <2>2, <4>2 DEF WordInv, Found, Placed
      <4> QED BY <2>7, <4>1, <4>2
    <3>2. ASSUME NEW m \in 1 .. argc', NEW n \in 1 .. argc', m < n
          PROVE  argv'[m] < argv'[n]
      <4>1. m \in 1 .. argc
        BY <1>1, <2>1, <3>2
      <4> QED BY <3>2, <4>1, <2>2, <2>6, <2>7 DEF WordInv, Found, Rising
    <3>3. ASSUME NEW k \in Starts, k < i
          PROVE  \E n \in 1 .. argc' : argv'[n] = k
      <4>1. PICK n \in 1 .. argc : argv[n] = k
        BY <3>3 DEF WordInv, Found, Complete
      <4> QED BY <1>1, <2>1, <2>2, <4>1
    <3>4. i # len + 1
      BY <1>1, <2>1
    <3> QED BY <1>2, <2>1, <3>1, <3>2, <3>3, <3>4
         DEF Found, Placed, Rising, Complete, Ended
  <2> QED BY <2>4, <2>5, <2>8 DEF WordInv
<1>6. CASE Break
  <2>1. /\ pc = "blanks" /\ pc' = "done" /\ i > len
        /\ UNCHANGED <<s, i, argc, argv>>
    BY <1>6 DEF Break
  <2> QED BY <1>1, <1>2, <2>1 DEF WordInv, Copied, Between, Found,
                   Placed, Rising, Complete, Ended
<1>7. CASE CopyLetter
  <2>1. /\ pc = "word" /\ pc' = "word" /\ i < len /\ i' = i + 1
        /\ line[i] # Blank /\ s' = [s EXCEPT ![i] = line[i]]
        /\ UNCHANGED <<argc, argv>>
    BY <1>7 DEF CopyLetter
  <2>2. Copied'
    BY <1>1, <1>2, <2>1 DEF WordInv, Copied
  <2>3. argc > 0 /\ argv[argc] \in 0 .. len /\ argc \in 1 .. argc
    BY <1>1, <2>1 DEF WordInv, Between
  <2>4. Between'
    BY <1>1, <1>2, <2>1, <2>3 DEF WordInv, Between
  <2>5. i \in Starts => argv[argc] = i
    BY <1>1, <2>1, <2>3 DEF WordInv, Between, Starts
  <2>6. Placed'
    BY <1>1, <1>2, <1>10, <2>1 DEF WordInv, Found, Placed
  <2>7. Complete'
    BY <1>1, <1>2, <1>3, <2>1, <2>3, <2>5 DEF WordInv, Found, Complete
  <2>8. Rising' /\ Ended'
    BY <1>1, <1>2, <2>1 DEF WordInv, Found, Rising, Ended
  <2> QED BY <2>2, <2>4, <2>6, <2>7, <2>8 DEF WordInv, Found
<1>8. CASE EndWord
  <2>1. /\ pc = "word" /\ pc' = "blanks" /\ i' = i + 1
        /\ ~(i < len /\ line[i] # Blank)
        /\ s' = [s EXCEPT ![i] = NUL]
        /\ UNCHANGED <<argc, argv>>
    BY <1>8 DEF EndWord
  <2>2. /\ argc > 0 /\ argv[argc] \in 0 .. len /\ argc \in 1 .. argc
        /\ i <= len
        /\ argv[argc] <= i
        /\ \A k \in argv[argc] .. i - 1 : line[k] # Blank
    BY <1>1, <2>1 DEF WordInv, Between
  <2>3. Copied'
    BY <1>1, <1>2, <2>1, <2>2 DEF WordInv, Copied
  <2>4. Between'
    BY <1>1, <1>2, <2>1, <2>2 DEF Between
  <2>5. i \notin Starts
    BY <1>1, <2>1 DEF Starts
  <2>6. i = len /\ Trailing => argv[argc] = len
    BY <1>1, <2>2 DEF Trailing
  <2>7. Placed'
    BY <1>1, <1>2, <1>10, <2>1 DEF WordInv, Found, Placed
  <2>8. Complete'
    <3>1. ASSUME NEW k \in Starts, k < i + 1
          PROVE  \E n \in 1 .. argc : argv[n] = k
      <4>1. k < i \/ k = i
        BY <1>1, <1>3, <3>1
      <4>2. k < i => \E n \in 1 .. argc : argv[n] = k
        BY DEF WordInv, Found, Complete
      <4>3. ASSUME k = i PROVE \E n \in 1 .. argc : argv[n] = k
        BY <2>5, <4>3
      <4> QED BY <4>1, <4>2, <4>3
    <3> QED BY <1>2, <2>1, <3>1 DEF Complete
  <2>9. Rising' /\ Ended'
    BY <1>1, <1>2, <2>1, <2>2, <2>6 DEF WordInv, Found, Rising, Ended
  <2> QED BY <2>3, <2>4, <2>7, <2>8, <2>9 DEF WordInv, Found
<1>9. CASE UNCHANGED exec_vars
  BY <1>2, <1>9 DEF exec_vars, WordInv, Copied, Between, Found,
                   Placed, Rising, Complete, Ended
<1> QED
  BY <1>4, <1>5, <1>6, <1>7, <1>8, <1>9 DEF ExecNext

(* The least element of a set of numbers.                                  *)
LEMMA LeastExists ==
  ASSUME NEW E, E \subseteq Nat, E # {}
  PROVE  Least(E) \in E /\ \A k \in E : Least(E) <= k
<1>1. PICK n \in E : \A k \in E : <<k, n>> \notin OpToRel(<, Nat)
  BY WFMin, NatLessThanWellFounded, Zenon
<1>2. \A k \in E : n <= k
  <2>1. \A k \in E : k \in Nat /\ n \in Nat
    OBVIOUS
  <2>2. \A k \in E : ~(k < n)
    BY <1>1, <2>1 DEF OpToRel
  <2> QED BY <2>1, <2>2
<1> QED
  BY <1>1, <1>2 DEF Least

(* Where the loop has left, the string at each argument is the word that   *)
(* starts there.                                                           *)
LEMMA DoneIsWords == ExecTypeOK /\ WordInv => ArgumentsAreWords
<1> SUFFICES ASSUME ExecTypeOK, WordInv, pc = "done" PROVE ArgumentsAreWords
  BY DEF ArgumentsAreWords
<1>1. /\ len \in Nat /\ len > 0 /\ i = len + 1 /\ argc \in Nat
      /\ line \in [0 .. len - 1 -> Letter \cup {Blank}]
      /\ argv \in [1 .. argc -> 0 .. len]
  BY CommandLineAssumption DEF ExecTypeOK, WordInv, Between
<1>2. \A k \in 0 .. len :
        s[k] = IF k < len /\ line[k] # Blank THEN line[k] ELSE NUL
  BY <1>1 DEF WordInv, Copied
<1>3. \A k \in 0 .. len - 1 : line[k] # NUL
  BY <1>1, CommandLineAssumption DEF Blank, NUL
<1>4. \A k \in 0 .. len : s[k] = NUL <=> k = len \/ line[k] = Blank
  BY <1>1, <1>2, <1>3
<1>5. ASSUME NEW f \in 0 .. len PROVE CString(f) = Word(f)
  <2> DEFINE E == {k \in f .. len : k = len \/ line[k] = Blank}
  <2>1. {k \in f .. len : s[k] = NUL} = E
    BY <1>1, <1>4
  <2>2. E \subseteq Nat /\ E # {}
    <3>1. len \in f .. len /\ f .. len \subseteq Nat
      BY <1>1
    <3>2. len \in E /\ E \subseteq f .. len
      BY <3>1
    <3> HIDE DEF E
    <3> QED BY <3>1, <3>2
  <2> DEFINE end == Least(E)
  <2>3. end \in E /\ \A k \in E : end <= k
    <3> HIDE DEF E
    <3> QED BY <2>2, LeastExists
  <2>4. end \in f .. len
    BY <2>3
  <2>5. \A k \in f .. end - 1 : s[k] = line[k]
    <3>1. ASSUME NEW k \in f .. end - 1 PROVE k \in 0 .. len /\ k < len /\ k < end
      BY <1>1, <2>4
    <3>2. \A k \in f .. end - 1 : k \notin E
      <4> HIDE DEF E
      <4>1. ASSUME NEW k \in f .. end - 1, k \in E PROVE FALSE
        BY <1>1, <2>2, <2>3, <2>4, <3>1, <4>1
      <4> QED BY <4>1
    <3>3. \A k \in f .. end - 1 : line[k] # Blank
      BY <3>1, <3>2, <1>1
    <3> QED BY <1>2, <3>1, <3>3
  <2>6. CString(f) = [k \in 1 .. end - f |-> s[f + k - 1]]
    BY <2>1 DEF CString
  <2>7. Word(f) = [k \in 1 .. end - f |-> line[f + k - 1]]
    BY DEF Word
  <2> HIDE DEF end
  <2>8. \A k \in 1 .. end - f : f + k - 1 \in f .. end - 1
    BY <1>1, <2>4
  <2>9. \A k \in 1 .. end - f : s[f + k - 1] = line[f + k - 1]
    BY <2>5, <2>8
  <2> QED BY <2>6, <2>7, <2>9
<1>6. \A n \in 1 .. argc : argv[n] \in 0 .. len
  BY <1>1
<1>7. Trailing => argc > 0 /\ argv[argc] = len /\ argc \in 1 .. argc
  BY <1>1 DEF WordInv, Found, Ended
<1> DEFINE words == IF Trailing THEN argc - 1 ELSE argc
<1>8. \A n \in 1 .. words : n \in 1 .. argc
  BY <1>1, <1>7
<1>9. \A n \in 1 .. words : argv[n] \in Starts
  <2>1. ASSUME NEW n \in 1 .. words PROVE ~(argv[n] = len /\ Trailing)
    <3>1. SUFFICES ASSUME Trailing PROVE argv[n] # len
      OBVIOUS
    <3>2. n < argc /\ n \in 1 .. argc
      BY <1>1, <1>8, <3>1
    <3>3. argv[n] < argv[argc]
      BY <1>7, <3>1, <3>2 DEF WordInv, Found, Rising
    <3> QED BY <1>6, <1>7, <3>1, <3>2, <3>3
  <2> QED BY <1>8, <2>1 DEF WordInv, Found, Placed
<1>10. ASSUME NEW k \in Starts PROVE \E n \in 1 .. words : argv[n] = k
  <2>1. k \in 0 .. len - 1
    BY DEF Starts
  <2>2. PICK n \in 1 .. argc : argv[n] = k
    BY <1>1, <2>1 DEF WordInv, Found, Complete
  <2>3. n \in 1 .. words
    <3>1. CASE Trailing
      <4>1. n # argc
        BY <1>1, <1>7, <2>1, <2>2, <3>1
      <4> QED BY <1>1, <3>1, <4>1
    <3>2. CASE ~Trailing
      BY <3>2
    <3> QED BY <3>1, <3>2
  <2> QED BY <2>2, <2>3
<1>11. {argv[n] : n \in 1 .. words} = Starts
  <2> HIDE DEF words
  <2> QED BY <1>9, <1>10
<1>12. \A n \in 1 .. words : CString(argv[n]) = Word(argv[n])
  <2> HIDE DEF words
  <2> QED BY <1>5, <1>6, <1>8
<1>13. Trailing => CString(argv[argc]) = <<>>
  <2> SUFFICES ASSUME Trailing PROVE CString(argv[argc]) = <<>>
    OBVIOUS
  <2> DEFINE E == {k \in len .. len : s[k] = NUL}
  <2>1. E = {len}
    BY <1>1, <1>4
  <2>2. Least(E) = len
    <3>1. E \subseteq Nat /\ E # {}
      BY <1>1, <2>1
    <3>2. Least(E) \in E
      <4> HIDE DEF E
      <4> QED BY <3>1, LeastExists
    <3> QED BY <2>1, <3>2
  <2>3. CString(len) = [k \in 1 .. Least(E) - len |-> s[len + k - 1]]
    BY DEF CString
  <2>4. 1 .. Least(E) - len = {}
    <3> HIDE DEF E
    <3> QED BY <1>1, <2>2
  <2>5. CString(len) = <<>>
    <3> HIDE DEF E
    <3> QED BY <2>3, <2>4
  <2> QED BY <1>7, <2>5
<1>14. \A m, n \in 1 .. argc : m < n => argv[m] < argv[n]
  BY DEF WordInv, Found, Rising
<1> QED
  BY <1>7, <1>11, <1>12, <1>13, <1>14 DEF ArgumentsAreWords, Trailing

(* When Exec's loop is done the arguments are the words of the line, in    *)
(* their order, and one empty argument if the line ends in a blank         *)
(* (debug_console.cpp 119-136).                                            *)
THEOREM ArgumentsAreTheWords == ExecSpec => []ArgumentsAreWords
<1>1. ExecSpec => []ExecTypeOK
  BY CommandLineType
<1>2. ExecInit => WordInv
  BY WordInvInit
<1>3. ExecTypeOK /\ WordInv /\ [ExecNext]_exec_vars => WordInv'
  BY WordInvNext
<1>4. ExecTypeOK /\ WordInv => ArgumentsAreWords
  BY DoneIsWords
<1> QED
  BY <1>1, <1>2, <1>3, <1>4, PTL DEF ExecSpec

(* What is left of the loops: two turns for each character and the 0 after *)
(* it, and one more after the blanks.                                      *)
Left == 2 * ((len + 1) - i) + (IF pc = "blanks" THEN 1 ELSE 0)
LeavesLess == Left \in Nat /\ Left' \in Nat /\ Left' < Left

(* Every turn of the loops, and their end, leaves less of them, for lines  *)
(* of every length: Exec gets to the commands after 2 * len + 3 of them at *)
(* most (debug_console.cpp 120-136).                                       *)
THEOREM LoopComesCloser == ExecSpec => [][LeavesLess]_exec_vars
<1>1. ASSUME ExecTypeOK, ExecTypeOK', ExecNext PROVE LeavesLess
  <2>1. len' = len
    BY <1>1 DEF ExecNext, SkipBlank, Begin, Break, CopyLetter, EndWord
  <2>2. len \in Nat /\ i \in 0 .. len + 1 /\ i' \in 0 .. len + 1
    BY <1>1, <2>1, CommandLineAssumption DEF ExecTypeOK
  <2>3. \/ i' = i + 1
        \/ i' = i /\ pc = "blanks" /\ pc' # "blanks"
    BY <1>1 DEF ExecNext, SkipBlank, Begin, Break, CopyLetter, EndWord
  <2> DEFINE b == IF pc = "blanks" THEN 1 ELSE 0
             c == IF pc' = "blanks" THEN 1 ELSE 0
             m == (len + 1) - i
             n == (len + 1) - i'
  <2>4. b \in 0 .. 1 /\ c \in 0 .. 1 /\ (i' = i + 1 \/ (i' = i /\ b = 1 /\ c = 0))
    <3>1. b \in {0, 1} /\ c \in {0, 1}
      OBVIOUS
    <3>2. pc = "blanks" /\ pc' # "blanks" => b = 1 /\ c = 0
      OBVIOUS
    <3> HIDE DEF b, c
    <3> QED BY <2>3, <3>1, <3>2
  <2>5. m \in Nat /\ n \in Nat /\ (i' = i + 1 => m = n + 1) /\ (i' = i => m = n)
    <3>1. \A x \in 0 .. len + 1 : (len + 1) - x \in Nat
      BY <2>2
    <3>2. m \in Nat /\ n \in Nat
      BY <2>2, <3>1
    <3>3. i' = i + 1 => m = n + 1
      BY <2>2
    <3> QED BY <3>2, <3>3
  <2>6. Left = 2 * m + b /\ Left' = 2 * n + c
    BY <2>1 DEF Left
  <2> HIDE DEF b, c, m, n
  <2>7. Left' < Left
    BY <2>4, <2>5, <2>6
  <2>8. Left \in Nat /\ Left' \in Nat
    BY <2>4, <2>5, <2>6
  <2> QED BY <2>7, <2>8 DEF LeavesLess
<1>2. ExecTypeOK /\ ExecTypeOK' /\ [ExecNext]_exec_vars => [LeavesLess]_exec_vars
  BY <1>1
<1> QED
  BY <1>2, CommandLineType, PTL DEF ExecSpec
=============================================================================
