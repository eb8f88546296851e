----------------------------- MODULE DebugShell -----------------------------
(***************************************************************************)
(* bitnos::DebugShell of debug_console.cpp on its console: the line editor *)
(* that the keyboard loop (and auto_cmd) feeds one character at a time.    *)
(* One call of PutChar, with all the console calls it makes, is one step:  *)
(* only the loop of MyMain calls it.                                       *)
(***************************************************************************)
EXTENDS DebugConsole

CONSTANTS
  kLineLength,
  Char,      (* the ordinary characters that can be typed                   *)
  Outputs    (* what a command may print: nothing, or lines that end in a   *)
             (* newline                                                     *)

kDefaultPrompt == <<"$", " ">>

(* The byte that ends a string.                                            *)
Zero == ""

(* A row has room for the prompt and the cursor.  Only DrawCursor draws    *)
(* the cursor.                                                             *)
ASSUME ShellAssumption ==
  /\ kLineLength \in Nat \ {0}
  /\ Width > Len(kDefaultPrompt)
  /\ LF \notin Char /\ BS \notin Char /\ Cursor \notin Char
  /\ \A out \in Outputs :
       /\ Len(out) \in Nat /\ DOMAIN out = 1 .. Len(out)
       /\ \A k \in DOMAIN out : out[k] # Cursor
       /\ Len(out) > 0 => out[Len(out)] = LF

(* MyMain types no 0, which would end the line in buf_ (main.cpp 253, 290).*)
ASSUME NoZeroTyped == Zero \notin Char

VARIABLES
  cons,     (* the console cons_ refers to                                  *)
  cur,      (* cur_                                                         *)
  buf,      (* buf_; Zero also stands for what the stack held before: no    *)
            (* byte is read before it is written                            *)
  given,    (* the string Exec found in buf_, until the line changes again  *)
  lapped    (* history: the line being typed ran over the end of the screen *)

vars == <<cons, cur, buf, given, lapped>>

Init ==
  /\ cons = PutStr(NewConsole, kDefaultPrompt)
  /\ cur = 0
  /\ buf = [k \in 0 .. kLineLength - 1 |-> Zero]
  /\ given = <<>>
  /\ lapped = FALSE

Full == cur > kLineLength - 1

(* The string of C that the bytes of b begin with: those before the first  *)
(* 0, wherever that is.  strlen(buf_) is its length.                       *)
StringIn(b) ==
  LET size == CHOOSE n \in DOMAIN b :
                b[n] = Zero /\ \A k \in 0 .. n - 1 : b[k] # Zero
  IN  [k \in 1 .. size |-> b[k - 1]]

(* Exec prints nothing for an empty line, else what the command prints, or *)
(* the complaint that there is none (see CommandLine).                     *)
ExecPrints(line, out) == IF line = <<>> THEN out = <<>> ELSE out \in Outputs

Exec(c, line) ==
  \E out \in Outputs \cup {<<>>} :
    /\ ExecPrints(line, out)
    /\ cons' = PutStr(PutStr(c, out), kDefaultPrompt)

(* Mutant: the line is not ended in buf_.                                  *)
EnterNoZero ==
  /\ ~Full
  /\ UNCHANGED buf
  /\ cur' = 0
  /\ given' = StringIn(buf')
  /\ Exec(PutChar(cons, LF), given')
  /\ lapped' = FALSE

Enter ==
  /\ ~Full
  /\ buf' = [buf EXCEPT ![cur] = Zero]
  /\ cur' = 0
  /\ given' = StringIn(buf')
  /\ Exec(PutChar(cons, LF), given')
  /\ lapped' = FALSE

Erase ==
  /\ ~Full
  /\ cur # 0
  /\ cur' = cur - 1
  /\ given' = <<>>
  /\ cons' = PutChar(cons, BS)
  /\ UNCHANGED <<buf, lapped>>

(* Mutant: the length is checked one character late.                       *)
InsertLate(ch) ==
  /\ cur <= kLineLength
  /\ buf' = [buf EXCEPT ![cur] = ch]
  /\ cur' = cur + 1
  /\ given' = <<>>
  /\ cons' = PutChar(cons, ch)
  /\ lapped' = (lapped \/ Here(cons) = <<Width - 1, Height - 1>>)

Insert(ch) ==
  /\ ~Full
  /\ buf' = [buf EXCEPT ![cur] = ch]
  /\ cur' = cur + 1
  /\ given' = <<>>
  /\ cons' = PutChar(cons, ch)
  /\ lapped' = (lapped \/ Here(cons) = <<Width - 1, Height - 1>>)

(* A full line ignores every character, newline and backspace as well, and *)
(* an empty line ignores backspace.                                        *)
Ignore == (Full \/ cur = 0) /\ UNCHANGED vars

Next == Enter \/ Erase \/ (\E ch \in Char : Insert(ch)) \/ Ignore

Spec == Init /\ [][Next]_vars

-----------------------------------------------------------------------------
Printed == UNION {{out[k] : k \in DOMAIN out} : out \in Outputs}
Glyph == Char \cup {Cursor} \cup {kDefaultPrompt[k] : k \in 1 .. 2} \cup Printed
Console == [x : Columns, y : Rows, cell : [Columns \X Rows -> SUBSET Glyph]]

(* The cursor stays on the screen and the line in its buffer.              *)
TypeOK ==
  /\ cons \in Console
  /\ cur \in 0 .. kLineLength
  /\ buf \in [0 .. kLineLength - 1 -> Char \cup {Zero}]
  /\ given \in Seq(Char)
  /\ lapped \in BOOLEAN

(* Between two characters the cursor is on the screen, in one cell only:   *)
(* no path leaves an old one behind (debug_console.cpp lines 59-96; the    *)
(* newline path relies on the prompt to draw it again).                    *)
OneCursor == {p \in Columns \X Rows : Cursor \in cons.cell[p]} = {Here(cons)}

(* No cell shows two glyphs on top of each other, also when rows are       *)
(* written again because the screen does not scroll.                       *)
NoOverstrike == \A p \in Columns \X Rows : \A g, h \in cons.cell[p] : g = h

(* The cell n places before the cursor in reading order.                   *)
Before(n) == LET at == (cons.y * Width + cons.x) - n
             IN  <<at % Width, at \div Width>>

(* What the user sees is what Exec gets: the prompt and the characters of  *)
(* buf_ stand before the cursor, over as many rows as they need, after any *)
(* insertions and erasures, unless the line ran over the end of the screen *)
(* (then the missing scroll of lines 36 and 55 shows).                     *)
LineShown ==
  LET text == kDefaultPrompt \o [k \in 1 .. cur |-> buf[k - 1]]
      size == Len(text)
  IN  ~lapped => /\ size <= cons.y * Width + cons.x
                 /\ \A k \in 1 .. size :
                      cons.cell[Before(size - k + 1)] = {text[k]}

(* The shell is a line editor: on every Enter Exec finds in buf_, as a     *)
(* string of C, exactly what was typed and not erased since the last one.  *)
(* Nothing of an earlier, longer line shows, though its bytes stay in buf_ *)
(* and only the 0 that Enter writes parts them from the new one            *)
(* (debug_console.cpp lines 108, 161-191).                                 *)
Typed == [k \in 1 .. cur |-> buf[k - 1]]
Editor == INSTANCE LineEditor WITH Capacity <- kLineLength, text <- Typed
IsEditor == Editor!Spec
=============================================================================
