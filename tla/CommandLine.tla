---------------------------- MODULE CommandLine ----------------------------
(***************************************************************************)
(* DebugShell::Exec of debug_console.cpp: the loop that cuts a line into   *)
(* arguments.  It copies the line to s, puts a terminating 0 in place of   *)
(* each blank, and points argv at the first character of each argument.    *)
(* What is then done with argc and argv is the commands' business.         *)
(***************************************************************************)
EXTENDS Naturals, Sequences

CONSTANTS
  Letter,   (* the characters that are not blank                            *)
  MaxLen    (* the longest line considered; kLineLength - 1 in the code     *)

Blank == " "
NUL == ""
Junk == "?"   (* a byte of s that was never written                         *)

ASSUME CommandLineAssumption ==
  /\ MaxLen \in Nat
  /\ Blank \notin Letter /\ NUL \notin Letter /\ Junk \notin Letter

VARIABLES
  line,    (* the characters of buf_ before its 0, numbered from 0          *)
  len,     (* their number                                                  *)
  s,       (* the copy                                                      *)
  i,       (* the next character to look at                                 *)
  argc,
  argv,    (* argv[k] is the index in s that the pointer argv[k] points to  *)
  pc

exec_vars == <<line, len, s, i, argc, argv, pc>>

ExecInit ==
  /\ len \in 1 .. MaxLen    (* an empty line returns at once                *)
  /\ line \in [0 .. len - 1 -> Letter \cup {Blank}]
  /\ s = [k \in 0 .. len |-> Junk]
  /\ i = 0 /\ argc = 0 /\ argv = <<>>
  /\ pc = "blanks"

(* Mutant: the first loop does not step on.                                *)
SkipBlankStuck ==
  /\ pc = "blanks" /\ i < len /\ line[i] = Blank
  /\ s' = [s EXCEPT ![i] = NUL]
  /\ UNCHANGED <<line, len, i, argc, argv, pc>>

(* The first for loop.                                                     *)
SkipBlank ==
  /\ pc = "blanks" /\ i < len /\ line[i] = Blank
  /\ s' = [s EXCEPT ![i] = NUL]
  /\ i' = i + 1
  /\ UNCHANGED <<line, len, argc, argv, pc>>

(* Mutant: the end of the line is noticed one character late.              *)
BeginLate ==
  /\ pc = "blanks" /\ ~(i < len /\ line[i] = Blank)
  /\ i <= len + 1
  /\ argv' = Append(argv, i) /\ argc' = argc + 1
  /\ pc' = "word"
  /\ UNCHANGED <<line, len, s, i>>

(* Mutant: the argument begins at the blank before it.                     *)
BeginAtBlank ==
  /\ pc = "blanks" /\ ~(i < len /\ line[i] = Blank)
  /\ i <= len
  /\ argv' = Append(argv, IF i = 0 THEN 0 ELSE i - 1) /\ argc' = argc + 1
  /\ pc' = "word"
  /\ UNCHANGED <<line, len, s, i>>

(* if (i > len) break; else a new argument begins.  At i = len, after      *)
(* trailing blanks, the test does not break.                               *)
Begin ==
  /\ pc = "blanks" /\ ~(i < len /\ line[i] = Blank)
  /\ i <= len
  /\ argv' = Append(argv, i) /\ argc' = argc + 1
  /\ pc' = "word"
  /\ UNCHANGED <<line, len, s, i>>

Break ==
  /\ pc = "blanks" /\ i > len
  /\ pc' = "done"
  /\ UNCHANGED <<line, len, s, i, argc, argv>>

(* The second for loop.                                                    *)
CopyLetter ==
  /\ pc = "word" /\ i < len /\ line[i] # Blank
  /\ s' = [s EXCEPT ![i] = line[i]]
  /\ i' = i + 1
  /\ UNCHANGED <<line, len, argc, argv, pc>>

(* Mutant: the index is not moved past the terminating 0.                  *)
EndWordStay ==
  /\ pc = "word" /\ ~(i < len /\ line[i] # Blank)
  /\ s' = [s EXCEPT ![i] = NUL]
  /\ pc' = "blanks"
  /\ UNCHANGED <<line, len, i, argc, argv>>

EndWord ==
  /\ pc = "word" /\ ~(i < len /\ line[i] # Blank)
  /\ s' = [s EXCEPT ![i] = NUL]
  /\ i' = i + 1
  /\ pc' = "blanks"
  /\ UNCHANGED <<line, len, argc, argv>>

ExecNext == SkipBlank \/ Begin \/ Break \/ CopyLetter \/ EndWord

ExecSpec == ExecInit /\ [][ExecNext]_exec_vars /\ WF_exec_vars(ExecNext)

-----------------------------------------------------------------------------
ExecTypeOK ==
  /\ len \in 1 .. MaxLen
  /\ line \in [0 .. len - 1 -> Letter \cup {Blank}]
  /\ s \in [0 .. len -> Letter \cup {NUL, Junk}]
  /\ i \in 0 .. len + 1
  /\ argc \in Nat /\ argv \in [1 .. argc -> 0 .. len]
  /\ pc \in {"blanks", "word", "done"}

(* No write goes past the end of s, whose size is len + 1: whenever the    *)
(* second loop runs, i is an index of s (debug_console.cpp 131-135).       *)
WritesInside == pc = "word" => i \in 0 .. len

(* Each argument takes at least two bytes of s, so argv of 128 pointers is *)
(* enough for lines of up to 254 characters.  It is not enough for every   *)
(* line that kLineLength admits (debug_console.cpp 117, 130).              *)
ArgcBounded == 2 * argc <= len + 2

(* The words of the line: where they start, and the run of letters there.  *)
Starts == {k \in 0 .. len - 1 : /\ line[k] # Blank
                                /\ k = 0 \/ line[k - 1] = Blank}
Least(S) == CHOOSE n \in S : \A k \in S : n <= k
Word(from) ==
  LET end == Least({k \in from .. len : k = len \/ line[k] = Blank})
  IN  [k \in 1 .. end - from |-> line[from + k - 1]]

(* The string that a pointer to s[from] denotes.                           *)
CString(from) ==
  LET end == Least({k \in from .. len : s[k] = NUL})
  IN  [k \in 1 .. end - from |-> s[from + k - 1]]

(* The arguments are the words of the line in their order, and one empty   *)
(* argument more if the line ends in a blank (debug_console.cpp 119-136):  *)
(* argv[0], which Exec compares with the commands, is always there, empty  *)
(* for a line of blanks only.                                              *)
ArgumentsAreWords ==
  pc = "done" =>
    LET blank == line[len - 1] = Blank
        words == IF blank THEN argc - 1 ELSE argc
    IN  /\ {argv[k] : k \in 1 .. words} = Starts
        /\ \A j, k \in 1 .. argc : j < k => argv[j] < argv[k]
        /\ \A k \in 1 .. words : CString(argv[k]) = Word(argv[k])
        /\ blank => argc > 0 /\ CString(argv[argc]) = <<>>

(* The loop ends for every line.                                           *)
Terminates == <>(pc = "done")
=============================================================================
