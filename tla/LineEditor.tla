----------------------------- MODULE LineEditor -----------------------------
(***************************************************************************)
(* What DebugShell promises who types: a line that grows at its end, loses *)
(* its last character, or is given to Exec as a whole, whatever lines were *)
(* given before; a line of Capacity characters takes nothing more.  What   *)
(* is ignored is a stuttering step.                                        *)
(***************************************************************************)
EXTENDS Naturals, Sequences

CONSTANTS Capacity, Char

VARIABLES
  text,  (* the line being typed                                            *)
  given  (* the line Exec was just given, until the next one is begun       *)

Init == text = <<>> /\ given = <<>>

Room == Len(text) < Capacity

Type(ch) == Room /\ text' = Append(text, ch) /\ given' = <<>>

Rub ==
  /\ Room /\ text # <<>>
  /\ text' = SubSeq(text, 1, Len(text) - 1)
  /\ given' = <<>>

Give == Room /\ given' = text /\ text' = <<>>

Next == (\E ch \in Char : Type(ch)) \/ Rub \/ Give

Spec == Init /\ [][Next]_<<text, given>>
=============================================================================
