----------------------------- MODULE KeyChannel -----------------------------
(***************************************************************************)
(* What the keyboard path promises the shell: of the codes the keyboard    *)
(* sends some are refused, and those that are accepted are handed over one *)
(* at a time, each exactly once, in the order they were sent, with at most *)
(* Capacity of them waiting.                                               *)
(***************************************************************************)
EXTENDS Naturals, Sequences

CONSTANTS Capacity, Code

VARIABLES chan, hand

Init == chan = <<>> /\ hand = <<>>

Accept(c) == /\ Len(chan) < Capacity
             /\ chan' = Append(chan, c)
             /\ UNCHANGED hand

Take == /\ hand = <<>> /\ chan # <<>>
        /\ hand' = <<Head(chan)>>
        /\ chan' = Tail(chan)

HandOver == /\ hand # <<>>
            /\ hand' = <<>>
            /\ UNCHANGED chan

Next == (\E c \in Code : Accept(c)) \/ Take \/ HandOver

Spec == Init /\ [][Next]_<<chan, hand>>
=============================================================================
