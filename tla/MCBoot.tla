------------------------------- MODULE MCBoot -------------------------------
(* Boot for TLC: an event ring of two segments.                            *)
EXTENDS Boot

Sizes == [s \in 0 .. erst_size - 1 |-> s + 1]
Port == MaxSlotsEnabled
Events == 0 .. MaxSlotsEnabled
=============================================================================
