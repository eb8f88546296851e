---------------------------- MODULE MCEventRing ----------------------------
(* EventRing for TLC: segments of two, one and two entries.                *)
EXTENDS EventRing

Sizes == [s \in 0 .. erst_size - 1 |-> IF s = 1 THEN 1 ELSE 2]
=============================================================================
