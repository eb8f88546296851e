----------------------------- MODULE MCKeyboard -----------------------------
(* Keyboard for TLC: the keys 1 and A, left and right shift.               *)
EXTENDS Keyboard

StaticStorage == {0}

Table(one) == [k \in 0 .. 127 |-> CASE k = 2  -> one
                                    [] k = 30 -> 65
                                    [] OTHER  -> 0]
NormalTable == Table(49)
ShiftedTable == Table(33)
=============================================================================
