--------------------------- MODULE AtomicCounter ---------------------------
(***************************************************************************)
(* What incrementer() of test/test_mutex.cpp promises with the lock around *)
(* its ++shared_counter: each of the threads adds one to the counter, in   *)
(* one indivisible step, Times times.                                      *)
(***************************************************************************)
EXTENDS Naturals

CONSTANTS Threads, Times

VARIABLES n, left

Init == n = 0 /\ left = [t \in Threads |-> Times]

Inc(t) == /\ left[t] > 0
          /\ n' = n + 1
          /\ left' = [left EXCEPT ![t] = @ - 1]

Next == \E t \in Threads : Inc(t)

Spec == Init /\ [][Next]_<<n, left>>
=============================================================================
