------------------------------- MODULE Mutex -------------------------------
(***************************************************************************)
(* bitnos::SpinLockMutex of mutex.hpp over the memory word flag_.  Its     *)
(* three operations are built from CompareExchange (asmfunc.s), one locked *)
(* instruction and so one atomic step, and LFencedWrite, a plain store.    *)
(* How a plain store reaches memory depends on the machine: the module     *)
(* SpinLock delays it in a store buffer, Keyboard has a single processor   *)
(* and applies it at once, as Unlock below does.                           *)
(***************************************************************************)
EXTENDS Naturals

VARIABLE flag

kClear == 0
kFlagged == 1

(* Mutant: the flag is written whether or not it held the expected value.  *)
CompareExchangeBlind(expected, value, old) ==
  /\ old = expected
  /\ flag' = value

(* Mutant: lock xadd in place of lock cmpxchg.  It returns what memory held *)
(* too, and takes a clear flag as it should, but a taker that fails writes. *)
CompareExchangeXadd(expected, value, old) ==
  /\ old = flag
  /\ flag' = flag + value

(* lock cmpxchg: old is what memory held, and what the call returns.       *)
CompareExchange(expected, value, old) ==
  /\ old = flag
  /\ flag' = IF flag = expected THEN value ELSE flag

(* An iteration of Lock's loop that finds the flag set and goes round      *)
(* again, and the one that ends it.                                        *)
Spin == \E old \in {kClear, kFlagged} :
          CompareExchange(kClear, kFlagged, old) /\ old = kFlagged

Lock == \E old \in {kClear, kFlagged} :
          CompareExchange(kClear, kFlagged, old) /\ old # kFlagged

TryLock(ok) == \E old \in {kClear, kFlagged} :
                 CompareExchange(kClear, kFlagged, old) /\ ok = (old = kClear)

Unlock == flag' = kClear

FlagOK == flag \in {kClear, kFlagged}
=============================================================================
