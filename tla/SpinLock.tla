------------------------------ MODULE SpinLock ------------------------------
(***************************************************************************)
(* SpinLockMutex between threads on several x86 processors, used as        *)
(* incrementer() of test/test_mutex.cpp uses it.  A plain store waits in   *)
(* the store buffer of its processor and reaches memory later, in order    *)
(* (buf); a processor reads its own waiting stores; a locked instruction   *)
(* runs on memory and only when the buffer of its processor is empty.      *)
(* lfence orders loads, not stores, so LFencedWrite is a plain store.      *)
(* The counter is a Nat: the test stays far below 2^32.                    *)
(***************************************************************************)
EXTENDS Mutex, Sequences

CONSTANTS Threads, kMaxCount

ASSUME SpinLockAssumption == kMaxCount \in Nat \ {0}

VARIABLES
  shared_counter,  (* the memory word                                      *)
  buf,             (* buf[t]: the stores of t that have not reached memory *)
  pc,              (* pc[t]: where t is in the body of incrementer's loop  *)
  reg,             (* reg[t]: the counter value t loaded                   *)
  i                (* i[t]: iterations t has completed                     *)

vars == <<flag, shared_counter, buf, pc, reg, i>>

Store(addr, val) == [addr |-> addr, val |-> val]

Init ==
  /\ flag = kClear
  /\ shared_counter = 0
  /\ buf = [t \in Threads |-> <<>>]
  /\ pc = [t \in Threads |-> "lock"]
  /\ reg = [t \in Threads |-> 0]
  /\ i = [t \in Threads |-> 0]

Goto(t, l) == pc' = [pc EXCEPT ![t] = l]

Write(t, addr, val) == buf' = [buf EXCEPT ![t] = Append(@, Store(addr, val))]

(* The places of a buffer b that hold a store to the counter, and the      *)
(* counter as the owner of b sees it when memory holds mem: its own latest *)
(* store if one is waiting.                                                *)
Waiting(b) == {k \in 1 .. Len(b) : b[k].addr = "counter"}

View(b, mem) ==
  IF Waiting(b) = {} THEN mem
  ELSE b[CHOOSE k \in Waiting(b) : \A j \in Waiting(b) : j <= k].val

AcquireLock(t) ==
  /\ pc[t] = "lock" /\ i[t] < kMaxCount
  /\ buf[t] = <<>>
  /\ Lock
  /\ Goto(t, "load")
  /\ UNCHANGED <<shared_counter, buf, reg, i>>

(* The attempt fails: t stays in the loop of Lock.                         *)
SpinAgain(t) ==
  /\ pc[t] = "lock" /\ i[t] < kMaxCount
  /\ buf[t] = <<>>
  /\ Spin
  /\ UNCHANGED <<shared_counter, buf, pc, reg, i>>

(* ++shared_counter: a load and a store.                                   *)
LoadCounter(t) ==
  /\ pc[t] = "load"
  /\ reg' = [reg EXCEPT ![t] = View(buf[t], shared_counter)]
  /\ Goto(t, "store")
  /\ UNCHANGED <<flag, shared_counter, buf, i>>

StoreCounter(t) ==
  /\ pc[t] = "store"
  /\ Write(t, "counter", reg[t] + 1)
  /\ Goto(t, "unlock")
  /\ UNCHANGED <<flag, shared_counter, reg, i>>

(* Mutant: the clear overtakes the stores made in the critical section.    *)
ReleaseLockEarly(t) ==
  /\ pc[t] = "unlock"
  /\ flag' = kClear
  /\ i' = [i EXCEPT ![t] = @ + 1]
  /\ Goto(t, "lock")
  /\ UNCHANGED <<shared_counter, buf, reg>>

(* Mutant: Unlock writes the wrong constant.                               *)
ReleaseLockFlagged(t) ==
  /\ pc[t] = "unlock"
  /\ Write(t, "flag", kFlagged)
  /\ i' = [i EXCEPT ![t] = @ + 1]
  /\ Goto(t, "lock")
  /\ UNCHANGED <<flag, shared_counter, reg>>

ReleaseLock(t) ==
  /\ pc[t] = "unlock"
  /\ Write(t, "flag", kClear)
  /\ i' = [i EXCEPT ![t] = @ + 1]
  /\ Goto(t, "lock")
  /\ UNCHANGED <<flag, shared_counter, reg>>

(* The oldest waiting store of t reaches memory.                           *)
Drain(t) ==
  /\ buf[t] # <<>>
  /\ buf' = [buf EXCEPT ![t] = Tail(@)]
  /\ LET w == Head(buf[t]) IN
       /\ flag' = IF w.addr = "flag" THEN w.val ELSE flag
       /\ shared_counter' = IF w.addr = "counter" THEN w.val
                                                  ELSE shared_counter
  /\ UNCHANGED <<pc, reg, i>>

Step(t) == \/ AcquireLock(t) \/ SpinAgain(t) \/ LoadCounter(t)
           \/ StoreCounter(t) \/ ReleaseLock(t) \/ Drain(t)

Next == \E t \in Threads : Step(t)

(* Every thread keeps running and no store waits for ever.                 *)
Spec == Init /\ [][Next]_vars /\ \A t \in Threads : WF_vars(Step(t))

-----------------------------------------------------------------------------
Stores == [addr : {"flag"}, val : {kClear}] \cup [addr : {"counter"}, val : Nat]

TypeOK ==
  /\ FlagOK
  /\ shared_counter \in Nat
  /\ buf \in [Threads -> Seq(Stores)]
  /\ pc \in [Threads -> {"lock", "load", "store", "unlock"}]
  /\ reg \in [Threads -> Nat]
  /\ i \in [Threads -> 0 .. kMaxCount]

InCritical(t) == pc[t] \in {"load", "store", "unlock"}

(* At most one thread is between Lock and Unlock (mutex.hpp lines 24 to    *)
(* 37), although Unlock is a store that reaches memory late.               *)
MutualExclusion == \A t, u \in Threads : InCritical(t) /\ InCritical(u) => t = u

(* The clear of the flag never overtakes what the critical section wrote:  *)
(* whoever finds the flag clear finds no store to the counter waiting.     *)
ClearPublishes == flag = kClear => \A t \in Threads : Waiting(buf[t]) = {}

(* The counter all threads agree on: the store that is on its way, else    *)
(* what memory holds.                                                      *)
LatestOf(bufs, mem) ==
  IF \E t \in Threads : Waiting(bufs[t]) # {}
  THEN View(bufs[CHOOSE t \in Threads : Waiting(bufs[t]) # {}], mem)
  ELSE mem

Latest == LatestOf(buf, shared_counter)

Left == [t \in Threads |-> IF pc[t] = "unlock" THEN kMaxCount - i[t] - 1
                                               ELSE kMaxCount - i[t]]

(* The three instructions under the lock are one indivisible increment: no *)
(* increment is lost, whatever the interleaving and the store buffers      *)
(* (test/test_mutex.cpp lines 30 to 48).                                   *)
Counter == INSTANCE AtomicCounter WITH Times <- kMaxCount, n <- Latest,
                                       left <- Left
IsAtomicCounter == Counter!Spec

(* Every thread gets through all its iterations and the counter in memory  *)
(* ends as test/test_mutex.cpp line 47 expects: nobody spins for ever.     *)
Done == /\ \A t \in Threads : i[t] = kMaxCount /\ buf[t] = <<>>
        /\ flag = kClear
Termination == <>[]Done
=============================================================================
