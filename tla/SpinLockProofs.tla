--------------------------- MODULE SpinLockProofs ---------------------------
(***************************************************************************)
(* Proofs about mutex.hpp for every set of threads and every number of     *)
(* iterations, with the store buffers of the machine in the model.         *)
(***************************************************************************)
EXTENDS SpinLock, SequenceTheorems, FiniteSetTheorems, TLAPS

FlagStore == Store("flag", kClear)
CounterStore(v) == Store("counter", v)

(* The buffers a thread can have: none holds more than the two stores of   *)
(* one critical section.                                                   *)
LEMMA ShortSequences ==
  ASSUME NEW a, NEW b
  PROVE  /\ Append(<<>>, a) = <<a>>
         /\ Append(<<a>>, b) = <<a, b>>
         /\ Head(<<a>>) = a /\ Tail(<<a>>) = <<>>
         /\ Head(<<a, b>>) = a /\ Tail(<<a, b>>) = <<b>>
         /\ <<a>> # <<>> /\ <<a, b>> # <<>>
         /\ Len(<<>>) = 0 /\ Len(<<a>>) = 1 /\ Len(<<a, b>>) = 2
         /\ <<a>>[1] = a /\ <<a, b>>[1] = a /\ <<a, b>>[2] = b
<1> DEFINE S == {a, b}
<1>1. /\ Len(<<>>) = 0 /\ Len(<<a>>) = 1 /\ Len(<<a, b>>) = 2
      /\ <<a>>[1] = a /\ <<a, b>>[1] = a /\ <<a, b>>[2] = b
  OBVIOUS
<1>2. /\ <<>> \in Seq(S) /\ <<a>> \in Seq(S) /\ <<b>> \in Seq(S)
      /\ <<a, b>> \in Seq(S)
  OBVIOUS
<1>3. <<a>> # <<>> /\ <<a, b>> # <<>>
  BY <1>1
<1>4. Append(<<>>, a) = <<a>>
  OBVIOUS
<1>5. Append(<<a>>, b) = <<a, b>>
  <2> DEFINE ab == Append(<<a>>, b)
  <2>1. b \in S
    OBVIOUS
  <2>2. /\ ab \in Seq(S) /\ Len(ab) = 2
        /\ ab[1] = a /\ ab[2] = b
    BY <1>1, <1>2, <2>1
  <2>3. \A k \in 1 .. 2 : ab[k] = <<a, b>>[k]
    BY <1>1, <2>2
  <2> QED BY <1>1, <1>2, <2>2, <2>3, SeqEqual
<1>6. Head(<<a>>) = a /\ Head(<<a, b>>) = a
  OBVIOUS
<1>7. Tail(<<a>>) = <<>>
  OBVIOUS
<1>8. Tail(<<a, b>>) = <<b>>
  OBVIOUS
<1> QED
  BY <1>1, <1>3, <1>4, <1>5, <1>6, <1>7, <1>8

LEMMA ShortStores ==
  /\ <<>> \in Seq(Stores)
  /\ <<FlagStore>> \in Seq(Stores)
  /\ \A v \in Nat : /\ <<CounterStore(v)>> \in Seq(Stores)
                    /\ <<CounterStore(v), FlagStore>> \in Seq(Stores)
<1>1. FlagStore \in Stores
  BY DEF FlagStore, Store, Stores
<1>2. \A v \in Nat : CounterStore(v) \in Stores
  BY DEF CounterStore, Store, Stores
<1> QED
  BY <1>1, <1>2

LEMMA StoreBuffers ==
  ASSUME NEW v
  PROVE  /\ Append(<<CounterStore(v)>>, FlagStore) = <<CounterStore(v), FlagStore>>
         /\ Tail(<<CounterStore(v), FlagStore>>) = <<FlagStore>>
         /\ Tail(<<CounterStore(v)>>) = <<>>
<1> DEFINE c == CounterStore(v)
           f == FlagStore
<1> HIDE DEF c, f
<1>1. /\ Append(<<c>>, f) = <<c, f>>
      /\ Tail(<<c, f>>) = <<f>>
      /\ Tail(<<c>>) = <<>>
  BY ShortSequences
<1> QED
  BY <1>1 DEF c, f

(* What a thread sees through each of them.                                *)
LEMMA ShortViews ==
  ASSUME NEW mem, NEW v \in Nat
  PROVE  /\ Waiting(<<>>) = {} /\ Waiting(<<FlagStore>>) = {}
         /\ Waiting(<<CounterStore(v)>>) = {1}
         /\ Waiting(<<CounterStore(v), FlagStore>>) = {1}
         /\ View(<<>>, mem) = mem
         /\ View(<<CounterStore(v)>>, mem) = v
         /\ View(<<CounterStore(v), FlagStore>>, mem) = v
<1>1. /\ FlagStore.addr # "counter" /\ CounterStore(v).addr = "counter"
      /\ CounterStore(v).val = v
  BY DEF FlagStore, CounterStore, Store
<1>2. Waiting(<<>>) = {} /\ Waiting(<<FlagStore>>) = {}
  BY <1>1 DEF Waiting
<1>3. Waiting(<<CounterStore(v)>>) = {1}
  BY <1>1 DEF Waiting
<1>4. Waiting(<<CounterStore(v), FlagStore>>) = {1}
  <2> DEFINE b == <<CounterStore(v), FlagStore>>
  <2>1. Len(b) = 2 /\ b[1].addr = "counter" /\ b[2].addr # "counter"
    BY <1>1
  <2>2. \A k \in 1 .. 2 : k = 1 \/ k = 2
    OBVIOUS
  <2> QED BY <2>1, <2>2 DEF Waiting
<1>5. (CHOOSE k \in {1} : \A j \in {1} : j <= k) = 1
  OBVIOUS
<1> QED
  BY <1>1, <1>2, <1>3, <1>4, <1>5 DEF View

(* A thread owns the lock from the locked instruction that set the flag    *)
(* until its clear has reached memory, which is longer than InCritical.    *)
Owns(t) == InCritical(t) \/ buf[t] # <<>>

(* What can be in the buffer of t at each place of its loop.               *)
Shape(t) ==
  \/ /\ pc[t] = "lock"
     /\ \/ buf[t] = <<>>
        \/ buf[t] = <<FlagStore>>
        \/ \E v \in Nat : buf[t] = <<CounterStore(v), FlagStore>>
  \/ pc[t] = "load" /\ buf[t] = <<>>
  \/ pc[t] = "store" /\ buf[t] = <<>> /\ reg[t] = shared_counter
  \/ /\ pc[t] = "unlock"
     /\ buf[t] = <<>> \/ \E v \in Nat : buf[t] = <<CounterStore(v)>>

IInv ==
  /\ TypeOK
  /\ \A t \in Threads : Shape(t)
  /\ \A t \in Threads : InCritical(t) => i[t] < kMaxCount
  /\ \A t, u \in Threads : Owns(t) /\ Owns(u) => t = u
  /\ flag = kFlagged <=> \E t \in Threads : Owns(t)

-----------------------------------------------------------------------------
LEMMA InitIInv == Init => IInv
<1> SUFFICES ASSUME Init PROVE IInv
  OBVIOUS
<1>1. TypeOK
  BY SpinLockAssumption, ShortStores DEF Init, TypeOK, FlagOK
<1>2. \A t \in Threads : Shape(t) /\ ~ Owns(t) /\ ~ InCritical(t)
  BY DEF Init, Shape, Owns, InCritical
<1> QED
  BY <1>1, <1>2 DEF IInv, Init, kClear, kFlagged

(* A step of t that leaves flag and shared_counter alone and keeps t an    *)
(* owner disturbs no other thread.                                         *)
LEMMA AcquireIInv ==
  ASSUME IInv, NEW t \in Threads, AcquireLock(t)
  PROVE  IInv'
<1>1. /\ flag = kClear /\ flag' = kFlagged
      /\ pc[t] = "lock" /\ buf[t] = <<>> /\ i[t] < kMaxCount
      /\ pc' = [pc EXCEPT ![t] = "load"]
      /\ UNCHANGED <<shared_counter, buf, reg, i>>
  BY DEF AcquireLock, Lock, CompareExchange, Goto, kClear, kFlagged
<1>2. \A u \in Threads : ~ Owns(u)
  BY <1>1 DEF IInv, kClear, kFlagged
<1>3. TypeOK'
  BY <1>1 DEF IInv, TypeOK, FlagOK
<1>4. pc'[t] = "load" /\ \A u \in Threads \ {t} : pc'[u] = pc[u]
  BY <1>1 DEF IInv, TypeOK
<1>5. \A u \in Threads : Shape(u)'
  BY <1>1, <1>4 DEF IInv, Shape
<1>6. \A u \in Threads : Owns(u)' <=> u = t
  BY <1>1, <1>2, <1>4 DEF Owns, InCritical
<1>7. \A u \in Threads : InCritical(u)' => i'[u] < kMaxCount
  BY <1>1, <1>2, <1>4 DEF Owns, InCritical
<1> QED
  BY <1>1, <1>3, <1>5, <1>6, <1>7 DEF IInv

LEMMA LoadIInv ==
  ASSUME IInv, NEW t \in Threads, LoadCounter(t)
  PROVE  IInv'
<1>1. /\ pc[t] = "load" /\ buf[t] = <<>>
      /\ reg' = [reg EXCEPT ![t] = shared_counter]
      /\ pc' = [pc EXCEPT ![t] = "store"]
      /\ UNCHANGED <<flag, shared_counter, buf, i>>
  BY ShortViews DEF LoadCounter, Goto, IInv, Shape
<1>2. TypeOK'
  BY <1>1 DEF IInv, TypeOK, FlagOK
<1>3. /\ pc'[t] = "store" /\ reg'[t] = shared_counter
      /\ \A u \in Threads \ {t} : pc'[u] = pc[u] /\ reg'[u] = reg[u]
  BY <1>1 DEF IInv, TypeOK
<1>4. \A u \in Threads : Shape(u)'
  BY <1>1, <1>3 DEF IInv, Shape
<1>5. \A u \in Threads : /\ Owns(u)' <=> Owns(u)
                         /\ InCritical(u)' <=> InCritical(u)
  BY <1>1, <1>3 DEF Owns, InCritical
<1> QED
  BY <1>1, <1>2, <1>4, <1>5 DEF IInv

LEMMA StoreIInv ==
  ASSUME IInv, NEW t \in Threads, StoreCounter(t)
  PROVE  IInv'
<1> DEFINE v == shared_counter + 1
<1>1. /\ pc[t] = "store" /\ buf[t] = <<>> /\ v \in Nat
      /\ reg[t] = shared_counter
      /\ buf' = [buf EXCEPT ![t] = Append(buf[t], CounterStore(v))]
      /\ pc' = [pc EXCEPT ![t] = "unlock"]
      /\ UNCHANGED <<flag, shared_counter, reg, i>>
  <2>1. pc[t] = "store" /\ Shape(t) /\ shared_counter \in Nat
    BY DEF StoreCounter, IInv, TypeOK
  <2>2. buf[t] = <<>> /\ reg[t] = shared_counter
    BY <2>1 DEF Shape
  <2> QED
    BY <2>1, <2>2 DEF StoreCounter, Write, Goto, CounterStore
<1>2. /\ pc'[t] = "unlock" /\ buf'[t] = <<CounterStore(v)>>
      /\ \A u \in Threads \ {t} : pc'[u] = pc[u] /\ buf'[u] = buf[u]
  BY <1>1, ShortSequences DEF IInv, TypeOK
<1>3. TypeOK'
  <2>1. buf' \in [Threads -> Seq(Stores)]
    BY <1>1, <1>2, ShortStores DEF IInv, TypeOK
  <2> QED BY <1>1, <2>1 DEF IInv, TypeOK, FlagOK
<1>4. \A u \in Threads : Shape(u)'
  BY <1>1, <1>2 DEF IInv, Shape
<1>5. \A u \in Threads : /\ Owns(u)' <=> Owns(u)
                         /\ InCritical(u)' <=> InCritical(u)
  BY <1>1, <1>2 DEF Owns, InCritical
<1> QED
  BY <1>1, <1>3, <1>4, <1>5 DEF IInv

LEMMA ReleaseIInv ==
  ASSUME IInv, NEW t \in Threads, ReleaseLock(t)
  PROVE  IInv'
<1>1. /\ pc[t] = "unlock"
      /\ buf[t] = <<>> \/ \E v \in Nat : buf[t] = <<CounterStore(v)>>
      /\ buf' = [buf EXCEPT ![t] = Append(buf[t], FlagStore)]
      /\ pc' = [pc EXCEPT ![t] = "lock"]
      /\ i' = [i EXCEPT ![t] = @ + 1]
      /\ UNCHANGED <<flag, shared_counter, reg>>
  BY DEF ReleaseLock, Write, Goto, IInv, Shape, FlagStore
<1>2. /\ pc'[t] = "lock"
      /\ \/ buf'[t] = <<FlagStore>>
         \/ \E v \in Nat : buf'[t] = <<CounterStore(v), FlagStore>>
      /\ \A u \in Threads \ {t} : /\ pc'[u] = pc[u] /\ buf'[u] = buf[u]
                                  /\ i'[u] = i[u]
  <2>1. /\ pc'[t] = "lock" /\ buf'[t] = Append(buf[t], FlagStore)
        /\ \A u \in Threads \ {t} : /\ pc'[u] = pc[u] /\ buf'[u] = buf[u]
                                    /\ i'[u] = i[u]
    BY <1>1 DEF IInv, TypeOK
  <2>2. CASE buf[t] = <<>>
    BY <2>1, <2>2, ShortSequences
  <2>3. ASSUME NEW v \in Nat, buf[t] = <<CounterStore(v)>>
        PROVE  buf'[t] = <<CounterStore(v), FlagStore>>
    BY <2>1, <2>3, StoreBuffers
  <2> QED BY <1>1, <2>1, <2>2, <2>3
<1>3. TypeOK'
  <2>1. buf' \in [Threads -> Seq(Stores)]
    BY <1>1, <1>2, ShortStores DEF IInv, TypeOK
  <2>2. i[t] + 1 \in 0 .. kMaxCount
    BY <1>1, SpinLockAssumption DEF IInv, TypeOK, InCritical
  <2> QED BY <1>1, <2>1, <2>2 DEF IInv, TypeOK, FlagOK
<1>4. \A u \in Threads : Shape(u)'
  BY <1>1, <1>2 DEF IInv, Shape
<1>5. buf'[t] # <<>>
  BY <1>2, ShortSequences
<1>6. \A u \in Threads : /\ Owns(u)' <=> Owns(u)
                         /\ InCritical(u)' => InCritical(u) /\ u # t
  BY <1>1, <1>2, <1>5 DEF Owns, InCritical
<1> QED
  BY <1>1, <1>2, <1>3, <1>4, <1>6 DEF IInv

(* The stores drain in order, so the flag is cleared by the last of them.  *)
LEMMA DrainIInv ==
  ASSUME IInv, NEW t \in Threads, Drain(t)
  PROVE  IInv'
<1>1. /\ buf[t] # <<>>
      /\ buf' = [buf EXCEPT ![t] = Tail(buf[t])]
      /\ flag' = IF Head(buf[t]).addr = "flag" THEN Head(buf[t]).val ELSE flag
      /\ shared_counter' = IF Head(buf[t]).addr = "counter"
                           THEN Head(buf[t]).val ELSE shared_counter
      /\ UNCHANGED <<pc, reg, i>>
  BY DEF Drain
<1>2. /\ buf'[t] = Tail(buf[t])
      /\ \A u \in Threads \ {t} : buf'[u] = buf[u]
  BY <1>1 DEF IInv, TypeOK
<1>3. Owns(t) /\ \A u \in Threads : Owns(u) => u = t
  BY <1>1 DEF IInv, Owns
<1>4. FlagStore.addr = "flag" /\ FlagStore.val = kClear
  BY DEF FlagStore, Store
<1>5. \A v : CounterStore(v).addr = "counter" /\ CounterStore(v).val = v
  BY DEF CounterStore, Store
<1>6. CASE pc[t] = "lock" /\ buf[t] = <<FlagStore>>
  <2>1. buf'[t] = <<>> /\ flag' = kClear /\ shared_counter' = shared_counter
    BY <1>1, <1>2, <1>4, <1>6, ShortSequences
  <2>2. TypeOK'
    BY <1>1, <2>1, ShortStores DEF IInv, TypeOK, FlagOK
  <2>3. \A u \in Threads : Shape(u)'
    BY <1>1, <1>2, <1>6, <2>1 DEF IInv, Shape
  <2>4. \A u \in Threads : ~ Owns(u)' /\ (InCritical(u)' <=> InCritical(u))
    BY <1>1, <1>2, <1>3, <1>6, <2>1 DEF Owns, InCritical
  <2> QED
    BY <1>1, <2>1, <2>2, <2>3, <2>4 DEF IInv, kClear, kFlagged
<1>7. ASSUME NEW v \in Nat, pc[t] = "lock",
             buf[t] = <<CounterStore(v), FlagStore>>
      PROVE  IInv'
  <2>1. buf'[t] = <<FlagStore>> /\ flag' = flag /\ shared_counter' = v
    BY <1>1, <1>2, <1>5, <1>7, ShortSequences
  <2>2. TypeOK'
    BY <1>1, <2>1, ShortStores DEF IInv, TypeOK, FlagOK
  <2>3. \A u \in Threads : Shape(u)'
    BY <1>1, <1>2, <1>3, <1>7, <2>1 DEF IInv, Shape, Owns, InCritical
  <2>4. buf'[t] # <<>>
    BY <2>1, ShortSequences
  <2>5. \A u \in Threads : /\ Owns(u)' <=> Owns(u)
                           /\ InCritical(u)' <=> InCritical(u)
    BY <1>1, <1>2, <1>3, <2>4 DEF Owns, InCritical
  <2> QED
    BY <1>1, <2>1, <2>2, <2>3, <2>5 DEF IInv
<1>8. ASSUME NEW v \in Nat, pc[t] = "unlock", buf[t] = <<CounterStore(v)>>
      PROVE  IInv'
  <2>1. buf'[t] = <<>> /\ flag' = flag /\ shared_counter' = v
    BY <1>1, <1>2, <1>5, <1>8, ShortSequences
  <2>2. TypeOK'
    BY <1>1, <2>1, ShortStores DEF IInv, TypeOK, FlagOK
  <2>3. \A u \in Threads : Shape(u)'
    BY <1>1, <1>2, <1>3, <1>8, <2>1 DEF IInv, Shape, Owns, InCritical
  <2>4. \A u \in Threads : /\ Owns(u)' <=> Owns(u)
                           /\ InCritical(u)' <=> InCritical(u)
    BY <1>1, <1>2, <1>3, <1>8 DEF Owns, InCritical
  <2> QED
    BY <1>1, <2>1, <2>2, <2>3, <2>4 DEF IInv
<1> QED
  BY <1>1, <1>6, <1>7, <1>8 DEF IInv, Shape

(* A locked instruction that fails leaves memory as it was.                *)
LEMMA SpinStutters ==
  ASSUME NEW t \in Threads, SpinAgain(t)
  PROVE  UNCHANGED vars
  BY DEF SpinAgain, Spin, CompareExchange, kClear, kFlagged, vars

LEMMA NextIInv == IInv /\ [Next]_vars => IInv'
<1> SUFFICES ASSUME IInv, [Next]_vars PROVE IInv'
  OBVIOUS
<1>1. CASE UNCHANGED vars
  BY <1>1 DEF vars, IInv, TypeOK, FlagOK, Shape, Owns, InCritical
<1>2. ASSUME NEW t \in Threads, Step(t) PROVE IInv'
  BY <1>1, <1>2, AcquireIInv, SpinStutters, LoadIInv, StoreIInv, ReleaseIInv,
     DrainIInv DEF Step
<1> QED
  BY <1>1, <1>2 DEF Next

THEOREM InvariantHolds == Spec => []IInv
  BY InitIInv, NextIInv, PTL DEF Spec

(* No two threads are between Lock and Unlock at once (mutex.hpp 24-37),   *)
(* for any number of threads, although Unlock reaches memory late.         *)
THEOREM LockExcludes == Spec => []MutualExclusion
<1>1. IInv => MutualExclusion
  BY DEF IInv, MutualExclusion, Owns
<1> QED
  BY <1>1, InvariantHolds, PTL

(* The lock, the counter and the buffers hold values of their types.       *)
THEOREM SpinLockType == Spec => []TypeOK
<1>1. IInv => TypeOK
  BY DEF IInv
<1> QED
  BY <1>1, InvariantHolds, PTL

(* A clear flag means that all that was written under the lock is in       *)
(* memory: LFencedWrite needs no store fence on this machine.              *)
THEOREM ClearIsLast == Spec => []ClearPublishes
<1>1. IInv => ClearPublishes
  <2> SUFFICES ASSUME IInv, flag = kClear, NEW t \in Threads
               PROVE  Waiting(buf[t]) = {}
    BY DEF ClearPublishes
  <2>1. ~ Owns(t)
    BY DEF IInv, kClear, kFlagged
  <2> QED
    BY <2>1, ShortViews DEF Owns
<1> QED
  BY <1>1, InvariantHolds, PTL

-----------------------------------------------------------------------------
(* At most one buffer holds a store to the counter, so Latest is the view  *)
(* of its owner; otherwise it is what memory holds.                        *)
LEMMA LatestIs ==
  ASSUME NEW bufs, NEW mem, NEW t \in Threads,
         \A u \in Threads \ {t} : Waiting(bufs[u]) = {}
  PROVE  LatestOf(bufs, mem) = View(bufs[t], mem)
<1>1. CASE Waiting(bufs[t]) = {}
  BY <1>1 DEF LatestOf, View
<1>2. CASE Waiting(bufs[t]) # {}
  <2>1. t = CHOOSE u \in Threads : Waiting(bufs[u]) # {}
    BY <1>2
  <2> QED
    BY <1>2, <2>1 DEF LatestOf
<1> QED
  BY <1>1, <1>2

(* The buffers of all threads but the owner are empty.                     *)
LEMMA OthersEmpty ==
  ASSUME IInv, NEW t \in Threads, Owns(t)
  PROVE  \A u \in Threads \ {t} : buf[u] = <<>>
  BY DEF IInv, Owns

(* Only StoreCounter is a step of the atomic counter.                      *)
LEMMA StepRefines ==
  ASSUME IInv, [Next]_vars
  PROVE  [Counter!Next]_<<Latest, Left>>
<1>1. CASE UNCHANGED vars
  BY <1>1 DEF vars, Latest, LatestOf, View, Waiting, Left
<1>2. ASSUME NEW t \in Threads, AcquireLock(t)
      PROVE  UNCHANGED <<Latest, Left>>
  <2>1. pc[t] = "lock" /\ pc' = [pc EXCEPT ![t] = "load"]
        /\ UNCHANGED <<buf, shared_counter, i>>
    BY <1>2 DEF AcquireLock, Goto
  <2>2. Left' = Left
    BY <2>1 DEF IInv, TypeOK, Left
  <2> QED
    BY <2>1, <2>2 DEF Latest
<1>3. ASSUME NEW t \in Threads, LoadCounter(t)
      PROVE  UNCHANGED <<Latest, Left>>
  <2>1. pc[t] = "load" /\ pc' = [pc EXCEPT ![t] = "store"]
        /\ UNCHANGED <<buf, shared_counter, i>>
    BY <1>3 DEF LoadCounter, Goto
  <2>2. Left' = Left
    BY <2>1 DEF IInv, TypeOK, Left
  <2> QED
    BY <2>1, <2>2 DEF Latest
<1>4. ASSUME NEW t \in Threads, StoreCounter(t)
      PROVE  Counter!Inc(t)
  <2> DEFINE v == shared_counter + 1
  <2>1. pc[t] = "store" /\ Shape(t) /\ shared_counter \in Nat /\ v \in Nat
    BY <1>4 DEF StoreCounter, IInv, TypeOK
  <2>2. buf[t] = <<>> /\ reg[t] = shared_counter
    BY <2>1 DEF Shape
  <2>3. /\ buf' = [buf EXCEPT ![t] = Append(buf[t], CounterStore(v))]
        /\ pc' = [pc EXCEPT ![t] = "unlock"]
        /\ UNCHANGED <<shared_counter, i>>
    BY <1>4, <2>2 DEF StoreCounter, Write, Goto, CounterStore
  <2>4. /\ buf'[t] = <<CounterStore(v)>>
        /\ \A u \in Threads \ {t} : buf'[u] = buf[u] /\ buf[u] = <<>>
    <3>1. Owns(t)
      BY <2>1 DEF Owns, InCritical
    <3> QED
      BY <2>2, <2>3, <3>1, OthersEmpty, ShortSequences DEF IInv, TypeOK
  <2>5. Latest = shared_counter
    <3>1. \A u \in Threads \ {t} : Waiting(buf[u]) = {}
      BY <2>4, ShortViews
    <3>2. Latest = View(buf[t], shared_counter)
      BY <3>1, LatestIs DEF Latest
    <3> QED
      BY <2>2, <3>2, ShortViews
  <2>6. Latest' = v
    <3>1. \A u \in Threads \ {t} : Waiting(buf'[u]) = {}
      BY <2>1, <2>4, ShortViews
    <3>2. Latest' = View(buf'[t], shared_counter')
      BY <3>1, LatestIs DEF Latest
    <3> QED
      BY <2>1, <2>4, <3>2, ShortViews
  <2>7. i[t] \in 0 .. kMaxCount - 1
    BY <2>1, SpinLockAssumption DEF IInv, TypeOK, InCritical
  <2>8. Left[t] > 0
    BY <2>1, <2>7, SpinLockAssumption DEF Left
  <2>9. Left' = [Left EXCEPT ![t] = @ - 1]
    BY <2>1, <2>3, <2>7, SpinLockAssumption DEF Left, IInv, TypeOK
  <2> QED
    BY <2>5, <2>6, <2>8, <2>9 DEF Counter!Inc
<1>5. ASSUME NEW t \in Threads, ReleaseLock(t)
      PROVE  UNCHANGED <<Latest, Left>>
  <2>1. /\ pc[t] = "unlock" /\ Shape(t)
        /\ buf' = [buf EXCEPT ![t] = Append(buf[t], FlagStore)]
        /\ pc' = [pc EXCEPT ![t] = "lock"]
        /\ i' = [i EXCEPT ![t] = @ + 1]
        /\ UNCHANGED shared_counter
    BY <1>5 DEF ReleaseLock, Write, Goto, FlagStore, IInv
  <2>2. Left' = Left
    <3>1. i[t] \in 0 .. kMaxCount - 1
      BY <2>1, SpinLockAssumption DEF IInv, TypeOK, InCritical
    <3>2. (kMaxCount - i[t]) - 1 = kMaxCount - (i[t] + 1)
      BY <3>1, SpinLockAssumption
    <3>3. \A u \in Threads : u # t => pc'[u] = pc[u] /\ i'[u] = i[u]
      BY <2>1 DEF IInv, TypeOK
    <3>4. pc'[t] = "lock" /\ i'[t] = i[t] + 1
      BY <2>1 DEF IInv, TypeOK
    <3> QED
      BY <2>1, <3>2, <3>3, <3>4 DEF Left
  <2>3. /\ buf'[t] = Append(buf[t], FlagStore)
        /\ \A u \in Threads \ {t} : buf'[u] = buf[u] /\ buf[u] = <<>>
    <3>1. Owns(t)
      BY <2>1 DEF Owns, InCritical
    <3> QED
      BY <2>1, <3>1, OthersEmpty DEF IInv, TypeOK
  <2>4. \A u \in Threads \ {t} : Waiting(buf[u]) = {} /\ Waiting(buf'[u]) = {}
    BY <2>3, ShortViews
  <2>5. Latest = View(buf[t], shared_counter)
    BY <2>4, LatestIs DEF Latest
  <2>6. Latest' = View(buf'[t], shared_counter)
    BY <2>1, <2>4, LatestIs DEF Latest
  <2>7. CASE buf[t] = <<>>
    <3>1. buf'[t] = <<FlagStore>>
      BY <2>3, <2>7, ShortSequences
    <3>2. View(buf'[t], shared_counter) = shared_counter
      BY <3>1, ShortViews DEF View
    <3> QED
      BY <2>2, <2>5, <2>6, <2>7, <3>2, ShortViews
  <2>8. ASSUME NEW v \in Nat, buf[t] = <<CounterStore(v)>>
        PROVE  UNCHANGED <<Latest, Left>>
    <3>1. buf'[t] = <<CounterStore(v), FlagStore>>
      BY <2>3, <2>8, StoreBuffers
    <3> QED
      BY <2>2, <2>5, <2>6, <2>8, <3>1, ShortViews
  <2> QED
    BY <2>1, <2>7, <2>8 DEF Shape
<1>6. ASSUME NEW t \in Threads, Drain(t)
      PROVE  UNCHANGED <<Latest, Left>>
  <2>1. /\ buf[t] # <<>> /\ Shape(t)
        /\ buf' = [buf EXCEPT ![t] = Tail(buf[t])]
        /\ shared_counter' = IF Head(buf[t]).addr = "counter"
                             THEN Head(buf[t]).val ELSE shared_counter
        /\ UNCHANGED <<pc, i>>
    BY <1>6 DEF Drain, IInv
  <2>2. Left' = Left
    BY <2>1 DEF Left
  <2>3. /\ buf'[t] = Tail(buf[t])
        /\ \A u \in Threads \ {t} : buf'[u] = buf[u] /\ buf[u] = <<>>
    <3>1. Owns(t)
      BY <2>1 DEF Owns
    <3> QED
      BY <2>1, <3>1, OthersEmpty DEF IInv, TypeOK
  <2>4. \A u \in Threads \ {t} : Waiting(buf[u]) = {} /\ Waiting(buf'[u]) = {}
    BY <2>3, ShortViews
  <2>5. Latest = View(buf[t], shared_counter)
    BY <2>4, LatestIs DEF Latest
  <2>6. Latest' = View(buf'[t], shared_counter')
    BY <2>4, LatestIs DEF Latest
  <2>7. CASE buf[t] = <<FlagStore>>
    <3>1. buf'[t] = <<>> /\ shared_counter' = shared_counter
      BY <2>1, <2>3, <2>7, ShortSequences DEF FlagStore, Store
    <3>2. View(buf[t], shared_counter) = shared_counter
      BY <2>7, ShortViews DEF View
    <3> QED
      BY <2>2, <2>5, <2>6, <3>1, <3>2, ShortViews
  <2>8. ASSUME NEW v \in Nat, \/ buf[t] = <<CounterStore(v), FlagStore>>
                              \/ buf[t] = <<CounterStore(v)>>
        PROVE  UNCHANGED <<Latest, Left>>
    <3>1. shared_counter' = v
      BY <2>1, <2>8, ShortSequences DEF CounterStore, Store
    <3>2. buf'[t] = <<>> \/ buf'[t] = <<FlagStore>>
      BY <2>3, <2>8, StoreBuffers
    <3>3. View(buf'[t], shared_counter') = v
      BY <3>1, <3>2, ShortViews DEF View
    <3>4. View(buf[t], shared_counter) = v
      <4>1. /\ View(<<CounterStore(v)>>, shared_counter) = v
            /\ View(<<CounterStore(v), FlagStore>>, shared_counter) = v
        BY ShortViews
      <4> QED
        BY <2>8, <4>1
    <3> QED
      BY <2>2, <2>5, <2>6, <3>3, <3>4
  <2> QED
    BY <2>1, <2>7, <2>8 DEF Shape
<1> QED
  BY <1>1, <1>2, <1>3, <1>4, <1>5, <1>6, SpinStutters DEF Next, Step, Counter!Next

(* Under the lock ++shared_counter is one indivisible step: the threads    *)
(* implement the atomic counter (test/test_mutex.cpp lines 30-48).         *)
THEOREM SpinLockRefines == Spec => IsAtomicCounter
<1>1. Init => Counter!Init
  <2> SUFFICES ASSUME Init PROVE Counter!Init
    OBVIOUS
  <2>1. \A t \in Threads : Waiting(buf[t]) = {}
    BY ShortViews DEF Init
  <2>2. Latest = 0
    BY <2>1 DEF Latest, LatestOf, Init
  <2>3. Left = [t \in Threads |-> kMaxCount]
    BY SpinLockAssumption DEF Left, Init
  <2> QED
    BY <2>2, <2>3 DEF Counter!Init
<1>2. IInv /\ [Next]_vars => [Counter!Next]_<<Latest, Left>>
  BY StepRefines
<1> QED
  BY <1>1, <1>2, InvariantHolds, PTL DEF Spec, IsAtomicCounter, Counter!Spec

-----------------------------------------------------------------------------
(* The increments that have been made when the threads have l left.        *)
Made(l) == {p \in Threads \X (1 .. kMaxCount) : p[2] > l[p[1]]}
Counted == Latest = Cardinality(Made(Left))

(* An increment of t is one more of them.                                  *)
LEMMA MadeGrows ==
  ASSUME IsFiniteSet(Threads), NEW l \in [Threads -> 0 .. kMaxCount],
         NEW t \in Threads, l[t] > 0
  PROVE  /\ Cardinality(Made(l)) \in Nat
         /\ Cardinality(Made([l EXCEPT ![t] = @ - 1])) = Cardinality(Made(l)) + 1
<1> DEFINE m == [l EXCEPT ![t] = @ - 1]
           p == <<t, l[t]>>
<1>1. kMaxCount \in Nat /\ l[t] \in 1 .. kMaxCount
  BY SpinLockAssumption
<1>2. m[t] = l[t] - 1 /\ \A u \in Threads : u # t => m[u] = l[u]
  OBVIOUS
<1>3. IsFiniteSet(Made(l))
  <2>1. IsFiniteSet(1 .. kMaxCount)
    BY <1>1, FS_Interval
  <2>2. IsFiniteSet(Threads \X (1 .. kMaxCount))
    BY <2>1, FS_Product
  <2> QED BY <2>2, FS_Subset DEF Made
<1>4. p \notin Made(l)
  BY <1>1 DEF Made
<1>5. Made(m) = Made(l) \cup {p}
  <2> HIDE DEF m
  <2>1. ASSUME NEW u \in Threads, NEW k \in 1 .. kMaxCount
        PROVE  k > m[u] <=> k > l[u] \/ <<u, k>> = p
    <3>1. CASE u = t
      BY <1>1, <1>2, <3>1
    <3>2. CASE u # t
      BY <1>2, <3>2
    <3> QED BY <3>1, <3>2
  <2>2. p \in Threads \X (1 .. kMaxCount)
    BY <1>1
  <2> HIDE DEF p
  <2> QED BY <2>1, <2>2 DEF Made
<1> HIDE DEF m, p
<1>6. Cardinality(Made(m)) = Cardinality(Made(l)) + 1
  BY <1>3, <1>4, <1>5, FS_AddElement
<1> QED
  BY <1>3, <1>6, FS_CardinalityType DEF m

(* What the threads have left is within the bounds.                        *)
LEMMA LeftType == IInv => Left \in [Threads -> 0 .. kMaxCount]
<1> SUFFICES ASSUME IInv, NEW t \in Threads
             PROVE  (IF pc[t] = "unlock" THEN (kMaxCount - i[t]) - 1
                                         ELSE kMaxCount - i[t]) \in 0 .. kMaxCount
  BY DEF Left
<1>1. i[t] \in 0 .. kMaxCount /\ kMaxCount \in Nat /\ (pc[t] = "unlock" => i[t] < kMaxCount)
  BY SpinLockAssumption DEF IInv, TypeOK, InCritical
<1> QED BY <1>1

(* Nothing is counted at first,                                            *)
LEMMA CountedInit == IsFiniteSet(Threads) /\ Counter!Init => Counted
<1> SUFFICES ASSUME Counter!Init PROVE Counted
  OBVIOUS
<1>1. Latest = 0 /\ Left = [t \in Threads |-> kMaxCount]
  BY DEF Counter!Init
<1>2. Made(Left) = {}
  BY <1>1, SpinLockAssumption DEF Made
<1> QED BY <1>1, <1>2, FS_EmptySet DEF Counted

(* and each increment is counted once.                                     *)
LEMMA CountedNext ==
  ASSUME IsFiniteSet(Threads), IInv, Counted, [Counter!Next]_<<Latest, Left>>
  PROVE  Counted'
<1>1. CASE UNCHANGED <<Latest, Left>>
  BY <1>1 DEF Counted, Made
<1>2. ASSUME NEW t \in Threads, Counter!Inc(t) PROVE Counted'
  <2>1. /\ Left[t] > 0 /\ Latest' = Latest + 1
        /\ Left' = [Left EXCEPT ![t] = @ - 1]
    BY <1>2 DEF Counter!Inc
  <2>2. Cardinality(Made(Left')) = Cardinality(Made(Left)) + 1
    BY <2>1, LeftType, MadeGrows
  <2>3. Made(Left)' = Made(Left')
    BY DEF Made
  <2> QED BY <2>1, <2>2, <2>3 DEF Counted
<1> QED BY <1>1, <1>2 DEF Counter!Next

(* The assertion at the end of the test, for every number of threads: when *)
(* all are through, the counter in memory is what they have added up to    *)
(* (test/test_mutex.cpp 47).                                               *)
THEOREM TestAsserts ==
  IsFiniteSet(Threads) /\ Spec =>
    [](Done => shared_counter = Cardinality(Threads) * kMaxCount)
<1> SUFFICES ASSUME IsFiniteSet(Threads)
             PROVE  Spec => [](Done => shared_counter = Cardinality(Threads) * kMaxCount)
  OBVIOUS
<1>1. IInv /\ Counted => (Done => shared_counter = Cardinality(Threads) * kMaxCount)
  <2> SUFFICES ASSUME IInv, Counted, Done
               PROVE  shared_counter = Cardinality(Threads) * kMaxCount
    OBVIOUS
  <2>1. \A t \in Threads : Waiting(buf[t]) = {}
    BY ShortViews DEF Done
  <2>2. Latest = shared_counter
    BY <2>1 DEF Latest, LatestOf
  <2>3. \A t \in Threads : Left[t] = 0
    BY SpinLockAssumption DEF Left, Done, IInv, InCritical
  <2>4. Made(Left) = Threads \X (1 .. kMaxCount)
    BY <2>3, SpinLockAssumption DEF Made
  <2>5. IsFiniteSet(1 .. kMaxCount) /\ Cardinality(1 .. kMaxCount) = kMaxCount
    BY SpinLockAssumption, FS_Interval
  <2>6. Cardinality(Made(Left)) = Cardinality(Threads) * kMaxCount
    BY <2>4, <2>5, FS_Product
  <2> QED BY <2>2, <2>6 DEF Counted
<1>2. Counter!Init => Counted
  BY CountedInit
<1>3. IInv /\ Counted /\ [Counter!Next]_<<Latest, Left>> => Counted'
  BY CountedNext
<1> QED
  BY <1>1, <1>2, <1>3, SpinLockRefines, InvariantHolds, PTL DEF IsAtomicCounter, Counter!Spec

(* What lets t take a step: it is under the lock, has a store on its way,  *)
(* or finds the flag clear.                                                *)
Goes(t) ==
  \/ InCritical(t)
  \/ buf[t] # <<>>
  \/ pc[t] = "lock" /\ i[t] < kMaxCount /\ flag = kClear

(* The lock never stays set with nobody to clear it, and the threads never *)
(* all wait for one another: until all are through, one of them can go on  *)
(* (mutex.hpp 22-37).                                                      *)
THEOREM SomebodyGoes == Spec => [](Done \/ \E t \in Threads : Goes(t))
<1>1. IInv => Done \/ \E t \in Threads : Goes(t)
  <2> SUFFICES ASSUME IInv, \A t \in Threads : ~Goes(t) PROVE Done
    OBVIOUS
  <2>1. \A t \in Threads : ~Owns(t)
    BY DEF Goes, Owns
  <2>2. flag = kClear
    BY <2>1 DEF IInv, TypeOK, FlagOK
  <2>3. \A t \in Threads : pc[t] = "lock" /\ i[t] \in 0 .. kMaxCount /\ ~(i[t] < kMaxCount)
    BY <2>2 DEF Goes, InCritical, IInv, TypeOK
  <2> QED BY <2>2, <2>3, SpinLockAssumption DEF Goes, Done
<1> QED
  BY <1>1, InvariantHolds, PTL
=============================================================================
