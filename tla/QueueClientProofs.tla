------------------------- MODULE QueueClientProofs -------------------------
(***************************************************************************)
(* Proofs about queue.hpp for every capacity N and every element type T:   *)
(* an object of static storage, used by one thread of control, is a        *)
(* bounded first-in first-out queue.                                       *)
(***************************************************************************)
EXTENDS QueueClient, ArrayQueueLemmas

(* What the client and the queue know of each other, the inductive         *)
(* invariant: the members are well formed and spell the client's items.    *)
IInv == QueueOK /\ Contents = items

(* The static object: count_ starts from zeroed storage.                   *)
THEOREM InitIInv == StorageCounts = {0} /\ Init => IInv
  BY ConstructEmpty DEF Init, IInv

(* Each operation preserves the invariant, and is a step of the abstract   *)
(* queue or leaves it unchanged.                                           *)
LEMMA NextIInv ==
  ASSUME IInv, [Next]_vars
  PROVE  IInv' /\ [Fifo!Next]_Contents
<1> USE DEF IInv
<1>1. CASE UNCHANGED vars
  BY <1>1 DEF vars, queue, QueueOK, Contents, Slot
<1>2. ASSUME NEW v \in T, ClientPush(v) PROVE IInv' /\ [Fifo!Next]_Contents
  <2>1. PICK err \in Error :
          /\ Push(v, err)
          /\ items' = IF err = kSuccess THEN Append(items, v) ELSE items
    BY <1>2 DEF ClientPush
  <2>2. CASE err = kSuccess
    <3>1. QueueOK' /\ Contents' = Append(Contents, v) /\ count # N
      BY <2>1, <2>2, PushAppends
    <3>2. Len(Contents) < N
      BY <3>1, ContentsShape, QueueAssumption DEF QueueOK
    <3> QED
      BY <2>1, <2>2, <3>1, <3>2 DEF Fifo!Next, Fifo!Put
  <2>3. CASE err # kSuccess
    <3>1. UNCHANGED queue /\ UNCHANGED items
      BY <2>1, <2>3 DEF Push
    <3> QED
      BY <3>1 DEF queue, QueueOK, Contents, Slot
  <2> QED BY <2>2, <2>3
<1>3. CASE ClientPop
  <2>1. PICK err \in Error :
          /\ Pop(err)
          /\ items' = IF err = kSuccess THEN Tail(items) ELSE items
    BY <1>3 DEF ClientPop
  <2>2. CASE err = kSuccess
    <3>1. count # 0 /\ TakeFront(count)
      BY <2>1, <2>2 DEF Pop, kSuccess, kEmpty
    <3>2. QueueOK' /\ Contents' = Tail(Contents)
      BY <3>1, TakeDropsOldest
    <3>3. Contents # <<>>
      BY <3>1, ContentsShape
    <3> QED
      BY <2>1, <2>2, <3>2, <3>3 DEF Fifo!Next, Fifo!Take
  <2>3. CASE err # kSuccess
    <3>1. UNCHANGED queue /\ UNCHANGED items
      BY <2>1, <2>3 DEF Pop
    <3> QED
      BY <3>1 DEF queue, QueueOK, Contents, Slot
  <2> QED BY <2>2, <2>3
<1> QED
  BY <1>1, <1>2, <1>3 DEF Next

(* In a queue constructed in zeroed storage the ring read from read_pos    *)
(* always spells the client's elements, oldest first (queue.hpp 23-63).    *)
THEOREM QueueContents == StorageCounts = {0} /\ Spec => []ContentsAgree
<1>1. IInv /\ [Next]_vars => IInv'
  BY NextIInv
<1>2. IInv => ContentsAgree
  BY DEF IInv, ContentsAgree
<1> QED
  BY <1>1, <1>2, InitIInv, PTL DEF Spec

(* ... the positions stay inside the array and one count apart, and ...    *)
THEOREM QueueType == StorageCounts = {0} /\ Spec => []TypeOK
<1>1. IInv /\ [Next]_vars => IInv'
  BY NextIInv
<1>2. IInv => TypeOK
  BY ContentsShape DEF IInv, TypeOK
<1> QED
  BY <1>1, <1>2, InitIInv, PTL DEF Spec

(* ... Count() is the number of elements the client is owed.               *)
THEOREM QueueCount == StorageCounts = {0} /\ Spec => []CountAgrees
<1>1. IInv /\ [Next]_vars => IInv'
  BY NextIInv
<1>2. IInv => CountAgrees
  BY ContentsShape DEF IInv, CountAgrees, Count
<1> QED
  BY <1>1, <1>2, InitIInv, PTL DEF Spec

(* An ArrayQueue constructed in zeroed storage implements the bounded      *)
(* first-in first-out queue of its capacity: every Push appends to what    *)
(* the ring spells, every Pop drops its head, and a refused call leaves it *)
(* as it was (queue.hpp 23-54).                                            *)
THEOREM QueueRefines == StorageCounts = {0} /\ Spec => IsFifo
<1>1. StorageCounts = {0} /\ Init => Fifo!Init
  BY ConstructEmpty DEF Init, Fifo!Init
<1>2. IInv /\ [Next]_vars => IInv' /\ [Fifo!Next]_Contents
  BY NextIInv
<1> QED
  BY <1>1, <1>2, InitIInv, PTL DEF Spec, IsFifo, Fifo!Spec
=============================================================================
