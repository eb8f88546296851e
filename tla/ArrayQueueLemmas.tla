-------------------------- MODULE ArrayQueueLemmas --------------------------
(***************************************************************************)
(* What the operations of queue.hpp do to the contents of the ring, for    *)
(* every capacity N and every element type T.                              *)
(***************************************************************************)
EXTENDS ArrayQueue, SequenceTheorems, TLAPS

(* The length and the elements of the contents.                            *)
LEMMA ContentsShape ==
  ASSUME QueueOK
  PROVE  /\ Contents \in Seq(T)
         /\ Len(Contents) = count
         /\ \A k \in 1 .. count : Contents[k] = data[Slot(k)]
<1>1. count \in Nat
  BY QueueAssumption DEF QueueOK
<1>2. \A k \in 1 .. count : Slot(k) \in Slots
  BY QueueAssumption DEF QueueOK, Slot, Slots
<1>3. \A k \in 1 .. count : data[Slot(k)] \in T
  BY <1>2 DEF QueueOK
<1> QED
  BY <1>1, <1>3 DEF Contents

(* Construction in zeroed storage gives a well-formed, empty queue.        *)
LEMMA ConstructEmpty ==
  ASSUME Construct, StorageCounts = {0}
  PROVE  QueueOK /\ Contents = <<>>
<1>1. QueueOK
  BY QueueAssumption DEF Construct, QueueOK, Slots
<1>2. Len(Contents) = 0 /\ Contents \in Seq(T)
  BY <1>1, ContentsShape DEF Construct
<1> QED
  BY <1>1, <1>2

(* A successful Push keeps the queue well formed and appends the value to  *)
(* its contents; no element already inside moves or changes.               *)
LEMMA PushAppends ==
  ASSUME QueueOK, NEW v \in T, Push(v, kSuccess)
  PROVE  QueueOK' /\ Contents' = Append(Contents, v) /\ count # N
<1>1. /\ count # N
      /\ data' = [data EXCEPT ![write_pos] = v]
      /\ count' = Increment(count)
      /\ write_pos' = Next_pos(write_pos)
      /\ read_pos' = read_pos
  BY DEF Push, kSuccess, kFull
<1>2. /\ N \in Nat \ {0} /\ count \in 0 .. N - 1 /\ count' = count + 1
      /\ count' \in 0 .. N /\ read_pos \in 0 .. N - 1
  BY <1>1, QueueAssumption DEF QueueOK, Increment, Slots
<1>3. write_pos \in Slots
  BY <1>2 DEF QueueOK, Slots
<1>4. data' \in [Slots -> T]
  BY <1>1, <1>3 DEF QueueOK
<1>5. write_pos' = IF read_pos + count' < N THEN read_pos + count'
                                            ELSE read_pos + count' - N
  BY <1>1, <1>2 DEF QueueOK, Next_pos
<1>6. QueueOK'
  BY <1>1, <1>2, <1>4, <1>5 DEF QueueOK, Slots
<1>7. \A k \in 1 .. count : Slot(k)' = Slot(k) /\ Slot(k) # write_pos
  BY <1>1, <1>2 DEF Slot, QueueOK
<1>8. \A k \in Nat : k = count' => Slot(k)' = write_pos
  BY <1>1, <1>2 DEF Slot, QueueOK
<1>9. /\ Contents \in Seq(T)
      /\ Len(Contents) = count
      /\ \A k \in 1 .. count : Contents[k] = data[Slot(k)]
  BY ContentsShape
<1>10. \A k \in 1 .. count : Slot(k) \in Slots
  BY <1>2 DEF Slot, Slots
<1>11. Contents' = [k \in 1 .. count' |-> data'[Slot(k)']]
  BY DEF Contents, Slot
<1>12. \A k \in 1 .. count' : data'[Slot(k)'] = Append(Contents, v)[k]
  <2> TAKE k \in 1 .. count'
  <2>1. CASE k = count'
    BY <2>1, <1>1, <1>2, <1>3, <1>4, <1>8, <1>9 DEF QueueOK
  <2>2. CASE k # count'
    <3>1. k \in 1 .. count
      BY <2>2, <1>2
    <3> QED
      BY <3>1, <1>1, <1>2, <1>7, <1>9, <1>10 DEF QueueOK
  <2> QED BY <2>1, <2>2
<1>13. /\ Append(Contents, v) \in Seq(T)
       /\ Len(Append(Contents, v)) = count'
  BY <1>2, <1>9
<1>14. /\ Contents' \in Seq(T)
       /\ Len(Contents') = count'
       /\ \A k \in 1 .. count' : Contents'[k] = Append(Contents, v)[k]
  <2>1. \A k \in 1 .. count' : data'[Slot(k)'] \in T
    BY <1>12, <1>13, ElementOfSeq
  <2>2. count' \in Nat
    BY <1>2
  <2>3. Contents' \in Seq(T) /\ Len(Contents') = count'
    BY <1>11, <2>1, <2>2
  <2> QED BY <1>11, <1>12, <2>3
<1>15. Contents' = Append(Contents, v)
  BY <1>13, <1>14, SeqEqual
<1> QED
  BY <1>1, <1>6, <1>15

(* Pop, once it has read the right element count, keeps the queue well     *)
(* formed and drops the oldest element.                                    *)
LEMMA TakeDropsOldest ==
  ASSUME QueueOK, count # 0, TakeFront(count)
  PROVE  QueueOK' /\ Contents' = Tail(Contents) /\ Front = Head(Contents)
<1>1. /\ count' = count - 1
      /\ read_pos' = Next_pos(read_pos)
      /\ data' = data
      /\ write_pos' = write_pos
  BY DEF TakeFront
<1>2. /\ N \in Nat \ {0} /\ count \in 1 .. N /\ count' \in 0 .. N - 1
      /\ read_pos \in 0 .. N - 1
  BY <1>1, QueueAssumption DEF QueueOK, Slots
<1>3. read_pos' \in Slots
  BY <1>1, <1>2 DEF Next_pos, Slots
<1>4. write_pos' = IF read_pos' + count' < N THEN read_pos' + count'
                                             ELSE read_pos' + count' - N
  BY <1>1, <1>2 DEF QueueOK, Next_pos
<1>5. QueueOK'
  BY <1>1, <1>2, <1>3, <1>4 DEF QueueOK
<1>6. \A k \in 1 .. count' : Slot(k)' = Slot(k + 1)
  BY <1>1, <1>2 DEF Slot, Next_pos
<1>7. /\ Contents \in Seq(T)
      /\ Len(Contents) = count
      /\ \A k \in 1 .. count : Contents[k] = data[Slot(k)]
  BY ContentsShape
<1>8. Contents' = [k \in 1 .. count' |-> data'[Slot(k)']]
  BY DEF Contents, Slot
<1>9. /\ Tail(Contents) \in Seq(T)
      /\ Len(Tail(Contents)) = count'
      /\ \A k \in 1 .. count' : Tail(Contents)[k] = Contents[k + 1]
  <2>1. Contents # <<>>
    BY <1>2, <1>7
  <2> QED BY <1>1, <1>2, <1>7, <2>1, HeadTailProperties
<1>10. \A k \in 1 .. count' : data'[Slot(k)'] = Contents[k + 1]
  BY <1>1, <1>2, <1>6, <1>7
<1>11. Front = Head(Contents)
  <2>1. Slot(1) = read_pos
    BY <1>2 DEF Slot
  <2> QED
    BY <2>1, <1>2, <1>7 DEF Front
<1>12. /\ Contents' \in Seq(T)
       /\ Len(Contents') = count'
       /\ \A k \in 1 .. count' : Contents'[k] = Tail(Contents)[k]
  <2>1. \A k \in 1 .. count' : data'[Slot(k)'] \in T
    BY <1>9, <1>10, ElementOfSeq
  <2> QED BY <1>2, <1>8, <1>9, <1>10, <2>1
<1>13. Contents' = Tail(Contents)
  BY <1>9, <1>12, SeqEqual
<1> QED
  BY <1>5, <1>11, <1>13
=============================================================================
