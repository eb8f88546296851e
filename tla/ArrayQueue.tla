----------------------------- MODULE ArrayQueue -----------------------------
(***************************************************************************)
(* bitnos::ArrayQueue<T, N> of queue.hpp: a ring of N slots.  read_pos is  *)
(* the slot of the oldest element, write_pos a blank slot, count the       *)
(* number of elements.  The operations are action predicates over the      *)
(* members; err is the Error the C++ method returns.                       *)
(***************************************************************************)
EXTENDS Naturals, Sequences

CONSTANTS
  N,             (* the capacity, a template argument                       *)
  T,             (* the element values, the other template argument         *)
  SizeT,         (* 2^(width of size_t): ++count_ wraps here                *)
  StorageCounts  (* what count_ may hold after construction; see Construct  *)

ASSUME QueueAssumption ==
  /\ N \in Nat \ {0}
  /\ SizeT \in Nat
  /\ N < SizeT
  /\ StorageCounts # {}
  /\ StorageCounts \subseteq 0 .. SizeT - 1

VARIABLES data, read_pos, write_pos, count

queue == <<data, read_pos, write_pos, count>>

kSuccess == 0
kFull == 2
kEmpty == 3
Error == {kSuccess, kFull, kEmpty}

Slots == 0 .. N - 1

(* The constructor initialises the two positions and nothing else.  count_ *)
(* and data_ keep what their storage held: zero in an object of static     *)
(* storage (StorageCounts = {0}), anything in any other object.            *)
Construct ==
  /\ data \in [Slots -> T]
  /\ read_pos = 0
  /\ write_pos = 0
  /\ count \in StorageCounts

(* Mutant: the wrap is tested before the increment.                        *)
Next_posLate(p) == IF p = N THEN 0 ELSE p + 1

(* A position is incremented and compared with N.                          *)
Next_pos(p) == IF p + 1 = N THEN 0 ELSE p + 1

Increment(n) == IF n + 1 = SizeT THEN 0 ELSE n + 1

Count == count

Front == data[read_pos]

(* Mutant: the element is stored after write_pos moved on.                 *)
PushAfterMove(value, err) ==
  \/ /\ count = N
     /\ err = kFull
     /\ UNCHANGED queue
  \/ /\ count # N
     /\ err = kSuccess
     /\ data' = [data EXCEPT ![Next_pos(write_pos)] = value]
     /\ count' = Increment(count)
     /\ write_pos' = Next_pos(write_pos)
     /\ UNCHANGED read_pos

Push(value, err) ==
  \/ /\ count = N
     /\ err = kFull
     /\ UNCHANGED queue
  \/ /\ count # N
     /\ err = kSuccess
     /\ data' = [data EXCEPT ![write_pos] = value]
     /\ count' = Increment(count)
     /\ write_pos' = Next_pos(write_pos)
     /\ UNCHANGED read_pos

(* What Pop does once it has found the queue not empty.  loaded is the     *)
(* value the decrement of count_ read; in a sequential Pop it is count.    *)
TakeFront(loaded) ==
  /\ count' = loaded - 1
  /\ read_pos' = Next_pos(read_pos)
  /\ UNCHANGED <<data, write_pos>>

Pop(err) ==
  \/ /\ count = 0
     /\ err = kEmpty
     /\ UNCHANGED queue
  \/ /\ count # 0
     /\ err = kSuccess
     /\ TakeFront(count)

-----------------------------------------------------------------------------
(* The slot of the k-th oldest element, and the contents they spell.       *)
Slot(k) == IF read_pos + k - 1 < N THEN read_pos + k - 1
                                   ELSE read_pos + k - 1 - N

Contents == [k \in 1 .. count |-> data[Slot(k)]]

(* The members have the values the class relies on: positions inside the   *)
(* array, and write_pos exactly count slots after read_pos (queue.hpp      *)
(* lines 14 to 17).                                                        *)
QueueOK ==
  /\ data \in [Slots -> T]
  /\ read_pos \in Slots
  /\ count \in 0 .. N
  /\ write_pos = IF read_pos + count < N THEN read_pos + count
                                         ELSE read_pos + count - N
=============================================================================
