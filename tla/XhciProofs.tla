----------------------------- MODULE XhciProofs -----------------------------
(* The event ring, the command xhci and the start of the kernel, for any   *)
(* number and size of segments and any number of slots: first what the     *)
(* cycle bits say and where the events that wait are; then which command   *)
(* is pending, what the interrupt controller is set to, and where the      *)
(* start of the kernel and the controller are when one waits for the other.*)
EXTENDS Boot, SequenceTheorems, FiniteSetTheorems, TLAPS

(* The entries from s up to e, over the end of the ring if s is behind e.  *)
InArc(p, s, e) ==
  IF Before(e, s) THEN ~Before(p, s) \/ Before(p, e)
                  ELSE ~Before(p, s) /\ Before(p, e)

(* Where the Manager begins to read: before ERDP is written, where it will *)
(* be.                                                                     *)
Start == IF pc = "dequeue" THEN Base ELSE ERDP

(* The queue q lies in the entries cells of m, from s on up to e.          *)
Chain(cells, q, s, e, m) ==
  /\ Len(cells) = Len(q) + 1
  /\ cells[1] = s /\ cells[Len(cells)] = e
  /\ \A i \in 1 .. Len(q) :
       /\ cells[i + 1] = Succ(cells[i])
       /\ InArc(cells[i], s, e)
       /\ m[cells[i]].event = q[i]

(* The events that wait are in the entries from Start on, in their order.  *)
Chained == \E cells \in Seq(Pointer) : Chain(cells, queue, Start, enqueue, mem)

(* What the cycle bits say, phase by phase.                                *)
Bits ==
  /\ \A p \in Pointer : Before(p, enqueue) => mem[p].cycle_bit = cycle
  /\ pc = "clear" =>
       \A p \in Pointer : ~Before(p, enqueue) /\ Before(p, cleared) => mem[p].cycle_bit = 0
  /\ pc = "ready" =>
       \A p \in Pointer : ~Before(p, enqueue) => mem[p].cycle_bit = 1 - cycle

(* The two cycle states differ while the controller is a turn ahead.       *)
Turns ==
  /\ pc \in {"dequeue", "clear"} => cycle = 1 /\ producer_cycle = 1
  /\ pc = "dequeue" => ERDP = Base \/ Before(enqueue, ERDP)
  /\ pc = "ready" => producer_cycle = IF Before(enqueue, ERDP) THEN 1 - cycle ELSE cycle

Index ==
  /\ pc = "dequeue" => erst_index = 0
  /\ pc \in {"clear", "ready"} => erst_index = ERDP[1]
  /\ pc = "clear" => ERDP = Base

Inv ==
  /\ TypeOK
  /\ Index
  /\ pc # "none" /\ ~wiped => Bits /\ Turns /\ Chained

-----------------------------------------------------------------------------
LEMMA PointerIs ==
  ASSUME NEW p
  PROVE  p \in Pointer <=>
           \E s \in 0 .. erst_size - 1 : \E k \in 0 .. SegmentSize[s] - 1 : p = <<s, k>>
  BY EventRingAssumption DEF Pointer

LEMMA PointerParts ==
  ASSUME NEW p \in Pointer
  PROVE  /\ p[1] \in Nat /\ p[1] < erst_size /\ p[2] \in Nat /\ p[2] < SegmentSize[p[1]]
         /\ SegmentSize[p[1]] \in Nat /\ p = <<p[1], p[2]>>
<1>1. PICK s \in 0 .. erst_size - 1 : \E k \in 0 .. SegmentSize[s] - 1 : p = <<s, k>>
  BY PointerIs
<1>2. PICK k \in 0 .. SegmentSize[s] - 1 : p = <<s, k>>
  BY <1>1
<1>3. SegmentSize[s] \in Nat /\ erst_size \in Nat
  BY EventRingAssumption
<1> QED
  BY <1>2, <1>3

LEMMA BaseIsPointer == Base \in Pointer
<1>1. 0 \in 0 .. erst_size - 1 /\ 0 \in 0 .. SegmentSize[0] - 1
  BY EventRingAssumption
<1> QED
  BY <1>1, PointerIs DEF Base

LEMMA SuccIsPointer ==
  ASSUME NEW p \in Pointer
  PROVE  Succ(p) \in Pointer
<1>1. CASE ~LastOfSegment(p)
  <2>1. p[2] + 1 \in 0 .. SegmentSize[p[1]] - 1 /\ p[1] \in 0 .. erst_size - 1
    BY <1>1, PointerParts, EventRingAssumption DEF LastOfSegment
  <2> QED
    BY <1>1, <2>1, PointerIs DEF Succ
<1>2. CASE LastOfSegment(p) /\ p[1] + 1 < erst_size
  <2>1. p[1] + 1 \in 0 .. erst_size - 1
    BY <1>2, PointerParts, EventRingAssumption
  <2>2. 0 \in 0 .. SegmentSize[p[1] + 1] - 1
    BY <2>1, EventRingAssumption
  <2> QED
    BY <1>2, <2>1, <2>2, PointerIs DEF Succ
<1>3. CASE LastOfSegment(p) /\ ~(p[1] + 1 < erst_size)
  BY <1>3, BaseIsPointer DEF Succ
<1> QED
  BY <1>1, <1>2, <1>3

(* Before is a total order of the entries, and Base is the least.          *)
LEMMA Order ==
  /\ \A p, q \in Pointer : Before(p, q) \/ p = q \/ Before(q, p)
  /\ \A p, q \in Pointer : ~(Before(p, q) /\ Before(q, p))
  /\ \A p \in Pointer : ~Before(p, p) /\ ~Before(p, Base)
  /\ \A p, q, r \in Pointer : Before(p, q) /\ Before(q, r) => Before(p, r)
<1>1. ASSUME NEW p \in Pointer, NEW q \in Pointer
      PROVE  /\ Before(p, q) \/ p = q \/ Before(q, p)
             /\ ~(Before(p, q) /\ Before(q, p))
  BY <1>1, PointerParts DEF Before
<1>2. ASSUME NEW p \in Pointer
      PROVE  ~Before(p, p) /\ ~Before(p, Base)
  BY <1>2, PointerParts DEF Before, Base
<1>3. ASSUME NEW p \in Pointer, NEW q \in Pointer, NEW r \in Pointer,
             Before(p, q), Before(q, r)
      PROVE  Before(p, r)
  BY <1>3, PointerParts DEF Before
<1> QED
  BY <1>1, <1>2, <1>3

(* The successor of an entry is the next one, or Base after the last.      *)
LEMMA SuccOrder ==
  ASSUME NEW p \in Pointer
  PROVE  \/ /\ Succ(p) = Base
            /\ \A q \in Pointer : q = p \/ Before(q, p)
         \/ /\ Succ(p) # Base
            /\ \A q \in Pointer : Before(q, Succ(p)) <=> q = p \/ Before(q, p)
<1>0. /\ p[1] \in Nat /\ p[1] < erst_size /\ p[2] \in Nat /\ p[2] < SegmentSize[p[1]]
      /\ SegmentSize[p[1]] \in Nat /\ p = <<p[1], p[2]>> /\ erst_size \in Nat
  BY PointerParts, EventRingAssumption
<1>1. CASE ~LastOfSegment(p)
  <2>1. Succ(p) = <<p[1], p[2] + 1>>
    BY <1>1 DEF Succ
  <2>2. Succ(p) # Base
    BY <2>1, <1>0 DEF Base
  <2>3. ASSUME NEW q \in Pointer
        PROVE  Before(q, Succ(p)) <=> q = p \/ Before(q, p)
    BY <2>1, <1>0, PointerParts DEF Before
  <2> QED
    BY <2>2, <2>3
<1>2. CASE LastOfSegment(p) /\ p[1] + 1 < erst_size
  <2>1. Succ(p) = <<p[1] + 1, 0>>
    BY <1>2 DEF Succ
  <2>2. Succ(p) # Base
    BY <2>1, <1>0 DEF Base
  <2>3. ASSUME NEW q \in Pointer
        PROVE  Before(q, Succ(p)) <=> q = p \/ Before(q, p)
    <3>1. /\ q[1] \in Nat /\ q[2] \in Nat /\ q = <<q[1], q[2]>>
          /\ q[2] < SegmentSize[q[1]]
      BY PointerParts
    <3>2. q[1] = p[1] => q[2] <= p[2]
      BY <1>0, <1>2, <3>1 DEF LastOfSegment
    <3> QED
      BY <2>1, <1>0, <3>1, <3>2 DEF Before
  <2> QED
    BY <2>2, <2>3
<1>3. CASE LastOfSegment(p) /\ ~(p[1] + 1 < erst_size)
  <2>1. Succ(p) = Base
    BY <1>3 DEF Succ
  <2>2. ASSUME NEW q \in Pointer
        PROVE  q = p \/ Before(q, p)
    <3>1. /\ q[1] \in Nat /\ q[2] \in Nat /\ q = <<q[1], q[2]>>
          /\ q[2] < SegmentSize[q[1]] /\ q[1] < erst_size
      BY PointerParts
    <3>2. q[1] = p[1] => q[2] <= p[2]
      BY <1>0, <1>3, <3>1 DEF LastOfSegment
    <3> QED
      BY <1>0, <1>3, <3>1, <3>2 DEF Before
  <2> QED
    BY <2>1, <2>2
<1> QED
  BY <1>1, <1>2, <1>3

LEMMA ArcGrows ==
  ASSUME NEW s \in Pointer, NEW e \in Pointer, NEW p \in Pointer,
         Succ(e) # s, InArc(p, s, e) \/ p = e
  PROVE  InArc(p, s, Succ(e))
<1>1. Succ(e) \in Pointer
  BY SuccIsPointer
<1>2. CASE Succ(e) = Base /\ \A q \in Pointer : q = e \/ Before(q, e)
  BY <1>1, <1>2, Order, BaseIsPointer DEF InArc
<1>3. CASE \A q \in Pointer : Before(q, Succ(e)) <=> q = e \/ Before(q, e)
  BY <1>1, <1>3, Order DEF InArc
<1> QED
  BY <1>2, <1>3, SuccOrder

LEMMA ArcShrinks ==
  ASSUME NEW s \in Pointer, NEW e \in Pointer, NEW p \in Pointer,
         InArc(p, s, e), p # s
  PROVE  InArc(p, Succ(s), e)
<1>1. Succ(s) \in Pointer
  BY SuccIsPointer
<1>2. CASE Succ(s) = Base /\ \A q \in Pointer : q = s \/ Before(q, s)
  BY <1>1, <1>2, Order, BaseIsPointer DEF InArc
<1>3. CASE \A q \in Pointer : Before(q, Succ(s)) <=> q = s \/ Before(q, s)
  BY <1>1, <1>3, Order DEF InArc
<1> QED
  BY <1>2, <1>3, SuccOrder

(* The arc does not reach around to its own beginning, nor to its end.     *)
LEMMA ArcOpen ==
  ASSUME NEW s \in Pointer, NEW e \in Pointer, NEW p \in Pointer, InArc(p, s, e)
  PROVE  s # e /\ p # e /\ Succ(p) # s
<1>1. s # e /\ p # e
  BY Order DEF InArc
<1>2. CASE Succ(p) = Base /\ \A q \in Pointer : q = p \/ Before(q, p)
  BY <1>1, <1>2, Order, BaseIsPointer DEF InArc
<1>3. CASE \A q \in Pointer : Before(q, Succ(p)) <=> q = p \/ Before(q, p)
  BY <1>1, <1>3, Order DEF InArc
<1> QED
  BY <1>1, <1>2, <1>3, SuccOrder

-----------------------------------------------------------------------------
LEMMA InvInit == Init => Inv
<1> SUFFICES ASSUME Init PROVE Inv
  OBVIOUS
<1>1. mem \in [Pointer -> TRB]
  BY DEF Init, TRB
<1>2. queue \in Seq(Event) /\ 0 \in 0 .. erst_size - 1
  BY EventRingAssumption DEF Init
<1>3. TypeOK
  BY <1>1, <1>2, BaseIsPointer DEF Init, TypeOK
<1> QED
  BY <1>3 DEF Init, Inv, Index

(* An event appended to the chain.                                         *)
LEMMA ChainPost ==
  ASSUME Inv, NEW e \in Event, Post(e), ~wiped
  PROVE  Chained'
<1>0. /\ pc # "none" /\ Succ(enqueue) # ERDP /\ enqueue' = Succ(enqueue)
      /\ queue' = Append(queue, e) /\ pc' = pc /\ ERDP' = ERDP
      /\ mem' = [mem EXCEPT ![enqueue] = [cycle_bit |-> cycle, event |-> e]]
      /\ TypeOK /\ Turns
  BY DEF Post, Inv
<1>1. PICK cells \in Seq(Pointer) : Chain(cells, queue, Start, enqueue, mem)
  BY <1>0 DEF Inv, Chained
<1> DEFINE n == Len(queue)
           new == Append(cells, Succ(enqueue))
<1>2. /\ queue \in Seq(Event) /\ n \in Nat /\ Len(cells) = n + 1
      /\ enqueue \in Pointer /\ Succ(enqueue) \in Pointer
      /\ mem \in [Pointer -> TRB] /\ ERDP \in Pointer /\ Start \in Pointer
  BY <1>0, <1>1, SuccIsPointer, BaseIsPointer DEF TypeOK, Chain, Start
<1>3. /\ new \in Seq(Pointer) /\ Len(new) = n + 2
      /\ \A i \in 1 .. n + 1 : new[i] = cells[i] /\ cells[i] \in Pointer
      /\ new[n + 2] = Succ(enqueue)
  BY <1>2, AppendProperties
<1>4. /\ Len(queue') = n + 1 /\ queue'[n + 1] = e
      /\ \A i \in 1 .. n : queue'[i] = queue[i]
  BY <1>0, <1>2, AppendProperties
<1>5. Start' = Start /\ Succ(enqueue) # Start
  <2>1. CASE pc = "dequeue"
    <3>1. ERDP = Base \/ Before(enqueue, ERDP)
      BY <1>0, <2>1 DEF Turns
    <3>2. Succ(enqueue) # Base
      BY <3>1, <1>0, <1>2, SuccOrder, Order
    <3> QED
      BY <3>2, <2>1, <1>0 DEF Start
  <2>2. CASE pc # "dequeue"
    BY <2>2, <1>0 DEF Start
  <2> QED
    BY <2>1, <2>2
<1>6. cells[1] = Start /\ cells[n + 1] = enqueue
  BY <1>1, <1>2 DEF Chain
<1>7. ASSUME NEW i \in 1 .. n + 1
      PROVE  /\ new[i + 1] = Succ(new[i])
             /\ InArc(new[i], Start', enqueue')
             /\ mem'[new[i]].event = queue'[i]
  <2>1. CASE i = n + 1
    <3>1. new[i] = enqueue /\ i + 1 = n + 2
      BY <2>1, <1>2, <1>3, <1>6
    <3>2. mem'[enqueue].event = e
      BY <1>0, <1>2
    <3> QED
      BY <2>1, <3>1, <3>2, <1>0, <1>2, <1>3, <1>4, <1>5, ArcGrows
  <2>2. CASE i # n + 1
    <3>1. i \in 1 .. n /\ i + 1 \in 1 .. n + 1
      BY <2>2, <1>2
    <3>2. /\ cells[i + 1] = Succ(cells[i]) /\ InArc(cells[i], Start, enqueue)
          /\ mem[cells[i]].event = queue[i]
      BY <3>1, <1>1 DEF Chain
    <3>3. cells[i] # enqueue
      BY <3>2, <1>2, <1>3, ArcOpen
    <3>4. mem'[cells[i]] = mem[cells[i]]
      BY <3>3, <1>0, <1>2, <1>3
    <3>5. InArc(cells[i], Start, Succ(enqueue))
      BY <3>2, <1>2, <1>3, <1>5, ArcGrows
    <3> QED
      BY <3>1, <3>2, <3>4, <3>5, <1>0, <1>3, <1>4, <1>5
  <2> QED
    BY <2>1, <2>2
<1>8. new[1] = Start' /\ new[Len(new)] = enqueue'
  BY <1>0, <1>2, <1>3, <1>5, <1>6
<1>9. Chain(new, queue', Start', enqueue', mem')
  BY <1>2, <1>3, <1>4, <1>7, <1>8 DEF Chain
<1> QED
  BY <1>3, <1>9 DEF Chained

(* The cycle bits after an event was written.                              *)
LEMMA BitsPost ==
  ASSUME Inv, NEW e \in Event, Post(e), ~wiped
  PROVE  Bits' /\ Turns'
<1>0. /\ pc # "none" /\ Succ(enqueue) # ERDP /\ enqueue' = Succ(enqueue)
      /\ pc' = pc /\ ERDP' = ERDP /\ cleared' = cleared
      /\ producer_cycle' = producer_cycle
      /\ mem' = [mem EXCEPT ![enqueue] = [cycle_bit |-> cycle, event |-> e]]
      /\ cycle' = IF Succ(enqueue) = Base THEN 1 - cycle ELSE cycle
      /\ Turns /\ Bits /\ Index
  BY DEF Post, Inv, manager
<1>1. /\ enqueue \in Pointer /\ Succ(enqueue) \in Pointer /\ ERDP \in Pointer
      /\ cleared \in Pointer /\ mem \in [Pointer -> TRB]
      /\ cycle \in {0, 1} /\ producer_cycle \in {0, 1}
      /\ pc \in {"none", "dequeue", "clear", "ready"}
  BY SuccIsPointer DEF Inv, TypeOK
<1>2. /\ mem'[enqueue].cycle_bit = cycle
      /\ \A p \in Pointer : p # enqueue => mem'[p] = mem[p]
  BY <1>0, <1>1
<1>3. CASE Succ(enqueue) = Base /\ \A q \in Pointer : q = enqueue \/ Before(q, enqueue)
  <2>1. pc = "ready"
    BY <1>0, <1>1, <1>3, Order DEF Turns, Index
  <2>2. \A p \in Pointer : mem'[p].cycle_bit = cycle
    BY <1>0, <1>1, <1>2, <1>3 DEF Bits
  <2>3. cycle' = 1 - cycle /\ 1 - cycle' = cycle
    BY <1>0, <1>1, <1>3
  <2>4. Bits'
    BY <2>1, <2>2, <2>3, <1>0, <1>3, Order DEF Bits
  <2>5. Before(Base, ERDP) /\ ~Before(enqueue, ERDP)
    BY <1>0, <1>1, <1>3, Order, BaseIsPointer
  <2> QED
    BY <2>1, <2>3, <2>4, <2>5, <1>0, <1>3 DEF Turns
<1>4. CASE /\ Succ(enqueue) # Base
           /\ \A q \in Pointer : Before(q, Succ(enqueue)) <=> q = enqueue \/ Before(q, enqueue)
  <2>1. cycle' = cycle
    BY <1>0, <1>4
  <2>2. Bits'
    BY <2>1, <1>0, <1>1, <1>2, <1>4 DEF Bits
  <2>3. Before(enqueue, ERDP) <=> Before(Succ(enqueue), ERDP)
    BY <1>0, <1>1, <1>4, Order
  <2>4. Turns'
    BY <2>1, <2>3, <1>0, <1>4 DEF Turns
  <2> QED
    BY <2>2, <2>4
<1> QED
  BY <1>1, <1>3, <1>4, SuccOrder

(* Pop moves ERDP to the next entry and erst_index to its segment.         *)
LEMMA PopMoves ==
  ASSUME Inv, Pop, pc = "ready"
  PROVE  /\ ERDP' = Succ(ERDP) /\ erst_index' = ERDP'[1]
         /\ producer_cycle' = IF Succ(ERDP) = Base THEN 1 - producer_cycle ELSE producer_cycle
<1>0. ERDP \in Pointer /\ erst_index = ERDP[1] /\ erst_size \in Nat
  BY EventRingAssumption DEF Inv, TypeOK, Index
<1>1. CASE ~LastOfSegment(ERDP)
  BY <1>0, <1>1, PointerParts DEF Pop, Succ, Base, manager
<1>2. CASE LastOfSegment(ERDP)
  BY <1>0, <1>2, PointerParts DEF Pop, Succ, Base
<1> QED
  BY <1>1, <1>2

(* There is a front exactly if the ring has an entry to take.              *)
LEMMA FrontInArc ==
  ASSUME Inv, pc = "ready", ~wiped
  PROVE  /\ HasFront <=> ERDP # enqueue
         /\ HasFront <=> queue # <<>>
         /\ HasFront => Front.event = Head(queue)
<1>0. /\ TypeOK /\ Turns /\ Bits /\ Chained /\ Start = ERDP
      /\ ERDP \in Pointer /\ enqueue \in Pointer /\ cycle \in {0, 1}
      /\ queue \in Seq(Event)
  BY DEF Inv, TypeOK, Start
<1>1. HasFront <=> ERDP # enqueue
  BY <1>0, Order DEF HasFront, Front, Bits, Turns
<1>2. PICK cells \in Seq(Pointer) : Chain(cells, queue, ERDP, enqueue, mem)
  BY <1>0 DEF Chained
<1>3. CASE queue = <<>>
  <2>1. ERDP = enqueue
    BY <1>2, <1>3 DEF Chain
  <2> QED
    BY <1>1, <1>3, <2>1
<1>4. CASE queue # <<>>
  <2>1. Len(queue) \in Nat /\ Len(queue) > 0 /\ 1 \in 1 .. Len(queue)
    BY <1>0, <1>4
  <2>2. InArc(ERDP, ERDP, enqueue) /\ mem[ERDP].event = queue[1]
    BY <1>2, <2>1 DEF Chain
  <2>3. ERDP # enqueue
    BY <2>2, <1>0, ArcOpen
  <2>4. Head(queue) = queue[1]
    BY <1>0, <1>4
  <2> QED
    BY <1>1, <1>4, <2>2, <2>3, <2>4 DEF Front
<1> QED
  BY <1>1, <1>3, <1>4

(* The chain without its first event.                                      *)
LEMMA ChainTake ==
  ASSUME Inv, Take, ~wiped
  PROVE  Chained' /\ Bits' /\ Turns'
<1>0. /\ pc = "ready" /\ HasFront /\ Pop /\ pc' = pc /\ mem' = mem
      /\ enqueue' = enqueue /\ cycle' = cycle /\ cleared' = cleared
      /\ TypeOK /\ Turns /\ Bits /\ Chained /\ Start = ERDP
  BY DEF Take, Inv, Start, controller
<1>1. /\ ERDP' = Succ(ERDP) /\ ERDP # enqueue /\ queue # <<>> /\ queue' = Tail(queue)
      /\ producer_cycle' = IF Succ(ERDP) = Base THEN 1 - producer_cycle ELSE producer_cycle
  BY <1>0, PopMoves, FrontInArc DEF Take
<1>2. /\ ERDP \in Pointer /\ enqueue \in Pointer /\ queue \in Seq(Event)
      /\ cycle \in {0, 1} /\ producer_cycle \in {0, 1} /\ Succ(ERDP) \in Pointer
  BY <1>0, SuccIsPointer DEF TypeOK
<1>3. Bits'
  BY <1>0 DEF Bits
<1>4. Turns'
  <2>1. CASE Succ(ERDP) = Base /\ \A q \in Pointer : q = ERDP \/ Before(q, ERDP)
    <3>1. Before(enqueue, ERDP) /\ ~Before(enqueue, Base)
      BY <2>1, <1>1, <1>2, Order
    <3> QED
      BY <3>1, <2>1, <1>0, <1>1, <1>2 DEF Turns
  <2>2. CASE /\ Succ(ERDP) # Base
             /\ \A q \in Pointer : Before(q, Succ(ERDP)) <=> q = ERDP \/ Before(q, ERDP)
    <3>1. Before(enqueue, Succ(ERDP)) <=> Before(enqueue, ERDP)
      BY <2>2, <1>1, <1>2
    <3> QED
      BY <3>1, <2>2, <1>0, <1>1 DEF Turns
  <2> QED
    BY <2>1, <2>2, <1>2, SuccOrder
<1>5. PICK cells \in Seq(Pointer) : Chain(cells, queue, ERDP, enqueue, mem)
  BY <1>0 DEF Chained
<1> DEFINE n == Len(queue)
           new == Tail(cells)
<1>6. n \in Nat /\ n > 0 /\ Len(cells) = n + 1 /\ cells # <<>>
  BY <1>1, <1>2, <1>5 DEF Chain
<1>7. /\ new \in Seq(Pointer) /\ Len(new) = n
      /\ \A i \in 1 .. n : new[i] = cells[i + 1]
      /\ \A i \in 1 .. n + 1 : cells[i] \in Pointer
  BY <1>6
<1>8. Len(queue') = n - 1 /\ \A i \in 1 .. n - 1 : queue'[i] = queue[i + 1]
  BY <1>1, <1>2
<1>9. ASSUME NEW i \in 1 .. n - 1
      PROVE  /\ new[i + 1] = Succ(new[i])
             /\ InArc(new[i], Succ(ERDP), enqueue)
             /\ mem[new[i]].event = queue'[i]
  <2>1. i + 1 \in 1 .. n /\ i \in 1 .. n /\ i + 1 \in 1 .. n + 1 /\ i \in 1 .. n + 1
    BY <1>6
  <2>2. /\ cells[(i + 1) + 1] = Succ(cells[i + 1]) /\ InArc(cells[i + 1], ERDP, enqueue)
        /\ mem[cells[i + 1]].event = queue[i + 1]
        /\ cells[i + 1] = Succ(cells[i]) /\ InArc(cells[i], ERDP, enqueue)
    BY <2>1, <1>5 DEF Chain
  <2>3. cells[i + 1] # ERDP
    BY <2>1, <2>2, <1>2, <1>7, ArcOpen
  <2>4. InArc(cells[i + 1], Succ(ERDP), enqueue)
    BY <2>1, <2>2, <2>3, <1>2, <1>7, ArcShrinks
  <2> QED
    BY <2>1, <2>2, <2>4, <1>7, <1>8
<1>10. new[1] = Succ(ERDP) /\ new[Len(new)] = enqueue
  <2>1. 1 \in 1 .. n /\ n \in 1 .. n
    BY <1>6
  <2>2. cells[1 + 1] = Succ(cells[1]) /\ cells[1] = ERDP /\ cells[n + 1] = enqueue
    BY <2>1, <1>5, <1>6 DEF Chain
  <2> QED
    BY <2>1, <2>2, <1>7
<1>11. Chain(new, queue', Succ(ERDP), enqueue, mem)
  BY <1>6, <1>7, <1>8, <1>9, <1>10 DEF Chain
<1>12. Start' = Succ(ERDP)
  BY <1>0, <1>1 DEF Start
<1> QED
  BY <1>0, <1>3, <1>4, <1>7, <1>11, <1>12 DEF Chained

(* An entry is cleared; if that erases no event, nothing else changes.     *)
LEMMA ClearKeeps ==
  ASSUME Inv, InitializeClear, ~wiped'
  PROVE  Chained' /\ Bits' /\ Turns'
<1>0. /\ pc = "clear" /\ ~wiped /\ ~Before(cleared, enqueue) /\ cleared' = Succ(cleared)
      /\ mem' = [mem EXCEPT ![cleared] = [cycle_bit |-> 0, event |-> NoEvent]]
      /\ pc' = IF Succ(cleared) = Base THEN "ready" ELSE pc
      /\ ERDP' = ERDP /\ enqueue' = enqueue /\ cycle' = cycle /\ queue' = queue
      /\ producer_cycle' = producer_cycle
      /\ Turns /\ Bits /\ Chained /\ ERDP = Base /\ cycle = 1 /\ producer_cycle = 1
  BY DEF InitializeClear, Inv, Turns, Index, controller, manager
<1>1. /\ cleared \in Pointer /\ enqueue \in Pointer /\ mem \in [Pointer -> TRB]
      /\ Succ(cleared) \in Pointer
  BY SuccIsPointer DEF Inv, TypeOK
<1>2. /\ mem'[cleared].cycle_bit = 0
      /\ \A p \in Pointer : p # cleared => mem'[p] = mem[p]
      /\ \A p \in Pointer : Before(p, enqueue) => p # cleared
  BY <1>0, <1>1
<1>3. \A p \in Pointer : Before(p, enqueue) => mem'[p].cycle_bit = 1
  BY <1>0, <1>2 DEF Bits
<1>4. \A p \in Pointer :
        ~Before(p, enqueue) /\ (p = cleared \/ Before(p, cleared)) => mem'[p].cycle_bit = 0
  BY <1>0, <1>2 DEF Bits
<1>5. Bits'
  <2>1. CASE Succ(cleared) = Base /\ \A q \in Pointer : q = cleared \/ Before(q, cleared)
    BY <2>1, <1>0, <1>3, <1>4 DEF Bits
  <2>2. CASE /\ Succ(cleared) # Base
             /\ \A q \in Pointer : Before(q, Succ(cleared)) <=> q = cleared \/ Before(q, cleared)
    BY <2>2, <1>0, <1>3, <1>4 DEF Bits
  <2> QED
    BY <2>1, <2>2, <1>1, SuccOrder
<1>6. Turns'
  BY <1>0, <1>1, Order DEF Turns
<1>7. PICK cells \in Seq(Pointer) : Chain(cells, queue, Base, enqueue, mem)
  BY <1>0 DEF Chained, Start
<1>8. Len(queue) \in Nat /\ Len(cells) = Len(queue) + 1
  BY <1>7 DEF Inv, TypeOK, Chain
<1>9. ASSUME NEW i \in 1 .. Len(queue)
      PROVE  mem'[cells[i]] = mem[cells[i]]
  <2>1. cells[i] \in Pointer
    BY <1>8
  <2>2. InArc(cells[i], Base, enqueue)
    BY <1>7 DEF Chain
  <2>3. Before(cells[i], enqueue)
    BY <2>1, <2>2, <1>1, Order DEF InArc
  <2> QED
    BY <2>1, <2>3, <1>2
<1>10. Chain(cells, queue, Base, enqueue, mem')
  BY <1>7, <1>9 DEF Chain
<1> QED
  BY <1>0, <1>5, <1>6, <1>10 DEF Chained, Start

LEMMA TypeNext == Inv /\ [Next]_vars => TypeOK' /\ Index'
<1> SUFFICES ASSUME Inv, [Next]_vars PROVE TypeOK' /\ Index'
  OBVIOUS
<1>0. TypeOK /\ Index
  BY DEF Inv
<1>1. ASSUME NEW e \in Event, Post(e)
      PROVE  TypeOK' /\ Index'
  <2>1. Succ(enqueue) \in Pointer /\ [cycle_bit |-> cycle, event |-> e] \in TRB
    BY <1>0, SuccIsPointer DEF TypeOK, TRB
  <2>2. 1 - cycle \in {0, 1}
    BY <1>0 DEF TypeOK
  <2> QED
    BY <1>0, <1>1, <2>1, <2>2 DEF Post, TypeOK, Index, manager
<1>2. CASE Initialize
  <2>1. 0 \in 0 .. erst_size - 1 /\ <<>> \in Seq(Event)
    BY EventRingAssumption
  <2> QED
    BY <1>0, <1>2, <2>1, BaseIsPointer DEF Initialize, TypeOK, Index
<1>3. CASE InitializeDequeue
  BY <1>0, <1>3, BaseIsPointer DEF InitializeDequeue, TypeOK, Index, manager, controller, Base
<1>4. CASE InitializeClear
  <2>1. Succ(cleared) \in Pointer /\ [cycle_bit |-> 0, event |-> NoEvent] \in TRB
    BY <1>0, SuccIsPointer DEF TypeOK, TRB
  <2>2. wiped' \in BOOLEAN
    BY <1>4 DEF InitializeClear
  <2> QED
    BY <1>0, <1>4, <2>1, <2>2 DEF InitializeClear, TypeOK, Index, manager, controller
<1>5. CASE Run
  BY <1>0, <1>5 DEF Run, TypeOK, Index, manager
<1>6. CASE Take
  <2>1. pc = "ready" /\ ERDP' = Succ(ERDP) /\ erst_index' = ERDP'[1]
        /\ producer_cycle' = IF Succ(ERDP) = Base THEN 1 - producer_cycle ELSE producer_cycle
    BY <1>6, PopMoves DEF Take
  <2>2. Succ(ERDP) \in Pointer /\ 1 - producer_cycle \in {0, 1}
    BY <1>0, SuccIsPointer DEF TypeOK
  <2>3. erst_index' \in 0 .. erst_size - 1
    BY <2>1, <2>2, PointerParts, EventRingAssumption
  <2>4. queue' \in Seq(Event)
    BY <1>0, <1>6 DEF Take, TypeOK
  <2> QED
    BY <1>0, <1>6, <2>1, <2>2, <2>3, <2>4 DEF Take, TypeOK, Index, controller
<1>7. CASE UNCHANGED vars
  BY <1>0, <1>7 DEF vars, TypeOK, Index, manager, controller
<1> QED
  BY <1>1, <1>2, <1>3, <1>4, <1>5, <1>6, <1>7 DEF Next

LEMMA InvNext == Inv /\ [Next]_vars => Inv'
<1> SUFFICES ASSUME Inv, [Next]_vars PROVE Inv'
  OBVIOUS
<1>0. TypeOK' /\ Index'
  BY TypeNext
<1> SUFFICES ASSUME (pc # "none" /\ ~wiped)' PROVE Bits' /\ Turns' /\ Chained'
  BY <1>0 DEF Inv
<1>1. ASSUME NEW e \in Event, Post(e)
      PROVE  Bits' /\ Turns' /\ Chained'
  BY <1>1, ChainPost, BitsPost DEF Post
<1>2. CASE Initialize
  <2>1. /\ pc' = "dequeue" /\ enqueue' = Base /\ cycle' = 1 /\ producer_cycle' = 1
        /\ queue' = <<>> /\ ERDP' = ERDP /\ ERDP \in Pointer /\ Start' = Base
    BY <1>2 DEF Initialize, Inv, TypeOK, Start
  <2>2. Bits' /\ Turns'
    BY <2>1, Order, BaseIsPointer DEF Bits, Turns
  <2>3. Chain(<<Base>>, queue', Base, Base, mem')
    BY <2>1 DEF Chain
  <2>4. <<Base>> \in Seq(Pointer)
    BY BaseIsPointer
  <2>5. Chained'
    BY <2>1, <2>3, <2>4 DEF Chained
  <2> QED
    BY <2>2, <2>5
<1>3. CASE InitializeDequeue
  <2>1. /\ pc = "dequeue" /\ pc' = "clear" /\ ERDP' = Base /\ cleared' = Base /\ mem' = mem
        /\ enqueue' = enqueue /\ cycle' = cycle /\ producer_cycle' = producer_cycle
        /\ queue' = queue /\ Start = Base /\ Start' = Base
        /\ Bits /\ Turns /\ Chained
    BY <1>3 DEF InitializeDequeue, Inv, Start, manager, controller
  <2>2. Bits' /\ Turns'
    BY <2>1, Order DEF Bits, Turns
  <2> QED
    BY <2>1, <2>2 DEF Chained
<1>4. CASE InitializeClear
  BY <1>4, ClearKeeps
<1>5. CASE Run
  BY <1>5 DEF Run, Inv, Bits, Turns, Chained, Start, manager
<1>6. CASE Take
  BY <1>6, ChainTake DEF Take
<1>7. CASE UNCHANGED vars
  BY <1>7 DEF vars, manager, controller, Inv, Bits, Turns, Chained, Start
<1> QED
  BY <1>1, <1>2, <1>3, <1>4, <1>5, <1>6, <1>7 DEF Next

(* The types of the variables: the Manager's segment index and the         *)
(* dequeue pointer stay within the ring.                                   *)
THEOREM EventRingType == Spec => []TypeOK
<1>1. Inv => TypeOK
  BY DEF Inv
<1> QED
  BY InvInit, InvNext, <1>1, PTL DEF Spec

(* HasFront and Front show the oldest event that waits, for any segments,  *)
(* any earlier contents and any number of turns.                           *)
THEOREM FrontShowsOldest == Spec => []FrontIsOldest
<1>1. Inv => FrontIsOldest
  BY FrontInArc DEF FrontIsOldest
<1> QED
  BY InvInit, InvNext, <1>1, PTL DEF Spec

-----------------------------------------------------------------------------
(* The ring as a bounded queue.                                            *)

Fifo == INSTANCE BoundedFifo WITH
          Capacity <- Cardinality(Pointer) - 1, Item <- Event, items <- queue

(* Between two calls of Initialize, and while nothing was erased, a step   *)
(* puts an event into the queue, takes out the one that Front shows, or    *)
(* leaves the queue as it is.                                              *)
FifoStep ==
  ~wiped /\ ~Initialize =>
    /\ [Fifo!Next]_queue
    /\ Fifo!Take => HasFront /\ Front.event = Head(queue)

(* The ring has finitely many entries.                                     *)
LEMMA PointersFinite ==
  /\ IsFiniteSet(Pointer)
  /\ \A e \in Pointer : /\ IsFiniteSet(Pointer \ {e})
                        /\ Cardinality(Pointer \ {e}) = Cardinality(Pointer) - 1
  /\ Cardinality(Pointer) \in Nat
<1> DEFINE Box(k) == {k} \X (0 .. SegmentSize[k] - 1)
           Boxes == {Box(k) : k \in 0 .. erst_size - 1}
<1>1. erst_size \in Nat /\ \A k \in 0 .. erst_size - 1 : SegmentSize[k] \in Nat
  BY EventRingAssumption
<1>2. \A k \in 0 .. erst_size - 1 : IsFiniteSet(Box(k))
  <2> TAKE k \in 0 .. erst_size - 1
  <2>1. IsFiniteSet({k})
    BY FS_Singleton
  <2>2. IsFiniteSet(0 .. SegmentSize[k] - 1)
    BY <1>1, FS_Interval
  <2> QED BY <2>1, <2>2, FS_Product
<1>3. IsFiniteSet(Boxes)
  <2> DEFINE box == [k \in 0 .. erst_size - 1 |-> Box(k)]
  <2>1. IsFiniteSet(0 .. erst_size - 1)
    BY <1>1, FS_Interval
  <2> HIDE DEF Box
  <2>2. box \in Surjection(0 .. erst_size - 1, Boxes)
    BY DEF Surjection
  <2> HIDE DEF box, Boxes
  <2> QED BY <2>1, <2>2, FS_Surjection
<1>4. IsFiniteSet(Pointer)
  <2>1. Pointer = UNION Boxes
    BY DEF Pointer
  <2> HIDE DEF Box
  <2>2. \A B \in Boxes : IsFiniteSet(B)
    BY <1>2
  <2> QED BY <1>3, <2>1, <2>2, FS_UNION
<1> QED
  BY <1>4, FS_RemoveElement, FS_CardinalityType

(* The entries of a chain are all different: from two that were the same   *)
(* the chain would go on alike, and the later one would reach the end, at  *)
(* which no event lies, while the other was still on its way.              *)
LEMMA ChainApart ==
  ASSUME NEW cells \in Seq(Pointer), NEW q \in Seq(Event), NEW s \in Pointer,
         NEW e \in Pointer, NEW m, Chain(cells, q, s, e, m),
         NEW i \in 1 .. Len(q), NEW j \in 1 .. Len(q), i < j
  PROVE  cells[i] # cells[j]
<1> DEFINE n == Len(q)
           Bad == {d \in 0 .. n : \E a \in 1 .. n : a < n - d /\ cells[a] = cells[n - d]}
<1>1. n \in Nat /\ Len(cells) = n + 1 /\ cells[n + 1] = e
  BY DEF Chain
<1>2. \A k \in 1 .. n : /\ cells[k] \in Pointer /\ cells[k] # e
                        /\ cells[k + 1] = Succ(cells[k])
  <2> TAKE k \in 1 .. n
  <2>1. cells[k] \in Pointer
    BY <1>1
  <2> QED BY <2>1, ArcOpen DEF Chain
<1> HIDE DEF n
<1>3. ASSUME NEW d \in Bad, \A x \in Bad : d <= x PROVE FALSE
  <2>1. d \in 0 .. n
    OBVIOUS
  <2>2. PICK a \in 1 .. n : a < n - d /\ cells[a] = cells[n - d]
    OBVIOUS
  <2> HIDE DEF Bad
  <2>3. n - d \in 1 .. n /\ a + 1 \in 1 .. n
    BY <1>1, <2>1, <2>2
  <2>4. cells[a + 1] = cells[(n - d) + 1]
    BY <1>2, <2>2, <2>3
  <2>5. CASE d = 0
    BY <1>1, <1>2, <2>3, <2>4, <2>5
  <2>6. CASE d > 0
    <3>1. /\ d - 1 \in 0 .. n /\ a + 1 < n - (d - 1) /\ n - (d - 1) = (n - d) + 1
      BY <1>1, <2>1, <2>2, <2>6
    <3>2. d - 1 \in Bad
      BY <2>3, <2>4, <3>1 DEF Bad
    <3> QED BY <1>3, <2>1, <3>2
  <2> QED BY <2>1, <2>5, <2>6
<1>4. Bad = {}
  <2>1. Bad \subseteq Nat
    OBVIOUS
  <2> HIDE DEF Bad
  <2>2. SUFFICES ASSUME Bad # {} PROVE FALSE
    OBVIOUS
  <2>3. PICK d \in Bad : \A x \in Bad : <<x, d>> \notin OpToRel(<, Nat)
    BY <2>1, <2>2, WFMin, NatLessThanWellFounded, Zenon
  <2>4. \A x \in Bad : x \in Nat /\ d \in Nat
    BY <2>1
  <2>5. \A x \in Bad : d <= x
    <3>1. \A x \in Bad : ~(x < d)
      BY <2>3, <2>4 DEF OpToRel
    <3> QED BY <2>4, <3>1
  <2> QED BY <1>3, <2>5
<1>5. n - (n - j) = j /\ n - j \in 0 .. n /\ j \in Nat /\ i \in 1 .. n
  BY <1>1 DEF n
<1> QED
  BY <1>4, <1>5

(* One entry of the ring is always free.                                   *)
LEMMA OneFree ==
  ASSUME NEW cells \in Seq(Pointer), NEW q \in Seq(Event), NEW s \in Pointer,
         NEW e \in Pointer, NEW m, Chain(cells, q, s, e, m)
  PROVE  Len(q) <= Cardinality(Pointer) - 1
<1> DEFINE n == Len(q)
           f == [k \in 1 .. n |-> cells[k]]
<1>1. n \in Nat /\ Len(cells) = n + 1
  BY DEF Chain
<1>2. \A k \in 1 .. n : cells[k] \in Pointer \ {e}
  <2> TAKE k \in 1 .. n
  <2>1. cells[k] \in Pointer
    BY <1>1
  <2> QED BY <2>1, ArcOpen DEF Chain
<1>3. \A a, b \in 1 .. n : a < b => cells[a] # cells[b]
  BY ChainApart
<1> HIDE DEF n
<1>4. f \in Injection(1 .. n, Pointer \ {e})
  <2>1. f \in [1 .. n -> Pointer \ {e}]
    BY <1>2
  <2>2. \A a, b \in 1 .. n : cells[a] = cells[b] => a = b
    BY <1>1, <1>3
  <2>3. IsInjective(f)
    BY <2>2 DEF IsInjective
  <2> QED BY <2>1, <2>3 DEF Injection
<1> HIDE DEF f
<1>5. Cardinality(1 .. n) <= Cardinality(Pointer \ {e})
  BY <1>4, PointersFinite, FS_Injection
<1>6. Cardinality(1 .. n) = n
  <2>1. 1 \in Int /\ n \in Int
    BY <1>1
  <2>2. Cardinality(1 .. n) = IF 1 > n THEN 0 ELSE (n - 1) + 1
    BY <2>1, FS_Interval
  <2> QED BY <1>1, <2>2
<1> QED
  BY <1>5, <1>6, PointersFinite DEF n

(* Between two calls of Initialize the ring is a bounded queue that holds  *)
(* one event less than it has entries, for any segments: nothing is lost,  *)
(* doubled or out of order on its way from the controller to a caller of   *)
(* Front and Pop (xhci_er.hpp 66-115).                                     *)
THEOREM RingIsFifo == Spec => [][FifoStep]_vars
<1>1. Inv /\ Inv' /\ [Next]_vars => [FifoStep]_vars
  <2> SUFFICES ASSUME Inv, Inv', Next, ~wiped, ~Initialize
               PROVE  /\ [Fifo!Next]_queue
                      /\ Fifo!Take => HasFront /\ Front.event = Head(queue)
    BY DEF FifoStep
  <2>0. queue \in Seq(Event) /\ TypeOK /\ TypeOK'
    BY DEF Inv, TypeOK
  <2>1. ASSUME NEW e \in Event, Post(e) PROVE queue' = Append(queue, e) /\ Fifo!Put(e)
    <3>1. ~wiped' /\ pc' # "none" /\ queue' = Append(queue, e)
      BY <2>1 DEF Post
    <3>2. /\ \E cells \in Seq(Pointer) : Chain(cells, queue', Start', enqueue', mem')
          /\ queue' \in Seq(Event) /\ Start' \in Pointer /\ enqueue' \in Pointer
      BY <3>1, BaseIsPointer DEF Inv, TypeOK, Chained, Start
    <3>3. Len(queue') <= Cardinality(Pointer) - 1
      BY <3>2, OneFree
    <3>4. Len(queue') = Len(queue) + 1 /\ Len(queue) \in Nat
      BY <2>0, <3>1
    <3> QED BY <3>1, <3>3, <3>4, PointersFinite DEF Fifo!Put
  <2>2. CASE Take
    <3>1. queue # <<>> /\ HasFront /\ Front.event = Head(queue)
      BY <2>2, FrontInArc DEF Take, FrontIsOldest
    <3> QED BY <2>2, <3>1 DEF Take, Fifo!Take, Fifo!Next
  <2>3. CASE InitializeDequeue \/ InitializeClear \/ Run
    <3>1. queue' = queue
      BY <2>3 DEF InitializeDequeue, InitializeClear, Run
    <3>2. ~Fifo!Take
      BY <2>0, <3>1 DEF Fifo!Take
    <3> QED BY <3>1, <3>2
  <2> QED
    <3>1. ASSUME NEW e \in Event, Post(e) PROVE ~Fifo!Take /\ Fifo!Next
      <4>1. Len(queue') = Len(queue) + 1 /\ Len(queue) \in Nat
        BY <2>0, <2>1, <3>1
      <4>2. ~Fifo!Take
        BY <2>0, <4>1 DEF Fifo!Take
      <4> QED BY <2>1, <3>1, <4>2 DEF Fifo!Next
    <3> QED BY <2>2, <2>3, <3>1 DEF Next
<1> QED
  BY <1>1, InvInit, InvNext, PTL DEF Spec

-----------------------------------------------------------------------------
(* The places of the command, and the command ring: only entry 0 is used,  *)
(* and the controller leaves it for good.                                  *)
Command ==
  /\ at \in {"shell", "init", "drain", "slots", "CRR", "event"}
  /\ at = "init" <=> pc \in {"dequeue", "clear"}
  /\ at \in {"drain", "slots", "CRR", "event"} => pc = "ready"
  /\ occupied \subseteq Slot
  /\ cr_buf \in [0 .. kRingSize - 1 -> [cycle_bit : {0, 1}, slot : Slot \cup {NoSlot}]]
  /\ cr_buf[1] = Empty
  /\ cr_buf[0].cycle_bit = 1 => cr_buf[0].slot \in Slot
  /\ at \in {"init", "drain"} => cr_buf[0] = Empty
  /\ dequeue \in {0, 1} /\ (dequeue = 1 => CRR)

(* Without other events, what is pending or waits is for this slot.        *)
Pending ==
  answered /\ ~wiped =>
    /\ at \in {"init", "drain"} => queue = <<>>
    /\ queue # <<>> => queue = <<slot_id>> /\ dequeue = 1 /\ at \in {"CRR", "event"}
    /\ cr_buf[0].cycle_bit = 1 /\ dequeue = 0 =>
         cr_buf[0].slot = slot_id /\ at \in {"CRR", "event"}

XInv == Inv /\ Command /\ Pending

Chip == [icw : 0 .. 4, base : Nat, imr : SUBSET (0 .. 7)]

(* PIC 0 before write k of init_pic.                                       *)
Pic0Before(k, chip) ==
  /\ chip \in Chip
  /\ k <= 3 => chip.icw = 0 /\ 1 \in chip.imr
  /\ k = 4 => chip.icw = 2
  /\ k \in 5 .. 6 => chip.icw = k - 2 /\ chip.base = 32
  /\ k > 6 => chip.icw = 0 /\ chip.base = 32
  /\ k > 11 => 1 \notin chip.imr

(* IRQ 1 is masked until the entry is written or refused, and has its      *)
(* vector when it is open.                                                 *)
Lines ==
  /\ pic = [c \in {0, 1} |-> pic[c]]
  /\ boot \in {"format", "returned", "idt", "auto", "xhci"} => Pic0Before(1, pic[0]) /\ step = 1
  /\ boot \in {"auto", "xhci", "pic", "kbc", "loop"} => idt = 3 \/ refused
  /\ boot = "pic" => step \in 1 .. 12 /\ Pic0Before(step, pic[0])
  /\ boot \in {"kbc", "loop"} => Pic0Before(13, pic[0])
  /\ boot \in {"format", "returned", "idt", "auto", "xhci", "pic", "kbc", "loop"}
  /\ HandlerReady

-----------------------------------------------------------------------------
(* What a step of the kernel or its hardware is to the command.            *)
XStep ==
  \/ NoController \/ Enter \/ Initializing \/ Drained \/ Vacant \/ Issue
  \/ SeeCRR \/ SeeEvent \/ Return
  \/ StartRing \/ Execute \/ RingEmpty \/ PortStatusChange
  \/ UNCHANGED allVars

LEMMA BootSteps == [BNext]_bootVars => XStep
<1> SUFFICES ASSUME [BNext]_bootVars PROVE XStep
  OBVIOUS
<1>1. CASE MyMain
  BY <1>1 DEF MyMain, PixelFormat, SetIDTEntry, AutoCmd, AutoCmdDone, WritePic,
       InitKeyboard, Xhci, XStep
<1>2. CASE Typed \/ Hardware
  BY <1>2 DEF Typed, Hardware, Xhc, XStep
<1>3. CASE Strike \/ KbcTake \/ Irq1
  BY <1>3 DEF Strike, KbcTake, Irq1, XStep
<1>4. CASE UNCHANGED bootVars
  BY <1>4 DEF bootVars, XStep
<1> QED
  BY <1>1, <1>2, <1>3, <1>4 DEF BNext

(* Such a step is one of the event ring.                                   *)
LEMMA StepOfRing == Command /\ XStep => [Next]_vars
<1> SUFFICES ASSUME Command, XStep PROVE [Next]_vars
  OBVIOUS
<1>1. CASE NoController \/ Vacant \/ Issue \/ SeeCRR \/ Return \/ StartRing \/ RingEmpty
  BY <1>1 DEF NoController, Vacant, Issue, SeeCRR, Return, StartRing, RingEmpty
<1>2. CASE Enter \/ Initializing \/ Drained \/ SeeEvent
  BY <1>2 DEF Enter, Initializing, Drained, SeeEvent, Next
<1>3. CASE Execute
  <2>1. cr_buf[dequeue].slot \in Event
    BY <1>3, XhciCommandAssumption DEF Command, Execute, Empty
  <2> QED
    BY <1>3, <2>1 DEF Execute, Next
<1>4. CASE PortStatusChange
  BY <1>4, XhciCommandAssumption DEF PortStatusChange, Next
<1>5. CASE UNCHANGED allVars
  BY <1>5 DEF allVars
<1> QED
  BY <1>1, <1>2, <1>3, <1>4, <1>5 DEF XStep

LEMMA CommandNext == Inv /\ Command /\ XStep => Command'
<1> SUFFICES ASSUME Inv, Command, XStep PROVE Command'
  OBVIOUS
<1>0. /\ pc \in {"none", "dequeue", "clear", "ready"}
      /\ kRingSize \in Nat /\ kRingSize > 1 /\ MaxSlotsEnabled \in Nat
      /\ 0 \in 0 .. kRingSize - 1 /\ 1 \in 0 .. kRingSize - 1
  BY XhciCommandAssumption DEF Inv, TypeOK
<1>1. CASE NoController \/ Vacant \/ SeeCRR \/ Return
  BY <1>1 DEF NoController, Vacant, SeeCRR, Return, Command, vars, commands
<1>2. CASE Enter
  <2>1. /\ pc' = "dequeue" /\ at' = "init" /\ occupied' = occupied /\ CRR' = CRR
        /\ cr_buf' = [k \in 0 .. kRingSize - 1 |-> Empty]
        /\ dequeue' = IF CRR THEN dequeue ELSE 0
    BY <1>2 DEF Enter, Initialize
  <2>2. Empty \in [cycle_bit : {0, 1}, slot : Slot \cup {NoSlot}] /\ Empty.cycle_bit = 0
    BY DEF Empty
  <2> QED
    BY <1>0, <2>1, <2>2 DEF Command
<1>3. CASE Initializing
  BY <1>3, <1>0 DEF Initializing, InitializeDequeue, InitializeClear, Command, commands
<1>4. CASE Drained
  BY <1>4 DEF Drained, Run, Command, commands
<1>5. CASE Issue
  <2> DEFINE cmd == [cycle_bit |-> 1, slot |-> slot_id]
  <2>1. /\ pc' = pc /\ at = "slots" /\ at' = "CRR" /\ occupied' = occupied /\ CRR' = CRR
        /\ dequeue' = dequeue /\ slot_id \in Slot
        /\ cr_buf' = [cr_buf EXCEPT ![0] = cmd]
    BY <1>5 DEF Issue, Command, vars
  <2>2. cmd \in [cycle_bit : {0, 1}, slot : Slot \cup {NoSlot}] /\ cmd.slot = slot_id
    BY <2>1
  <2> HIDE DEF cmd
  <2>3. /\ cr_buf' \in [0 .. kRingSize - 1 -> [cycle_bit : {0, 1}, slot : Slot \cup {NoSlot}]]
        /\ cr_buf'[1] = Empty /\ cr_buf'[0].slot \in Slot
    BY <1>0, <2>1, <2>2 DEF Command
  <2> QED
    BY <2>1, <2>3 DEF Command
<1>6. CASE SeeEvent
  BY <1>6 DEF SeeEvent, Take, Command, commands
<1>7. CASE StartRing \/ RingEmpty
  BY <1>7 DEF StartRing, RingEmpty, Command, vars, program
<1>8. CASE Execute
  <2>1. dequeue = 0
    BY <1>8 DEF Execute, Command, Empty
  <2> QED
    BY <1>8, <2>1 DEF Execute, Post, Command, program
<1>9. CASE PortStatusChange \/ UNCHANGED allVars
  BY <1>9 DEF PortStatusChange, Post, Command, allVars, vars, program, commands
<1> QED
  BY <1>1, <1>2, <1>3, <1>4, <1>5, <1>6, <1>7, <1>8, <1>9 DEF XStep

LEMMA PendingNext == XInv /\ XStep => Pending'
<1> SUFFICES ASSUME XInv, XStep, answered', ~wiped' PROVE Pending'
  BY DEF Pending
<1>0. Inv /\ Command /\ Pending /\ queue \in Seq(Event)
  BY DEF XInv, Inv, TypeOK
<1>1. CASE NoController \/ Vacant \/ SeeCRR \/ Return
  BY <1>0, <1>1 DEF NoController, Vacant, SeeCRR, Return, Pending, vars, commands
<1>2. CASE Enter
  <2>1. cr_buf'[0].cycle_bit = 0 /\ queue' = <<>> /\ at' = "init"
    BY <1>2, XhciCommandAssumption DEF Enter, Initialize, Empty
  <2> QED
    BY <2>1 DEF Pending
<1>3. CASE Initializing
  <2>1. /\ answered /\ at = "init" /\ cr_buf' = cr_buf
        /\ InitializeDequeue \/ InitializeClear
    BY <1>3 DEF Initializing, commands
  <2>2. queue' = queue
    BY <2>1 DEF InitializeDequeue, InitializeClear
  <2>3. ~wiped
    BY <2>1, Zenon DEF InitializeDequeue, InitializeClear
  <2>4. queue = <<>> /\ cr_buf[0].cycle_bit = 0
    BY <1>0, <2>1, <2>3 DEF Pending, Command, Empty
  <2> QED
    BY <2>1, <2>2, <2>4 DEF Pending
<1>4. CASE Drained
  BY <1>0, <1>4 DEF Drained, Run, Pending, Command, Empty, commands
<1>5. CASE Issue
  <2>1. /\ answered /\ ~wiped /\ queue' = queue /\ queue = <<>> /\ at' = "CRR"
        /\ slot_id' = slot_id /\ cr_buf' = [cr_buf EXCEPT ![0] = [cycle_bit |-> 1, slot |-> slot_id]]
    BY <1>0, <1>5 DEF Issue, vars, Pending
  <2>2. cr_buf'[0].slot = slot_id
    BY <1>0, <2>1, XhciCommandAssumption DEF Command
  <2> QED
    BY <2>1, <2>2 DEF Pending
<1>6. CASE SeeEvent
  <2>1. /\ answered /\ ~wiped /\ pc = "ready" /\ HasFront /\ at' = "slots"
        /\ cr_buf' = cr_buf /\ dequeue' = dequeue
        /\ queue' = IF queue = <<>> THEN queue ELSE Tail(queue)
    BY <1>6 DEF SeeEvent, Take, commands
  <2>2. queue # <<>>
    BY <1>0, <2>1, FrontInArc
  <2>3. queue = <<slot_id>> /\ dequeue = 1
    BY <1>0, <2>1, <2>2 DEF Pending
  <2>4. queue' = <<>>
    BY <2>1, <2>3
  <2> QED
    BY <2>1, <2>3, <2>4 DEF Pending
<1>7. CASE StartRing \/ RingEmpty
  BY <1>0, <1>7 DEF StartRing, RingEmpty, Pending, vars, program
<1>8. CASE Execute
  <2>1. /\ answered /\ ~wiped /\ dequeue = 0 /\ dequeue' = 1 /\ cr_buf[0].cycle_bit = 1
        /\ queue' = Append(queue, cr_buf[0].slot) /\ UNCHANGED <<at, slot_id>>
    BY <1>0, <1>8 DEF Execute, Post, Command, Empty, program
  <2>2. cr_buf[0].slot = slot_id /\ at \in {"CRR", "event"} /\ queue = <<>>
    BY <1>0, <2>1 DEF Pending
  <2>3. queue' = <<slot_id>>
    BY <2>1, <2>2
  <2> QED
    BY <2>1, <2>2, <2>3 DEF Pending
<1>9. CASE PortStatusChange \/ UNCHANGED allVars
  BY <1>0, <1>9 DEF PortStatusChange, Pending, allVars, vars, program, commands
<1> QED
  BY <1>1, <1>2, <1>3, <1>4, <1>5, <1>6, <1>7, <1>8, <1>9 DEF XStep

LEMMA XInvInit == BInit => XInv
<1> SUFFICES ASSUME BInit PROVE XInv
  OBVIOUS
<1>1. Init /\ XInit
  BY DEF BInit, XInit
<1>2. Inv
  BY <1>1, InvInit
<1>3. 0 \in 0 .. kRingSize - 1 /\ 1 \in 0 .. kRingSize - 1
  BY XhciCommandAssumption
<1>4. cr_buf[0] = Empty /\ cr_buf[1] = Empty
  BY <1>1, <1>3 DEF XInit
<1>5. Command /\ Pending
  BY <1>1, <1>4 DEF XInit, Init, Command, Pending, Empty
<1> QED
  BY <1>2, <1>5 DEF XInv

LEMMA XInvNext == XInv /\ [BNext]_bootVars => XInv'
  BY BootSteps, StepOfRing, InvNext, CommandNext, PendingNext DEF XInv

(* In the whole kernel, too, the event ring goes through the steps of its  *)
(* own specification: what is proved above holds there.                    *)
THEOREM BootKeepsRing == BSpec => Spec
<1>1. BInit => Init
  BY DEF BInit, XInit
<1>2. XInv /\ [BNext]_bootVars => [Next]_vars
  BY BootSteps, StepOfRing DEF XInv
<1> QED
  BY XInvInit, XInvNext, <1>1, <1>2, PTL DEF BSpec, Spec

(* The event that ends the wait for a slot is the completion of that       *)
(* slot's command, for any number of slots, unless a port changes or an    *)
(* event is erased.                                                        *)
THEOREM CompletionIsOwn == BSpec => OwnCompletion
<1>1. ASSUME XInv, [BNext]_bootVars
      PROVE  [at = "event" /\ at' = "slots" /\ answered /\ ~wiped
                => Front.event = slot_id]_allVars
  <2> SUFFICES ASSUME at = "event", at' = "slots", answered, ~wiped
               PROVE  Front.event = slot_id
    OBVIOUS
  <2>1. SeeEvent
    BY <1>1, BootSteps DEF XStep, NoController, Enter, Initializing, Drained, Vacant, Issue,
         SeeCRR, Return, StartRing, Execute, RingEmpty, PortStatusChange, allVars, program
  <2>2. HasFront /\ pc = "ready" /\ Inv /\ Pending
    BY <1>1, <2>1 DEF SeeEvent, Take, XInv
  <2>3. queue # <<>> /\ Front.event = Head(queue)
    BY <2>2, FrontInArc
  <2> QED
    BY <2>2, <2>3 DEF Pending
<1> QED
  BY XInvInit, XInvNext, <1>1, PTL DEF BSpec, OwnCompletion

-----------------------------------------------------------------------------
LEMMA LinesInit == BInit => Lines
<1> SUFFICES ASSUME BInit PROVE Lines
  OBVIOUS
<1>1. pic = [c \in {0, 1} |-> pic[c]] /\ pic[0] \in Chip
  BY DEF BInit, Chip
<1>2. pic[0].icw = 0 /\ pic[0].imr = 0 .. 7
  BY DEF BInit
<1> QED
  BY <1>1, <1>2 DEF BInit, Lines, Pic0Before, HandlerReady

(* Each write of init_pic takes PIC 0 to where the next one expects it.    *)
LEMMA PicWrites ==
  ASSUME Lines, WritePic
  PROVE  /\ pic' = [c \in {0, 1} |-> pic'[c]]
         /\ Pic0Before(step + 1, pic'[0]) /\ step \in 1 .. 12
<1> DEFINE w == InitPic[step]
<1>0. /\ step \in 1 .. 12 /\ Pic0Before(step, pic[0]) /\ pic[0] \in Chip
      /\ pic' = [pic EXCEPT ![w[1]] = Written(@, w[2], w[3])]
      /\ pic = [c \in {0, 1} |-> pic[c]]
  BY DEF WritePic, Lines, Pic0Before
<1>1. pic' = [c \in {0, 1} |-> pic'[c]]
  BY <1>0
<1>2. w[1] = 0 => pic'[0] = Written(pic[0], w[2], w[3])
  BY <1>0
<1>3. w[1] = 1 => pic'[0] = pic[0]
  BY <1>0
<1>4. CASE step = 1
  <2>1. w = <<0, "imr", 0 .. 7>>
    BY <1>4 DEF InitPic
  <2>2. pic'[0] = [pic[0] EXCEPT !.imr = 0 .. 7]
    BY <1>0, <1>2, <1>4, <2>1 DEF Written, Pic0Before
  <2>3. pic'[0] \in Chip
    BY <1>0, <2>2 DEF Chip
  <2> QED
    BY <1>0, <1>1, <1>4, <2>2, <2>3 DEF Pic0Before, Chip
<1>5. CASE step = 3
  <2>1. w = <<0, "icw1", 17>>
    BY <1>5 DEF InitPic
  <2>2. pic'[0] = [icw |-> 2, base |-> pic[0].base, imr |-> {}]
    BY <1>0, <1>2, <1>5, <2>1 DEF Written, Pic0Before
  <2>3. pic'[0] \in Chip
    BY <1>0, <2>2 DEF Chip
  <2>4. pic'[0].icw = 2
    BY <2>2
  <2> QED
    BY <1>1, <1>5, <2>3, <2>4 DEF Pic0Before
<1>6. CASE step = 4
  <2>1. w = <<0, "icw2", 32>>
    BY <1>6 DEF InitPic
  <2>2. pic'[0] = [icw |-> 3, base |-> 32, imr |-> pic[0].imr]
    BY <1>0, <1>2, <1>6, <2>1 DEF Written, Pic0Before
  <2>3. pic'[0] \in Chip
    BY <1>0, <2>2 DEF Chip
  <2>4. pic'[0].icw = 3 /\ pic'[0].base = 32
    BY <2>2
  <2> QED
    BY <1>1, <1>6, <2>3, <2>4 DEF Pic0Before
<1>7. CASE step = 5
  <2>1. w = <<0, "icw3", 4>>
    BY <1>7 DEF InitPic
  <2>2. pic'[0] = [pic[0] EXCEPT !.icw = 4]
    BY <1>0, <1>2, <1>7, <2>1 DEF Written, Pic0Before
  <2>3. pic'[0] \in Chip
    BY <1>0, <2>2 DEF Chip
  <2> QED
    BY <1>0, <1>1, <1>7, <2>2, <2>3 DEF Pic0Before, Chip
<1>8. CASE step = 6
  <2>1. w = <<0, "icw4", 1>>
    BY <1>8 DEF InitPic
  <2>2. pic'[0] = [pic[0] EXCEPT !.icw = 0]
    BY <1>0, <1>2, <1>8, <2>1 DEF Written, Pic0Before
  <2>3. pic'[0] \in Chip
    BY <1>0, <2>2 DEF Chip
  <2> QED
    BY <1>0, <1>1, <1>8, <2>2, <2>3 DEF Pic0Before, Chip
<1>9. CASE step = 11
  <2>1. w = <<0, "imr", (0 .. 7) \ {1, 2}>>
    BY <1>9 DEF InitPic
  <2>2. pic'[0] = [pic[0] EXCEPT !.imr = (0 .. 7) \ {1, 2}]
    BY <1>0, <1>2, <1>9, <2>1 DEF Written, Pic0Before
  <2>3. pic'[0] \in Chip
    BY <1>0, <2>2 DEF Chip
  <2> QED
    BY <1>0, <1>1, <1>9, <2>2, <2>3 DEF Pic0Before, Chip
<1>10. CASE step \in {2, 7, 8, 9, 10, 12}
  <2>1. w[1] = 1
    BY <1>10 DEF InitPic
  <2> QED
    BY <1>0, <1>1, <1>3, <1>10, <2>1 DEF Pic0Before
<1> QED
  BY <1>0, <1>4, <1>5, <1>6, <1>7, <1>8, <1>9, <1>10

LEMMA LinesNext == Lines /\ [BNext]_bootVars => Lines'
<1> SUFFICES ASSUME Lines, [BNext]_bootVars PROVE Lines'
  OBVIOUS
<1>1. CASE PixelFormat
  BY <1>1 DEF PixelFormat, MyMainOrder, Lines, HandlerReady, board
<1>2. CASE SetIDTEntry
  BY <1>2 DEF SetIDTEntry, MyMainOrder, Lines, HandlerReady, board
<1>3. CASE AutoCmd
  BY <1>3 DEF AutoCmd, Lines, HandlerReady, board
<1>4. CASE AutoCmdDone
  BY <1>4 DEF AutoCmdDone, MyMainOrder, Lines, Pic0Before, HandlerReady, board
<1>5. CASE WritePic
  <2>1. Len(InitPic) = 12
    BY DEF InitPic
  <2>2. /\ boot = "pic" /\ step' = (step % 12) + 1
        /\ boot' = IF step = 12 THEN "kbc" ELSE boot
        /\ idt' = idt /\ refused' = refused /\ astray' = astray
    BY <1>5, <2>1 DEF WritePic, MyMainOrder
  <2>3. step # 12 => step' = step + 1 /\ step' \in 1 .. 12
    BY <1>5, <2>2, PicWrites
  <2> QED
    BY <1>5, <2>2, <2>3, PicWrites DEF Lines, HandlerReady
<1>6. CASE InitKeyboard
  BY <1>6 DEF InitKeyboard, MyMainOrder, Lines, HandlerReady
<1>7. CASE Irq1
  <2>1. boot \in {"pic", "kbc", "loop"} /\ pic[0].base = 32
    BY <1>7 DEF Irq1, Lines, Pic0Before
  <2>2. idt = 3 => astray' = astray
    BY <1>7, <2>1 DEF Irq1
  <2>3. (astray => refused) /\ (idt = 3 \/ refused)
    BY <2>1 DEF Lines, HandlerReady
  <2> QED
    BY <1>7, <2>2, <2>3 DEF Irq1, Lines, HandlerReady, mymain
<1>8. CASE \/ Typed \/ Hardware \/ Strike \/ KbcTake \/ UNCHANGED bootVars
           \/ UNCHANGED <<mymain, board, astray>>
  BY <1>8 DEF Typed, Hardware, Strike, KbcTake, bootVars, mymain, board, Lines, HandlerReady
<1> QED
  BY <1>1, <1>2, <1>3, <1>4, <1>5, <1>6, <1>7, <1>8 DEF BNext, MyMain

(* An interrupt of the keyboard finds its vector and a complete entry,     *)
(* unless the table had no room for one.                                   *)
THEOREM HandlerIsReady == BSpec => []HandlerReady
<1>1. Lines => HandlerReady
  BY DEF Lines
<1> QED
  BY LinesInit, LinesNext, <1>1, PTL DEF BSpec

-----------------------------------------------------------------------------
(* Where the bytes of init_keyboard are, and what the KBC has been told.   *)
Told ==
  /\ kbc \in {"empty", "command", "data"}
  /\ boot = "kbc" => step \in {1, 2}
  /\ boot = "kbc" /\ step = 2 => kbc = "command" \/ (kbc = "empty" /\ mode_next)
  /\ boot = "loop" => kbc_int \/ (kbc = "data" /\ mode_next)

(* A code the KBC has raised IRQ 1 for is still requested.                 *)
Latched == code /\ kbc_int /\ ~early /\ ~astray => irr

(* In the loop a code that waits, struck in time, has its request latched  *)
(* at PIC 0, unmasked and with its handler in place, or will have it when  *)
(* the KBC takes the mode: no request is lost on the way of init_pic and   *)
(* init_keyboard (main.cpp 114-158, 258-259).                              *)
RequestKept ==
  boot = "loop" /\ code /\ ~early /\ ~refused =>
    \/ kbc = "data" /\ mode_next
    \/ /\ irr /\ pic[0].icw = 0 /\ 1 \notin pic[0].imr
       /\ pic[0].base + 1 = 33 /\ idt = 3 /\ ~astray

LEMMA ToldNext == Lines /\ Told /\ [BNext]_bootVars => Told'
<1> SUFFICES ASSUME Lines, Told, [BNext]_bootVars PROVE Told'
  OBVIOUS
<1>1. CASE PixelFormat \/ SetIDTEntry \/ AutoCmdDone
  BY <1>1 DEF PixelFormat, SetIDTEntry, AutoCmdDone, MyMainOrder, Told, board
<1>2. CASE AutoCmd
  BY <1>2 DEF AutoCmd, Told, board
<1>3. CASE WritePic
  <2>1. Len(InitPic) = 12
    BY DEF InitPic
  <2>2. /\ boot = "pic" /\ step' = (step % 12) + 1 /\ kbc' = kbc
        /\ boot' = IF step = 12 THEN "kbc" ELSE boot
    BY <1>3, <2>1 DEF WritePic, MyMainOrder
  <2>3. step = 12 => step' = 1
    BY <2>2
  <2> QED
    BY <2>2, <2>3 DEF Told
<1>4. CASE InitKeyboard
  <2>1. step \in {1, 2} /\ kbc = "empty" /\ step' = 3 - step /\ mode_next' = mode_next
        /\ kbc' = (IF step = 1 THEN "command" ELSE "data")
        /\ boot' = (IF step = 2 THEN "loop" ELSE "kbc")
    BY <1>4 DEF InitKeyboard, MyMainOrder, Told
  <2>2. ASSUME step = 2 PROVE mode_next'
    <3>1. kbc # "command"
      BY <2>1
    <3>2. mode_next
      BY <1>4, <2>2, <3>1, Zenon DEF InitKeyboard, Told
    <3> QED
      BY <1>4, <3>2, Zenon DEF InitKeyboard
  <2>3. CASE step = 1
    BY <2>1, <2>3 DEF Told
  <2>4. CASE step = 2
    BY <2>1, <2>2, <2>4 DEF Told
  <2> QED
    BY <2>1, <2>3, <2>4
<1>5. CASE KbcTake
  <2>1. /\ kbc # "empty" /\ kbc' = "empty" /\ mode_next' = (kbc = "command")
        /\ kbc_int' = (kbc_int \/ (kbc = "data" /\ mode_next))
        /\ boot' = boot /\ step' = step
    BY <1>5, Zenon DEF KbcTake, mymain
  <2>2. boot = "kbc" => step \in {1, 2}
    BY DEF Told
  <2>3. boot = "kbc" /\ step = 2 => mode_next'
    BY <2>1, Zenon DEF Told
  <2>4. boot = "loop" => kbc_int'
    BY <2>1, Zenon DEF Told
  <2> QED
    BY <2>1, <2>2, <2>3, <2>4, Zenon DEF Told
<1>6. CASE \/ Typed \/ Hardware \/ Strike \/ Irq1 \/ UNCHANGED bootVars
           \/ UNCHANGED <<mymain, board, astray>>
  BY <1>6 DEF Typed, Hardware, Strike, Irq1, bootVars, mymain, board, Told
<1> QED
  BY <1>1, <1>2, <1>3, <1>4, <1>5, <1>6 DEF BNext, MyMain

LEMMA LatchedNext == Latched /\ [BNext]_bootVars => Latched'
<1> SUFFICES ASSUME Latched, [BNext]_bootVars PROVE Latched'
  OBVIOUS
<1>1. CASE WritePic
  BY <1>1, Zenon DEF WritePic, Latched
<1>2. CASE InitKeyboard
  BY <1>2, Zenon DEF InitKeyboard, Latched
<1>3. CASE Strike
  BY <1>3, Zenon DEF Strike, Latched
<1>4. CASE KbcTake
  BY <1>4, Zenon DEF KbcTake, Latched
<1>5. CASE Irq1
  BY <1>5, Zenon DEF Irq1, Latched
<1>6. CASE UNCHANGED <<board, astray>>
  BY <1>6 DEF board, Latched
<1>7. CASE \/ PixelFormat \/ SetIDTEntry \/ AutoCmd \/ AutoCmdDone \/ Typed \/ Hardware
           \/ UNCHANGED bootVars \/ UNCHANGED <<mymain, board, astray>>
  BY <1>6, <1>7 DEF PixelFormat, SetIDTEntry, AutoCmd, AutoCmdDone, Typed, Hardware, bootVars
<1> QED
  BY <1>1, <1>2, <1>3, <1>4, <1>5, <1>7 DEF BNext, MyMain

(* The request of a code is kept through the set-up of the PIC and of the  *)
(* keyboard controller, whatever order their steps and the strokes come in.*)
THEOREM RequestIsKept == BSpec => []RequestKept
<1>1. BInit => Told /\ Latched
  BY DEF BInit, Told, Latched
<1>2. Lines /\ Told /\ Latched => RequestKept
  BY DEF Lines, Pic0Before, HandlerReady, Told, Latched, RequestKept
<1> QED
  BY LinesInit, LinesNext, ToldNext, LatchedNext, <1>1, <1>2, PTL DEF BSpec

-----------------------------------------------------------------------------
(* The command ring before its first doorbell, and once a completion is    *)
(* due or there.                                                           *)
Fresh == ~CRR /\ ~doorbell /\ dequeue = 0
Due == CRR /\ ((dequeue = 0 /\ doorbell) \/ queue # <<>>)

(* The run of xhci by auto_cmd, with at most one slot in use: how far the  *)
(* controller is when the command is at each of its places.                *)
FirstRun ==
  /\ at \in {"init", "drain"} =>
       ~running /\ Fresh /\ queue = <<>> /\ ~wiped /\ enqueue = Base
  /\ at \in {"slots", "CRR", "event"} => running /\ ~wiped
  /\ at = "slots" =>
       (Fresh /\ \A s \in occupied : s >= slot_id) \/ \A s \in occupied : s < slot_id
  /\ at \in {"CRR", "event"} => slot_id \in occupied /\ cr_buf[0].cycle_bit = 1
  /\ at = "CRR" => (~CRR /\ doorbell /\ dequeue = 0) \/ Due
  /\ at = "event" => Due

FirstStart ==
  /\ AtMostOne(occupied) /\ slot_id \in Nat
  /\ boot \in {"format", "idt", "auto"} =>
       at = "shell" /\ ~running /\ Fresh /\ queue = <<>>
  /\ boot = "xhci" => FirstRun

(* While the start runs xhci, each wait of the command is over or some     *)
(* other part of the machine can take the step it waits for: the drain     *)
(* finds no event, the controller starts its ring, and it completes the    *)
(* command, for which there is room (command.cpp 222-324).                 *)
StartGoesOn ==
  boot = "xhci" =>
    /\ at = "drain" => ~HasFront
    /\ at = "CRR" => CRR \/ (running /\ doorbell)
    /\ at = "event" =>
         \/ HasFront
         \/ /\ CRR /\ doorbell /\ cr_buf[dequeue].cycle_bit = 1
            /\ running /\ Succ(enqueue) # ERDP

LEMMA SuccMoves ==
  ASSUME NEW p \in Pointer
  PROVE  Succ(p) # p
<1>0. /\ p[1] \in Nat /\ p[1] < erst_size /\ p[2] \in Nat /\ p[2] < SegmentSize[p[1]]
      /\ SegmentSize[p[1]] \in Nat /\ p = <<p[1], p[2]>> /\ erst_size \in Nat
  BY PointerParts, EventRingAssumption
<1>1. CASE ~LastOfSegment(p)
  BY <1>0, <1>1 DEF Succ
<1>2. CASE LastOfSegment(p) /\ p[1] + 1 < erst_size
  BY <1>0, <1>2 DEF Succ
<1>3. CASE LastOfSegment(p) /\ ~(p[1] + 1 < erst_size)
  <2>1. SUFFICES ASSUME p = Base PROVE FALSE
    BY <1>3 DEF Succ
  <2>2. erst_size = 1 /\ SegmentSize[0] = 1
    BY <1>0, <1>3, <2>1 DEF Base, LastOfSegment
  <2> QED
    BY <2>2, EventRingAssumption
<1> QED
  BY <1>1, <1>2, <1>3

(* Before auto_cmd has got to xhci the controller does nothing.            *)
LEMMA FirstBefore ==
  ASSUME XInv, FirstStart, boot \in {"format", "idt", "auto"}, [BNext]_bootVars
  PROVE  FirstStart'
<1>0. /\ at = "shell" /\ ~running /\ Fresh /\ queue = <<>>
      /\ AtMostOne(occupied) /\ slot_id \in Nat
  BY DEF FirstStart
<1>1. CASE PixelFormat \/ SetIDTEntry
  BY <1>0, <1>1 DEF PixelFormat, SetIDTEntry, MyMainOrder, FirstStart, Fresh, AtMostOne,
       allVars, vars, controller, program, commands
<1>2. CASE AutoCmd
  <2>1. boot' = "xhci" /\ (Enter \/ NoController)
    BY <1>2 DEF AutoCmd
  <2>2. CASE NoController
    BY <1>0, <2>1, <2>2 DEF NoController, FirstStart, FirstRun, AtMostOne
  <2>3. CASE Enter
    BY <1>0, <2>1, <2>3 DEF Enter, Initialize, FirstStart, FirstRun, Fresh, AtMostOne
  <2> QED
    BY <2>1, <2>2, <2>3
<1>3. CASE Xhci \/ Hardware
  BY <1>0, <1>3 DEF Xhci, Initializing, Drained, Vacant, Issue, SeeCRR, SeeEvent, Return,
       Hardware, Xhc, StartRing, Execute, RingEmpty, PortStatusChange, Post, Fresh
<1>4. CASE Strike \/ KbcTake \/ Irq1 \/ UNCHANGED bootVars
  BY <1>0, <1>4 DEF Strike, KbcTake, Irq1, bootVars, mymain, FirstStart, Fresh, AtMostOne,
       allVars, vars, controller, program, commands
<1>5. CASE AutoCmdDone \/ WritePic \/ InitKeyboard \/ Typed
  BY <1>5 DEF AutoCmdDone, WritePic, InitKeyboard, Typed
<1> QED
  BY <1>1, <1>2, <1>3, <1>4, <1>5 DEF BNext, MyMain

(* A step of the command keeps in step with the controller, ...            *)
LEMMA FirstXhci ==
  ASSUME XInv, FirstRun, AtMostOne(occupied), slot_id \in Nat, Xhci
  PROVE  FirstRun' /\ AtMostOne(occupied)' /\ slot_id' \in Nat
<1>0. /\ Inv /\ Command
      /\ cr_buf \in [0 .. kRingSize - 1 -> [cycle_bit : {0, 1}, slot : Slot \cup {NoSlot}]]
      /\ 0 \in 0 .. kRingSize - 1 /\ cleared \in Pointer
  BY XhciCommandAssumption DEF XInv, Command, Inv, TypeOK
<1>1. CASE Initializing
  <2>1. /\ at = "init" /\ at' \in {"init", "drain"} /\ UNCHANGED <<occupied, slot_id, commands>>
        /\ InitializeDequeue \/ InitializeClear
    BY <1>1 DEF Initializing
  <2>2. ~running /\ Fresh /\ queue = <<>> /\ ~wiped /\ enqueue = Base
    BY <2>1 DEF FirstRun
  <2>3. ~Before(cleared, enqueue)
    BY <1>0, <2>2, PointerParts DEF Before, Base
  <2>4. queue' = queue /\ enqueue' = enqueue /\ (running' = running)
    BY <2>1 DEF InitializeDequeue, InitializeClear, controller
  <2>5. ~wiped'
    BY <2>1, <2>2, <2>3, Zenon DEF InitializeDequeue, InitializeClear
  <2> QED
    BY <2>1, <2>2, <2>4, <2>5 DEF FirstRun, Fresh, AtMostOne, commands
<1>2. CASE Drained
  <2>1. occupied \subseteq Slot /\ \A s \in Slot : s >= 0
    BY <1>0 DEF Command, Slot
  <2> QED
    BY <1>2, <2>1 DEF Drained, Run, FirstRun, Fresh, AtMostOne, commands
<1>3. CASE Vacant
  <2>1. occupied \subseteq Nat
    BY <1>0, XhciCommandAssumption DEF Command, Slot
  <2>2. /\ at = "slots" /\ at' = "slots" /\ slot_id' = slot_id + 1 /\ slot_id \notin occupied
        /\ occupied' = occupied /\ UNCHANGED <<vars, commands>>
    BY <1>3 DEF Vacant
  <2>3. /\ (\A s \in occupied : s >= slot_id) => \A s \in occupied : s >= slot_id'
        /\ (\A s \in occupied : s < slot_id) => \A s \in occupied : s < slot_id'
    BY <2>1, <2>2
  <2> QED
    BY <2>2, <2>3 DEF FirstRun, Fresh, AtMostOne, vars, controller, commands
<1>4. CASE Issue
  <2>1. /\ at = "slots" /\ at' = "CRR" /\ slot_id' = slot_id /\ slot_id \in occupied
        /\ occupied' = occupied /\ UNCHANGED <<vars, CRR, dequeue>> /\ doorbell'
        /\ cr_buf' = [cr_buf EXCEPT ![0] = [cycle_bit |-> 1, slot |-> slot_id]]
    BY <1>4 DEF Issue
  <2>2. cr_buf'[0].cycle_bit = 1
    BY <1>0, <2>1
  <2>3. Fresh
    BY <2>1 DEF FirstRun
  <2> QED
    BY <2>1, <2>2, <2>3 DEF FirstRun, Fresh, AtMostOne, vars, controller
<1>5. CASE SeeCRR
  BY <1>5 DEF SeeCRR, FirstRun, Due, AtMostOne, vars, controller, commands
<1>6. CASE SeeEvent
  <2>1. /\ at = "event" /\ at' = "slots" /\ slot_id' = slot_id + 1 /\ occupied' = occupied
        /\ Take
    BY <1>6 DEF SeeEvent
  <2>2. \A s \in occupied : s = slot_id
    BY <2>1 DEF FirstRun, AtMostOne
  <2>3. \A s \in occupied : s < slot_id'
    BY <2>1, <2>2
  <2> QED
    BY <2>1, <2>3 DEF FirstRun, AtMostOne, Take, controller
<1>7. CASE Return
  BY <1>7 DEF Return, FirstRun, AtMostOne
<1> QED
  BY <1>1, <1>2, <1>3, <1>4, <1>5, <1>6, <1>7 DEF Xhci

(* ... and so does one of the controller.                                  *)
LEMMA FirstHardware ==
  ASSUME XInv, FirstRun, Hardware
  PROVE  FirstRun' /\ UNCHANGED program
<1>0. Command /\ queue \in Seq(Event)
  BY DEF XInv, Inv, TypeOK
<1>1. CASE StartRing
  BY <1>1 DEF StartRing, FirstRun, Fresh, Due, vars, controller, program
<1>2. CASE RingEmpty
  <2>1. /\ CRR /\ cr_buf[dequeue].cycle_bit = 0 /\ UNCHANGED <<vars, program, cr_buf, CRR, dequeue>>
    BY <1>2 DEF RingEmpty
  <2>2. at \in {"CRR", "event"} => dequeue # 0
    BY <2>1 DEF FirstRun
  <2> QED
    BY <2>1, <2>2 DEF FirstRun, Fresh, Due, vars, controller, program
<1>3. CASE Execute
  <2>1. /\ CRR /\ dequeue' = dequeue + 1 /\ UNCHANGED <<program, cr_buf, CRR, doorbell>>
        /\ running /\ running' = running /\ wiped' = wiped /\ queue' # <<>>
    BY <1>0, <1>3 DEF Execute, Post
  <2> QED
    BY <2>1 DEF FirstRun, Fresh, Due, program
<1>4. CASE PortStatusChange
  <2>1. /\ UNCHANGED <<program, commands>>
        /\ running /\ running' = running /\ wiped' = wiped /\ queue' # <<>>
    BY <1>0, <1>4 DEF PortStatusChange, Post
  <2> QED
    BY <2>1 DEF FirstRun, Fresh, Due, program, commands
<1> QED
  BY <1>1, <1>2, <1>3, <1>4 DEF Hardware, Xhc

LEMMA FirstNext == XInv /\ FirstStart /\ [BNext]_bootVars => FirstStart'
<1> SUFFICES ASSUME XInv, FirstStart, [BNext]_bootVars PROVE FirstStart'
  OBVIOUS
<1>0. AtMostOne(occupied) /\ slot_id \in Nat
  BY DEF FirstStart
<1>1. CASE boot \in {"format", "idt", "auto"}
  BY <1>1, FirstBefore
<1>2. CASE boot = "xhci"
  <2>0. FirstRun
    BY <1>2 DEF FirstStart
  <2>1. CASE Xhci /\ UNCHANGED <<mymain, board, astray>>
    BY <1>0, <1>2, <2>0, <2>1, FirstXhci DEF FirstStart, mymain
  <2>2. CASE Hardware
    BY <1>0, <1>2, <2>0, <2>2, FirstHardware DEF FirstStart, Hardware, mymain, program, AtMostOne
  <2>3. CASE UNCHANGED <<allVars, boot>>
    BY <1>0, <1>2, <2>0, <2>3 DEF FirstStart, FirstRun, Fresh, Due, AtMostOne, allVars, vars,
         controller, program, commands
  <2>4. CASE Strike \/ KbcTake \/ Irq1 \/ UNCHANGED bootVars
    BY <2>3, <2>4 DEF Strike, KbcTake, Irq1, bootVars, mymain
  <2>5. CASE AutoCmdDone
    BY <1>0, <2>5 DEF AutoCmdDone, MyMainOrder, FirstStart, AtMostOne, allVars, program
  <2> QED
    BY <1>2, <2>1, <2>2, <2>4, <2>5 DEF BNext, MyMain, PixelFormat, SetIDTEntry, AutoCmd,
         WritePic, InitKeyboard, Typed
<1>3. CASE boot \notin {"format", "idt", "auto", "xhci"}
  <2>1. boot' \notin {"format", "idt", "auto", "xhci"}
    BY <1>3 DEF BNext, MyMain, PixelFormat, SetIDTEntry, AutoCmd, AutoCmdDone, WritePic,
         InitKeyboard, Typed, Hardware, Strike, KbcTake, Irq1, bootVars, mymain, MyMainOrder
  <2>2. XStep
    BY BootSteps
  <2>3. occupied' = occupied /\ slot_id' \in Nat
    BY <1>0, <2>2 DEF XStep, NoController, Enter, Initializing, Drained, Vacant, Issue, SeeCRR,
         SeeEvent, Return, StartRing, Execute, RingEmpty, PortStatusChange, allVars, program
  <2> QED
    BY <1>0, <2>1, <2>3 DEF FirstStart, AtMostOne
<1> QED
  BY <1>1, <1>2, <1>3

(* The wait of the start is never one of everybody for everybody, if the   *)
(* controller was halted and at most one slot is in use: the part of       *)
(* KeyboardComesUp that is not about fairness.                             *)
THEOREM StartIsNotStuck ==
  BSpec /\ ~running /\ AtMostOne(occupied) => []StartGoesOn
<1>1. BInit /\ ~running /\ AtMostOne(occupied) => FirstStart
  BY DEF BInit, XInit, Init, FirstStart, Fresh
<1>2. XInv /\ FirstStart => StartGoesOn
  <2> SUFFICES ASSUME XInv, FirstRun
               PROVE  /\ at = "drain" => ~HasFront
                      /\ at = "CRR" => CRR \/ (running /\ doorbell)
                      /\ at = "event" =>
                           \/ HasFront
                           \/ /\ CRR /\ doorbell /\ cr_buf[dequeue].cycle_bit = 1
                              /\ running /\ Succ(enqueue) # ERDP
    BY DEF FirstStart, StartGoesOn
  <2>0. Inv /\ Command /\ enqueue \in Pointer
    BY DEF XInv, Inv, TypeOK
  <2>1. at \in {"drain", "event"} => (HasFront <=> queue # <<>>) /\ (HasFront <=> ERDP # enqueue)
    <3>1. at \in {"drain", "event"} => pc = "ready" /\ ~wiped
      BY <2>0 DEF Command, FirstRun
    <3> QED
      BY <2>0, <3>1, FrontInArc
  <2>2. at = "drain" => ~HasFront
    BY <2>1 DEF FirstRun
  <2>3. at = "CRR" => CRR \/ (running /\ doorbell)
    BY DEF FirstRun, Due
  <2>4. ASSUME at = "event", ~HasFront
        PROVE  /\ CRR /\ doorbell /\ cr_buf[dequeue].cycle_bit = 1
               /\ running /\ Succ(enqueue) # ERDP
    BY <2>0, <2>1, <2>4, SuccMoves DEF FirstRun, Due
  <2> QED
    BY <2>2, <2>3, <2>4
<1> QED
  BY XInvInit, XInvNext, FirstNext, <1>1, <1>2, PTL DEF BSpec
=============================================================================
