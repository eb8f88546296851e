----------------------------- MODULE EventRing -----------------------------
(***************************************************************************)
(* The event ring of an xHCI host controller: eventring::Manager of        *)
(* xhci_er.hpp, which consumes, and the controller, which produces.  They  *)
(* share the segments in memory and the register ERDP.  The controller is  *)
(* hardware and is modelled as the code relies on it: a write to ERSTBA    *)
(* makes it start anew with cycle state 1, it marks what it writes with    *)
(* its cycle state, and it never fills the entry before ERDP.              *)
(***************************************************************************)
EXTENDS Naturals, Sequences

CONSTANTS
  Event,
  NoEvent,       (* what an entry without an event of this run holds        *)
  erst_size,     (* the number of segments                                  *)
  SegmentSize    (* the number of entries of each                           *)

ASSUME EventRingAssumption ==
  /\ NoEvent \notin Event
  /\ erst_size \in Nat \ {0}
  /\ SegmentSize \in [0 .. erst_size - 1 -> Nat \ {0}]
  /\ erst_size = 1 => SegmentSize[0] > 1

(* An address in the ring: the segment, and the entry in it.               *)
Pointer == UNION {{s} \X (0 .. SegmentSize[s] - 1) : s \in 0 .. erst_size - 1}
Base == <<0, 0>>
TRB == [cycle_bit : {0, 1}, event : Event \cup {NoEvent}]

VARIABLES
  mem,              (* the segments                                         *)
  ERDP,             (* the register, where the next event is to be read     *)
  producer_cycle,   (* of the Manager: producer_cycle_                      *)
  erst_index,       (* of the Manager: erst_index_                          *)
  pc,               (* how far Initialize is: "none", "dequeue", "clear"    *)
                    (* or "ready"                                           *)
  cleared,          (* of Initialize: the entry memset is at                *)
  running,          (* of the controller: Run/Stop                          *)
  enqueue,          (* of the controller: where it writes next              *)
  cycle,            (* of the controller: its cycle state                   *)
  queue,            (* history: the events written and not yet popped       *)
  wiped             (* history: memset erased one of them                   *)

manager == <<producer_cycle, erst_index>>
controller == <<running, enqueue, cycle>>
vars == <<mem, ERDP, manager, pc, cleared, controller, queue, wiped>>

LastOfSegment(p) == p[2] + 1 = SegmentSize[p[1]]
Succ(p) == IF ~LastOfSegment(p) THEN <<p[1], p[2] + 1>>
           ELSE IF p[1] + 1 < erst_size THEN <<p[1] + 1, 0>> ELSE Base
Before(p, q) == p[1] < q[1] \/ (p[1] = q[1] /\ p[2] < q[2])

(* The firmware, or an earlier command, has left anything.                 *)
Init ==
  /\ mem \in [Pointer -> [cycle_bit : {0, 1}, event : {NoEvent}]]
  /\ ERDP \in Pointer
  /\ producer_cycle \in {0, 1} /\ erst_index = 0
  /\ pc = "none" /\ cleared = Base
  /\ running \in BOOLEAN /\ enqueue \in Pointer /\ cycle \in {0, 1}
  /\ queue = <<>> /\ wiped = FALSE

-----------------------------------------------------------------------------
(* The controller writes an event, at any time while it runs.              *)
Post(e) ==
  /\ running /\ pc # "none"
  /\ Succ(enqueue) # ERDP
  /\ mem' = [mem EXCEPT ![enqueue] = [cycle_bit |-> cycle, event |-> e]]
  /\ enqueue' = Succ(enqueue)
  /\ cycle' = IF Succ(enqueue) = Base THEN 1 - cycle ELSE cycle
  /\ queue' = Append(queue, e)
  /\ UNCHANGED <<ERDP, manager, pc, cleared, running, wiped>>

-----------------------------------------------------------------------------
(* Mutant: the expected cycle bit is left as it is.                        *)
InitializeKeepsCycle ==
  /\ pc \in {"none", "ready"} /\ pc' = "dequeue"
  /\ enqueue' = Base /\ cycle' = 1
  /\ queue' = <<>> /\ wiped' = FALSE
  /\ erst_index' = 0
  /\ UNCHANGED <<mem, ERDP, producer_cycle, cleared, running>>

(* Initialize: ERSTBA is written with the value it has, which resets the   *)
(* controller's side, and the members are set; ...                         *)
Initialize ==
  /\ pc \in {"none", "ready"} /\ pc' = "dequeue"
  /\ enqueue' = Base /\ cycle' = 1
  /\ queue' = <<>> /\ wiped' = FALSE
  /\ producer_cycle' = 1 /\ erst_index' = 0
  /\ UNCHANGED <<mem, ERDP, cleared, running>>

(* ... the dequeue pointer is written; ...                                 *)
InitializeDequeue ==
  /\ pc = "dequeue" /\ pc' = "clear"
  /\ ERDP' = Base /\ cleared' = Base
  /\ UNCHANGED <<mem, manager, controller, queue, wiped>>

(* ... the segments are cleared, while the controller may be writing.      *)
InitializeClear ==
  /\ pc = "clear"
  /\ mem' = [mem EXCEPT ![cleared] = [cycle_bit |-> 0, event |-> NoEvent]]
  /\ wiped' = (wiped \/ Before(cleared, enqueue))
  /\ cleared' = Succ(cleared)
  /\ pc' = IF Succ(cleared) = Base THEN "ready" ELSE pc
  /\ UNCHANGED <<ERDP, manager, controller, queue>>

(* xhc.Initialize() of xhci.cpp sets Run/Stop.                             *)
Run ==
  /\ pc = "ready" /\ running' = TRUE
  /\ UNCHANGED <<mem, ERDP, manager, pc, cleared, enqueue, cycle, queue, wiped>>

-----------------------------------------------------------------------------
Front == mem[ERDP]
HasFront == Front.cycle_bit = producer_cycle

(* Mutant: the expected cycle bit changes at the end of each segment.      *)
PopEachSegment ==
  /\ IF LastOfSegment(ERDP) /\ ERDP[1] = erst_index
       THEN /\ erst_index' = IF erst_index + 1 = erst_size THEN 0 ELSE erst_index + 1
            /\ producer_cycle' = 1 - producer_cycle
            /\ ERDP' = <<erst_index', 0>>
       ELSE /\ ERDP' = <<ERDP[1], ERDP[2] + 1>>
            /\ UNCHANGED manager

(* Mutant: the segment index is not taken back to 0.                       *)
PopNoWrap ==
  /\ IF LastOfSegment(ERDP) /\ ERDP[1] = erst_index
       THEN /\ erst_index' = erst_index + 1
            /\ producer_cycle' = IF erst_index + 1 = erst_size
                                   THEN 1 - producer_cycle ELSE producer_cycle
            /\ ERDP' = <<erst_index', 0>>
       ELSE /\ ERDP' = <<ERDP[1], ERDP[2] + 1>>
            /\ UNCHANGED manager

(* The end of the segment is that of the segment erst_index names.         *)
Pop ==
  /\ IF LastOfSegment(ERDP) /\ ERDP[1] = erst_index
       THEN /\ erst_index' = IF erst_index + 1 = erst_size THEN 0 ELSE erst_index + 1
            /\ producer_cycle' = IF erst_index + 1 = erst_size
                                   THEN 1 - producer_cycle ELSE producer_cycle
            /\ ERDP' = <<erst_index', 0>>
       ELSE /\ ERDP' = <<ERDP[1], ERDP[2] + 1>>
            /\ UNCHANGED manager

(* A caller takes the event at the front.                                  *)
Take ==
  /\ pc = "ready" /\ HasFront
  /\ Pop
  /\ queue' = IF queue = <<>> THEN queue ELSE Tail(queue)
  /\ UNCHANGED <<mem, pc, cleared, controller, wiped>>

Next ==
  \/ \E e \in Event : Post(e)
  \/ Initialize \/ InitializeDequeue \/ InitializeClear \/ Run
  \/ Take

Spec == Init /\ [][Next]_vars

-----------------------------------------------------------------------------
TypeOK ==
  /\ mem \in [Pointer -> TRB]
  /\ ERDP \in Pointer /\ enqueue \in Pointer /\ cleared \in Pointer
  /\ producer_cycle \in {0, 1} /\ cycle \in {0, 1}
  /\ erst_index \in 0 .. erst_size - 1
  /\ pc \in {"none", "dequeue", "clear", "ready"}
  /\ running \in BOOLEAN /\ wiped \in BOOLEAN
  /\ queue \in Seq(Event)

(* There is a front exactly if there is an event to take, and it is the    *)
(* oldest one: whatever the ring held before, across its segments and any  *)
(* number of turns, unless Initialize erased an event of a controller that *)
(* was running (xhci_er.hpp 66-115).                                       *)
FrontIsOldest ==
  pc = "ready" /\ ~wiped =>
    /\ HasFront <=> queue # <<>>
    /\ HasFront => Front.event = Head(queue)
=============================================================================
