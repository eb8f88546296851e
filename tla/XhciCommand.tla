---------------------------- MODULE XhciCommand ----------------------------
(***************************************************************************)
(* The command xhci of command.cpp, from the point where it has found the  *)
(* controller: it gives the controller a command ring, takes over its      *)
(* event ring, sets it running, and for each slot that has a device context*)
(* issues a Configure Endpoint command and waits for an event.  The rest   *)
(* is the controller, again as the code relies on it: rung by the doorbell *)
(* it executes the commands that carry its cycle state, one after another, *)
(* and it ignores a write to CRCR while its command ring is running.       *)
(***************************************************************************)
EXTENDS EventRing

CONSTANTS
  MaxSlotsEnabled,  (* CONFIG, which is at most 255                         *)
  PortChange,       (* an event that answers no command                     *)
  kRingSize,        (* 8                                                    *)
  MaxCalls          (* bound: how often the command is entered              *)

Slot == 0 .. MaxSlotsEnabled - 1
NoSlot == MaxSlotsEnabled

(* The completion of a command is told from others by its slot.            *)
ASSUME XhciCommandAssumption ==
  /\ MaxSlotsEnabled \in Nat /\ kRingSize \in Nat /\ kRingSize > 1
  /\ MaxCalls \in Nat
  /\ PortChange \notin Slot
  /\ Event = Slot \cup {PortChange}

VARIABLES
  xhc_found,  (* whether the PCI table has a controller; see PciCommands    *)
  occupied,   (* the slots with a device context                            *)
  at,         (* where the command is: "shell" (not entered), "init",       *)
              (* "drain", "slots", "CRR" or "event"                         *)
  slot_id,
  calls,
  cr_buf,     (* the command ring                                           *)
  CRR,        (* of the controller: Command Ring Running                    *)
  dequeue,    (* of the controller: the entry of cr_buf it is at            *)
  doorbell,   (* of the controller: it was rung                             *)
  answered    (* history: no event but completions was posted since the     *)
              (* event ring was set up                                      *)

program == <<xhc_found, occupied, at, slot_id, calls>>
commands == <<cr_buf, CRR, dequeue, doorbell>>
allVars == <<vars, program, commands, answered>>

Empty == [cycle_bit |-> 0, slot |-> NoSlot]

XInit ==
  /\ Init
  /\ xhc_found \in BOOLEAN
  /\ occupied \in SUBSET Slot
  /\ at = "shell" /\ slot_id = 0 /\ calls = 0
  /\ cr_buf = [k \in 0 .. kRingSize - 1 |-> Empty]
  /\ CRR = FALSE /\ dequeue = 0 /\ doorbell = FALSE
  /\ answered = TRUE

-----------------------------------------------------------------------------
(* "no xHCI device": the command returns at once.                          *)
NoController ==
  /\ at = "shell" /\ calls < MaxCalls /\ ~xhc_found
  /\ calls' = calls + 1
  /\ UNCHANGED <<vars, xhc_found, occupied, at, slot_id, commands, answered>>

(* cr_buf is cleared, CRCR is written, er_mgr.Initialize() begins.         *)
Enter ==
  /\ at = "shell" /\ calls < MaxCalls /\ xhc_found
  /\ at' = "init" /\ calls' = calls + 1
  /\ cr_buf' = [k \in 0 .. kRingSize - 1 |-> Empty]
  /\ dequeue' = IF CRR THEN dequeue ELSE 0
  /\ Initialize
  /\ answered' = TRUE
  /\ UNCHANGED <<xhc_found, occupied, slot_id, CRR, doorbell>>

Initializing ==
  /\ at = "init"
  /\ InitializeDequeue \/ InitializeClear
  /\ at' = IF pc' = "ready" THEN "drain" ELSE at
  /\ UNCHANGED <<xhc_found, occupied, slot_id, calls, commands, answered>>

(* The loop that prints the front of the event ring, and pops nothing,     *)
(* ends when there is no front.  Then xhc.Initialize() sets Run/Stop.      *)
Drained ==
  /\ at = "drain" /\ ~HasFront
  /\ Run
  /\ at' = "slots" /\ slot_id' = 0
  /\ UNCHANGED <<xhc_found, occupied, calls, commands, answered>>

(* Mutant: a slot without a device context is not passed over.             *)
VacantStuck ==
  /\ at = "slots" /\ slot_id < MaxSlotsEnabled /\ slot_id \notin occupied
  /\ UNCHANGED allVars

Vacant ==
  /\ at = "slots" /\ slot_id < MaxSlotsEnabled /\ slot_id \notin occupied
  /\ slot_id' = slot_id + 1
  /\ UNCHANGED <<vars, xhc_found, occupied, at, calls, commands, answered>>

(* Every command goes to the first entry of the ring; then the doorbell.   *)
Issue ==
  /\ at = "slots" /\ slot_id < MaxSlotsEnabled /\ slot_id \in occupied
  /\ cr_buf' = [cr_buf EXCEPT ![0] = [cycle_bit |-> 1, slot |-> slot_id]]
  /\ doorbell' = TRUE
  /\ at' = "CRR"
  /\ UNCHANGED <<vars, xhc_found, occupied, slot_id, calls, CRR, dequeue, answered>>

SeeCRR ==
  /\ at = "CRR" /\ CRR
  /\ at' = "event"
  /\ UNCHANGED <<vars, xhc_found, occupied, slot_id, calls, commands, answered>>

(* Mutant: the event is not popped.                                        *)
SeeEventKept ==
  /\ at = "event" /\ HasFront
  /\ at' = "slots" /\ slot_id' = slot_id + 1
  /\ UNCHANGED <<vars, xhc_found, occupied, calls, commands, answered>>

SeeEvent ==
  /\ at = "event"
  /\ Take
  /\ at' = "slots" /\ slot_id' = slot_id + 1
  /\ UNCHANGED <<xhc_found, occupied, calls, commands, answered>>

Return ==
  /\ at = "slots" /\ slot_id = MaxSlotsEnabled
  /\ at' = "shell"
  /\ UNCHANGED <<vars, xhc_found, occupied, slot_id, calls, commands, answered>>

(* The command, once entered.                                              *)
Xhci == Initializing \/ Drained \/ Vacant \/ Issue \/ SeeCRR \/ SeeEvent
          \/ Return

-----------------------------------------------------------------------------
(* The controller starts its command ring, ...                             *)
StartRing ==
  /\ running /\ doorbell /\ ~CRR
  /\ CRR' = TRUE
  /\ UNCHANGED <<vars, program, cr_buf, dequeue, doorbell, answered>>

(* ... executes a command and posts its completion, ...                    *)
Execute ==
  /\ CRR /\ doorbell
  /\ cr_buf[dequeue].cycle_bit = 1
  /\ Post(cr_buf[dequeue].slot)
  /\ dequeue' = dequeue + 1
  /\ UNCHANGED <<program, cr_buf, CRR, doorbell, answered>>

(* ... or finds none and waits for the doorbell.                           *)
RingEmpty ==
  /\ CRR /\ doorbell
  /\ cr_buf[dequeue].cycle_bit = 0
  /\ doorbell' = FALSE
  /\ UNCHANGED <<vars, program, cr_buf, CRR, dequeue, answered>>

(* Something is plugged in or out.                                         *)
PortStatusChange ==
  /\ Post(PortChange)
  /\ answered' = FALSE
  /\ UNCHANGED <<program, commands>>

Xhc == StartRing \/ Execute \/ RingEmpty

-----------------------------------------------------------------------------
(* Unless a port changes or memset erased an event, the event that ends    *)
(* the wait for a slot is the completion of that slot's command            *)
(* (command.cpp 294-324).                                                  *)
OwnCompletion ==
  [][at = "event" /\ at' = "slots" /\ answered /\ ~wiped
       => Front.event = slot_id]_allVars
=============================================================================
