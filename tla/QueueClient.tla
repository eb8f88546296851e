---------------------------- MODULE QueueClient ----------------------------
(***************************************************************************)
(* One thread of control that owns an ArrayQueue and calls Push and Pop in *)
(* any order, as test/test_queue.cpp does.  items is what the client       *)
(* believes the queue holds, from the error codes it was returned: it      *)
(* appends on a successful Push and drops the head on a successful Pop.    *)
(***************************************************************************)
EXTENDS ArrayQueue

VARIABLE items

vars == <<queue, items>>

Init == Construct /\ items = <<>>

ClientPush(v) ==
  \E err \in Error :
    /\ Push(v, err)
    /\ items' = IF err = kSuccess THEN Append(items, v) ELSE items

ClientPop ==
  \E err \in Error :
    /\ Pop(err)
    /\ items' = IF err = kSuccess THEN Tail(items) ELSE items

Next == (\E v \in T : ClientPush(v)) \/ ClientPop

Spec == Init /\ [][Next]_vars

-----------------------------------------------------------------------------
(* The members stay as the class comment says (queue.hpp lines 14-17).     *)
TypeOK == QueueOK /\ items \in Seq(T)

(* Count() is the number of elements the client put in and has not taken   *)
(* out: the CHECK_EQUALs of test/test_queue.cpp lines 18, 21, 28, 34.      *)
CountAgrees == Count = Len(items)

(* Reading the ring from read_pos on gives the client's elements, oldest   *)
(* first, whatever wrapping and refusals came before: Front() is always    *)
(* the oldest one and nothing is overwritten, skipped or handed out twice. *)
ContentsAgree == Contents = items

(* The ring implements a bounded first-in first-out queue.  The items of   *)
(* the abstract queue are what the members spell, read from read_pos on;   *)
(* what the client believes is not asked.  So one slot stored or passed    *)
(* over wrongly, at the wrap or elsewhere, is a step of no such queue.     *)
Fifo == INSTANCE BoundedFifo WITH Capacity <- N, Item <- T, items <- Contents
IsFifo == Fifo!Spec
=============================================================================
