---------------------------- MODULE BoundedFifo ----------------------------
(***************************************************************************)
(* What a bounded first-in first-out queue promises its client: items come *)
(* out in the order they went in, each once, and never more than Capacity  *)
(* of them are inside.  A refused operation is a stuttering step.          *)
(***************************************************************************)
EXTENDS Naturals, Sequences

CONSTANTS Capacity, Item

VARIABLE items

Init == items = <<>>

Put(v) == /\ Len(items) < Capacity
          /\ items' = Append(items, v)

Take == /\ items # <<>>
        /\ items' = Tail(items)

Next == (\E v \in Item : Put(v)) \/ Take

Spec == Init /\ [][Next]_items
=============================================================================
