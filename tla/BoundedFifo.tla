---------------------------- MODULE BoundedFifo -----------------------------
(***************************************************************************)
(* What rigtorp::SPSCQueue promises to its two threads: a first-in first-out *)
(* queue that never holds more than Capacity elements.                       *)
(***************************************************************************)
EXTENDS Naturals, Sequences

CONSTANTS Values, Capacity

VARIABLE items

Init == items = <<>>

Push(v) == Len(items) < Capacity /\ items' = Append(items, v)

Pop == items # <<>> /\ items' = Tail(items)

Next == Pop \/ \E v \in Values : Push(v)

Spec == Init /\ [][Next]_items
=============================================================================
