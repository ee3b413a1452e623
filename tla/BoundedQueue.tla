---------------------------- MODULE BoundedQueue ----------------------------
(***************************************************************************)
(* What the request and event queues of a market promise: at most Capacity *)
(* items, taken from the front in the order in which they were pushed; the *)
(* last pushes can be taken back.                                          *)
(***************************************************************************)
EXTENDS Integers, Sequences

CONSTANTS
    Items,
    Capacity,
    Empty      \* nothing to return

VARIABLES
    items,     \* the items in the queue, front first
    pushed,    \* how many there have been, without those taken back
    returned   \* what the last call returned

Init == items = <<>> /\ pushed = 0 /\ returned = Empty

PushBack(v) ==
    /\ Len(items) < Capacity
    /\ items' = Append(items, v)
    /\ pushed' = pushed + 1
    /\ returned' = "ok"

Refuse(v) ==
    /\ Len(items) = Capacity
    /\ returned' = v
    /\ UNCHANGED <<items, pushed>>

PopFront ==
    /\ items # <<>>
    /\ items' = Tail(items)
    /\ returned' = Head(items)
    /\ UNCHANGED pushed

PopNothing ==
    /\ items = <<>>
    /\ returned' = Empty
    /\ UNCHANGED <<items, pushed>>

RevertPushes(n) ==
    /\ n <= Len(items)
    /\ items' = SubSeq(items, 1, n)
    /\ pushed' = pushed - (Len(items) - n)
    /\ returned' = "ok"

Next ==
    \/ \E v \in Items : PushBack(v) \/ Refuse(v)
    \/ PopFront
    \/ PopNothing
    \/ \E n \in 0..Capacity : RevertPushes(n)

Spec == Init /\ [][Next]_<<items, pushed, returned>>
=============================================================================
