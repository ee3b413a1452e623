------------------------------ MODULE RingQueue ------------------------------
(***************************************************************************)
(* Queue of serum_dex/state.rs: the request and event queues of a market,  *)
(* a ring buffer in an account.  head and count are those of its header,   *)
(* seq_num is the event queue's (the request queue does not count pushes). *)
(***************************************************************************)
EXTENDS Integers, Sequences

CONSTANTS
    Items,      \* what is queued
    BufLen,     \* buf.len()
    MaxPushes,  \* bound: on seq_num
    Nothing     \* Err(()) of pop_front, None of peek_front

ASSUME RingAssumption == BufLen \in Nat

VARIABLES
    buf,       \* index -> item; Nothing where none was written yet
    head,
    count,
    seq_num,
    returned   \* what the last call returned

ringVars == <<buf, head, count, seq_num, returned>>

RingInit ==
    /\ buf = [i \in 0 .. BufLen - 1 |-> Nothing]
    /\ head = 0
    /\ count = 0
    /\ seq_num = 0
    /\ returned = Nothing

QueueFull == count = BufLen

\* A plausible bug: the slot does not wrap around at the end of the buffer,
\* but at the head.
PushBack_WrongSlot(v) ==
    /\ ~QueueFull
    /\ seq_num < MaxPushes
    /\ buf' = [buf EXCEPT ![(head + count + 1) % BufLen] = v]
    /\ count' = count + 1
    /\ seq_num' = seq_num + 1
    /\ returned' = "ok"
    /\ UNCHANGED head

PushBack(v) ==
    /\ ~QueueFull
    /\ seq_num < MaxPushes
    /\ buf' = [buf EXCEPT ![(head + count) % BufLen] = v]
    /\ count' = count + 1
    /\ seq_num' = seq_num + 1
    /\ returned' = "ok"
    /\ UNCHANGED head

\* The item comes back.
PushFails(v) ==
    /\ QueueFull
    /\ returned' = v
    /\ UNCHANGED <<buf, head, count, seq_num>>

PopFront ==
    IF count = 0
    THEN /\ returned' = Nothing
         /\ UNCHANGED <<buf, head, count, seq_num>>
    ELSE /\ returned' = buf[head]
         /\ count' = count - 1
         /\ head' = (head + 1) % BufLen
         /\ UNCHANGED <<buf, seq_num>>

RevertPushes(desired_len) ==
    /\ desired_len <= count
    /\ count' = desired_len
    /\ seq_num' = seq_num - (count - desired_len)
    /\ returned' = "ok"
    /\ UNCHANGED <<buf, head>>

RingNext ==
    \/ \E v \in Items : PushBack(v) \/ PushFails(v)
    \/ PopFront
    \/ \E n \in 0..BufLen : RevertPushes(n)

RingSpec == RingInit /\ [][RingNext]_ringVars
-----------------------------------------------------------------------------
\* Queue::iter
Iter == [i \in 1..count |-> buf[(head + i - 1) % BufLen]]

Abstract == INSTANCE BoundedQueue WITH
    Capacity <- BufLen, Empty <- Nothing, items <- Iter, pushed <- seq_num

\* The ring buffer is a bounded queue: wherever its head is, items come out in
\* the order of the pushes, a push fails only when BufLen items wait, and
\* pushes taken back leave the items before them as they were.
IsABoundedQueue == Abstract!Spec
=============================================================================
