---------------------------- MODULE BlockStream ----------------------------
(***************************************************************************)
(* What a block stream gives run_indexer                                   *)
(* (massbit/src/blockchain/block_stream.rs): blocks in increasing order,   *)
(* each with all of its triggers that match the filter; blocks without     *)
(* such triggers may be left out.  The trait says no more.  A stream over  *)
(* a node can only keep to it for what the node has when it is asked:      *)
(* `missed` are the blocks whose triggers the node was asked for before it *)
(* had them, and only those may be passed over or come without triggers.   *)
(***************************************************************************)
EXTENDS Naturals

CONSTANTS
    StartBlock,  \* the stream delivers blocks after this one
    MaxBlock,    \* bound: the last block of the chain
    Triggered    \* the blocks with triggers that match the stream's filter

VARIABLES
    head,    \* the node's latest block
    at,      \* the last block delivered
    last,    \* whether it came with triggers
    missed   \* the blocks asked for too early

Init ==
    /\ head \in 0..MaxBlock
    /\ at = StartBlock
    /\ last = FALSE
    /\ missed = {}

Grow ==
    /\ head' \in (head + 1)..MaxBlock
    /\ UNCHANGED <<at, last, missed>>

\* The node is asked for blocks it does not have yet, none of them delivered.
Miss ==
    /\ \E early \in SUBSET {b \in Triggered : head < b /\ at < b} :
          missed' = missed \cup early
    /\ UNCHANGED <<head, at, last>>

Deliver(b) ==
    /\ b > at /\ b <= head
    /\ \A c \in Triggered \ missed : at < c => b <= c
    /\ at' = b
    /\ last' = (b \in Triggered \ missed)
    /\ UNCHANGED <<head, missed>>

Next == Grow \/ Miss \/ \E b \in 0..MaxBlock : Deliver(b)

Spec == Init /\ [][Next]_<<head, at, last, missed>>
=============================================================================
