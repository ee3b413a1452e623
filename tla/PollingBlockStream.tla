------------------------- MODULE PollingBlockStream -------------------------
(***************************************************************************)
(* massbit/src/blockchain/polling_block_stream.rs over the Ethereum        *)
(* TriggersAdapter (chain/ethereum): the stream scans a range of blocks,   *)
(* whose size follows the density of triggers, yields the blocks found,    *)
(* and scans the next range.  A scan is two requests in flight at once:    *)
(* the triggers of the range, and the hash of its last block.              *)
(*                                                                         *)
(* The node is external.  Asked for the triggers of a range that ends      *)
(* after its head, a node may refuse, or answer with those it has; by the  *)
(* time it is asked for the hash of the last block it may have that block. *)
(***************************************************************************)
EXTENDS Naturals

CONSTANTS
    StartBlock,     \* the stream_ptr the stream is created with
    MaxBlock,       \* bound: the last block of the chain
    Triggered,      \* the blocks with triggers that match the filter
    MaxRange,       \* max_block_range_size
    Target,         \* target_triggers_per_block_range
    Total           \* set of blocks -> number of their triggers

ASSUME PollingAssumption ==
    /\ MaxBlock \in Nat
    /\ StartBlock \in 0..MaxBlock
    /\ Triggered \subseteq 0..MaxBlock
    /\ MaxRange \in Nat \ {0}
    /\ Target \in Nat
    /\ Total \in [SUBSET (0..MaxBlock) -> Nat]

VARIABLES
    head,        \* the node's latest block
    state,       \* BlockStreamState; "completed" is Reconciliation whose future
                 \* has returned an error, "panicked" the thread that polled it
    stream_ptr,  \* the last block of the ranges scanned
    previous,    \* [total, range] of the last scan: its triggers per block
    range_size,  \* of the scan in flight
    logs,        \* its answers: "pending", "failed" or "ok",
    found,       \* the blocks with triggers among them,
    hash,        \* and "pending", "missing" or "ok" for the last block
    queue,       \* the blocks still to be yielded, in increasing order
    at,          \* the last block yielded,
    last,        \* and whether it came with triggers
    delivered,   \* history: the blocks yielded with their triggers
    missed       \* history: those asked for before the node had them

scan == <<range_size, logs, found, hash>>
vars == <<at, last, head, state, stream_ptr, previous, scan, queue, delivered, missed>>

Least(m, n) == IF m <= n THEN m ELSE n
Greatest(m, n) == IF m <= n THEN n ELSE m

\* The first and last block of the scan in flight.
From == stream_ptr + 1
To == stream_ptr + range_size

\* The size of the next range.  The code divides in f64, and may be one off
\* where the quotient is close to an integer.
RangeSize ==
    LET limit == Least(MaxRange, previous.range * 10)
    IN  IF previous.total = 0 THEN limit
        ELSE Least(Greatest((Target * previous.range) \div previous.total, 1), limit)

\* previous_triggers_per_block of a new stream.
StartingTriggers == 1000000

\* PollingBlockStream::new: so many triggers per block that the first range is 1.
Init ==
    /\ at = StartBlock
    /\ last = FALSE
    /\ head \in StartBlock..MaxBlock
    /\ state = "begin"
    /\ stream_ptr = StartBlock
    /\ previous = [total |-> StartingTriggers, range |-> 1]
    /\ range_size = 1 /\ logs = "pending" /\ found = {} /\ hash = "pending"
    /\ queue = {}
    /\ delivered = {}
    /\ missed = {}

HeadGrows ==
    /\ head < MaxBlock
    /\ head' = head + 1
    /\ UNCHANGED <<at, last, state, stream_ptr, previous, scan, queue, delivered, missed>>

\* BeginReconciliation: next_blocks starts a scan.
BeginScan ==
    /\ state = "begin"
    /\ state' = "scanning"
    /\ range_size' = RangeSize
    /\ logs' = "pending" /\ found' = {} /\ hash' = "pending"
    /\ UNCHANGED <<at, last, head, stream_ptr, previous, queue, delivered, missed>>

\* The blocks with triggers of the scan in flight.
Matching == {b \in Triggered : From <= b /\ b <= To}

\* logs_in_block_range and its like: the triggers in the range, up to the head.
AnswerLogs ==
    /\ state = "scanning"
    /\ logs = "pending"
    /\ \/ /\ logs' = "ok"
          /\ found' = {b \in Matching : b <= head}
          /\ missed' = missed \cup {b \in Matching : b > head}
       \/ logs' = "failed" /\ UNCHANGED <<found, missed>>
    /\ UNCHANGED <<at, last, head, state, stream_ptr, previous, range_size, hash, queue,
                   delivered>>

\* block_hash_by_block_number of the last block.
AnswerHash ==
    /\ state = "scanning"
    /\ hash = "pending"
    /\ hash' = IF To <= head THEN "ok" ELSE "missing"
    /\ UNCHANGED <<at, last, head, state, stream_ptr, previous, range_size, logs, found, queue,
                   delivered, missed>>

\* The blocks found, and the last of the range whether or not it has triggers.
blocks_with_triggers == found \cup {To}

\* Both answers are in: the blocks go into the queue and the range is done.
ScanReturns ==
    /\ state = "scanning"
    /\ logs = "ok" /\ hash = "ok"
    /\ queue' = blocks_with_triggers
    /\ previous' = [total |-> Total[found], range |-> range_size]
    /\ stream_ptr' = To
    /\ state' = "yielding"
    /\ UNCHANGED <<at, last, head, scan, delivered, missed>>

\* One answer is an error, or loading the blocks fails: the stream yields the
\* error and stays where it is.
ScanFails ==
    /\ state = "scanning"
    /\ \/ logs = "failed"
       \/ hash = "missing"
       \/ logs = "ok" /\ hash = "ok"
    /\ state' = "completed"
    /\ UNCHANGED <<at, last, head, stream_ptr, previous, scan, queue, delivered, missed>>

\* run_indexer drops the error and polls again, a future that has completed.
PollCompleted ==
    /\ state = "completed"
    /\ state' = "panicked"
    /\ UNCHANGED <<at, last, head, stream_ptr, previous, scan, queue, delivered, missed>>

\* A plausible bug: the blocks are not sorted.
Yield_Unsorted(b) ==
    /\ state = "yielding"
    /\ b \in queue
    /\ queue' = queue \ {b}
    /\ at' = b
    /\ last' = (b \in found)
    /\ delivered' = IF b \in found THEN delivered \cup {b} ELSE delivered
    /\ UNCHANGED <<head, state, stream_ptr, previous, scan, missed>>

\* YieldingBlocks: the front of the queue, which blocks_with_triggers sorted.
Yield(b) ==
    /\ state = "yielding"
    /\ b \in queue
    /\ \A c \in queue : b <= c
    /\ queue' = queue \ {b}
    /\ at' = b
    /\ last' = (b \in found)
    /\ delivered' = IF b \in found THEN delivered \cup {b} ELSE delivered
    /\ UNCHANGED <<head, state, stream_ptr, previous, scan, missed>>

\* A plausible bug: the stream does not go back to scanning.
Depleted_Stays ==
    /\ state = "yielding"
    /\ queue = {}
    /\ UNCHANGED vars

Depleted ==
    /\ state = "yielding"
    /\ queue = {}
    /\ state' = "begin"
    /\ UNCHANGED <<at, last, head, stream_ptr, previous, scan, queue, delivered, missed>>

StreamStep ==
    \/ BeginScan
    \/ AnswerLogs
    \/ AnswerHash
    \/ ScanReturns
    \/ ScanFails
    \/ PollCompleted
    \/ \E b \in queue : Yield(b)
    \/ Depleted

Next == HeadGrows \/ StreamStep

\* The executor polls the stream whenever it is ready, and requests are answered
\* or time out.
Spec == Init /\ [][Next]_vars /\ WF_vars(StreamStep)
-----------------------------------------------------------------------------
TypeOK ==
    /\ at \in 0..MaxBlock
    /\ last \in BOOLEAN
    /\ head \in 0..MaxBlock
    /\ state \in {"begin", "scanning", "completed", "panicked", "yielding"}
    /\ stream_ptr \in 0..MaxBlock
    /\ previous \in [total : Nat, range : 1..MaxRange]
    /\ range_size \in 1..MaxRange
    /\ logs \in {"pending", "ok", "failed"}
    /\ hash \in {"pending", "ok", "missing"}
    /\ found \subseteq Triggered
    /\ queue \subseteq 0..MaxBlock
    /\ delivered \subseteq Triggered
    /\ missed \subseteq Triggered

Stream == INSTANCE BlockStream

\* The polling stream is a block stream: increasing blocks that the node has,
\* each with its triggers and none with triggers left out, but for those the
\* node was asked for before it had them, for every growth of the chain's head
\* and every size the ranges take.
IsABlockStream == Stream!Spec

\* Every block with triggers up to the last one delivered has been delivered
\* with them, or the node did not have it when it was asked (poll_next).  The
\* trait promises the first alone: "The sequence may omit blocks that contain no
\* triggers" (block_stream.rs:43).
SkipsOnlyMissed ==
    \A b \in Triggered : StartBlock < b /\ b <= at => b \in delivered \/ b \in missed

\* The stream does not stall: a block with triggers that the node has is
\* delivered, unless the node was asked for it too early or the thread has
\* panicked.
Catches ==
    \A b \in Triggered :
        (StartBlock < b /\ b <= head) ~> (b \in delivered \cup missed \/ state = "panicked")

\* instance_manager.rs 281-282: errors of the stream are dropped and it goes on
\* producing blocks; it does not take the thread down.
ContinuesAfterErrors == state # "panicked"
=============================================================================
