----------------------------- MODULE ChainReader -----------------------------
(***************************************************************************)
(* chain-reader/src: the Solana blocks of one network, for every indexer   *)
(* that asked for them.  ChainAdapter::start (solana_chain_adapter.rs)     *)
(* spawns a request per slot; the answers reach the broadcaster thread in  *)
(* any order; BlockBuffer (indexer_broadcast.rs) puts them in order, and   *)
(* broadcast_blocks sends every indexer the blocks that match its filter.  *)
(* stream_service.rs registers indexers under the same lock.               *)
(*                                                                         *)
(* A response is the set of the slots of its blocks, which it holds in     *)
(* their order; Match tells whose filter they match.  A slot whose request *)
(* failed is sent on without a block.                                      *)
(***************************************************************************)
EXTENDS Naturals, Sequences, Functions, FiniteSets

CONSTANTS
    MaxSlot,      \* bound: the last slot the node reaches
    FirstRoot,    \* the node's root (its slot less the margin) at the start
    HasBlock,     \* the slots that were not skipped by the chain,
    Undecodable,  \* and those whose block decode_encoded_block may panic on
    Match,        \* slot -> hashes of the indexers whose filter it matches
    Conn,         \* calls of Stream::blocks
    hash,         \* connection -> indexer_hash of its request
    Batch,        \* BLOCK_BATCH_SIZE
    Permits,      \* of the adapter's semaphore: 2 * BLOCK_BATCH_SIZE
    ChannelSize,  \* QUEUE_BUFFER of the channel to the broadcaster
    QueueSize,    \* QUEUE_BUFFER of an indexer's channel
    Lag           \* how far behind its root the node may answer get_slot

Slot == 0..MaxSlot

\* BlockInfo: the first slot, or a slot with its block or without one.
BlockInfo == [slot : Slot, is : {"first", "block", "none"}]

ASSUME ReaderAssumption ==
    /\ MaxSlot \in Nat
    /\ FirstRoot \in Slot
    /\ HasBlock \subseteq Slot
    /\ Undecodable \subseteq HasBlock
    /\ {Batch, Permits, ChannelSize, QueueSize} \subseteq Nat \ {0}
    /\ Lag \in 0..FirstRoot

VARIABLES
    root,           \* the node's root
    announced,      \* the broadcaster was told the first slot
    next,           \* the next slot to request,
    last_block,     \* and the end of the range that is being requested
    fetching,       \* slots requested, each with a permit
    answers,        \* of BlockInfo: answered, not yet in the channel
    channel,        \* of BlockInfo, to the broadcaster
    expected_slot,
    buffer,         \* BlockBuffer::queue
    indexers,       \* ind_senders: the registered connections, in any order
    outgoing,       \* the slots being broadcast,
    turn,           \* and the connections still to be served; the lock is held
    taken,          \* hashes whose blocks have been sent in this broadcast
    closed,         \* connections whose receiver is gone
    queued,         \* connection -> responses in its channel
    got,            \* history: slots answered with a block,
    lost,           \* and slots whose task panicked
    since,          \* history: connection -> expected_slot at its registration
    sent            \* history: connection -> responses sent to its channel

reader == <<announced, next, last_block, fetching, answers, got, lost>>
service == <<expected_slot, buffer, indexers, outgoing, turn, taken, sent>>
clients == <<closed, queued, since>>
readerVars == <<root, reader, channel, service, clients>>

Lesser(m, n) == IF m <= n THEN m ELSE n

ReaderInit ==
    /\ root = FirstRoot
    /\ announced = FALSE /\ next = 0 /\ last_block = 0
    /\ fetching = {} /\ answers = {} /\ got = {} /\ lost = {}
    /\ channel = <<>>
    /\ expected_slot = 0 /\ buffer = {}
    /\ indexers = {} /\ outgoing = {} /\ turn = {} /\ taken = {}
    /\ closed = {}
    /\ queued = [c \in Conn |-> 0]
    /\ since = [c \in Conn |-> 0]
    /\ sent = [c \in Conn |-> <<>>]

RootGrows ==
    /\ root < MaxSlot
    /\ root' = root + 1
    /\ UNCHANGED <<reader, channel, service, clients>>

\* The first turn of start's loop: the broadcaster is told the first slot.
Announce(current_root) ==
    /\ ~announced
    /\ announced' = TRUE
    /\ channel' = Append(channel, [slot |-> current_root, is |-> "first"])
    /\ next' = current_root
    /\ last_block' = current_root
    /\ UNCHANGED <<root, fetching, answers, got, lost, service, clients>>

\* number_get_slot.  The subtraction is of u64: in a release build a root that
\* went backwards makes it huge, and the batch a full one.
NumberGetSlot(current_root) ==
    IF current_root < last_block THEN Batch ELSE Lesser(current_root - last_block, Batch)

\* A later turn: all slots of the last range are requested, and the node answers
\* get_slot with something other than the last root.  MaxSlot bounds the range.
GetSlot(current_root) ==
    /\ announced
    /\ next = last_block
    /\ current_root # last_block
    /\ last_block + NumberGetSlot(current_root) <= MaxSlot
    /\ last_block' = last_block + NumberGetSlot(current_root)
    /\ UNCHANGED <<root, announced, next, fetching, answers, got, lost, channel, service, clients>>

\* A permit is free, and a task for the next slot of the range is spawned.
Spawn ==
    /\ next < last_block
    /\ Cardinality(fetching) < Permits
    /\ fetching' = fetching \cup {next}
    /\ next' = next + 1
    /\ UNCHANGED <<root, announced, last_block, answers, got, lost, channel, service, clients>>

\* get_block: the block, or none if the request fails or the slot has none; the
\* permit is returned.  Its request blocks the task, so the timeout around it
\* never fires.
get_block(s, is) ==
    /\ s \in fetching
    /\ is = "block" => s \in HasBlock
    /\ fetching' = fetching \ {s}
    /\ answers' = answers \cup {[slot |-> s, is |-> is]}
    /\ got' = IF is = "block" THEN got \cup {s} ELSE got
    /\ UNCHANGED <<root, announced, next, last_block, lost, channel, service, clients>>

\* decode_encoded_block unwraps what the node may leave out: the task dies with
\* its slot, and only the permit comes back.
TaskPanics(s) ==
    /\ s \in fetching \cap Undecodable
    /\ fetching' = fetching \ {s}
    /\ lost' = lost \cup {s}
    /\ UNCHANGED <<root, announced, next, last_block, answers, got, channel, service, clients>>

\* A task passes its answer on; tasks overtake one another.
SendBlock(a) ==
    /\ a \in answers
    /\ Len(channel) < ChannelSize
    /\ answers' = answers \ {a}
    /\ channel' = Append(channel, a)
    /\ UNCHANGED <<root, announced, next, last_block, fetching, got, lost, service, clients>>

\* The slot at which handle_incoming_block finds the buffer's run ended.
FirstMissing(end) ==
    /\ \A a \in buffer : a.slot # end
    /\ \A u \in expected_slot + 1..end - 1 : \E a \in buffer : a.slot = u

Seeded ==
    /\ turn = {}
    /\ channel # <<>>
    /\ Head(channel).is = "first"
    /\ expected_slot' = Head(channel).slot
    /\ channel' = Tail(channel)
    /\ UNCHANGED <<root, reader, buffer, indexers, outgoing, turn, taken, sent, clients>>

\* A plausible bug: a block that comes early is dropped.
Buffered_Drops ==
    /\ turn = {}
    /\ channel # <<>>
    /\ Head(channel).is # "first"
    /\ Head(channel).slot # expected_slot
    /\ channel' = Tail(channel)
    /\ UNCHANGED <<root, reader, service, clients>>

\* handle_incoming_block for a slot that is not the expected one,
Buffered ==
    /\ turn = {}
    /\ channel # <<>>
    /\ Head(channel).is # "first"
    /\ Head(channel).slot # expected_slot
    /\ buffer' = {a \in buffer : a.slot # Head(channel).slot} \cup {Head(channel)}
    /\ channel' = Tail(channel)
    /\ UNCHANGED <<root, reader, expected_slot, indexers, outgoing, turn, taken, sent, clients>>

\* A plausible bug: only the block that has arrived leaves the buffer.
Released_OneAtATime ==
    /\ turn = {}
    /\ channel # <<>>
    /\ Head(channel).is # "first"
    /\ Head(channel).slot = expected_slot
    /\ expected_slot' = expected_slot + 1
    /\ outgoing' = IF Head(channel).is = "block" THEN {expected_slot} ELSE {}
    /\ indexers' = indexers \ closed
    /\ turn' = indexers'
    /\ taken' = {}
    /\ channel' = Tail(channel)
    /\ UNCHANGED <<root, reader, buffer, sent, clients>>

\* and for the expected one: it and the buffered ones that follow it without a
\* gap are broadcast, to the indexers that are still there.
Released ==
    /\ turn = {}
    /\ channel # <<>>
    /\ Head(channel).is # "first"
    /\ Head(channel).slot = expected_slot
    /\ \E end \in expected_slot + 1..MaxSlot + 1 :
           LET blocks == {a \in buffer : a.slot < end /\ a.slot > expected_slot} \cup {Head(channel)}
           IN  /\ FirstMissing(end)
               /\ expected_slot' = end
               /\ buffer' = buffer \ blocks
               /\ outgoing' = {a.slot : a \in {b \in blocks : b.is = "block"}}
    /\ indexers' = indexers \ closed
    /\ turn' = indexers'
    /\ taken' = {}
    /\ channel' = Tail(channel)
    /\ UNCHANGED <<root, reader, sent, clients>>

\* The blocks of this broadcast for a connection.  They are kept by hash, so the
\* first connection with the hash takes them: an indexer that has connected again
\* shares them with its old connection for as long as that one is not closed.
Filtered(c) == IF hash[c] \in taken THEN {} ELSE {s \in outgoing : hash[c] \in Match[s]}

\* The broadcast's loop over the indexers: a full channel holds it up, and the
\* lock with it; the error of a closed one is dropped.
SendTo(c) ==
    /\ c \in turn
    /\ \/ /\ Filtered(c) = {}
          /\ UNCHANGED <<queued, sent>>
       \/ /\ Filtered(c) # {}
          /\ \/ c \in closed /\ UNCHANGED queued
             \/ /\ c \notin closed /\ queued[c] < QueueSize
                /\ queued' = [queued EXCEPT ![c] = @ + 1]
          /\ sent' = [sent EXCEPT ![c] = Append(@, Filtered(c))]
    /\ taken' = taken \cup {hash[c]}
    /\ turn' = turn \ {c}
    /\ UNCHANGED <<root, reader, channel, expected_slot, buffer, indexers, outgoing, closed, since>>

\* register_indexer, between two broadcasts.
register_indexer(c) ==
    /\ turn = {}
    /\ c \notin indexers \cup closed
    /\ indexers' = indexers \cup {c}
    /\ since' = [since EXCEPT ![c] = expected_slot]
    /\ UNCHANGED <<root, reader, channel, expected_slot, buffer, outgoing, turn, taken, sent,
                   closed, queued>>

\* The indexer takes a response from its stream,
Read(c) ==
    /\ queued[c] > 0
    /\ queued' = [queued EXCEPT ![c] = @ - 1]
    /\ UNCHANGED <<root, reader, channel, service, closed, since>>

\* or goes away.
Close(c) ==
    /\ c \in indexers \ closed
    /\ closed' = closed \cup {c}
    /\ queued' = [queued EXCEPT ![c] = 0]
    /\ UNCHANGED <<root, reader, channel, service, since>>

AdapterStep ==
    \/ \E current_root \in root - Lag..root : Announce(current_root) \/ GetSlot(current_root)
    \/ Spawn

TaskStep ==
    \/ \E s \in fetching : TaskPanics(s) \/ \E is \in {"block", "none"} : get_block(s, is)
    \/ \E a \in answers : SendBlock(a)

BroadcastStep == Seeded \/ Buffered \/ Released \/ \E c \in turn : SendTo(c)

ReaderNext ==
    \/ RootGrows
    \/ AdapterStep
    \/ TaskStep
    \/ BroadcastStep
    \/ \E c \in Conn : register_indexer(c) \/ Read(c) \/ Close(c)

\* The two threads and the spawned tasks run, and indexers read their streams.
ReaderFairness ==
    /\ WF_readerVars(AdapterStep)
    /\ WF_readerVars(TaskStep)
    /\ WF_readerVars(BroadcastStep)
    /\ \A c \in Conn : WF_readerVars(Read(c))

ReaderSpec == ReaderInit /\ [][ReaderNext]_readerVars /\ ReaderFairness
-----------------------------------------------------------------------------
ReaderTypeOK ==
    /\ root \in Slot
    /\ announced \in BOOLEAN
    /\ next \in Slot /\ last_block \in Slot
    /\ fetching \subseteq Slot /\ got \subseteq Slot /\ lost \subseteq Slot
    /\ answers \cup buffer \subseteq [slot : Slot, is : {"block", "none"}]
    /\ channel \in Seq(BlockInfo) /\ Len(channel) <= ChannelSize
    /\ expected_slot \in 0..MaxSlot + 1
    /\ turn \subseteq indexers /\ indexers \subseteq Conn
    /\ outgoing \subseteq Slot
    /\ taken \subseteq {hash[c] : c \in Conn}
    /\ closed \subseteq Conn
    /\ queued \in [Conn -> 0..QueueSize]
    /\ since \in [Conn -> 0..MaxSlot + 1] /\ sent \in [Conn -> Seq(SUBSET Slot)]

InOrder(responses) ==
    \A i, j \in DOMAIN responses :
        i < j => \A s \in responses[i], t \in responses[j] : s < t

\* What a connection has been sent, and what has gone to others with its hash.
SentTo(c) == UNION Range(sent[c])
Rivals(c) == UNION {SentTo(d) : d \in {e \in Conn \ {c} : hash[e] = hash[c]}}

\* The blocks read since a connection was registered that match its filter.
Owed(c) == {s \in got : since[c] <= s /\ s < expected_slot /\ hash[c] \in Match[s]}

\* Answers that overtake one another, requests that fail, full channels and
\* indexers that come and go neither repeat nor reorder blocks, and lose none:
\* broadcast_blocks has sent an open connection, in increasing order, every block
\* it is owed except those that it sent to another connection with the same
\* indexer hash, and no block went to both.  An indexer that connects again
\* misses what its old connection still takes (indexer_broadcast.rs:161).
SentWhatMatches ==
    turn = {} =>
        \A c \in indexers \ closed :
            InOrder(sent[c]) /\ SentTo(c) = Owed(c) \ Rivals(c)

\* A slot that was requested and not yet broadcast is on its way: the gap that
\* handle_incoming_block waits for is a slot that some task will still send,
\* unless that task has panicked.
GapsAreInFlight ==
    \A s \in Slot :
        announced /\ expected_slot <= s /\ s < next =>
            \/ s \in fetching \cup lost
            \/ \E m \in answers \cup buffer \cup Range(channel) : m.slot = s /\ m.is # "first"
            \/ \E m \in Range(channel) : s < m.slot /\ m.is = "first"

\* Every slot below the root passes the broadcast, if indexers read their
\* streams and no task panicked for it or a slot before it: the semaphore, the
\* bounded channels and the lock that is held over a send do not end up waiting
\* for one another.
EverySlotPasses ==
    \A s \in Slot \ {MaxSlot} : (announced /\ next <= s /\ s < root)
                     ~> (s < expected_slot \/ \E t \in lost : t <= s)

\* Blocks get through the reader: what matches has been sent to the connection or
\* to another with its hash, and a gap is a slot that is still on its way or whose
\* task has panicked (handle_incoming_block, broadcast_blocks).
SlotsAreAccounted == ReaderTypeOK /\ SentWhatMatches /\ GapsAreInFlight
=============================================================================
