--------------------------- MODULE SolanaRuntime ---------------------------
(***************************************************************************)
(* One Solana indexer: IndexerRuntime (apis/indexer_api/src/manager) with  *)
(* the handler proxy of the SDK, the history it fetches through            *)
(* SolanaAdapter (chain/solana/src/adapter.rs), and the reader's stream,   *)
(* whose inside is ChainReader.                                            *)
(*                                                                         *)
(* A stream starts wherever the reader is, whatever start block was asked  *)
(* for.  The slots between the last one that was handled and the first one *)
(* of the stream are fetched by a task of their own, while the stream goes *)
(* on.                                                                     *)
(***************************************************************************)
EXTENDS Integers, FiniteSets, SequencesExt, FiniteSetsExt

CONSTANTS
    MaxSlot,    \* bound: the chain's last slot
    Relevant,   \* slots with a transaction that matches the indexer's filter
    Page,       \* LIMIT_FILTER_RESULT: signatures in an answer
    MaxFaults,  \* bound: failures and crashes
    None

VARIABLES
    address,      \* the manifest's source.address: "key", "unparsable" or None
    phase,        \* of the indexer's task: "new", "made", "running" or "ended"
    reader_at,    \* the last slot that the reader has broadcast
    opt_stream,   \* None, "open" or "ended"
    messages,     \* messages in the stream: lists of slots
    start_block,  \* None, or the first slot not yet accounted for
    blocks,       \* the rest of the message that is being handled
    block_slot,   \* the highest slot handled of it, -1 before the first
    got_block,    \* the column of the indexers table
    tasks,        \* history tasks
    handled,      \* history variable: slot -> how often it was handled
    lost,         \* history variable: slots that a failed request or a crash dropped
    origin,       \* history variable: None, or the start block of the first gap it answers for
    crashes, faults

stream == <<reader_at, opt_stream, messages>>
loop == <<start_block, blocks, block_slot>>
ghosts == <<lost, origin, crashes, faults>>
vars == <<address, phase, stream, loop, got_block, tasks, handled, ghosts>>

Slots == 0..MaxSlot
Fault == faults < MaxFaults /\ faults' = faults + 1

\* SolanaFilter::new makes the default key of an address that is no key, which
\* other transactions have.
Init ==
    /\ address \in {"key", "unparsable", None}
    /\ phase = "new"
    /\ reader_at \in {-1, 0}
    /\ got_block \in {-1, 0}
    /\ opt_stream = None
    /\ messages = <<>>
    /\ start_block = IF got_block >= 0 THEN got_block + 1 ELSE None
    /\ blocks = <<>>
    /\ block_slot = -1
    /\ tasks = {}
    /\ handled = [s \in Slots |-> 0]
    /\ lost = {}
    /\ origin = start_block
    /\ crashes = 0
    /\ faults = 0

\* IndexerRuntime::new: the files from IPFS and a manifest with exactly one data
\* source, or the task ends.
new ==
    /\ phase = "new"
    /\ \/ phase' = "made" /\ UNCHANGED faults
       \/ phase' = "ended" /\ Fault
    /\ UNCHANGED <<address, stream, loop, got_block, tasks, handled, lost, origin, crashes>>

\* start, load_mapping_library: the store and the plugin, or the task ends.
start ==
    /\ phase = "made"
    /\ \/ phase' = "running" /\ UNCHANGED faults
       \/ phase' = "ended" /\ Fault
    /\ UNCHANGED <<address, stream, loop, got_block, tasks, handled, lost, origin, crashes>>

\* The reader broadcasts the slots up to s; the indexer gets a message if one of
\* them is relevant.  Without an address no transaction matches.
ReaderSends(s) ==
    /\ s > reader_at
    /\ reader_at' = s
    /\ LET sent == SetToSortSeq(Relevant \cap (reader_at + 1 .. s), <)
       IN  messages' = IF opt_stream = "open" /\ address # None /\ sent # <<>>
                       THEN Append(messages, sent) ELSE messages
    /\ UNCHANGED <<address, phase, opt_stream, loop, got_block, tasks, handled, ghosts>>

\* try_create_block_stream; when it fails the loop sleeps and tries again.
try_create_block_stream ==
    /\ phase = "running"
    /\ opt_stream = None
    /\ opt_stream' = "open"
    /\ messages' = <<>>
    /\ UNCHANGED <<address, phase, reader_at, loop, got_block, tasks, handled, ghosts>>

\* An error of the stream, or no message in time: the stream is made again, and
\* what was in it is dropped.
StreamFails ==
    /\ phase = "running" /\ opt_stream = "open" /\ blocks = <<>>
    /\ Fault
    /\ opt_stream' = None
    /\ messages' = <<>>
    /\ UNCHANGED <<address, phase, reader_at, loop, got_block, tasks, handled, lost, origin, crashes>>

\* The reader closes the stream: message() gives None, now and at every later
\* turn of the loop, which does nothing with it.
StreamEnds ==
    /\ phase = "running" /\ opt_stream = "open" /\ blocks = <<>> /\ messages = <<>>
    /\ Fault
    /\ opt_stream' = "ended"
    /\ UNCHANGED <<address, phase, reader_at, messages, loop, got_block, tasks, handled, lost, origin, crashes>>

\* mapping_history_data: the task's range ends before the first signature of
\* the message.  An address that is no key leaves the task nothing to ask for.
History(from, to) ==
    IF address = "key"
    THEN {[from |-> from, before |-> to, todo |-> "signatures", found |-> {}]} ELSE {}

\* The next message, and a task for the slots that are missing before it.
Receive ==
    /\ phase = "running" /\ opt_stream = "open" /\ blocks = <<>> /\ messages # <<>>
    /\ blocks' = Head(messages)
    /\ messages' = Tail(messages)
    /\ block_slot' = -1
    /\ tasks' = IF start_block # None /\ Head(blocks') > start_block
                THEN tasks \cup History(start_block, Head(blocks')) ELSE tasks
    /\ UNCHANGED <<address, phase, reader_at, opt_stream, start_block, got_block, handled, ghosts>>

\* handle_block_mapping: the handler and the flush of one block, their errors
\* dropped.  After the last block the loop notes the highest slot and writes it
\* to the database; an error there is only logged.
handle_block(s) ==
    /\ phase = "running"
    /\ blocks # <<>>
    /\ s = Head(blocks)
    /\ handled' = [handled EXCEPT ![s] = @ + 1]
    /\ blocks' = Tail(blocks)
    /\ block_slot' = Max({block_slot, s})
    /\ \/ /\ blocks' # <<>>
          /\ UNCHANGED <<start_block, got_block, origin, faults>>
       \/ /\ blocks' = <<>>
          /\ start_block' = block_slot' + 1
          /\ origin' = IF start_block = None THEN start_block' ELSE origin
          /\ \/ got_block' = block_slot' /\ UNCHANGED faults
             \/ Fault /\ UNCHANGED got_block
    /\ UNCHANGED <<address, phase, stream, tasks, lost, crashes>>

\* A plausible bug: the page that reaches the first slot
\* ends the loop before its signatures are taken.
get_signatures_for_address_LastDropped(t) ==
    /\ t.todo = "signatures"
    /\ LET older == {s \in Relevant : s < t.before}
           page == {s \in older : Cardinality({u \in older : u > s}) < Page}
           last == Min(page)
           taken == [t EXCEPT !.before = last, !.found = @ \cup page]
       IN  IF page = {} \/ last <= t.from
           THEN tasks' = (tasks \ {t}) \cup {[t EXCEPT !.todo = "transactions"]}
           ELSE tasks' = (tasks \ {t}) \cup {taken}
    /\ UNCHANGED <<address, phase, stream, loop, got_block, handled, ghosts>>

\* get_signatures_for_address: one page, from the newest to older ones, until
\* a page is empty or its last signature is before the first slot.
get_signatures_for_address(t) ==
    /\ t.todo = "signatures"
    /\ LET older == {s \in Relevant : s < t.before}
           page == {s \in older : Cardinality({u \in older : u > s}) < Page}
           last == Min(page)
           taken == [t EXCEPT !.found = @ \cup {s \in page : t.from <= s}]
       IN  IF page = {} \/ last < t.from
           THEN tasks' = (tasks \ {t}) \cup {[taken EXCEPT !.todo = "transactions"]}
           ELSE tasks' = (tasks \ {t}) \cup {[taken EXCEPT !.before = last]}
    /\ UNCHANGED <<address, phase, stream, loop, got_block, handled, ghosts>>

\* What a task still has to handle.
Remaining(t) ==
    t.found \cup IF t.todo = "signatures" THEN {s \in Relevant : t.from <= s /\ s < t.before} ELSE {}

\* A request for signatures fails: the loop ends, with the pages it has.
SignaturesFail(t) ==
    /\ t.todo = "signatures"
    /\ Fault
    /\ tasks' = (tasks \ {t}) \cup {[t EXCEPT !.todo = "transactions"]}
    /\ lost' = lost \cup (Remaining(t) \ t.found)
    /\ UNCHANGED <<address, phase, stream, loop, got_block, handled, origin, crashes>>

\* get_confirmed_blocks: the transactions in batches; what an answer leaves out,
\* or does not decode, is skipped.
get_confirmed_blocks(t) ==
    /\ t.todo = "transactions"
    /\ \/ /\ tasks' = (tasks \ {t}) \cup {[t EXCEPT !.todo = "blocks"]}
          /\ UNCHANGED <<lost, faults>>
       \/ \E dropped \in SUBSET t.found \ {{}} :
            /\ Fault
            /\ tasks' = (tasks \ {t}) \cup {[t EXCEPT !.todo = "blocks", !.found = @ \ dropped]}
            /\ lost' = lost \cup dropped
    /\ UNCHANGED <<address, phase, stream, loop, got_block, handled, origin, crashes>>

\* The blocks of the task are handled in any order: they come from a hash map.
HandleHistory(t, s) ==
    /\ t.todo = "blocks"
    /\ s \in t.found
    /\ handled' = [handled EXCEPT ![s] = @ + 1]
    /\ tasks' = (tasks \ {t}) \cup {[t EXCEPT !.found = @ \ {s}]}
    /\ UNCHANGED <<address, phase, stream, loop, got_block, ghosts>>

HistoryDone(t) ==
    /\ t.todo = "blocks"
    /\ t.found = {}
    /\ tasks' = tasks \ {t}
    /\ UNCHANGED <<address, phase, stream, loop, got_block, handled, ghosts>>

\* The process dies and starts again, with the slot in the database.  What the
\* tasks had left is before that slot, and no one comes back to it.
Crash ==
    /\ Fault
    /\ phase' = "new"
    /\ crashes' = crashes + 1
    /\ opt_stream' = None
    /\ messages' = <<>>
    /\ blocks' = <<>>
    /\ block_slot' = -1
    /\ start_block' = IF got_block >= 0 THEN got_block + 1 ELSE None
    /\ origin' = IF got_block >= 0 THEN origin ELSE None
    /\ tasks' = {}
    /\ lost' = lost \cup UNION {Remaining(t) : t \in tasks}
    /\ UNCHANGED <<address, reader_at, got_block, handled>>

LoopStep ==
    new \/ start \/ try_create_block_stream \/ Receive \/ \E s \in Slots : handle_block(s)

TaskStep(t) ==
    \/ get_signatures_for_address(t)
    \/ get_confirmed_blocks(t)
    \/ \E s \in Slots : HandleHistory(t, s)
    \/ HistoryDone(t)

Next ==
    \/ \E s \in Slots : ReaderSends(s)
    \/ LoopStep
    \/ StreamFails
    \/ StreamEnds
    \/ \E t \in tasks : TaskStep(t) \/ SignaturesFail(t)
    \/ Crash

\* The runtime schedules the loop and the tasks.
Fairness ==
    /\ WF_vars(LoopStep)
    /\ WF_vars(\E t \in tasks : TaskStep(t))

Spec == Init /\ [][Next]_vars /\ Fairness
-----------------------------------------------------------------------------
\* The values the variables take; no message is empty and no slot is unknown.
TypeOK ==
    /\ address \in {"key", "unparsable", None}
    /\ phase \in {"new", "made", "running", "ended"}
    /\ reader_at \in -1..MaxSlot
    /\ opt_stream \in {None, "open", "ended"}
    /\ messages \in Seq(Seq(Relevant) \ {<<>>})
    /\ start_block \in {None} \cup 0..MaxSlot + 1
    /\ blocks \in Seq(Relevant)
    /\ block_slot \in -1..MaxSlot
    /\ got_block \in -1..MaxSlot
    /\ tasks \subseteq [from : Slots, before : Slots, found : SUBSET Relevant,
                        todo : {"signatures", "transactions", "blocks"}]
    /\ handled \in [Slots -> Nat]
    /\ lost \subseteq Relevant
    /\ origin \in {None} \cup 0..MaxSlot + 1

\* A slot the loop has passed since it began, and what may have become of it.
Passed(s) == start_block # None /\ origin <= s /\ s < start_block
Settled(s) == handled[s] > 0 \/ s \in lost

\* Streams break, messages vanish and requests fail, but a slot that the loop has
\* passed was handled, is in a history task, or was dropped by a request that
\* failed or by a crash: there is no gap that nobody knows of (start and History).
\* This is so for an address that is a key.  One that is not gets blocks and no
\* history, against the comment of mapping_history_data: its gaps stay.
GapsAreFetched ==
    address = "key" =>
        \A s \in Relevant : Passed(s) => Settled(s) \/ \E t \in tasks : s \in Remaining(t)

\* The tasks and the stream share out the slots: none is handled twice but by a
\* restart, which begins again after the slot in the database.
OncePerRestart == \A s \in Slots : handled[s] <= 1 + crashes

\* What the loop has passed is handled in the end, if it was not dropped and the
\* address is a key: the tasks of History end.
HistoryArrives == \A s \in Relevant : (address = "key" /\ Passed(s)) ~> Settled(s)
=============================================================================
