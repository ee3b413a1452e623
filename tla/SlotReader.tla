----------------------------- MODULE SlotReader -----------------------------
(***************************************************************************)
(* chain-reader/src/solana_chain.rs: what the gRPC service of              *)
(* grpc_stream.rs runs for a subscriber of Solana blocks.  loop_get_block  *)
(* asks for the signatures of the program's transactions, newest first,    *)
(* sends the transactions in batches, oldest first, and then follows the   *)
(* chain: a task for each slot gets its block, and SendQueue puts the      *)
(* blocks in order.                                                        *)
(*                                                                         *)
(* The filter has one address, the case the code's comment says it         *)
(* covers.  A filtered block is the slot it is of.                         *)
(***************************************************************************)
EXTENDS Integers, Sequences, Bags, SequencesExt, FiniteSetsExt

CONSTANTS
    None,
    MaxSlot,    \* bound: the last slot of the chain
    Txs,        \* the program's transactions, newest first: [slot, err]
    Skipped,    \* slots without a block,
    Undecodable, \* and slots whose block may lack what decode_encoded_block unwraps
    Subscribers, \* the pairs of a start block, or None, and a build of the reader
    Margin,     \* BLOCK_AVAILABLE_MARGIN
    Limit,      \* LIMIT_FILTER_RESULT
    TxBatch,    \* TRANSACTION_BATCH_SIZE
    Batch,      \* BLOCK_BATCH_SIZE
    MaxFaults   \* bound: requests that fail

VARIABLES
    start_block, build,
    phase,      \* of loop_get_block
    asked,      \* the signature to continue before, None for the newest
    filter_txs, \* transactions found: places in Txs
    start_tx,   \* those that remain to be sent
    last,       \* last_indexed_slot, while a range is spawned the next slot of it
    upto,       \* the end of the range
    tasks,      \* slots whose block is requested, each with a permit
    decoded,    \* slots whose task has its block, or none: <<slot, has transactions>>
    lost,       \* slots whose task has panicked
    queue,      \* SendQueue: slot -> whether its block has transactions
    sending,    \* sending_slot
    packed,     \* responses of tasks, to be sent
    tip, open, faults,
    history,    \* responses sent before following the chain,
    sent,       \* slots sent while following it,
    first,      \* the slot it began with,
    packs       \* and the slots of each response prepared, with those left out

request == <<start_block, build>>
found == <<asked, filter_txs, start_tx, history>>
follow == <<last, upto, first>>
answers == <<tasks, decoded, lost>>
send_queue == <<queue, sending, packs>>
world == <<tip, open, faults>>
vars == <<request, phase, found, follow, answers, send_queue, packed, sent, world>>

root == tip - Margin
Relevant == {Txs[i].slot : i \in DOMAIN Txs}
Least(a, b) == IF a <= b THEN a ELSE b

Init ==
    /\ \E r \in Subscribers : start_block = r[1] /\ build = r[2]
    /\ phase = IF start_block = None THEN "start" ELSE "backward"
    /\ asked = None /\ filter_txs = <<>> /\ start_tx = 0 /\ history = <<>>
    /\ last = 0 /\ upto = 0 /\ first = 0 /\ tasks = {} /\ decoded = {} /\ lost = {}
    /\ queue = <<>> /\ sending = 0 /\ packs = <<>> /\ packed = {} /\ sent = EmptyBag
    /\ tip \in {Margin + 1, MaxSlot} /\ open = TRUE /\ faults = 0

Fault == faults < MaxFaults /\ faults' = faults + 1 /\ UNCHANGED <<tip, open>>
MayFail(ok) == IF ok THEN UNCHANGED world ELSE Fault

NewSlot == tip < MaxSlot /\ tip' = tip + 1
           /\ UNCHANGED <<request, phase, found, follow, answers, send_queue, packed, sent, open, faults>>

\* The subscriber goes away.
Close == open /\ open' = FALSE
         /\ UNCHANGED <<request, phase, found, follow, answers, send_queue, packed, sent, tip, faults>>

-----------------------------------------------------------------------------
\* Backward: getFilterConfirmedTransactionStatus.  A request that fails is taken
\* for the end.  What is before the start block is kept, with an error or not.

InRange(i) == Txs[i].slot >= start_block
Kept(i) == ~InRange(i) \/ ~Txs[i].err

Backward(ok) ==
    LET before == IF asked = None THEN Cardinality({i \in DOMAIN Txs : Txs[i].slot > tip}) ELSE asked
        page == IF ok THEN [n \in 1..Least(Limit, Len(Txs) - before) |-> before + n] ELSE <<>>
        is_done == page = <<>> \/ ~InRange(page[Len(page)])
    IN  /\ phase = "backward"
        /\ MayFail(ok)
        /\ asked' = before + Len(page)
        /\ filter_txs' = filter_txs \o SelectSeq(page, Kept)
        /\ phase' = IF is_done THEN "forward" ELSE "backward"
        /\ start_tx' = IF is_done THEN Len(filter_txs') ELSE 0
        /\ UNCHANGED <<request, follow, answers, send_queue, packed, sent, history>>

\* Forward: getTransactions, grouped by slot.  A batch, or one of its
\* transactions, that is not answered is gone.
Forward(ok) ==
    LET end == IF start_tx >= TxBatch THEN start_tx - TxBatch ELSE 0
        call_txs == {filter_txs[n] : n \in end + 1 .. start_tx}
    IN  /\ phase = "forward" /\ start_tx > 0
        /\ MayFail(ok)
        /\ start_tx' = end
        /\ \E got \in IF ok THEN {call_txs} ELSE {{}} \cup {call_txs \ {i} : i \in call_txs} :
               IF got = {} \/ open
               THEN /\ history' = IF got = {} THEN history ELSE history \o <<got>>
                    /\ UNCHANGED phase
               ELSE phase' = "closed" /\ UNCHANGED history
        /\ UNCHANGED <<request, asked, filter_txs, follow, answers, send_queue, packed, sent>>

\* The slot to follow the chain from: that of the oldest transaction.
Start ==
    /\ phase = "start" \/ (phase = "forward" /\ start_tx = 0)
    /\ phase' = "loop"
    /\ first' = IF filter_txs = <<>> THEN root ELSE Txs[filter_txs[Len(filter_txs)]].slot
    /\ last' = first' /\ upto' = first' /\ sending' = first'
    /\ UNCHANGED <<request, found, answers, queue, packs, packed, sent, world>>

-----------------------------------------------------------------------------

\* Follow the chain.  With last after the root the subtraction does not fit in a
\* u64: a debug build panics, a release build takes a whole batch.
NextRange ==
    /\ phase = "loop" /\ last = upto
    /\ \/ /\ ~open
          /\ phase' = "closed" /\ UNCHANGED upto
       \/ /\ open /\ last < root
          /\ upto' = last + Least(root - last, Batch) /\ UNCHANGED phase
       \/ /\ open /\ last > root /\ build = "debug"
          /\ phase' = "closed" /\ UNCHANGED upto
       \/ /\ open /\ last > root /\ build = "release" /\ last + Batch <= MaxSlot + 1
          /\ upto' = last + Batch /\ UNCHANGED phase
    /\ UNCHANGED <<request, found, last, first, answers, send_queue, packed, sent, world>>

\* A permit of the semaphore, and a task for the slot.
Spawn ==
    /\ phase = "loop" /\ last < upto
    /\ Cardinality(tasks) < 2 * Batch
    /\ tasks' = tasks \cup {last}
    /\ last' = last + 1
    /\ UNCHANGED <<request, phase, found, upto, first, decoded, lost, send_queue, packed, sent, world>>

\* SendQueue::pop_queue, as often as it finds a block: the slots in a row that are
\* queued.  It has stepped over the slot it did not find.
InARow(slot) ==
    {s \in DOMAIN queue : s >= slot /\ \A r \in slot..s : r \in DOMAIN queue}

\* A plausible bug: what is popped also stays in the queue.
insert_and_prepare_send_Keeps(found_txs, slot) ==
    LET row == InARow(slot + 1)
    IN  /\ queue' = [s \in DOMAIN queue \cup {slot} |-> IF s = slot THEN found_txs ELSE queue[s]]
        /\ IF slot # sending /\ slot # sending - 1
           THEN UNCHANGED <<sending, packs, packed>>
           ELSE /\ sending' = slot + 2 + Cardinality(row)
                /\ packs' = packs \o << {slot} \cup row >>
                /\ packed' = packed \cup {{s \in DOMAIN queue : queue[s]} \cup {slot}}

insert_and_prepare_send(found_txs, slot) ==
    LET row == InARow(slot + 1)
    IN  IF slot # sending
        THEN queue' = [s \in DOMAIN queue \cup {slot} |-> IF s = slot THEN found_txs ELSE queue[s]]
             /\ UNCHANGED <<sending, packs, packed>>
        ELSE /\ queue' = [s \in DOMAIN queue \ row |-> queue[s]]
             /\ sending' = slot + 2 + Cardinality(row)
             /\ packs' = packs \o << {slot} \cup row >>
             /\ packed' = packed \cup {{s \in row : queue[s]} \cup (IF found_txs THEN {slot} ELSE {})}

\* get_block: a task has its block, or an error, and the permit is returned.  A
\* slot that is not there yet is an error as well.  The block is decoded and
\* filtered before the queue is locked.
GotBlock(s, ok) ==
    /\ s \in tasks
    /\ MayFail(ok)
    /\ ~ok => s \notin Skipped /\ s <= tip
    /\ tasks' = tasks \ {s}
    /\ decoded' = decoded \cup {<<s, ok /\ s \in Relevant \ Skipped /\ s <= tip>>}
    /\ UNCHANGED <<request, phase, found, follow, lost, send_queue, packed, sent>>

\* Decoding panics: the task ends, and its slot never reaches the queue.
TaskPanics(s) ==
    /\ s \in tasks \cap Undecodable /\ s \notin Skipped /\ s <= tip
    /\ tasks' = tasks \ {s}
    /\ lost' = lost \cup {s}
    /\ UNCHANGED <<request, phase, found, follow, decoded, send_queue, packed, sent, world>>

\* The task locks the queue.
Queued(d) ==
    /\ d \in decoded
    /\ decoded' = decoded \ {d}
    /\ insert_and_prepare_send(d[2], d[1])
    /\ UNCHANGED <<request, phase, found, follow, tasks, lost, sent, world>>

\* grpc_send_block of a task, after the queue is unlocked: also of no block.
SendPacked(blocks) ==
    /\ blocks \in packed
    /\ packed' = packed \ {blocks}
    /\ sent' = IF open THEN sent (+) SetToBag(blocks) ELSE sent
    /\ UNCHANGED <<request, phase, found, follow, answers, send_queue, world>>

TaskStep ==
    \/ \E s \in tasks : TaskPanics(s) \/ \E ok \in BOOLEAN : GotBlock(s, ok)
    \/ \E d \in decoded : Queued(d)

Next ==
    \/ NewSlot \/ Close \/ Start \/ NextRange \/ Spawn \/ TaskStep
    \/ \E ok \in BOOLEAN : Backward(ok) \/ Forward(ok)
    \/ \E blocks \in packed : SendPacked(blocks)

\* The loop runs on a thread of its own, tasks on the runtime's; a request is
\* answered or times out.
Fairness == WF_vars(NextRange) /\ WF_vars(Spawn) /\ WF_vars(TaskStep)

Spec == Init /\ [][Next]_vars /\ Fairness

-----------------------------------------------------------------------------
Taken == UNION {packs[n] : n \in DOMAIN packs}
Running == tasks \cup {d[1] : d \in decoded}
InTransit == UNION packed

\* Each response that is prepared leaves one slot behind, the one after its last:
\* of the slots passed, all but one per response were in a response, and what
\* arrives for the others stays in the queue (SendQueue::pop_queue).  A slot whose
\* task panicked is never in a response.
OneLeftBehindPerResponse ==
    phase = "loop" =>
        LET behind == {s \in first .. sending - 1 : s \notin Taken}
        IN  /\ Cardinality(behind) = Len(packs)
            /\ \A s \in behind : s \in Running \cup lost \/ s >= last \/ s \in DOMAIN queue

\* While the chain is followed no slot is sent twice, and every slot of the
\* program is sent, or about to be, or waits in the queue, unless its request failed,
\* was made before there was a block or ended in a panic (insert_and_prepare_send).
SentAtMostOnce ==
    /\ \A s \in BagToSet(sent) : CopiesIn(s, sent) = 1 /\ s \notin InTransit /\ s \notin DOMAIN queue
    /\ faults = 0 /\ open /\ build = "debug" =>
          \A s \in first .. last - 1 :
              s \in Relevant \ Skipped
              => s \in Running \cup lost \cup InTransit \cup BagToSet(sent) \/ (s \in DOMAIN queue /\ queue[s])

\* History is sent from the oldest transaction to the newest: no response has a
\* transaction older than one of the response before it (getTransactions).
HistoryInOrder ==
    \A n \in 1 .. Len(history) - 1 :
        \A i \in history[n], j \in history[n + 1] : i > j

\* When the chain begins to be followed and no request failed, every transaction
\* from the start block to the newest one found that succeeded was sent once, and
\* the chain is followed from a slot that leaves out none of the newer ones
\* (loop_get_block).  Which slot that is is left open: the code takes the oldest
\* transaction's, and sends the blocks since then again.
HistoryIsComplete ==
    phase = "loop" /\ start_block # None /\ faults = 0 /\ filter_txs # <<>> =>
        \A i \in DOMAIN Txs :
            ~Txs[i].err =>
                IF i < filter_txs[1] THEN first <= Txs[i].slot
                ELSE InRange(i) => Cardinality({n \in DOMAIN history : i \in history[n]}) = 1

\* The reader catches up with the finalized slots, whatever happens to the requests
\* before, while the subscriber stays (the main loop, the semaphore).
SlotsAreRequested ==
    (phase = "loop" /\ last < root) ~> (phase = "closed" \/ last >= root)

\* A subscriber gets the whole history in order and then the chain without a slot
\* twice, but for the one slot that each response leaves behind and those whose
\* task panicked (loop_get_block, SendQueue).
SlotsAreSent ==
    OneLeftBehindPerResponse /\ SentAtMostOnce /\ HistoryInOrder /\ HistoryIsComplete
=============================================================================
