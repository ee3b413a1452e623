---------------------------- MODULE SolanaScanner ----------------------------
(***************************************************************************)
(* analytics/src: solana_scanner.rs, which stores the blocks of Solana in  *)
(* the tables of the analytics database.  loop_get_block (solana/reader.rs)*)
(* requests a range of slots and sends the blocks it got, in order, to     *)
(* process_solana_channel (solana/processor.rs), which spawns a task per   *)
(* block; the task spawns five handlers (solana/handler.rs), each of which *)
(* writes to tables of its own, and saves the slot in network_states.      *)
(* After a crash the scanner starts from the slot that was saved.          *)
(*                                                                         *)
(* A handler that finds nothing to store in a block has no task here.      *)
(***************************************************************************)
EXTENDS AnalyticsStore, FiniteSetsExt

CONSTANTS
    MaxSlot,    \* bound: the last slot of the chain
    Block,      \* slot -> its block, or None: the chain skipped it
    Installed,  \* the pairs of an argument start-block, or None, and a build
    Margin,     \* BLOCK_AVAILABLE_MARGIN
    Batch,      \* BLOCK_BATCH_SIZE
    Buffer,     \* QUEUE_BUFFER of the channel
    MaxRows,    \* rows of an account table statement
    Day,        \* seconds of a day: 86400
    Millis,     \* milliseconds of a second: 1000
    Stored,     \* the kinds of instruction that create_system_entity knows
    MaxTasks,   \* bound: tasks of earlier blocks that run when a block is received
    MaxTrouble  \* bound: crashes, and requests and connections that failed

VARIABLES
    tip,        \* the slot the node has reached
    block_arg,  \* the argument start-block of this installation,
    build,      \* and its build: a release build does not check for overflow
    reader,     \* [pc, last]: loop_get_block and its last_indexed_slot
    unsent,     \* blocks of the range, still to be sent
    queue,      \* the channel
    last_block, \* of process_solana_channel
    tasks,      \* spawned, not finished
    db,         \* the tables
    trouble,    \* crashes and faults so far
    origin,     \* history: the first slot asked for, since nothing was saved,
    dropped,    \* slots whose block is known to be lost,
    counted     \* and slots, as often as the stat handler has stored them

process == <<reader, unsent, queue, last_block, tasks>>
vars == <<tip, block_arg, build, process, db, trouble, origin, dropped, counted>>

Slots == 0..MaxSlot
HasBlock == {s \in Slots : Block[s] # None}
root == tip - Margin

Sum(seq) == FoldLeft(LAMBDA a, b : a + b, 0, seq)
Least(a, b) == IF a <= b THEN a ELSE b
Greatest(a, b) == IF a >= b THEN a ELSE b
Indices(seq, Test(_)) == SelectSeq([i \in DOMAIN seq |-> i], LAMBDA i : Test(seq[i]))

-----------------------------------------------------------------------------
\* SolanaRawBlockHandler

RawBlock(s) ==
    [slot |-> s, transactions |-> Len(Block[s].txs), reward |-> Block[s].reward]

-----------------------------------------------------------------------------
\* SolanaRawTransactionHandler: accounts in statements of at most MaxRows rows
\* each, whole transactions together, then the transactions.

create_entity(s, i) ==
    LET tx == Block[s].txs[i]
    IN  [signature |-> <<s, i>>, fee |-> tx.fee, ok |-> tx.ok]

create_transaction_account(s, i) ==
    [k \in 1..Block[s].txs[i].accounts |-> [tx |-> <<s, i>>, account |-> k]]

DecodedTxs(s) == Indices(Block[s].txs, LAMBDA tx : tx.decodes)

AccountBatches(s) ==
    FoldLeft(LAMBDA batches, i :
                 LET rows == create_transaction_account(s, i)
                     n == Len(batches)
                 IN  IF rows = <<>> THEN batches
                     ELSE IF n > 0 /\ Len(batches[n]) + Len(rows) <= MaxRows
                     THEN [batches EXCEPT ![n] = @ \o rows]
                     ELSE batches \o <<rows>>,
             <<>>, DecodedTxs(s))

TransactionEntities(s) == [n \in DOMAIN DecodedTxs(s) |-> create_entity(s, DecodedTxs(s)[n])]

-----------------------------------------------------------------------------
\* SolanaTokenBalanceHandler: a balance after the transaction, with the one
\* before it that has the same place in its list.

create_token_balances(s, i) ==
    LET tx == Block[s].txs[i]
    IN  [n \in DOMAIN tx.post |->
            [tx |-> <<s, i>>, account |-> tx.post[n].account, post |-> tx.post[n].amount,
             pre |-> IF n \in DOMAIN tx.pre THEN tx.pre[n].amount ELSE 0]]

TokenBalances(s) ==
    FlattenSeq([n \in DOMAIN DecodedTxs(s) |-> create_token_balances(s, DecodedTxs(s)[n])])

-----------------------------------------------------------------------------
\* SolanaInstructionHandler

\* The entities of one transaction, by kind of instruction.
create_instructions(s, i) ==
    LET insts == Block[s].txs[i].insts
        kinds == ToSet(insts) \cap Stored
    IN  [key \in kinds |->
            LET at == Indices(insts, LAMBDA k : k = key)
            IN  [n \in DOMAIN at |-> [tx |-> <<s, i>>, key |-> key, inst_order |-> at[n]]]]

\* parsed_entities.extend(..): a later transaction's entities of a kind replace
\* those of the transactions before it, against the comment of create_instructions,
\* "For each transaction try to parse instructions".
ParsedEntities(s) ==
    FoldLeft(LAMBDA parsed, i : create_instructions(s, i) @@ parsed, <<>>, DecodedTxs(s))

-----------------------------------------------------------------------------
\* SolanaStatBlockHandler

Date(s) == (Block[s].time \div Day) * Day

create_stat_block_entity(s) ==
    LET succeeded == SelectSeq(Block[s].txs, LAMBDA tx : tx.ok)
    IN  [date |-> Date(s), min_block_slot |-> s, max_block_slot |-> s, block_counter |-> 1,
         total_tx |-> Len(Block[s].txs), success_tx |-> Len(succeeded),
         total_reward |-> Block[s].reward,
         total_fee |-> Sum([n \in DOMAIN succeeded |-> succeeded[n].fee]),
         fist_block_time |-> Block[s].time, last_block_time |-> Block[s].time,
         average_block_time |-> 0]

\* The expressions of its conflict fragment.
StatUpdate(t, excluded) ==
    LET first == Least(t.fist_block_time, excluded.fist_block_time)
        last == Greatest(t.last_block_time, excluded.last_block_time)
        min == Least(t.min_block_slot, excluded.min_block_slot)
        max == Greatest(t.max_block_slot, excluded.max_block_slot)
    IN  [date |-> t.date, min_block_slot |-> min, max_block_slot |-> max,
         block_counter |-> t.block_counter + excluded.block_counter,
         total_tx |-> t.total_tx + excluded.total_tx,
         success_tx |-> t.success_tx + excluded.success_tx,
         total_reward |-> t.total_reward + excluded.total_reward,
         total_fee |-> t.total_fee + excluded.total_fee,
         fist_block_time |-> first, last_block_time |-> last,
         average_block_time |-> ((last - first) * Millis) \div (max - min + 1)]

StatUpsert(table, s) ==
    LET new == create_stat_block_entity(s)
        columns == <<"date">>
    IN  InsertOrUpdate(table, <<new>>, columns,
            [d \in Conflicts(table, <<new>>, columns) |-> StatUpdate(table[d], new)])

-----------------------------------------------------------------------------
Init ==
    /\ tip = Margin + 1
    /\ \E arg \in Installed : block_arg = arg[1] /\ build = arg[2]
    /\ reader = [pc |-> "down", last |-> None] /\ unsent = <<>> /\ queue = <<>>
    /\ last_block = 0 /\ tasks = {}
    /\ db = [got_block |-> None, blocks |-> <<>>, transactions |-> <<>>,
             accounts |-> EmptyBag, balances |-> EmptyBag, insts |-> EmptyBag,
             programs |-> {}, stats |-> <<>>]
    /\ trouble = 0
    /\ origin = None /\ dropped = {} /\ counted = EmptyBag

NewSlot == tip < MaxSlot + Margin /\ tip' = tip + 1
           /\ UNCHANGED <<block_arg, build, process, db, trouble, origin, dropped, counted>>

\* Something outside the scanner fails.
Trouble == trouble < MaxTrouble /\ trouble' = trouble + 1

\* A call that may find no connection: ok says whether it did.
MayFail(ok) == IF ok THEN UNCHANGED trouble ELSE Trouble

\* solana_scanner.rs main and the first lines of both loops.  The saved slot is
\* advanced twice: here, and by loop_get_block.
Start(ok) ==
    LET start_block == IF ok /\ db.got_block # None THEN db.got_block + 1 ELSE block_arg
        passed == IF db.got_block = None THEN None ELSE db.got_block + 1
    IN  /\ reader.pc = "down"
        /\ MayFail(ok)
        /\ ~ok => db.got_block # None
        /\ reader' = [pc |-> "up",
                      last |-> IF start_block = None THEN None ELSE start_block + 1]
        /\ last_block' = IF start_block = None THEN 0 ELSE start_block
        /\ origin' = IF db.got_block = None THEN reader'.last ELSE origin
        /\ dropped' = dropped \cup (IF passed = None THEN {} ELSE {passed})
        /\ UNCHANGED <<tip, block_arg, build, unsent, queue, tasks, db, counted>>

\* Without a slot to start from, from the root of the node.
FromRoot ==
    /\ reader.pc = "up" /\ reader.last = None
    /\ reader' = [reader EXCEPT !.last = root]
    /\ origin' = IF db.got_block = None THEN root ELSE origin
    /\ dropped' = IF db.got_block = None THEN dropped
                  ELSE dropped \cup (db.got_block + 1 .. root - 1)
    /\ UNCHANGED <<tip, block_arg, build, unsent, queue, last_block, tasks, db, trouble, counted>>

\* The requests of a range, joined: answered holds the slots whose block came.
Fetch(n, answered) ==
    LET range == reader.last .. reader.last + n - 1
        failed == (range \cap HasBlock) \ answered
    IN  /\ reader.last + n <= MaxSlot + 1
        /\ answered \subseteq {s \in range \cap HasBlock : s <= tip}
        /\ IF \E s \in failed : s <= root THEN Trouble ELSE UNCHANGED trouble
        /\ reader' = [pc |-> "send", last |-> reader.last + n]
        /\ unsent' = SetToSortSeq(answered, <)
        /\ dropped' = dropped \cup failed
        /\ UNCHANGED <<tip, block_arg, build, queue, last_block, tasks, db, origin, counted>>

GetBlocks ==
    /\ reader.pc = "up" /\ reader.last # None /\ reader.last < root
    /\ LET n == Least(root - reader.last, Batch)
       IN  \E answered \in SUBSET (reader.last .. reader.last + n - 1) : Fetch(n, answered)

\* A start after the root: root - last does not fit in a u64.  A debug build
\* panics, which closes the channel; a release build takes a whole batch.
PastTheRoot ==
    /\ reader.pc = "up" /\ reader.last # None /\ reader.last > root
    /\ \/ /\ build = "debug"
          /\ reader' = [reader EXCEPT !.pc = "gone"]
          /\ UNCHANGED <<tip, block_arg, build, unsent, queue, last_block, tasks, db, trouble,
                         origin, dropped, counted>>
       \/ /\ build = "release"
          /\ \E answered \in SUBSET (reader.last .. reader.last + Batch - 1) :
                 Fetch(Batch, answered)

Send ==
    /\ reader.pc = "send"
    /\ IF unsent = <<>>
       THEN reader' = [reader EXCEPT !.pc = "up"] /\ UNCHANGED <<unsent, queue>>
       ELSE /\ Len(queue) < Buffer
            /\ queue' = queue \o <<Head(unsent)>>
            /\ unsent' = Tail(unsent)
            /\ UNCHANGED reader
    /\ UNCHANGED <<tip, block_arg, build, last_block, tasks, db, trouble, origin, dropped, counted>>

-----------------------------------------------------------------------------
\* process_solana_channel

Receive ==
    /\ queue # <<>> /\ Cardinality(tasks) <= MaxTasks
    /\ tasks' = tasks \cup {[kind |-> "handle", slot |-> Head(queue)]}
    /\ queue' = Tail(queue)
    /\ UNCHANGED <<tip, block_arg, build, reader, unsent, last_block, db, trouble, origin, dropped, counted>>

\* The handlers of create_solana_handler_manager that have something to store.
\* The one for instructions is a task per kind, and one for the programs.
Handlers(s) ==
    LET Of(kind) == [kind |-> kind, slot |-> s]
    IN  {Of("block"), Of("stat")}
        \cup (IF DecodedTxs(s) # <<>> THEN {Of("transactions")} ELSE {})
        \cup (IF TokenBalances(s) # <<>> THEN {Of("balances")} ELSE {})
        \cup (IF DOMAIN ParsedEntities(s) # {} THEN {Of("programs")} ELSE {})
        \cup {[kind |-> "rows", slot |-> s, key |-> k] : k \in DOMAIN ParsedEntities(s)}

\* SolanaHandlerManager::handle_block
Handle(t) ==
    /\ t \in tasks /\ t.kind = "handle"
    /\ tasks' = (tasks \ {t}) \cup Handlers(t.slot) \cup {[kind |-> "save", slot |-> t.slot]}
    /\ UNCHANGED <<tip, block_arg, build, reader, unsent, queue, last_block, db, trouble,
                   origin, dropped, counted>>

\* The rest of the task, holding the lock of last_block.
Save(t, ok) ==
    /\ t \in tasks /\ t.kind = "save"
    /\ tasks' = tasks \ {t}
    /\ IF last_block < t.slot
       THEN /\ MayFail(ok)
            /\ last_block' = t.slot
            /\ db' = IF ok THEN [db EXCEPT !.got_block = t.slot] ELSE db
       ELSE ok /\ UNCHANGED <<last_block, db, trouble>>
    /\ UNCHANGED <<tip, block_arg, build, reader, unsent, queue, origin, dropped, counted>>

HandleBlock(s, ok) ==
    [db EXCEPT !.blocks = upsert(@, Insert(@, <<RawBlock(s)>>, <<"slot">>), ok)]

HandleTransactions(s, ok) ==
    LET batches == AccountBatches(s)
        tables == <<db.accounts, db.transactions>>
        after == transact_upserts(tables,
                     << Add(db.accounts, FlattenSeq(batches)),
                        Insert(db.transactions, TransactionEntities(s), <<"signature">>) >>,
                     ok)
    IN  [db EXCEPT !.accounts = after[1], !.transactions = after[2]]

HandleBalances(s, ok) ==
    [db EXCEPT !.balances = upsert(@, Add(@, TokenBalances(s)), ok)]

HandleStat(s, ok) ==
    [db EXCEPT !.stats = upsert(@, StatUpsert(@, s), ok)]

HandlePrograms(s, ok) ==
    [db EXCEPT !.programs = upsert(@, @ \cup DOMAIN ParsedEntities(s), ok)]

HandleRows(s, key, ok) ==
    [db EXCEPT !.insts = upsert(@, Add(@, ParsedEntities(s)[key]), ok)]

\* A handler runs its statements; the result is only logged.
RunHandler(t, ok) ==
    /\ t \in tasks /\ t.kind \notin {"handle", "save"}
    /\ MayFail(ok)
    /\ tasks' = tasks \ {t}
    /\ db' = CASE t.kind = "block" -> HandleBlock(t.slot, ok)
               [] t.kind = "stat" -> HandleStat(t.slot, ok)
               [] t.kind = "transactions" -> HandleTransactions(t.slot, ok)
               [] t.kind = "balances" -> HandleBalances(t.slot, ok)
               [] t.kind = "programs" -> HandlePrograms(t.slot, ok)
               [] t.kind = "rows" -> HandleRows(t.slot, t.key, ok)
    /\ counted' = IF t.kind = "stat" /\ ok THEN counted (+) SetToBag({t.slot}) ELSE counted
    /\ dropped' = IF ok THEN dropped ELSE dropped \cup {t.slot}
    /\ UNCHANGED <<tip, block_arg, build, reader, unsent, queue, last_block, origin>>

InFlight == ToSet(unsent) \cup ToSet(queue) \cup {t.slot : t \in tasks}

\* The process ends, by a crash or because its channel was closed and is empty:
\* tasks that are not finished are gone with it.
Stop ==
    /\ reader.pc # "down"
    /\ IF reader.pc = "gone" /\ queue = <<>> THEN UNCHANGED trouble ELSE Trouble
    /\ reader' = [pc |-> "down", last |-> reader.last]
    /\ unsent' = <<>> /\ queue' = <<>> /\ tasks' = {}
    /\ dropped' = dropped \cup InFlight
    /\ UNCHANGED <<tip, block_arg, build, last_block, db, origin, counted>>

Next ==
    \/ NewSlot \/ FromRoot \/ GetBlocks \/ PastTheRoot \/ Send \/ Receive \/ Stop
    \/ \E ok \in BOOLEAN : Start(ok)
    \/ \E t \in tasks : Handle(t)
    \/ \E t \in tasks, ok \in BOOLEAN : Save(t, ok) \/ RunHandler(t, ok)

Spec == Init /\ [][Next]_vars

-----------------------------------------------------------------------------
MinOf(S) == CHOOSE x \in S : \A y \in S : x <= y
MaxOf(S) == CHOOSE x \in S : \A y \in S : x >= y
TotalOf(slots, F(_)) == MapThenSumSet(LAMBDA s : CopiesIn(s, counted) * F(s), slots)

\* The row of a day says the same whatever the order in which the handlers of
\* its blocks ran: their number, sums, extremes and average block time
\* (SolanaStatBlockHandler::handle_block).
StatsAreOrderFree ==
    \A d \in {Date(s) : s \in HasBlock} :
        LET slots == {s \in BagToSet(counted) : Date(s) = d}
            times == {Block[s].time : s \in slots}
            number == TotalOf(slots, LAMBDA s : 1)
        IN  IF slots = {} THEN d \notin DOMAIN db.stats
            ELSE /\ d \in DOMAIN db.stats
                 /\ LET row == db.stats[d]
                    IN  /\ row.block_counter = number
                        /\ row.min_block_slot = MinOf(slots) /\ row.max_block_slot = MaxOf(slots)
                        /\ row.total_tx = TotalOf(slots, LAMBDA s : Len(Block[s].txs))
                        /\ row.total_fee =
                               TotalOf(slots, LAMBDA s : create_stat_block_entity(s).total_fee)
                        /\ row.average_block_time =
                               IF number = 1 THEN 0
                               ELSE ((MaxOf(times) - MinOf(times)) * Millis)
                                    \div (MaxOf(slots) - MinOf(slots) + 1)

\* A block's transactions and the accounts they name are stored together and
\* once, also when the block is read again after a crash
\* (PostgresAdapter::transact_upserts).
AccountsWithTransactions ==
    \A s \in HasBlock :
        LET rows == {e \in BagToSet(db.accounts) : e.tx[1] = s}
            of == {k \in DOMAIN db.transactions : k[1] = s}
        IN  \/ of = {} /\ rows = {}
            \/ /\ of = {<<s, i>> : i \in ToSet(DecodedTxs(s))}
               /\ rows = UNION {ToSet(create_transaction_account(s, i)) : i \in ToSet(DecodedTxs(s))}
               /\ \A e \in rows : CopiesIn(e, db.accounts) = 1

\* What the handlers make of a block is stored.
Complete(s) ==
    /\ s \in DOMAIN db.blocks /\ BagIn(s, counted)
    /\ \A i \in ToSet(DecodedTxs(s)) : <<s, i>> \in DOMAIN db.transactions
    /\ DOMAIN ParsedEntities(s) \subseteq db.programs
    /\ ToSet(TokenBalances(s)) \subseteq BagToSet(db.balances)
    /\ \A k \in DOMAIN ParsedEntities(s) : ToSet(ParsedEntities(s)[k]) \subseteq BagToSet(db.insts)

\* A block the reader has passed is in every table, with what its handlers keep of
\* it, or on its way, unless its request or a statement failed, it was on its way
\* when the process ended, or it is the one after the saved slot, which a restart
\* steps over (loop_get_block, process_solana_channel, main).
LossesAreKnown ==
    \A s \in HasBlock :
        origin # None /\ reader.last # None /\ origin <= s /\ s < reader.last
            => Complete(s) \/ s \in InFlight \/ s \in dropped

\* Tasks save their slots in any order, and the saved slot only grows, unless the
\* scanner could not read it when it started (process_solana_channel).
SavedSlotGrows ==
    [][db.got_block # None /\ last_block >= db.got_block => db'.got_block >= db.got_block]_vars

\* Of the transactions whose instructions of a kind are stored, all of that kind
\* are, in their order and each as often as the block was handled: no statement
\* stores a part of them.  That is at most one transaction per block and kind, as
\* ParsedEntities shows (SolanaInstructionHandler::handle_block).
InstructionsOfATransaction ==
    \A s \in HasBlock, k \in Stored : \A i \in ToSet(DecodedTxs(s)) :
        LET rows == {e \in BagToSet(db.insts) : e.tx = <<s, i>> /\ e.key = k}
            at == {j \in DOMAIN Block[s].txs[i].insts : Block[s].txs[i].insts[j] = k}
        IN  rows # {} =>
                /\ {e.inst_order : e \in rows} = at
                /\ \A e, f \in rows : CopiesIn(e, db.insts) = CopiesIn(f, db.insts)

\* Without a crash or a fault no block is counted twice (loop_get_block).
CountedOnce == trouble = 0 => \A s \in BagToSet(counted) : CopiesIn(s, counted) = 1

\* The tables account for the blocks: every block that was passed is in them, on
\* its way or known to be lost, transactions come with their accounts, and the
\* sums do not depend on the order of the handlers (loop_get_block, the handlers).
RowsAreAccounted ==
    /\ StatsAreOrderFree /\ AccountsWithTransactions /\ LossesAreKnown
    /\ InstructionsOfATransaction /\ CountedOnce
=============================================================================
