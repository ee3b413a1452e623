-------------------------- MODULE EthereumAnalytics --------------------------
(***************************************************************************)
(* analytics/src/ethereum: process_ethereum_stream reads blocks from the   *)
(* chain reader, spawns four handlers for each (handler.rs, metrics/) and  *)
(* saves its number in network_states.  The block to start from is read    *)
(* once, when the process starts: a stream that failed is created again    *)
(* from the same block.                                                    *)
(*                                                                         *)
(* A row of a daily table is a record; numerics are exact (the average is  *)
(* a reduced fraction), where Postgres rounds after some sixteen digits.   *)
(***************************************************************************)
EXTENDS AnalyticsStore, FiniteSetsExt

CONSTANTS
    MaxBlock,   \* bound: the last block of the chain, which begins with 1
    Block,      \* number -> [time, txs]; a transaction is [from, value, gas, price]
    Installed,  \* the pairs of arguments network and start-block, None for none
    Day,        \* seconds of a day: 86400
    MaxTasks,   \* bound: handlers that are running when a block is received
    MaxTrouble  \* bound: crashes, streams and statements that failed

VARIABLES
    network,    \* the arguments
    block,
    process,    \* [up, start]: start is start_block
    pos,        \* the next block of the stream, None if there is no stream
    tasks,      \* a bag of handlers spawned, not finished
    db,         \* the tables
    trouble,
    seen,       \* history: the newest block received,
    streams,    \* streams created,
    lost,       \* what handlers have not done and never will,
    counted     \* and a bag of what they have done

vars == <<network, block, process, pos, tasks, db, trouble, seen, streams, lost, counted>>

Blocks == 1..MaxBlock
Kinds == {"block", "transactions", "daily", "addresses"}
One(x) == SetToBag({x})

Over(b, F(_)) == FoldLeft(LAMBDA acc, tx : acc + F(tx), 0, Block[b].txs)
Date(b) == Block[b].time \div Day

-----------------------------------------------------------------------------
\* The handlers

Gcd(a, b) == CHOOSE d \in 1..b : /\ a % d = 0 /\ b % d = 0
                                 /\ \A e \in d + 1 .. b : a % e # 0 \/ b % e # 0
Fraction(a, b) == LET d == Gcd(a, b) IN <<a \div d, b \div d>>

RawBlock(b) == [block_hash |-> b, transaction_number |-> Len(Block[b].txs)]

RawTransactions(b) ==
    [i \in DOMAIN Block[b].txs |->
        [transaction_hash |-> <<b, i>>, sender |-> Block[b].txs[i].from,
         value |-> Block[b].txs[i].value]]

\* EthereumDailyTransactionHandler: the fold returns (value, gas, gas_price) and
\* is taken apart as (transaction_volume, gas_price, gas), so the column gas gets
\* the sum of the gas prices and average_gas_price the mean of the gas, against
\* sqls/metrics.sql:7-10.
create_daily_entity(b) ==
    LET transaction_count == Len(Block[b].txs)
        gas_price == Over(b, LAMBDA tx : tx.gas)
        gas == Over(b, LAMBDA tx : tx.price)
    IN  [network |-> network, transaction_date |-> Date(b),
         transaction_count |-> transaction_count,
         transaction_volume |-> Over(b, LAMBDA tx : tx.value), gas |-> gas,
         average_gas_price |-> IF transaction_count > 0
                               THEN Fraction(gas_price, transaction_count) ELSE <<0, 1>>]

\* A plausible bug: the average of both blocks' averages.
DailyUpdate_Unweighted(t, excluded) ==
    LET a == t.average_gas_price
        e == excluded.average_gas_price
    IN  [t EXCEPT !.transaction_count = @ + excluded.transaction_count,
                  !.transaction_volume = @ + excluded.transaction_volume,
                  !.gas = @ + excluded.gas,
                  !.average_gas_price = Fraction(a[1] * e[2] + e[1] * a[2], 2 * a[2] * e[2])]

\* The expressions of its conflict fragment; without any transaction the average
\* is a division by zero.
DailyUpdate(t, excluded) ==
    LET n == t.transaction_count
        m == excluded.transaction_count
        a == t.average_gas_price
        e == excluded.average_gas_price
    IN  IF n + m = 0 THEN None
        ELSE [t EXCEPT !.transaction_count = n + m,
                       !.transaction_volume = @ + excluded.transaction_volume,
                       !.gas = @ + excluded.gas,
                       !.average_gas_price = Fraction(a[1] * e[2] * n + e[1] * a[2] * m,
                                                      a[2] * e[2] * (n + m))]

\* The column network is not null.
DailyUpsert(table, b) ==
    IF network = None THEN None
    ELSE LET new == create_daily_entity(b)
             columns == <<"transaction_date">>
         IN  InsertOrUpdate(table, <<new>>, columns,
                 [d \in Conflicts(table, <<new>>, columns) |-> DailyUpdate(table[d], new)])

\* EthereumDailyAddressTransactionHandler: a row per address.
create_address_entities(b) ==
    LET Of(address, F(_)) == Over(b, LAMBDA tx : IF tx.from = address THEN F(tx) ELSE 0)
        Row(address) ==
            [address |-> address, transaction_date |-> Date(b),
             transaction_count |-> Of(address, LAMBDA tx : 1),
             transaction_volume |-> Of(address, LAMBDA tx : tx.value),
             gas |-> Of(address, LAMBDA tx : tx.gas)]
    IN  SetToSeq({Row(tx.from) : tx \in ToSet(Block[b].txs)})

AddressUpdate(t, excluded) ==
    [t EXCEPT !.transaction_count = @ + excluded.transaction_count,
              !.transaction_volume = @ + excluded.transaction_volume,
              !.gas = @ + excluded.gas]

AddressUpsert(table, b) ==
    LET new == create_address_entities(b)
        columns == <<"address", "transaction_date">>
        rows == Rows(new, columns)
    IN  InsertOrUpdate(table, new, columns,
            [k \in Conflicts(table, new, columns) |-> AddressUpdate(table[k], rows[k])])

\* handle_block of the handler of a kind: the tables after it.
Handled(kind, b, ok) ==
    CASE kind = "block" ->
            [db EXCEPT !.blocks = upsert(@, Insert(@, <<RawBlock(b)>>, <<"block_hash">>), ok)]
      [] kind = "transactions" ->
            [db EXCEPT !.transactions =
                upsert(@, Insert(@, RawTransactions(b), <<"transaction_hash">>), ok)]
      [] kind = "daily" -> [db EXCEPT !.daily = upsert(@, DailyUpsert(@, b), ok)]
      [] kind = "addresses" -> [db EXCEPT !.addresses = upsert(@, AddressUpsert(@, b), ok)]

-----------------------------------------------------------------------------
Init ==
    /\ \E args \in Installed : network = args[1] /\ block = args[2]
    /\ process = [up |-> FALSE, start |-> None] /\ pos = None /\ tasks = EmptyBag
    /\ db = [got_block |-> None, blocks |-> <<>>, transactions |-> <<>>, daily |-> <<>>,
             addresses |-> <<>>]
    /\ trouble = 0
    /\ seen = 0 /\ streams = 0 /\ lost = {} /\ counted = EmptyBag

Trouble == trouble < MaxTrouble /\ trouble' = trouble + 1
MayFail(ok) == IF ok THEN UNCHANGED trouble ELSE Trouble

Start ==
    /\ ~process.up
    /\ process' = [up |-> TRUE, start |-> IF db.got_block = None THEN block ELSE db.got_block + 1]
    /\ UNCHANGED <<network, block, pos, tasks, db, trouble, seen, streams, lost, counted>>

\* try_create_stream: without a start block, from the newest one of the node,
\* which is not older than one that was received.
Connect ==
    /\ process.up /\ pos = None
    /\ \E newest \in {b \in Blocks : b >= seen} :
           LET first == IF process.start = None THEN newest ELSE process.start
           IN  /\ pos' = first
               /\ lost' = IF seen = 0 \/ process.start # None THEN lost
                          ELSE lost \cup (Kinds \X (seen + 1 .. first - 1))
    /\ streams' = streams + 1
    /\ UNCHANGED <<network, block, process, tasks, db, trouble, seen, counted>>

\* A block: its handlers are spawned, and before they run its number is saved.
Message(ok) ==
    /\ pos # None /\ pos <= MaxBlock /\ BagCardinality(tasks) <= MaxTasks
    /\ tasks' = tasks (+) SetToBag(Kinds \X {pos})
    /\ MayFail(ok)
    /\ db' = IF ok THEN [db EXCEPT !.got_block = pos] ELSE db
    /\ pos' = pos + 1
    /\ seen' = IF pos > seen THEN pos ELSE seen
    /\ UNCHANGED <<network, block, process, streams, lost, counted>>

\* An error or a timeout.  A stream that has ended is asked again, forever.
Broken ==
    /\ pos # None
    /\ Trouble
    /\ pos' = None
    /\ UNCHANGED <<network, block, process, tasks, db, seen, streams, lost, counted>>

\* A spawned handler; its result is only logged.
RunHandler(t, ok) ==
    /\ BagIn(t, tasks)
    /\ MayFail(ok)
    /\ tasks' = tasks (-) One(t)
    /\ db' = Handled(t[1], t[2], ok)
    /\ IF ok THEN counted' = counted (+) One(t) /\ UNCHANGED lost
             ELSE lost' = lost \cup {t} /\ UNCHANGED counted
    /\ UNCHANGED <<network, block, process, pos, seen, streams>>

Crash ==
    /\ process.up /\ Trouble
    /\ process' = [up |-> FALSE, start |-> None] /\ pos' = None /\ tasks' = EmptyBag
    /\ lost' = lost \cup BagToSet(tasks)
    /\ UNCHANGED <<network, block, db, seen, streams, counted>>

Next ==
    \/ Start \/ Connect \/ Broken \/ Crash
    \/ \E ok \in BOOLEAN : Message(ok)
    \/ \E t \in BagToSet(tasks), ok \in BOOLEAN : RunHandler(t, ok)

Spec == Init /\ [][Next]_vars

-----------------------------------------------------------------------------
\* F summed over the blocks of a day, each as often as the handler of this kind
\* has handled it.
Sum(kind, d, F(_)) ==
    MapThenSumSet(LAMBDA b : CopiesIn(<<kind, b>>, counted) * F(b), {b \in Blocks : Date(b) = d})

\* The row of a day says the same in whatever order, and however often, its
\* blocks were handled: the sums of what create_entity says of each of them, and
\* the mean of their averages weighted by their transactions
\* (EthereumDailyTransactionHandler).
DailyIsOrderFree ==
    \A d \in DOMAIN db.daily :
        LET row == db.daily[d]
            Each(F(_)) == Sum("daily", d, LAMBDA b : F(create_daily_entity(b)))
            Weighted(e) ==
                (e.transaction_count * e.average_gas_price[1]) \div e.average_gas_price[2]
        IN  /\ row.transaction_count = Each(LAMBDA e : e.transaction_count)
            /\ row.transaction_volume = Each(LAMBDA e : e.transaction_volume)
            /\ row.gas = Each(LAMBDA e : e.gas)
            /\ row.average_gas_price[1] * row.transaction_count
                   = row.average_gas_price[2] * Each(Weighted)

\* When every handler has finished and none has failed, the rows of the addresses
\* of a day add up to the day's own row, also for blocks received twice
\* (create_entities, the conflict fragments of both daily handlers).
AddressesAddUp ==
 (network # None /\ tasks = EmptyBag /\ lost = {})
    => \A d \in DOMAIN db.daily :
           LET of == {k \in DOMAIN db.addresses : k[2] = d}
           IN  /\ db.daily[d].transaction_count
                      = MapThenSumSet(LAMBDA k : db.addresses[k].transaction_count, of)
               /\ db.daily[d].transaction_volume
                      = MapThenSumSet(LAMBDA k : db.addresses[k].transaction_volume, of)

\* A block is counted at most once for each stream that was created.  It is
\* counted again by a stream that is created again from the same start block: the
\* sums are upserts that add (process_ethereum_stream).
OncePerStream == \A t \in BagToSet(counted) : CopiesIn(t, counted) <= streams

\* No stream, new or created again, leaves out a block between two that were
\* received, except one created without a start block: each handler has done its
\* part, or it is known to be lost (process_ethereum_stream).
NoBlockLeftOut ==
    db.got_block # None /\ lost = {} =>
        \A b \in Blocks, kind \in Kinds :
            b <= db.got_block /\ (\E c \in Blocks : c < b /\ BagIn(<<kind, c>>, counted))
            => BagIn(<<kind, b>>, counted) \/ BagIn(<<kind, b>>, tasks)

\* The rows of a day add up over the blocks handled and over the addresses, with
\* every block counted at most once per stream and none left out (process_ethereum_stream
\* and the daily handlers).
DaysAddUp ==
    DailyIsOrderFree /\ AddressesAddUp /\ OncePerStream /\ NoBlockLeftOut
=============================================================================
