------------------------ MODULE MCPollingBlockStream ------------------------
(***************************************************************************)
(* The blocks of a chain, from the requests to those who store them: each  *)
(* source and each scanner on its own.                                     *)
(*                                                                         *)
(* polling: a chain of eight blocks, with one, two and one triggers in     *)
(*   three of them.                                                        *)
(* triggers: the contents of three blocks, scanned for the data sources of *)
(*   four manifests and of two templates, at two addresses.                *)
(* requests: the requests behind a scan and a contract call, with limits   *)
(*   from none to four attempts and two reorganizations.                   *)
(* solana: six slots, four of them with transactions of the program, pages *)
(*   of two signatures, and two faults.                                    *)
(* slots: five slots with four transactions and one that failed, asked for  *)
(*   in pages, batches and ranges of two, by three subscribers.            *)
(* scanner: three blocks in four slots, one with two transactions, and two *)
(*   installations, one of which starts after the root; a crash or fault.  *)
(* analytics: three blocks of two days, with three, no and one             *)
(*   transaction, and three installations; a crash or fault.               *)
(*                                                                         *)
(* All but the first share the variables x1 to x21.                        *)
(***************************************************************************)
EXTENDS PollingBlockStream, Integers, FiniteSetsExt, TLC

CONSTANTS Parts, a1, a2, None

VARIABLES part, x1, x2, x3, x4, x5, x6, x7, x8, x9, x10, x11, x12, x13, x14,
          x15, x16, x17, x18, x19, x20, x21

TriggersAt == (2 :> 1) @@ (3 :> 2) @@ (6 :> 1)
TriggeredBlocks == DOMAIN TriggersAt
TotalOf ==
    [s \in SUBSET (0..MaxBlock) |->
        MapThenSumSet(LAMBDA b : TriggersAt[b], s \cap TriggeredBlocks)]

Ev(name, ix) == [name |-> name, ty |-> "t", ix |-> ix]
Log(b, i, tx, a, e) ==
    [kind |-> "log", block |-> b, index |-> i, tx |-> tx, address |-> a,
     topic |-> <<e.name, e.ty>>, ix |-> e.ix, of |-> "tx"]
Call(b, i, tx, a, f, ok) ==
    [kind |-> "trace", block |-> b, index |-> i, tx |-> tx, to |-> a, input |-> f,
     ok |-> ok, decodes |-> TRUE, of |-> "tx"]

\* E has one form in the contract, F has two with the same hash.
Abi == [events |-> {Ev("E", 1), Ev("F", 0), Ev("F", 1)}, functions |-> {"f", "g"}]
Source(a, start, events, calls, blocks) ==
    [address |-> a, start_block |-> start, event_handlers |-> events, call_handlers |-> calls,
     block_handlers |-> blocks, abi |-> Abi, creation_block |-> 0]

\* Events and calls of the same and of other transactions, at both addresses,
\* one call that failed, one of no transaction and one of no function.
TheChain ==
    << {Log(1, 1, 2, a1, Ev("E", 1)), Call(1, 2, 2, a1, "f", TRUE), Call(1, 3, 1, a1, "g", TRUE)},
       {Log(2, 1, 1, a2, Ev("E", 1)), Log(2, 2, 2, a1, Ev("F", 1)), Call(2, 3, 2, a2, "g", TRUE),
        Call(2, 4, 1, a1, "g", TRUE), Call(2, 5, 1, a1, "f", FALSE)},
       {Log(3, 1, 1, a2, Ev("F", 0)), Call(3, 2, None, a2, "g", TRUE),
        Call(3, 3, 1, a1, None, TRUE), Call(3, 4, 3, a1, "g", TRUE)} >>

\* An event of no transaction, then an event and a call whose transaction the
\* block does not list, and a call that does not decode.
TheFaults ==
    << {[Log(1, 1, 1, a1, Ev("E", 1)) EXCEPT !.of = "block"]},
       {[Log(2, 1, 1, a2, Ev("E", 1)) EXCEPT !.of = None],
        [Call(2, 2, 1, a1, "f", TRUE) EXCEPT !.of = None],
        [Call(2, 3, 1, a2, "g", TRUE) EXCEPT !.decodes = FALSE]} >>

\* One data source; two for one address; one for every address; one without an
\* address that validate refuses; and one whose two handlers are ambiguous.
TheManifests ==
    { << Source(a1, 0, <<Ev("E", 0)>>, <<"f">>, <<>>) >>,
      << Source(a1, 0, <<Ev("E", 1)>>, <<>>, <<"call">>),
         Source(a1, 2, <<Ev("F", 1)>>, <<"f">>, <<None, "call">>) >>,
      << Source(None, 0, <<Ev("F", 0), Ev("F", 1)>>, <<>>, <<>>),
         Source(a2, 3, <<>>, <<"g">>, <<>>) >>,
      << Source(None, 0, <<Ev("E", 1)>>, <<"f">>, <<>>) >>,
      << Source(a1, 0, <<Ev("F", 0), Ev("F", 0)>>, <<>>, <<None>>) >> }

TheTemplates ==
    { Source(None, 0, <<Ev("E", 0)>>, <<"g">>, <<>>), Source(None, 0, <<Ev("F", 1)>>, <<>>, <<None>>) }

Triggers == INSTANCE EthereumTriggers WITH
    Chains <- {TheChain, TheFaults}, Manifests <- TheManifests, Templates <- TheTemplates,
    Addresses <- {a1, a2}, MaxSources <- 4, STEP_SIZE <- 2,
    chain <- x1, sources <- x2, stored <- x3, filter <- x4, stream <- x5, at <- x6,
    created <- x7, now <- x8, done <- x9, failed <- x10

Requests == INSTANCE EthereumRequests WITH
    REQUEST_RETRIES <- {0, 1, 3}, CallRetries <- 4, MaxAttempts <- 4, MaxReorgs <- 2,
    op <- x1, limit <- x2, checked <- x3, eip_1898 <- x4, phase <- x5, attempts <- x6,
    fork <- x7, outcome <- x8, replies <- x9, reorgs <- x10

Solana == INSTANCE SolanaRuntime WITH
    MaxSlot <- 5, Relevant <- {1, 2, 3, 5}, Page <- 2, MaxFaults <- 2,
    phase <- x1, reader_at <- x2, opt_stream <- x3, messages <- x4, start_block <- x5,
    blocks <- x6, block_slot <- x7, got_block <- x8, tasks <- x9, handled <- x10,
    lost <- x11, origin <- x12, crashes <- x13, faults <- x14, address <- x15

Slots == INSTANCE SlotReader WITH
    MaxSlot <- 5, Skipped <- {1}, Undecodable <- {3}, Margin <- 1, Limit <- 2, TxBatch <- 2, Batch <- 2, MaxFaults <- 1,
    Txs <- LET T(s, e) == [slot |-> s, err |-> e]
           IN  <<T(4, FALSE), T(3, TRUE), T(3, FALSE), T(2, FALSE), T(1, TRUE)>>,
    Subscribers <- {<<None, "debug">>, <<2, "debug">>, <<3, "release">>},
    start_block <- x1, build <- x2, phase <- x3, asked <- x4, filter_txs <- x5, start_tx <- x6,
    last <- x7, upto <- x8, tasks <- x9, queue <- x10, sending <- x11, packed <- x12, tip <- x13,
    open <- x14, faults <- x15, history <- x16, sent <- x17, first <- x18, packs <- x19,
    decoded <- x20, lost <- x21

\* A block whose transaction cannot be decoded, a slot without a block, and a
\* block with two transactions, one of which failed and moved a token.
ScannedBlocks ==
    LET Tx(decodes, ok, fee, accounts, pre, post, insts) ==
            [decodes |-> decodes, ok |-> ok, fee |-> fee, accounts |-> accounts, pre |-> pre,
             post |-> post, insts |-> insts]
        Balance(n) == [account |-> 1, amount |-> n]
        Of(time, txs) == [time |-> time, reward |-> 1, txs |-> txs]
    IN  (0 :> Of(0, <<>>)) @@ (2 :> None) @@ (4 :> Of(4, <<>>))
        @@ (1 :> Of(1, <<Tx(FALSE, TRUE, 3, 1, <<>>, <<>>, <<"t">>)>>))
        @@ (3 :> Of(2, << Tx(TRUE, TRUE, 1, 2, <<>>, <<>>, <<"t", "t">>),
                          Tx(TRUE, FALSE, 2, 1, <<Balance(1)>>, <<Balance(2)>>, <<"v", "t">>) >>))

Scanner == INSTANCE SolanaScanner WITH
    MaxSlot <- 4, Block <- ScannedBlocks, Installed <- {<<None, "debug">>, <<1, "release">>},
    Margin <- 1, Batch <- 2, Buffer <- 1, MaxRows <- 2, Day <- 3, Millis <- 10, Stored <- {"t"},
    MaxTasks <- 1, MaxTrouble <- 1,
    tip <- x1, block_arg <- x2, build <- x3, reader <- x4, unsent <- x5, queue <- x6,
    last_block <- x7, tasks <- x8, db <- x9, trouble <- x10, origin <- x11, dropped <- x12,
    counted <- x13

DailyBlocks ==
    LET Tx(from, value, gas, price) ==
            [from |-> from, value |-> value, gas |-> gas, price |-> price]
    IN  << [time |-> 0, txs |-> <<Tx(a1, 1, 2, 3), Tx(a2, 2, 3, 1), Tx(a1, 1, 1, 1)>>],
           [time |-> 2, txs |-> <<>>],
           [time |-> 3, txs |-> <<Tx(a2, 3, 1, 2)>>] >>

Analytics == INSTANCE EthereumAnalytics WITH
    MaxBlock <- 3, Block <- DailyBlocks, Day <- 2, MaxTasks <- 1, MaxTrouble <- 1,
    Installed <- {<<None, 1>>, <<"matic", None>>, <<"matic", 1>>},
    network <- x1, block <- x2, process <- x3, pos <- x4, tasks <- x5, db <- x6, trouble <- x7,
    seen <- x8, streams <- x9, lost <- x10, counted <- x11

x1To10 == <<x1, x2, x3, x4, x5, x6, x7, x8, x9, x10>>
x11To14 == <<x11, x12, x13, x14>>
x1To14 == <<x1To10, x11To14>>
x16To21 == <<x16, x17, x18, x19, x20, x21>>
shared == <<x1To10, x11To14, x15, x16To21>>

No10 == /\ x1 = None /\ x2 = None /\ x3 = None /\ x4 = None /\ x5 = None
        /\ x6 = None /\ x7 = None /\ x8 = None /\ x9 = None /\ x10 = None
No12To13 == x12 = None /\ x13 = None
No16To21 == x16 = None /\ x17 = None /\ x18 = None /\ x19 = None /\ x20 = None /\ x21 = None

PartsInit ==
    /\ part \in Parts
    /\ Init
    /\ part # "polling" => head = StartBlock
    /\ \/ part = "polling" /\ No10 /\ x11 = None /\ No12To13 /\ x14 = None /\ x15 = None /\ No16To21
       \/ part = "triggers" /\ Triggers!Init /\ x11 = None /\ No12To13 /\ x14 = None /\ x15 = None /\ No16To21
       \/ part = "requests" /\ Requests!Init /\ x11 = None /\ No12To13 /\ x14 = None /\ x15 = None /\ No16To21
       \/ part = "solana" /\ Solana!Init /\ No16To21
       \/ part = "slots" /\ Slots!Init
       \/ part = "scanner" /\ Scanner!Init /\ x14 = None /\ x15 = None /\ No16To21
       \/ part = "analytics" /\ Analytics!Init /\ No12To13 /\ x14 = None /\ x15 = None /\ No16To21

PartsNext ==
    \/ part = "polling" /\ Next /\ UNCHANGED <<part, shared>>
    \/ part = "triggers" /\ Triggers!Next /\ UNCHANGED <<part, vars, x11To14, x15, x16To21>>
    \/ part = "requests" /\ Requests!Next /\ UNCHANGED <<part, vars, x11To14, x15, x16To21>>
    \/ part = "solana" /\ Solana!Next /\ UNCHANGED <<part, vars, x16To21>>
    \/ part = "slots" /\ Slots!Next /\ UNCHANGED <<part, vars>>
    \/ part = "scanner" /\ Scanner!Next /\ UNCHANGED <<part, vars, x14, x15, x16To21>>
    \/ part = "analytics" /\ Analytics!Next /\ UNCHANGED <<part, vars, x12, x13, x14, x15, x16To21>>

PartsSpec ==
    /\ PartsInit
    /\ [][PartsNext]_<<part, vars, shared>>
    /\ WF_vars(part = "polling" /\ StreamStep)
    /\ WF_x1To10(part = "requests" /\ Requests!Start)
    /\ WF_x1To10(part = "requests" /\ Requests!Timeout)
    /\ WF_x1To10(part = "requests" /\ Requests!Again)
    /\ WF_x1To14(part = "solana" /\ Solana!LoopStep)
    /\ WF_x1To14(part = "solana" /\ \E t \in x9 : Solana!TaskStep(t))
    /\ WF_shared(part = "slots" /\ Slots!NextRange)
    /\ WF_shared(part = "slots" /\ Slots!Spawn)
    /\ WF_shared(part = "slots" /\ Slots!TaskStep)

\* The polling stream does not stall: what the node has is delivered
\* (BlockStream::poll_next).
PollingCatches == part = "polling" => Catches

\* Every log, call and block a data source matches, from the block that created it
\* on, is found and handled once, in the order of the chain and after a restart too
\* (blocks_with_triggers, TriggerFilter::extend, Ord for EthereumTrigger).
TriggersAreHandled == part = "triggers" => Triggers!TriggersAreHandled

\* A block handler with the filter `call` runs for every block with a call to its
\* contract, as the comment at BlockHandlerFilter says.
CallFilterTriggers == part = "triggers" => Triggers!CallFilterTriggers

\* A contract call reports a possible reorganization only after every attempt
\* failed and is answered for its block; a request with a limit ends, whatever the
\* node does (call, eth_call, run_retry).
RequestsEnd ==
    /\ [](part = "requests" => Requests!RequestsAreSound)
    /\ (part = "requests" /\ Requests!Bounded)
       ~> (part = "requests" /\ x5 \in {"done", "panicked"})

\* There is no gap that no history task knows of, no slot is handled twice but by a
\* restart, and what the loop has passed is handled in the end, if it was not
\* dropped; for a data source whose address is a key, as another gets no history
\* (start, mapping_history_data, handle_block_mapping).
HistoryArrives ==
    /\ [](part = "solana" => Solana!TypeOK /\ Solana!GapsAreFetched /\ Solana!OncePerRestart)
    /\ \A s \in {1, 2, 3, 5} :
          (part = "solana" /\ x15 = "key" /\ Solana!Passed(s)) ~> (part = "solana" /\ Solana!Settled(s))

\* History is complete and in order, no slot of the chain is sent twice, each
\* response leaves one slot behind, and a finalized slot is requested in the end
\* (getTransactions, SendQueue, loop_get_block).
SlotsAreSent ==
    /\ [](part = "slots" => Slots!SlotsAreSent)
    /\ (part = "slots" /\ x3 = "loop" /\ x7 < Slots!root)
       ~> (part = "slots" /\ (x3 = "closed" \/ x7 >= Slots!root))

\* A block the scanner has passed is stored, as far as its handlers keep it, and
\* counted once, on its way, or lost in a known way; the saved slot only grows, unless the scanner could not read
\* it when it started (loop_get_block, process_solana_channel, transact_upserts).
ScansAreAccounted ==
    /\ [](part = "scanner" => Scanner!RowsAreAccounted)
    /\ [][part = "scanner" /\ x9.got_block # None /\ x7 >= x9.got_block
          => x9'.got_block >= x9.got_block]_shared

\* The rows of a day add up over the blocks handled, in any order, and over the
\* addresses; no stream counts a block twice or leaves one out
\* (process_ethereum_stream).
DaysAddUp == part = "analytics" => Analytics!DaysAddUp
=============================================================================
