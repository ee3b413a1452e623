-------------------------- MODULE EthereumTriggers --------------------------
(***************************************************************************)
(* How an Ethereum indexer finds its triggers and hands them to its data   *)
(* sources: the filter computed from the data sources, the three scans of  *)
(* a block range it drives, the sorting of what they return, and the       *)
(* decision of each data source whether a trigger is its own.  Handlers    *)
(* create data sources in the middle of a block; the filter grows with     *)
(* them and is rebuilt from the store after a restart.                     *)
(*                                                                         *)
(* An event is [name, ty, ix]: its name, the types of its parameters and   *)
(* which of them are indexed (0: none).  Its hash, topic0, covers the name *)
(* and the types only.  A function is its signature, whose first four      *)
(* bytes select it.                                                        *)
(***************************************************************************)
EXTENDS Integers, Sequences, FiniteSets, SequencesExt, FiniteSetsExt

CONSTANTS
    Chains,      \* the chains tried: sequences of blocks, each a set of items
    Manifests,   \* the data sources of the manifests tried
    Templates,   \* data sources without an address
    Addresses,   \* the addresses a template is instantiated with
    MaxSources,  \* bound on the data sources
    STEP_SIZE,   \* TRACE_STREAM_STEP_SIZE
    None

VARIABLES
    chain,       \* the chain scanned
    sources,     \* the data sources with a host, in order
    stored,      \* how many of them are in the manifest or the store
    filter,      \* IndexingState.filter
    stream,      \* the blocks with triggers the stream holds, or None
    at,          \* the last block committed
    created,     \* the data sources the handlers of this block asked for
    now,         \* what has been handled of the block being processed
    done,        \* what was handled of each committed block
    failed       \* the indexer stopped on an error

ethVars == <<chain, sources, stored, filter, stream, at, created, now, done, failed>>

topic0(e) == <<e.name, e.ty>>

Min2(a, b) == IF a < b THEN a ELSE b

-----------------------------------------------------------------------------
(* The filters, from data sources and extended by others.                  *)

LogFilter_from(dss) ==
    FlattenSeq([i \in DOMAIN dss |->
        [j \in DOMAIN dss[i].event_handlers |->
            [contract |-> dss[i].address, sig |-> topic0(dss[i].event_handlers[j])]]])

CallFilter_from(dss) ==
    LET found == UNION {{<<ds.address, ds.start_block, f>> : f \in Range(ds.call_handlers)} :
                           ds \in {d \in Range(dss) : d.address # None}}
    IN  [a \in {f[1] : f \in found} |->
            [start |-> Min({f[2] : f \in {g \in found : g[1] = a}}),
             sigs  |-> {f[3] : f \in {g \in found : g[1] = a}}]]

\* A plausible bug: the functions of a known contract are not added.
CallFilter_extend_KnownKept(f, g) ==
    [a \in DOMAIN f \cup DOMAIN g |-> IF a \in DOMAIN f THEN f[a] ELSE g[a]]

CallFilter_extend(f, g) ==
    [a \in DOMAIN f \cup DOMAIN g |->
        IF a \notin DOMAIN g THEN f[a]
        ELSE IF a \notin DOMAIN f THEN g[a]
        ELSE [start |-> Min2(f[a].start, g[a].start), sigs |-> f[a].sigs \cup g[a].sigs]]

\* Only the addresses already in f are kept: those of g can lower a start block.
BlockFilter_extend(f, g) ==
    [trigger_every_block |-> f.trigger_every_block \/ g.trigger_every_block,
     contract_addresses  |->
        {LET same == {q \in g.contract_addresses : q[2] = p[2]}
         IN  IF same = {} THEN p ELSE <<Min2(Min({q[1] : q \in same}), p[1]), p[2]>> :
            p \in f.contract_addresses}]

NoBlocks == [trigger_every_block |-> FALSE, contract_addresses |-> {}]

BlockFilter_from(dss) ==
    FoldLeft(
        LAMBDA f, ds :
            BlockFilter_extend(f,
                [trigger_every_block |-> None \in Range(ds.block_handlers),
                 contract_addresses  |-> IF "call" \in Range(ds.block_handlers)
                                         THEN {<<ds.start_block, ds.address>>} ELSE {}]),
        NoBlocks,
        SelectSeq(dss, LAMBDA ds : ds.address # None))

TriggerFilter_extend(f, dss) ==
    [log   |-> f.log \o LogFilter_from(dss),
     call  |-> CallFilter_extend(f.call, CallFilter_from(dss)),
     block |-> BlockFilter_extend(f.block, BlockFilter_from(dss))]

from_data_sources(dss) ==
    TriggerFilter_extend([log |-> <<>>, call |-> <<>>, block |-> NoBlocks], dss)

\* The call filter that finds the blocks with calls to given contracts.
CallFilter_of_blocks(f) ==
    [a \in {p[2] : p \in f.contract_addresses} |->
        [start |-> Min({p[1] : p \in {q \in f.contract_addresses : q[2] = a}}), sigs |-> {}]]

CallFilter_matches(f, call) ==
    /\ call.to \in DOMAIN f
    /\ f[call.to].sigs = {} \/ call.input \in f[call.to].sigs

-----------------------------------------------------------------------------
(* The node's answers, and the scans of the blocks from..to.               *)

Items(from, to, kind) ==
    FlattenSeq([k \in 1..(to - from + 1) |->
        SetToSortSeq({i \in chain[from + k - 1] : i.kind = kind},
                     LAMBDA i, j : i.index < j.index)])

logs_with_sigs(from, to, f) ==
    SelectSeq(Items(from, to, "log"),
              LAMBDA l : (f.contract = None \/ l.address = f.contract) /\ l.topic = f.sig)

logs_in_block_range(from, to, log) ==
    FlattenSeq([i \in DOMAIN log |-> logs_with_sigs(from, to, log[i])])

\* Only a call that succeeded, selects a function and belongs to a transaction.
try_from_trace(t) == t.ok /\ t.input # None /\ t.tx # None

trace_stream(from, to, addresses) ==
    LET Start(k) == from + (k - 1) * STEP_SIZE
    IN  FlattenSeq([k \in 1..((to - from) \div STEP_SIZE + 1) |->
            SelectSeq(Items(Start(k), Min2(Start(k) + STEP_SIZE - 1, to), "trace"),
                      LAMBDA t : t.to \in addresses)])

calls_in_block_range(from, to, call) ==
    LET addresses == {a \in DOMAIN call : call[a].start <= to}
    IN  IF addresses = {} THEN <<>>
        ELSE SelectSeq(trace_stream(from, to, addresses),
                       LAMBDA t : try_from_trace(t) /\ CallFilter_matches(call, t))

BlockTrigger(b, to) == [kind |-> "block", block |-> b, to |-> to]

block_range_to_ptrs(from, to) ==
    [k \in 1..(to - from + 1) |-> BlockTrigger(from + k - 1, None)]

BlockTriggers(from, to, block) ==
    IF block.trigger_every_block THEN block_range_to_ptrs(from, to)
    ELSE LET calls == calls_in_block_range(from, to, CallFilter_of_blocks(block))
         IN  [i \in DOMAIN calls |-> BlockTrigger(calls[i].block, calls[i].to)]

\* Ord::cmp = Greater: a trigger that has to come after another.
After(a, b) ==
    CASE a.kind = "block" \/ b.kind = "block" -> a.kind = "block" /\ b.kind # "block"
      [] a.kind = b.kind /\ a.kind = "log"    -> a.index > b.index
      [] a.kind = b.kind /\ a.kind = "trace"  -> a.tx > b.tx
      [] a.tx = b.tx                          -> a.kind = "trace"
      [] OTHER                                -> a.tx > b.tx

\* The stable sort of BlockWithTriggers::new.
Sorted(triggers) ==
    FoldLeft(
        LAMBDA s, t :
            LET n == Cardinality({i \in DOMAIN s : ~ After(s[i], t)})
            IN  SubSeq(s, 1, n) \o <<t>> \o SubSeq(s, n + 1, Len(s)),
        <<>>, triggers)

\* What blocks_with_triggers may return: the three scans end in any order.  The
\* block `to` is always there.
blocks_with_triggers(from, to, f) ==
    LET scans == << logs_in_block_range(from, to, f.log),
                    calls_in_block_range(from, to, f.call),
                    BlockTriggers(from, to, f.block) >>
        Of(triggers, b) == Sorted(SelectSeq(triggers, LAMBDA t : t.block = b))
        Blocks(triggers) ==
            LET found == {triggers[i].block : i \in DOMAIN triggers} \cup {to}
                bs == SetToSortSeq(found, LAMBDA b, c : b < c)
            IN  [i \in DOMAIN bs |-> [block |-> bs[i], triggers |-> Of(triggers, bs[i])]]
    IN  {Blocks(scans[o[1]] \o scans[o[2]] \o scans[o[3]]) :
            o \in {p \in [1..3 -> 1..3] : Cardinality(Range(p)) = 3}}

-----------------------------------------------------------------------------
(* What a data source makes of a trigger.                                  *)

validate(ds) ==
    /\ ds.address = None => ds.call_handlers = <<>> /\ ds.block_handlers = <<>>
    /\ \A f \in {None, "call"} :
           Cardinality({i \in DOMAIN ds.block_handlers : ds.block_handlers[i] = f}) <= 1

matches_trigger_address(ds, t) ==
    \/ ds.address = None
    \/ t.kind = "log" /\ t.address = ds.address
    \/ t.kind = "trace" /\ t.to = ds.address
    \/ t.kind = "block" /\ t.to \in {None, ds.address}

\* The event of the ABI a handler means: the same signature, or the only event
\* of that name when the handler leaves out which parameters are indexed.
contract_event_with_signature(ds, e) ==
    LET named == {a \in ds.abi.events : a.name = e.name}
    IN  IF e \in ds.abi.events THEN e
        ELSE IF /\ Cardinality(named) = 1
                /\ \A a \in named : a.ty = e.ty /\ e.ix = 0
             THEN CHOOSE a \in named : TRUE
             ELSE None

\* The handlers of a log whose event of the ABI can decode it, or None if one
\* of the handlers is not in the ABI.
LogHandlers(ds, log) ==
    LET potential == SelectSeq(ds.event_handlers, LAMBDA e : topic0(e) = log.topic)
    IN  IF \E i \in DOMAIN potential :
               contract_event_with_signature(ds, potential[i]) = None
        THEN None
        ELSE SelectSeq(potential,
                       LAMBDA e : contract_event_with_signature(ds, e).ix = log.ix)

handler_for_block(ds, t) ==
    IF t.to = None THEN None \in Range(ds.block_handlers)
    ELSE "call" \in Range(ds.block_handlers)

\* The transaction of a log or call: one of its block, or for a log without one
\* (its hash is the block's) a dummy.  It is missing for any other hash.
HasTransaction(t) == t.of = "tx" \/ (t.kind = "log" /\ t.of = "block")

\* "match", "no" or "error".
match_and_decode(ds, t) ==
    IF ~ matches_trigger_address(ds, t) \/ ds.start_block > t.block THEN "no"
    ELSE CASE t.kind = "block" -> IF handler_for_block(ds, t) THEN "match" ELSE "no"
           [] t.kind = "log" ->
                LET hs == LogHandlers(ds, t)
                IN  CASE hs = None    -> "error"
                      [] hs = <<>>    -> "no"
                      [] OTHER        -> IF Len(hs) = 1 /\ HasTransaction(t)
                                         THEN "match" ELSE "error"
           [] OTHER ->
                IF t.input \notin Range(ds.call_handlers) THEN "no"
                ELSE IF t.input \in ds.abi.functions /\ t.decodes /\ HasTransaction(t)
                     THEN "match" ELSE "error"

-----------------------------------------------------------------------------
(* The indexer.                                                            *)

Init ==
    /\ chain \in Chains
    /\ sources \in {m \in Manifests : \A i \in DOMAIN m : validate(m[i])}
    /\ stored = Len(sources)
    /\ filter = from_data_sources(sources)
    /\ stream = None
    /\ at = 0
    /\ created = {}
    /\ now = <<>>
    /\ done = [b \in 1..Len(chain) |-> <<>>]
    /\ failed = FALSE

\* One request of the stream, for any range of blocks that follow the last one.
Scan ==
    /\ stream = None /\ ~ failed /\ created = {}
    /\ \E to \in (at + 1)..Len(chain) :
          stream' \in blocks_with_triggers(at + 1, to, filter)
    /\ UNCHANGED <<chain, sources, stored, filter, at, created, now, done, failed>>

\* What the hosts first..Len(dss) do with triggers: every host that matches one
\* handles it, in the order of the triggers and then of the hosts.
Handled(dss, first, triggers) ==
    FlattenSeq([k \in DOMAIN triggers |->
        LET to == SelectSeq([i \in 1..(Len(dss) - first + 1) |-> first + i - 1],
                            LAMBDA i : match_and_decode(dss[i], triggers[k]) = "match")
        IN  [j \in DOMAIN to |-> [ds |-> to[j], trigger |-> triggers[k]]]])

HostsFail(dss, first, triggers) ==
    \E k \in DOMAIN triggers : \E i \in first..Len(dss) :
        match_and_decode(dss[i], triggers[k]) = "error"

\* DataSource::try_from: the template at the address, from block 0 on.
Instantiated(template, address, block) ==
    [template EXCEPT !.address = address, !.start_block = 0, !.creation_block = block]

\* The block that created a data source does not tell it from another.
is_duplicate_of(ds, other) == [ds EXCEPT !.creation_block = other.creation_block] = other

\* What the handlers may have asked for, when any of them ran.
MayCreate(handled) ==
    {c \in SUBSET {Instantiated(t, a, Head(stream).block) : t \in Templates, a \in Addresses} :
        /\ Cardinality(c) <= IF handled = <<>> THEN 0 ELSE 1
        /\ Len(sources) + Cardinality(c) <= MaxSources}

Fail ==
    /\ failed' = TRUE
    /\ stream' = None
    /\ created' = {}
    /\ now' = <<>>

ProcessTriggers ==
    /\ stream # None /\ now = <<>>
    /\ LET triggers == Head(stream).triggers
       IN  IF HostsFail(sources, 1, triggers)
           THEN Fail
           ELSE /\ now' = <<Handled(sources, 1, triggers)>>
                /\ created' \in MayCreate(now'[1])
                /\ UNCHANGED <<stream, failed>>
    /\ UNCHANGED <<chain, sources, stored, filter, at, done>>

\* The first of the hosts that process the triggers of the new data sources.
NewHosts(dss, n) == Len(dss) - n + 1

\* A round of the loop over created data sources: a duplicate of an existing
\* one is dropped, the others see the triggers of this block that match them.
ProcessCreated ==
    /\ now # <<>> /\ created # {}
    /\ LET fresh == SetToSeq({c \in created :
                                 \A i \in DOMAIN sources : ~ is_duplicate_of(c, sources[i])})
           all   == sources \o fresh
           b     == Head(stream).block
           first == NewHosts(all, Len(fresh))
       IN  \E blocks \in blocks_with_triggers(b, b, from_data_sources(fresh)) :
             LET triggers == blocks[1].triggers
             IN  IF HostsFail(all, first, triggers)
                 THEN Fail /\ UNCHANGED <<sources, filter>>
                 ELSE /\ sources' = all
                      /\ filter' = TriggerFilter_extend(filter, fresh)
                      /\ now' = Append(now, Handled(all, first, triggers))
                      /\ created' \in {c \in MayCreate(now'[Len(now')]) :
                                          Len(all) + Cardinality(c) <= MaxSources}
                      /\ UNCHANGED <<stream, failed>>
    /\ UNCHANGED <<chain, stored, at, done>>

\* The block is written with its data sources; if any was created the stream
\* starts again with the grown filter.
Commit ==
    /\ now # <<>> /\ created = {}
    /\ at' = Head(stream).block
    /\ done' = [done EXCEPT ![at'] = FlattenSeq(now)]
    /\ stored' = Len(sources)
    /\ stream' = IF Len(now) > 1 \/ Tail(stream) = <<>> THEN None ELSE Tail(stream)
    /\ now' = <<>>
    /\ UNCHANGED <<chain, sources, filter, created, failed>>

\* The process ends between any two steps; the next one loads the manifest and
\* the stored data sources and computes the filter from all of them.
Restart ==
    /\ sources' = SubSeq(sources, 1, stored)
    /\ filter' = from_data_sources(sources')
    /\ stream' = None
    /\ created' = {}
    /\ now' = <<>>
    /\ failed' = FALSE
    /\ UNCHANGED <<chain, stored, at, done>>

Next == Scan \/ ProcessTriggers \/ ProcessCreated \/ Commit \/ Restart

Spec == Init /\ [][Next]_ethVars

-----------------------------------------------------------------------------
(* Properties.                                                             *)

\* What a data source should handle of a block, filters aside.
Wanted(ds, b) ==
    {i \in chain[b] : /\ i.kind = "trace" => try_from_trace(i)
                      /\ match_and_decode(ds, i) = "match"}

HandledBy(i, b) == SelectSeq(done[b], LAMBDA h : h.ds = i)

\* Every log and call of a committed block that a data source matches, from the
\* block that created it on, was found by the scans and handled by that data
\* source, and every block if it has a block handler without a filter
\* (blocks_with_triggers, match_and_decode and the grown filter together).  Block
\* handlers with the filter `call` are the subject of CallFilterTriggers.
NothingMissed ==
    \A i \in 1..stored : \A b \in Max({1, sources[i].creation_block})..at :
        LET handled == {h.trigger : h \in Range(HandledBy(i, b))}
        IN  /\ Wanted(sources[i], b) \subseteq handled
            /\ None \in Range(sources[i].block_handlers) /\ sources[i].start_block <= b
               => BlockTrigger(b, None) \in handled

\* A block handler with the filter `call` runs for every committed block with a
\* call to its contract ("Call filter will trigger on all blocks where the data
\* source contract address has been called", BlockHandlerFilter).  It does not:
\* EthereumBlockFilter::extend keeps only the addresses that are in the filter
\* already, and from_data_sources starts from a filter that has none.
CallFilterTriggers ==
    \A i \in 1..stored : \A b \in Max({1, sources[i].creation_block, sources[i].start_block})..at :
        LET Called == \E c \in chain[b] : /\ c.kind = "trace" /\ try_from_trace(c)
                                          /\ c.to = sources[i].address
        IN  "call" \in Range(sources[i].block_handlers) /\ Called
            => BlockTrigger(b, sources[i].address) \in {h.trigger : h \in Range(HandledBy(i, b))}

\* The handlers of the data sources scanned for together with ds that ask for a log.
AskedFor(i, log) ==
    {p \in (1..stored) \X (1..3) :
        /\ p[2] \in DOMAIN sources[p[1]].event_handlers
        /\ topic0(sources[p[1]].event_handlers[p[2]]) = log.topic
        /\ sources[p[1]].address \in {None, log.address}
        /\ (sources[p[1]].creation_block < log.block) = (sources[i].creation_block < log.block)}

\* A data source handles a call or a block at most once, and so it does a log
\* that only one handler asks for.  A log that two handlers ask for is fetched
\* once for each of them, and nothing drops the second (EthereumLogFilter pushes
\* a filter per handler, BlockWithTriggers::new sorts without removing).
HandledOnce ==
    \A b \in 1..at : \A i \in 1..stored :
        LET hs == HandledBy(i, b)
        IN  \A j, k \in DOMAIN hs :
                j # k /\ hs[j] = hs[k] => /\ hs[j].trigger.kind = "log"
                                         /\ Cardinality(AskedFor(i, hs[j].trigger)) > 1

\* Each data source handles the triggers of a block in the order of the chain:
\* events by their index, the calls of a transaction after its events, and the
\* block itself last (Ord for EthereumTrigger), whichever scan ended first.
HandledInOrder ==
    \A b \in 1..at : \A i \in 1..stored :
        LET hs == HandledBy(i, b)
        IN  \A j, k \in DOMAIN hs :
                LET s == hs[j].trigger
                    t == hs[k].trigger
                IN  j < k => /\ s.kind = "block" => t.kind = "block"
                             /\ s.kind = t.kind /\ s.kind # "block" => s.index <= t.index
                             /\ s.kind = "trace" /\ t.kind = "log" => s.tx < t.tx
                             /\ s.kind = "log" /\ t.kind = "trace" => s.tx <= t.tx

\* The filter that grew with the data sources while the indexer ran is the one
\* a restart computes from the manifest and the store (TriggerFilter::extend
\* against from_data_sources): a restart changes nothing about what is found.
FilterSurvivesRestart == now = <<>> /\ ~ failed => filter = from_data_sources(sources)

\* Every trigger that a data source wants is handled by it once and in the order
\* of the chain, also for data sources created on the way and after a restart
\* (TriggerFilter, blocks_with_triggers, match_and_decode).
TriggersAreHandled ==
    NothingMissed /\ HandledOnce /\ HandledInOrder /\ FilterSurvivesRestart
=============================================================================
