----------------------------- MODULE RunIndexer -----------------------------
(***************************************************************************)
(* manager/src/indexer/instance_manager.rs: the thread of one deployment.  *)
(* start_indexer_inner builds the context from the store, run_indexer      *)
(* opens a block stream at the stored block pointer and hands every block  *)
(* to process_block, which runs the handlers, instantiates the data        *)
(* sources they created, and commits the block in one store transaction    *)
(* (store/postgres/src/deployment_store.rs).  A block that created data    *)
(* sources, or hit a possible reorg, makes run_indexer open a new stream.  *)
(*                                                                         *)
(* A handler is known by its data source: Triggers[b] are the data sources *)
(* with a trigger in block b, Creates[b][d] the ones d's handler creates   *)
(* there.  A creation block of 0 stands for a data source of the manifest, *)
(* Never for one that does not exist.  The stream is the one promised by   *)
(* BlockStream: it may skip blocks without triggers for its filter.        *)
(***************************************************************************)
EXTENDS Naturals

CONSTANTS
    DataSource,
    Static,      \* the data sources of the manifest
    MinStart,    \* the least start block of the manifest's data sources
    MaxBlock,    \* bound: the last block of the chain
    Triggers,    \* block -> data sources with a trigger in it
    Creates      \* block -> data source -> data sources its handler creates

Block == 0..MaxBlock
Never == MaxBlock + 1

ASSUME RunAssumption ==
    /\ Static \subseteq DataSource
    /\ MaxBlock \in Nat
    /\ MinStart \in Block
    /\ Triggers \in [Block -> SUBSET DataSource]
    /\ Creates \in [Block -> [DataSource -> SUBSET DataSource]]

VARIABLES
    \* In the store:
    block_ptr,     \* the deployment's latest block; 0 also stands for none
    stored,        \* data source -> creation block: the manifest and dynds
    applied,       \* block -> data source -> times its handler was committed
    \* In the process:
    running,       \* the id is in the provider's indexers_running
    guarded,       \* the stream's CancelGuard is in instances
    \* In the thread:
    pc,            \* exited, connect, next, triggers, created or commit
    hosts,         \* data source -> creation block: the instance's hosts
    filter,        \* the data sources of the context's trigger filter
    stream,        \* [at, filter]: last block delivered, filter it was opened with
    block,         \* the block being processed
    todo,          \* data sources whose trigger is still to be handled
    first,         \* TRUE while the triggers delivered by the stream are handled
    created,       \* data sources created by the handlers, not yet instantiated
    pending,       \* data sources the transaction will store
    handled,       \* data source -> times its handler ran in this block
    errors,        \* a handler failed deterministically in this block
    needs_restart

store == <<block_ptr, stored, applied>>
blockState == <<block, todo, first, created, pending, handled, errors, needs_restart>>
vars == <<store, running, guarded, pc, hosts, filter, stream, blockState>>

\* resolve_indexer_chain_blocks: the block before the least start block.  For a
\* start at the genesis block it is None, which run_indexer reads as 0.
StartPtr == IF MinStart = 0 THEN 0 ELSE MinStart - 1

Exists(sources) == {d \in DataSource : sources[d] # Never}
NoneHandled == [d \in DataSource |-> 0]

Init ==
    /\ block_ptr = StartPtr
    /\ stored = [d \in DataSource |-> IF d \in Static THEN 0 ELSE Never]
    /\ applied = [b \in Block |-> NoneHandled]
    /\ running = FALSE
    /\ guarded = FALSE
    /\ pc = "exited"
    /\ hosts = stored
    /\ filter = Static
    /\ stream = [at |-> 0, filter |-> Static]
    /\ block = 0 /\ todo = {} /\ first = FALSE /\ created = {} /\ pending = {}
    /\ handled = NoneHandled /\ errors = FALSE /\ needs_restart = FALSE

\* IndexerProvider::start and start_indexer_inner: hosts and filter from the
\* manifest and the stored dynamic data sources.  A deployment whose id is
\* already in indexers_running is refused.
start_indexer ==
    /\ ~running
    /\ running' = TRUE
    /\ hosts' = stored
    /\ filter' = Exists(stored)
    /\ pc' = "connect"
    /\ UNCHANGED <<store, guarded, stream, blockState>>

\* The thread ends; the process, its indexers_running and instances stay.
Exit ==
    /\ pc' = "exited"
    /\ UNCHANGED <<store, running, guarded, hosts, filter, stream, blockState>>

\* The top of run_indexer's loop: a stream from the stored block pointer, with
\* a copy of the filter; its guard goes into instances.
new_block_stream ==
    /\ pc = "connect"
    /\ stream' = [at |-> block_ptr, filter |-> filter]
    /\ guarded' = TRUE
    /\ pc' = "next"
    /\ UNCHANGED <<store, running, hosts, filter, blockState>>

\* block_ptr() or new_block_stream fails, or the stream panics or ends.
StreamFails ==
    /\ pc \in {"connect", "next"}
    /\ Exit

\* The stream delivers block b: no block it passed over has a trigger that
\* matches its filter.  process_block starts with the triggers of b.
ProcessBlock(b) ==
    /\ pc = "next"
    /\ b > stream.at
    /\ \A c \in Block : stream.at < c /\ c < b => Triggers[c] \cap stream.filter = {}
    /\ stream' = [at |-> b, filter |-> stream.filter]
    /\ block' = b
    /\ todo' = Triggers[b] \cap stream.filter
    /\ first' = TRUE
    /\ created' = {}
    /\ pending' = {}
    /\ handled' = NoneHandled
    /\ errors' = FALSE
    /\ needs_restart' = FALSE
    /\ pc' = "triggers"
    /\ UNCHANGED <<store, running, guarded, hosts, filter>>

\* A handler returns, and its created data sources join the block's.
HandlerReturns(d) ==
    /\ pc = "triggers"
    /\ d \in todo
    /\ todo' = todo \ {d}
    /\ handled' = [handled EXCEPT ![d] = @ + 1]
    /\ created' = created \cup Creates[block][d]
    /\ UNCHANGED <<store, running, guarded, pc, hosts, filter, stream, block,
                   first, pending, errors, needs_restart>>

\* A deterministic trap: the handler's changes are discarded, the block goes on.
HandlerTraps(d) ==
    /\ pc = "triggers"
    /\ d \in todo
    /\ todo' = todo \ {d}
    /\ errors' = TRUE
    /\ UNCHANGED <<store, running, guarded, pc, hosts, filter, stream, block,
                   first, created, pending, handled, needs_restart>>

\* MappingError::PossibleReorg: for the stream's own triggers the block is given
\* up and run_indexer opens a new stream; for the triggers of new data sources,
\* like MappingError::Unknown for any trigger, it ends the thread.
PossibleReorg(d) ==
    /\ pc = "triggers"
    /\ d \in todo
    /\ first
    /\ guarded' = FALSE
    /\ pc' = "connect"
    /\ UNCHANGED <<store, running, hosts, filter, stream, blockState>>

HandlerFails ==
    /\ pc = "triggers"
    /\ todo # {}
    /\ Exit

\* A plausible bug: needs_restart is read after the loop has drained what was
\* created.
TriggersDone_LateRestart ==
    /\ pc = "triggers"
    /\ todo = {}
    /\ needs_restart' = (created # {})
    /\ first' = FALSE
    /\ pc' = IF created = {} THEN "commit" ELSE "created"
    /\ UNCHANGED <<store, running, guarded, hosts, filter, stream, block, todo,
                   created, pending, handled, errors>>

\* All triggers at hand are handled: instantiate what they created, or commit.
\* needs_restart is decided once, after the stream's triggers.
TriggersDone ==
    /\ pc = "triggers"
    /\ todo = {}
    /\ needs_restart' = IF first THEN created # {} ELSE needs_restart
    /\ first' = FALSE
    /\ pc' = IF created = {} THEN "commit" ELSE "created"
    /\ UNCHANGED <<store, running, guarded, hosts, filter, stream, block, todo,
                   created, pending, handled, errors>>

\* Plausible bugs of the while loop, as the values it computes: the new data
\* sources, their creation block, their triggers, the rows to store, and what is
\* left in created.
CreateWith(new, at, triggers, rows, left) ==
    /\ pc = "created"
    /\ hosts' = [d \in DataSource |-> IF d \in new THEN at ELSE hosts[d]]
    /\ todo' = triggers
    /\ pending' = pending \cup rows
    /\ filter' = filter \cup new
    /\ created' = left
    /\ pc' = "triggers"
    /\ UNCHANGED <<store, running, guarded, stream, block, first, handled, errors,
                   needs_restart>>
\* A plausible bug: new data sources get no triggers of their own block.
create_SkipsThisBlock ==
    LET new == created \ Exists(hosts) IN CreateWith(new, block, {}, new, {})
\* A plausible bug: new data sources are not persisted.
create_NotPersisted ==
    LET new == created \ Exists(hosts) IN CreateWith(new, block, Triggers[block] \cap new, {}, {})
\* A plausible bug: the created data sources are not taken out of the state.
create_NotDrained ==
    LET new == created \ Exists(hosts)
    IN  CreateWith(new, block, Triggers[block] \cap new, new, created)

\* One turn of process_block's while loop: hosts for the created data sources
\* that are not duplicates, their triggers in this same block, the rows to
\* store, and the filter for the streams to come.
create_dynamic_data_sources ==
    /\ pc = "created"
    /\ LET new == created \ Exists(hosts)
       IN  /\ hosts' = [d \in DataSource |-> IF d \in new THEN block ELSE hosts[d]]
           /\ todo' = Triggers[block] \cap new
           /\ pending' = pending \cup new
           /\ filter' = filter \cup new
    /\ created' = {}
    /\ pc' = "triggers"
    /\ UNCHANGED <<store, running, guarded, stream, block, first, handled, errors,
                   needs_restart>>

\* Instantiating a data source or reading its triggers fails.
CreateFails ==
    /\ pc = "created"
    /\ Exit

\* A block that is not after the stored one is refused.
forward_block_ptr ==
    /\ block > block_ptr
    /\ block_ptr' = block

\* The store's transaction: the entity changes of the handlers, the new data
\* sources and the block pointer, or none of them.
Transact ==
    /\ forward_block_ptr
    /\ stored' = [d \in DataSource |-> IF d \in pending THEN block ELSE stored[d]]
    /\ applied' = [applied EXCEPT ![block] =
                      [d \in DataSource |-> applied[block][d] + handled[d]]]

transact_block_operations ==
    /\ pc = "commit"
    /\ ~errors
    /\ guarded
    /\ Transact
    /\ pc' = IF needs_restart THEN "connect" ELSE "next"
    /\ guarded' = ~needs_restart
    /\ UNCHANGED <<running, hosts, filter, stream, blockState>>

\* The database commits, but the connection or the process dies before the
\* answer arrives.
CommitUnacknowledged ==
    /\ pc = "commit"
    /\ ~errors
    /\ guarded
    /\ Transact
    /\ pc' = "exited"
    /\ UNCHANGED <<running, guarded, hosts, filter, stream, blockState>>

\* A deterministic error of a handler, a canceled stream, or a transaction that
\* was rolled back.
CommitFails ==
    /\ pc = "commit"
    /\ Exit

\* The process stops at any point, and everything but the store is lost.
Crash ==
    /\ running' = FALSE
    /\ guarded' = FALSE
    /\ pc' = "exited"
    /\ UNCHANGED <<store, hosts, filter, stream, blockState>>

Next ==
    \/ start_indexer
    \/ new_block_stream
    \/ StreamFails
    \/ \E b \in Block : ProcessBlock(b)
    \/ \E d \in DataSource : HandlerReturns(d) \/ HandlerTraps(d) \/ PossibleReorg(d)
    \/ HandlerFails
    \/ TriggersDone
    \/ create_dynamic_data_sources
    \/ CreateFails
    \/ transact_block_operations
    \/ CommitUnacknowledged
    \/ CommitFails
    \/ Crash

\* The steps of process_block, which runs on a thread of its own and awaits
\* nothing but handlers, the chain and the store: each of them is answered.
BlockStep ==
    \/ \E d \in DataSource : HandlerReturns(d) \/ HandlerTraps(d)
    \/ TriggersDone
    \/ create_dynamic_data_sources
    \/ transact_block_operations
    \/ CommitFails

Spec == Init /\ [][Next]_vars

FairSpec == Spec /\ WF_vars(BlockStep)
-----------------------------------------------------------------------------
TypeOK ==
    /\ block_ptr \in Block
    /\ stored \in [DataSource -> 0..Never]
    /\ applied \in [Block -> [DataSource -> Nat]]
    /\ running \in BOOLEAN
    /\ guarded \in BOOLEAN
    /\ pc \in {"exited", "connect", "next", "triggers", "created", "commit"}
    /\ hosts \in [DataSource -> 0..Never]
    /\ filter \in SUBSET DataSource
    /\ stream \in [at : Block, filter : SUBSET DataSource]
    /\ block \in Block
    /\ todo \in SUBSET DataSource
    /\ first \in BOOLEAN
    /\ created \in SUBSET DataSource
    /\ pending \in SUBSET DataSource
    /\ handled \in [DataSource -> Nat]
    /\ errors \in BOOLEAN
    /\ needs_restart \in BOOLEAN

\* Every trigger is committed exactly once: in each block from the deployment's
\* start up to the stored block pointer, the handler of every data source that
\* has a trigger there and existed by then, the ones created in that very block
\* included; nothing is committed of later blocks.  This is across stream
\* restarts, possible reorgs, errors in any step, crashes and lost
\* acknowledgements of transact_block_operations.
ExactlyOnce ==
    \A b \in Block, d \in DataSource :
        b > StartPtr =>
            applied[b][d] = IF b <= block_ptr /\ d \in Triggers[b] /\ stored[d] <= b
                            THEN 1 ELSE 0

\* A data source created by a committed handler is in the store, and is not
\* younger than the block whose handler created it: a restart finds it.
CreatedAreStored ==
    \A b \in Block, d \in DataSource :
        b > StartPtr /\ applied[b][d] > 0 => \A e \in Creates[b][d] : stored[e] <= b

\* add_dynamic_data_source asserts that hosts stay ordered by creation block.
HostsOrderedByCreation ==
    pc = "created" => \A d \in Exists(hosts) : hosts[d] <= block

\* Between blocks the thread's hosts are those a restart would load, and the
\* open stream filters for all of them: no restart of a stream is forgotten.
\* Within a block the hosts stay in the order in which a restart loads them.
MemoryIsTheStore ==
    /\ pc \in {"connect", "next"} => hosts = stored /\ filter = Exists(hosts)
    /\ pc = "next" => stream = [at |-> block_ptr, filter |-> Exists(hosts)]
    /\ HostsOrderedByCreation

\* No stream is canceled under the thread that reads it, so process_block never
\* takes the Canceled return between the handlers and the transaction.
NeverCanceled == pc \in {"next", "triggers", "created", "commit"} => guarded

\* Every block is finished: the loop of process_block, which instantiates what
\* the handlers of new data sources create in turn, ends even when handlers
\* create each other's data sources, because a duplicate gets no host.
BlocksEnd == (pc = "triggers") ~> (pc \in {"exited", "connect", "next"})

\* resolve_indexer_chain_blocks says that a least start block of 0 starts the
\* deployment at the genesis block: once it is past it, the triggers of the
\* genesis block have been handled.
GenesisIndexed ==
    MinStart = 0 /\ block_ptr > 0 =>
        \A d \in Triggers[0] \cap Static : applied[0][d] = 1
=============================================================================
