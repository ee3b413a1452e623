# A TLA+ model of the Massbit indexer

This directory models the parts of the repository that keep state and can go
wrong in ways a test hardly reaches: the thread that indexes a deployment, the
runtime its handlers run in, the caches and streams it works with, the way
deployments are created and started, the readers and scanners of Solana and
Ethereum blocks, and the two larger examples. TLC checks the models on small
instances; TLAPS proves the most important properties for every value of the
constants. `PROJECT.json` lists the runs, the source lines behind every
definition, the hazards, the findings and the theorems.

## The system and its parts

There are two kinds of indexer.

**Ethereum indexers** are deployed to the index manager (`manager`). It starts
from options or a configuration file (`ManagerStartup`), with connection pools
that migrate the database (`ConnectionPool`). A deploy request reads the
manifest and its files from IPFS (`LinkResolver`), makes rows in the store and
asks the provider for a thread (`Deployment`); the schema becomes tables
(`Layout`, which also has the node's cache of layouts). The thread
(`RunIndexer`) opens a block stream: what it relies on is `BlockStream`, and
`PollingBlockStream` and `FirehoseBlockStream` are the two in the code. The
Ethereum adapter finds the triggers of a range (`EthereumTriggers`) with requests
that time out and are retried (`EthereumRequests`). The handlers run in a wasm
module (`WasmRuntime`, with the memory they share with the host in `AscHeap`)
over an entity cache (`EntityCache`, whose entities live in an `LfuCache`), and
the block is committed in one transaction.

**Solana indexers** are plugins that are deployed to another API
(`IndexerService`). `ChainReader` reads the chain for all of them and broadcasts
blocks to their runtimes (`SolanaRuntime`), each of which also fetches the
history it missed; both call the plugin's handlers, which save to `PluginStore`.

Beside them: an older reader (`SlotReader`), the analytics scanners
(`SolanaScanner`, `EthereumAnalytics`, over the statements in `AnalyticsStore`),
and two examples, the Quickswap mappings (`PairMappings`) and the DEX program
kept with the Serum plugin (`Market`, `DexClient`, `Critbit`, `RingQueue`, with
the abstract `OrderMap` and `BoundedQueue`).

## Modules and the code they model

Each module begins with the files it models and says what its values stand for;
`map` in `PROJECT.json` gives the lines of every definition. In all of them an
action is a whole handler or the stretch between two points where the code can
be interrupted: an `await`, a lock, a message, a transaction.

| Module | State | Steps |
|---|---|---|
| `RunIndexer` | `block_ptr`, `stored`, `applied` in the store; hosts, filter, stream, block in memory | start, new stream, block, handler (returns, traps, fails, sees a reorg), created data sources, commit, lost answer, crash |
| `WasmRuntime` | the queue, the stack of instances, the block state, stopwatches, whether a timeout is set (`watched`) | trigger, enter, host calls, `ipfs.map` and its callbacks, traps, watchdog, exit |
| `AscHeap` | memory, arena, objects | allocate and write a value by host or guest, numeric host functions |
| `EntityCache` | `handler_updates`, `updates`, `current`, rows | get, set, remove, handler brackets, `as_modifications`, the transaction |
| `LfuCache` | entries with weight, marks, priority; `total_weight` as a machine integer | insert, get, remove, extend, evict one entry at a time |
| `Layout` | a schema on its way to tables; the cached layout, its threads and lock | parse, validate, create, track, load; get, try_lock, read, cache |
| `ConnectionPool` | the advisory lock, migrations, processes, threads and their connections | setup, migrate, checkout, work, cancel, crash, outages |
| `BlockStream` | the head, the last block delivered, the blocks missed | grow, miss, deliver |
| `PollingBlockStream` | pointer, range, two requests in flight, the head, what the node did not have when asked (`missed`) | poll_next's states, answers in any order |
| `FirehoseBlockStream` | connection state, timers, furthest block | poll_next's states, wake-ups, messages |
| `EthereumTriggers` | filter, data sources, chain, what was handled | the scans, sorting, matching, creation, restart |
| `EthereumRequests` | attempts, limits, the node's fork | start, answer, timeout, retry, reorganization |
| `Deployment` | sites, deployment rows, running ids, threads | each store operation of a request, failures |
| `IndexerService` | forms, IPFS hashes, rows, tasks | parts of a form, add, insert, spawn, end of the process, restart |
| `LinkResolver` | files of IPFS nodes, cache, manifest; a JSON stream's buffer | cat over clients, resolve, validate, retry; pieces of a stream |
| `ManagerStartup` | options, configuration, pools, networks, chains | load, validate, build, providers that answer or not |
| `ChainReader` | permits, channels, reorder buffer, registered connections | adapter, one task per slot, buffer, release, send, register, close |
| `SolanaRuntime` | the last slot handled, history tasks, stream, whether the manifest has an address | loop, history page, handler, reconnect, crash |
| `PluginStore` | rows with ranges, `current`, `updates`, the transaction, whether the plugin's reference reaches the store (`shared`) | begin, save, get, flush, transaction, crash |
| `SlotReader` | pages, batches, `SendQueue`, channel, the blocks decoded and lost | history, ranges, tasks and their panics, send |
| `SolanaScanner`, `EthereumAnalytics` | tables, saved state, tasks | read, spawn, upsert, save, crash, new stream |
| `Market` | book, queues, vaults, open orders | every instruction of the program |
| `Critbit`, `RingQueue` | the slab and its free list; the ring | the operations of each |
| `DexClient` | an instruction between client and program | pack, unpack, account lists |
| `PairMappings` | the contracts, the events of a block, the entities, the calls so far (`history`) | calls, then each handler over the block |

What is abstract is data. A handler is known by its data source, an entity is a
map of a few attributes, a response of `ChainReader` is the set of the slots of
its blocks and the registered connections are served in any order, a layout in
its cache is the flags it was built with. Integers keep their width where it
matters: `total_weight` wraps or panics (`OverflowChecks`), slots are unsigned
in `ChainReader`, fees are fixed-point in `Market`, words and numbers in
`AscHeap` have their bytes and digits.

History variables (`applied`, `wanted`, `mine`, `kept`, `got`, `sent`, `stale`
and others, marked so where they are declared) record what properties compare
the state with.

Definitions whose comment calls them a plausible bug are variants of the
definition that follows. No specification uses them; they show that each
property can fail.

## What TLC checks

A run may hold several independent machines: an `MC` module has a variable
(`part` or `mode`) that says which one moves while the others stay in an initial
state, so that a run asks one question of everything that belongs together.
Where a theorem states a run's property, the `MC` module EXTENDS the component,
and the property is the component's own definition.

| Run | Machines | Properties |
|---|---|---|
| `run_indexer` | RunIndexer, WasmRuntime, AscHeap, ChainReader | `ExactlyOnce`, `CreatedAreStored`, `MemoryIsTheStore`, `BlocksEnd`; `HandlersAreContained`, `EveryTriggerIsAnswered`; `ValuesCrossIntact`; `SlotsAreAccounted`, `EverySlotPasses` |
| `entity_cache` | EntityCache, Layout and its cache, ConnectionPool, PairMappings | `ReadsOwnWrites`, `CommitsWhatWasWanted`; `LayoutsAreFaithful`; `PoolIsSafe`; `StoreRecovers`; `EntitiesAddUp` |
| `structures` | LfuCache, PluginStore, Critbit, RingQueue, DexClient | `MarkedAreUntouched`, `AccountsForWeight`, `EvictBoundsMemory`; `PluginKeepsSaves`; `IsAnOrderMap`; `IsABoundedQueue`; `InstructionsSurvive` |
| `polling` | PollingBlockStream, EthereumTriggers, EthereumRequests, SolanaRuntime, SlotReader, SolanaScanner, EthereumAnalytics | `IsABlockStream`, `PollingCatches`; `TriggersAreHandled`; `RequestsEnd`; `HistoryArrives`; `SlotsAreSent`; `ScansAreAccounted`; `DaysAddUp` |
| `deployment` | Deployment (requests at once, and in turn), ManagerStartup, FirehoseBlockStream, LinkResolver, IndexerService | `OneThreadPerHash`, `AgainSucceeds`; `StartupIsSound`; `StepsOverNothing`; `FilesAreRead`; `StoredIndexersRunOnce`; `DeploymentsArrive` |
| `market` | Market | `AssertionsHold`, `FundsAreBacked`, `BookIsInOrder` |

All of these hold. What each says is in the comment above its definition.

### Where the code does not do what its comments say

Six runs check a sentence of the repository that the code does not keep; TLC
finds the behaviour, and `findings` quotes both places.

| Run | Cfg | The sentence | What happens |
|---|---|---|---|
| `genesis` | `MCGenesisIndexed.cfg` | indexing from genesis starts there (`GenesisIndexed`) | a missing pointer is read as block 0 and the stream starts after it |
| `current_is_store` | `MCCurrentIsTheStore.cfg` | `current` is the state of entities in the store (`CurrentIsTheStore`) | only inserts are written, so after an update of a stored entity the cache and the store differ |
| `stream_errors` | `MCContinuesAfterErrors.cfg` | the stream goes on after an error (`ContinuesAfterErrors`) | it polls a future that has completed, which panics |
| `deploy_again_runs` | `MCDeployingAgainRuns.cfg` | a failed creation is fixed by deploying again (`AgainRuns`) | the provider keeps the id of a thread that ended, and nothing runs |

| `plugin_flush` | `MCFlushedAfterEachBlock.cfg` | "we flush after each block" (`FlushedAfterEachBlock`) | the plugin's reference was taken before the store was moved, and need not reach the store that is flushed |
| `call_filter` | `MCCallFilterTriggers.cfg` | a block handler with the filter `call` runs on every block with a call to its contract (`CallFilterTriggers`) | the merge of block filters keeps only addresses that were there, and there were none |

The other properties are stated of what the code does, with these taken into
account. `CommitsWhatWasWanted`, for example, speaks of the modifications handed
to the store, and `AgainSucceeds` of the answer to a second request. More
sentences that the code does not keep are where a property makes an exception;
`findings` quotes them:

- `IsABlockStream`: a block with triggers is left out when the head grows between
  the answers to the two requests of a scan. `BlockStream` has this as `Miss`: only
  blocks the node did not have when it was asked, and nothing else.
- `StartupIsSound`: a provider that times out is removed, where the comment keeps
  it. Those that answered are used, and no network loses one of those.
- `InstructionsSurvive`: `consume_events_permissioned` packs another instruction,
  and the list of a market with a crank authority is one account too long for its
  parser; those calls are left open. The Serum plugin stores prices and
  quantities as `i64`: they survive below 2^63.
- `EntitiesAddUp`: a transfer of 1000 to the zero address is ignored whatever it is
  for, and a deposit after a fee keeps the fee's holder and liquidity.
- `DaysAddUp`: the gas and the gas price are each in the other's column. Each adds up.
- `ScansAreAccounted`: the instructions of one transaction replace those of the one
  before. Of the transaction that is left, all are stored.

Properties that a reader may take for more than they say: `WorkRunsMigrated` (in
`PoolIsSafe`) leaves out processes that found the database down when they started
and those whose failed migration `migrate_schema` answers with `Ok`; `FilesAreRead`
leaves out a read that waits for a client which lost the file (`WaitsForever`).
`AccountsForWeight` speaks of caches nothing was merged into; `AgainSucceeds` and
`OneSite` take requests in turn. `EverySlotPasses` ends with a task that panics: its slot never
comes, and the buffer holds back all later ones for every indexer.

### Bounds, and why they are enough

- *Deployment thread:* blocks 0 to 5, three data sources. The factory creates the
  pair and the pair the token in the same block, later ones are created again,
  which is the whole of what creation can do: in a block, in a created source of
  that block, and twice. Every failure can happen at every step.
- *Wasm:* two triggers, two operations per handler, one `ipfs.map` of two values,
  two nested instances, a timeout of three ticks over the watchdog's one: a
  callback can time out while its caller has not, and the reverse.
- *Heap:* numbers at the borders of bytes and digits, two objects of the host and
  one of the module, an arena of 96 bytes, so that a value needs a new arena.
- *Entity cache:* one key, two attributes, one value. The operations treat keys
  independently, and two attributes tell a merge from an overwrite.
- *Layouts:* every schema of the small sets in `MCEntityCache`; three threads, two
  changes of the flags, two refreshes that fail.
- *Pool:* two processes, two futures for one connection, two migrations, two
  outages.
- *LFU cache:* three keys of weight 1 or 2, a limit of 2, a stale period of 2,
  frequencies to 2, and one other cache to merge.
- *Plugin store:* one entity with a required and a nullable attribute, three
  slots, both callers, one failure.
- *Streams:* `PollingBlockStream` has 8 blocks, ranges to 3 and a target of 2, so
  that a range shrinks, grows and meets both ends; Firehose has four blocks, two
  with triggers, two faults.
- *Others that follow a chain:* triggers over three blocks with four manifests;
  requests of one to four attempts or without limit and two reorganizations; six
  slots in pages of two with two faults (runtime); five slots in pages, batches
  and ranges of two (older reader); three blocks of two days and three
  installations (analytics); a crash or a fault in each.
- *Deploying:* four requests, three of them for one hash; manifests and files
  with two faults, JSON streams of five bytes; two submissions of six forms.
- *Chain reader:* slots to 3, one skipped by the node and one that cannot be
  decoded, batches of 2, two permits, channels of one, two connections with one
  hash, as of an indexer that connects again.
- *Market:* two traders, two orders to a side of the book, an event queue of 5 that
  fills, three sequence numbers.
- *Slab and ring:* four keys of three bits in a slab of 6, searches that are cut short and
  complete ones, a ring of 3 with 7 pushes, so its
  head wraps twice. Pairs: two pairs, six calls, two to a block.

Bounds on counters of the environment (`MaxFaults`, `MaxRequests`, `MaxPushes`
and so on) are constants, and stand in the guards. No run uses symmetry, since
each has liveness properties.

### Fairness

Fairness is weak throughout, and of three kinds.

Of steps the code takes by itself:

- the steps of `process_block`, which has a thread of its own (`BlocksEnd`), the
  mapping thread and its watchdog (`EveryTriggerIsAnswered`);
- the loop of `evict` (`EvictBoundsMemory`);
- threads of the pool and of the layout cache (`StoreRecovers`), tasks and
  threads of `ChainReader`, of the older reader, of a deploy request and of a
  submission, and the loop of the Solana runtime.

Of timers: the clock of `WasmRuntime`, the expiry of a cached layout, the
timeout and the delay of a request, the wait for a provider at startup, the
delay before Firehose reconnects.

Of others, where something can only arrive if they do their part; each is an
assumption, and a failure they may answer with is among the outcomes:

- the Firehose endpoint and the IPFS nodes answer (`DeploymentsArrive`,
  `FilesAreRead`), and the node answers the Solana tasks (`HistoryArrives`,
  `EverySlotPasses`). The Ethereum node need not answer: `RequestsEnd` follows
  from timeouts;
- indexers read their channels (`EverySlotPasses`): otherwise the broadcaster
  blocks on the slowest one;
- somebody runs the market's crank (`BookIsInOrder`, for the slots of orders).

Crashes, faults, new blocks and new requests are never fair. In the runs with
several machines a machine's steps are fair while `part` or `mode` says that it moves.

## What is proved

TLAPS checks the theorems below, for every value of the constants that meets the
named assumption of the module (`RunAssumption`, `EntityAssumption`,
`LfuAssumption`, `PluginAssumption`, `PollingAssumption`, `PoolAssumption`,
`DeployAssumption`, `ChainAssumption`, `ReaderAssumption`, `WasmAssumption`,
`RingAssumption`). These say what the constants are (a set, a positive number, a
function into a set) and TLC evaluates them in the runs. Eight modules hold the
proofs; each EXTENDS the components it is about.

| Module | Theorem | States |
|---|---|---|
| `RunIndexerProof` | `ExactlyOnceHolds`, `CreatedAreStoredHolds`, `MemoryIsTheStoreHolds` | the run's three invariants of the deployment thread |
| | `HostsOrdered`, `NeverCanceledHolds`, `TypeCorrect` | the assertion of `add_dynamic_data_source`; no stream is canceled under its thread |
| `WasmRuntimeProof` | `Containment` | `HandlersAreContained` |
| `EntityCacheAndQueueProof` | `ReadsOwnWritesHolds`, `CommitsWhatWasWantedHolds`, `TypeCorrect` | what handlers read, and what is handed to the store |
| | `AccumulateComposes` | accumulating operations is composing them |
| | `QueueImplements` | `IsABoundedQueue`: the ring buffer implements `BoundedQueue` |
| `LfuCacheProof` | `WeightIsAccounted`, `MarkedAreUntouchedHolds`, `TypeCorrect` | `AccountsForWeight`, `MarkedAreUntouched` |
| | `RemovePopsItsKey` | `remove` pops the entry it gave the first priority |
| `PluginStoreProof` | `PluginSafety` | `PluginKeepsSaves`: two invariants and an action property |
| `PollingAndPoolProof` | `Implements`, `SkipsOnlyMissedHolds`, `TypeCorrect` | `IsABlockStream`: the polling stream implements `BlockStream` |
| | `PoolSafety` | `PoolIsSafe` |
| `DeploymentProof` | `OneThread`, `OneSite`, `TypeCorrect` | `OneThreadPerHash`; one site per hash when requests come in turn |
| | `StoredIndexersRunOnceHolds`, from `OneRuntime`, `EveryRowStarted`, `OwnFiles` | `StoredIndexersRunOnce` of the Solana service |
| | `StepsOverNothingHolds`, from `RepeatsAreReconnections`, `NothingSteppedOver` | the furthest block of Firehose implements `BlockStream`; repeats are reconnections |
| `ChainReaderProof` | `SlotsAccounted`, from `GapsHold` | `SlotsAreAccounted` |

### The arguments

Each safety proof has an inductive invariant that was checked by TLC before it
was proved, a lemma that the initial states meet it, one that every step keeps
it with a step for each action, and a temporal last step. Why the property alone
is not inductive:

- **`RunIndexer`** (`Inv`). That a trigger is applied once at commit needs that the
  block is the next one with triggers for the filter (`BlockIsNext`), that the
  hosts are the stored sources and those this block created
  (`HostsAreStoredOrPending`, `LoadedIsStored`), and what has been handled of the
  block so far (`HandledSoFar`). `StoredNotAhead`: no stored source was created
  after the block pointer, so a restart loads only what earlier blocks made.
- **`WasmRuntime`** (`Typed`, `Nested`, `Contained`). Only the last
  instance of the stack runs; those below it wait in `ipfs.map` for a callback that
  has not failed. The operations of earlier handlers are in the state of the first
  instance, and those of the running handler and its callbacks are apart from them,
  so that dropping the latter drops nothing else.
- **`EntityCache`**. The three layers, applied one after the other to the rows, give
  `wanted` and `wantedInHandler`. `AccumulateComposes` is the algebra: an update
  onto an overwrite, a removal or an update is their composition.
- **`LfuCache`** (`Accounted`). `total_weight` is the sum of weights while no cache
  was merged. The sum is a fold over a finite set: `SumExists` and `SumRemove` get its
  equations by induction over cardinalities, stated with a set of numbers. The theorem has the hypothesis `[]Fits`,
  that the weight of the entries stays below what a `usize` can count, since the
  code adds before it evicts.
- **`PluginStore`** (`PluginInv`). What the saves give (`wanted`) is what the table, an
  open transaction and the cached updates give together (`SavesSurvive`). It needs
  that an entity has at most one open version (`OneOpenIn`, also part of the
  property) and that the cached `current` is what is stored (`CachedIsStored`). `ContentMerge`, `MergeOfUpdates`
  and `CommitIs` are the algebra of merges and of a commit.
- **`PollingBlockStream`**. `Caught`, `Answers` and `Yielding` relate the pointer, the
  two answers in flight and the blocks not yet yielded; a block of the range that
  the answer does not have was after the head when the node answered, and is in
  `missed` (`SkipsOnlyMissed`). Nothing is assumed of the order of the answers.
- **`ConnectionPool`** (`PoolTyped`, `Locked`, `Migrated`, `Threads`). Who holds the
  advisory lock is where the processes are in `setup`; threads in work are
  counted against connections with cardinalities of finite sets.
- **`Deployment`**. An id in `indexers_running` is the first site of its hash
  (`AllIdsAreFirst`), and so is the site of a request that is about to start it
  (`RequestsHoldSites`). `OneSite` assumes `Serial`: with requests at once
  two of them may both find no site, and TLC shows two sites.
- **`IndexerService`** (`ServiceInv`). `Submissions`, `Rows` and `Tasks` say where a row
  and its files come from at each point of a request. `BeforeServing`: a
  process that does not serve yet has no tasks and no requests under way.
- **`FirehoseBlockStream`** (`StreamInv`). The position is at most one past the furthest
  block, and while a connection is open the blocks at or after its position were
  delivered at most once for each earlier connection.
- **`ChainReader`** (`Way`: `Begins`, `Line`, `Places`, `GapsAreInFlight`; then `Served`
  and `Owed`). Each slot from the first one on is in exactly one place between the
  adapter and the broadcaster, or its task panicked. What a connection has been
  sent is what matches among the slots released since it registered, without what
  went to a connection with the same hash (`Rivals`): the blocks of a broadcast are
  kept by hash, and the first connection with the hash takes them.
- **`RingQueue`** (`RingInv`). Head and count are in bounds. The mapping is the sequence
  of `count` items from the head, modulo the length of the buffer; every operation
  of the ring is the operation of `BoundedQueue` on it.

### Refinements

`PollingBlockStream` implements `BlockStream` (the specification the deployment
thread is written against) with the blocks it has yielded. `FirehoseBlockStream`
does not: it repeats blocks when it reconnects. Its furthest block does
(`Furthest`), which is `StepsOverNothing`. `RingQueue` implements `BoundedQueue`.
All three are proved. That `Critbit` implements `OrderMap` is checked by TLC.

## What is only model-checked, and why

- *Liveness* is out of the prover's reach: `BlocksEnd`, `EveryTriggerIsAnswered`,
  `EvictBoundsMemory`, `PollingCatches`, `RequestsEnd`, `HistoryArrives`, `SlotsAreSent`,
  `DeploymentsArrive`, `StoreRecovers`, `EverySlotPasses`, and the parts of
  `AgainSucceeds`, `StartupIsSound`, `FilesAreRead` and `BookIsInOrder` that say
  something happens.
- *Induction over data*: the sums of `Market` (`FundsAreBacked`, `AssertionsHold`), the
  days and scans of the analytics (`DaysAddUp`, `ScansAreAccounted`), `EntitiesAddUp`,
  the trees of `Critbit` (`IsAnOrderMap`), the encodings of `InstructionsSurvive` and
  the sorted triggers of `TriggersAreHandled`. The sum of `LfuCache` is the
  one that is proved: with a set of numbers in place of the predicate, the
  induction can be cited for that one sum, and each further sum or tree would need
  its own.
- *Recursive definitions* (`Layout`, `AscHeap`): what they compute for every input
  cannot be proved with this prover. `LayoutsAreFaithful` and `ValuesCrossIntact`
  are checked over the bounded inputs.
- *Enumerations of cases*: `StartupIsSound` and `FilesAreRead` range over the forms of
  a configuration and the outcomes of fetches, all of which TLC visits.

## What is not modelled

- Command lines, the compiler, gRPC and HTTP framing, logging, metrics, and the
  routes that only read.
- SQL text, ABI decoding and the contents of blocks. What a statement does to the
  rows is in the action that runs it.
- `timed_cache.rs`, in which the store keeps sites for a while, and
  `EntityCache::append`, which nothing calls.
- The plugin adapter of the index manager, an earlier form of the Solana runtime.
- The internals of `serum_dex` outside the market, its queues and its slab; the
  program is not compiled into the plugin.

The notes of the components in `PROJECT.json` say so part by part.

## Running it

    tlc -workers 2 -config MCRunIndexer.cfg MCRunIndexer
    tlapm RunIndexerProof.tla

A run takes at most four minutes, a proof module two to seven from nothing.
