-------------------------- MODULE RunIndexerProof --------------------------
(***************************************************************************)
(* Proofs about RunIndexer: exactly-once processing for every chain, every *)
(* set of data sources and every pattern of creation.                      *)
(***************************************************************************)
EXTENDS RunIndexer, TLAPS

Working == {"triggers", "created", "commit"}

\* The store knows no data source from the future.
StoredNotAhead ==
    \A d \in DataSource : stored[d] <= block_ptr \/ stored[d] = Never

\* Where a block in progress stands with respect to the store.
BlockIsNext ==
    /\ block = stream.at
    /\ block > block_ptr
    /\ stream.filter = Exists(stored)
    /\ \A c \in Block : block_ptr < c /\ c < block => Triggers[c] \cap Exists(stored) = {}

\* The hosts are the stored data sources and those the block will store.
HostsAreStoredOrPending ==
    /\ \A d \in DataSource : hosts[d] = IF d \in pending THEN block ELSE stored[d]
    /\ \A d \in pending : stored[d] = Never
    /\ filter = Exists(hosts)

\* What was handled so far, unless the block is doomed by an error.
HandledSoFar ==
    /\ todo \subseteq Triggers[block] \cap Exists(hosts)
    /\ ~errors => \A d \in DataSource :
                    handled[d] = IF d \in Triggers[block] /\ d \in Exists(hosts) /\ d \notin todo
                                 THEN 1 ELSE 0
    /\ \A d \in DataSource : handled[d] > 0 => Creates[block][d] \subseteq created \cup Exists(hosts)

\* Between blocks the thread holds what a restart would load.
LoadedIsStored ==
    /\ pc \in {"connect", "next"} => hosts = stored /\ filter = Exists(hosts)
    /\ pc = "next" => stream = [at |-> block_ptr, filter |-> Exists(hosts)]

\* Which of the loops of process_block the thread is in.
LoopState ==
    /\ pc = "triggers" /\ first => pending = {}
    /\ pc = "triggers" /\ ~first => needs_restart
    /\ pc = "created" => needs_restart /\ todo = {} /\ ~first
    /\ pc = "commit" => todo = {} /\ created = {} /\ (~needs_restart => pending = {})

Inv ==
    /\ TypeOK
    /\ StoredNotAhead
    /\ ExactlyOnce
    /\ CreatedAreStored
    /\ LoadedIsStored
    /\ pc \in Working => BlockIsNext /\ HostsAreStoredOrPending /\ HandledSoFar
    /\ LoopState
    /\ NeverCanceled

\* A deployment that was just created satisfies the invariant.
LEMMA InitInv == Init => Inv
<1> SUFFICES ASSUME Init PROVE Inv
  OBVIOUS
<1> USE RunAssumption
<1>1. TypeOK
  <2>1. 0 \in Block /\ Never \in 0..Never /\ 0 \in 0..Never /\ StartPtr \in Block
    BY DEF Block, Never, StartPtr
  <2>2. NoneHandled \in [DataSource -> Nat]
    BY DEF NoneHandled
  <2>3. stored \in [DataSource -> 0..Never] /\ applied \in [Block -> [DataSource -> Nat]]
    BY <2>1, <2>2 DEF Init
  <2>4. QED
    BY <2>1, <2>2, <2>3 DEF Init, TypeOK
<1>2. StoredNotAhead
  <2>1. \A d \in DataSource : stored[d] = 0 \/ stored[d] = Never
    BY DEF Init
  <2>2. 0 <= block_ptr
    BY <1>1 DEF TypeOK, Block
  <2>3. QED
    BY <2>1, <2>2, Zenon DEF StoredNotAhead
<1>3. ExactlyOnce /\ CreatedAreStored
  <2>1. \A b \in Block, d \in DataSource : applied[b][d] = 0
    BY DEF Init, NoneHandled
  <2>2. \A b \in Block : b > StartPtr => ~(b <= block_ptr)
    BY <1>1 DEF Init, TypeOK, Block
  <2>3. QED
    BY <2>1, <2>2 DEF ExactlyOnce, CreatedAreStored
<1>4. QED
  BY <1>1, <1>2, <1>3
  DEF Init, Inv, LoadedIsStored, LoopState, NeverCanceled, Working

\* The thread exits: nothing the invariant speaks about outside the thread moves.
LEMMA ExitInv ==
    ASSUME Inv, UNCHANGED <<store, hosts, filter, stream, blockState>>, pc' = "exited",
           running' \in BOOLEAN, guarded' \in BOOLEAN
    PROVE  Inv'
BY DEF Inv, TypeOK, StoredNotAhead, ExactlyOnce, CreatedAreStored, LoadedIsStored,
       LoopState, NeverCanceled, Working, store, blockState, Exists

\* The thread may end anywhere.
LEMMA ThreadEndsInv == Inv /\ Exit => Inv'
<1> SUFFICES ASSUME Inv, Exit PROVE Inv'
  OBVIOUS
<1>1. running' \in BOOLEAN /\ guarded' \in BOOLEAN
  BY DEF Inv, TypeOK, Exit
<1>2. QED
  BY <1>1, ExitInv DEF Exit

\* start_indexer_inner loads what the store holds.
LEMMA StartInv == Inv /\ start_indexer => Inv'
<1> SUFFICES ASSUME Inv, start_indexer PROVE Inv'
  OBVIOUS
<1>1. TypeOK'
  BY DEF Inv, TypeOK, start_indexer, store, blockState, Exists
<1>2. LoadedIsStored'
  BY DEF Inv, LoadedIsStored, start_indexer, store, Exists
<1>3. QED
  BY <1>1, <1>2 DEF Inv, StoredNotAhead, ExactlyOnce, CreatedAreStored, LoopState,
                    NeverCanceled, Working, start_indexer, store, blockState

\* A new stream starts where the store is, with the filter of all hosts.
LEMMA ConnectInv == Inv /\ new_block_stream => Inv'
<1> SUFFICES ASSUME Inv, new_block_stream PROVE Inv'
  OBVIOUS
<1>1. TypeOK'
  BY DEF Inv, TypeOK, new_block_stream, store, blockState
<1>2. LoadedIsStored'
  BY DEF Inv, LoadedIsStored, new_block_stream, store, Exists
<1>3. QED
  BY <1>1, <1>2 DEF Inv, StoredNotAhead, ExactlyOnce, CreatedAreStored, LoopState,
                    NeverCanceled, Working, new_block_stream, store, blockState

\* No block the stream passed over had a trigger to handle.
LEMMA ProcessBlockInv == ASSUME Inv, NEW b \in Block, ProcessBlock(b) PROVE Inv'
<1> USE RunAssumption
<1>1. stream.at = block_ptr /\ stream.filter = Exists(stored) /\ hosts = stored /\ filter = Exists(stored)
  BY DEF Inv, LoadedIsStored, ProcessBlock
<1>2. TypeOK'
  <2>1. NoneHandled \in [DataSource -> Nat]
    BY DEF NoneHandled
  <2>2. QED
    BY <2>1 DEF Inv, TypeOK, ProcessBlock, store
<1>3. BlockIsNext'
  BY <1>1 DEF ProcessBlock, BlockIsNext, store, Exists
<1>4. HostsAreStoredOrPending'
  BY <1>1 DEF ProcessBlock, HostsAreStoredOrPending, store, Exists
<1>5. HandledSoFar'
  <2>1. todo' = Triggers[b] \cap Exists(stored) /\ hosts' = stored /\ block' = b
    BY <1>1 DEF ProcessBlock
  <2>2. \A d \in DataSource : handled'[d] = 0
    BY DEF ProcessBlock, NoneHandled
  <2>3. Exists(hosts)' = Exists(stored)
    BY <2>1 DEF Exists
  <2>4. QED
    BY <2>1, <2>2, <2>3 DEF HandledSoFar
<1>6. LoopState' /\ LoadedIsStored' /\ NeverCanceled'
  BY DEF Inv, ProcessBlock, LoopState, LoadedIsStored, NeverCanceled
<1>7. QED
  BY <1>2, <1>3, <1>4, <1>5, <1>6
  DEF Inv, StoredNotAhead, ExactlyOnce, CreatedAreStored, ProcessBlock, store

\* A step inside a block that leaves the store, the hosts and the stream alone.
LEMMA WithinBlock ==
    ASSUME Inv, pc \in Working, pc' \in Working, TypeOK', HandledSoFar', LoopState',
           UNCHANGED <<store, guarded, hosts, filter, stream, block, pending>>
    PROVE  Inv'
<1>1. BlockIsNext' /\ HostsAreStoredOrPending'
  BY DEF Inv, BlockIsNext, HostsAreStoredOrPending, store, Exists
<1>2. QED
  BY <1>1 DEF Inv, StoredNotAhead, ExactlyOnce, CreatedAreStored, LoadedIsStored,
              NeverCanceled, Working, store

\* A handler that returns is counted once.
LEMMA HandlerReturnsInv == ASSUME Inv, NEW d \in DataSource, HandlerReturns(d) PROVE Inv'
<1> USE RunAssumption
<1>1. HandledSoFar /\ pc = "triggers"
  BY DEF Inv, HandlerReturns, Working
<1>2. Creates[block] \in [DataSource -> SUBSET DataSource]
  BY DEF Inv, TypeOK
<1>3. TypeOK'
  BY <1>2 DEF Inv, TypeOK, HandlerReturns, store
<1>4. HandledSoFar'
  <2>1. Exists(hosts)' = Exists(hosts) /\ block' = block /\ errors' = errors
    BY DEF HandlerReturns, Exists
  <2>2. todo' \subseteq Triggers[block] \cap Exists(hosts)
    BY <1>1 DEF HandlerReturns, HandledSoFar
  <2>3. ASSUME ~errors, NEW e \in DataSource
        PROVE  handled'[e] = IF e \in Triggers[block] /\ e \in Exists(hosts) /\ e \notin todo'
                             THEN 1 ELSE 0
    <3>1. CASE e = d
      BY <1>1, <2>3, <3>1 DEF HandledSoFar, HandlerReturns, Inv, TypeOK
    <3>2. CASE e # d
      BY <1>1, <2>3, <3>2 DEF HandledSoFar, HandlerReturns, Inv, TypeOK
    <3>3. QED
      BY <3>1, <3>2
  <2>4. ASSUME NEW e \in DataSource, handled'[e] > 0
        PROVE  Creates[block][e] \subseteq created' \cup Exists(hosts)
    <3>1. CASE e = d
      BY <3>1 DEF HandlerReturns
    <3>2. CASE e # d
      BY <1>1, <2>4, <3>2 DEF HandledSoFar, HandlerReturns, Inv, TypeOK
    <3>3. QED
      BY <3>1, <3>2
  <2>5. QED
    BY <2>1, <2>2, <2>3, <2>4 DEF HandledSoFar
<1>5. LoopState'
  BY DEF Inv, LoopState, HandlerReturns
<1>6. QED
  BY <1>1, <1>3, <1>4, <1>5, WithinBlock DEF HandlerReturns, Working

\* A handler that traps marks the block as failed.
LEMMA HandlerTrapsInv == ASSUME Inv, NEW d \in DataSource, HandlerTraps(d) PROVE Inv'
<1>1. HandledSoFar /\ pc = "triggers"
  BY DEF Inv, HandlerTraps, Working
<1>2. TypeOK'
  BY DEF Inv, TypeOK, HandlerTraps, store
<1>3. HandledSoFar'
  BY <1>1 DEF HandlerTraps, HandledSoFar, Exists
<1>4. LoopState'
  BY DEF Inv, LoopState, HandlerTraps
<1>5. QED
  BY <1>1, <1>2, <1>3, <1>4, WithinBlock DEF HandlerTraps, Working

\* A possible reorg gives up a block of which nothing is stored.
LEMMA PossibleReorgInv == ASSUME Inv, NEW d \in DataSource, PossibleReorg(d) PROVE Inv'
<1>1. HostsAreStoredOrPending /\ pending = {}
  BY DEF Inv, PossibleReorg, Working, LoopState
<1>2. hosts = stored /\ filter = Exists(hosts)
  <2>1. \A e \in DataSource : hosts[e] = stored[e]
    BY <1>1 DEF HostsAreStoredOrPending
  <2>2. QED
    BY <1>1, <2>1 DEF HostsAreStoredOrPending, Inv, TypeOK
<1>3. TypeOK'
  BY DEF Inv, TypeOK, PossibleReorg, store, blockState
<1>4. LoadedIsStored'
  BY <1>2 DEF LoadedIsStored, PossibleReorg, store, Exists
<1>5. QED
  BY <1>3, <1>4 DEF Inv, StoredNotAhead, ExactlyOnce, CreatedAreStored, LoopState,
                    NeverCanceled, Working, PossibleReorg, store, blockState

\* The end of the triggers at hand keeps the invariant.
LEMMA TriggersDoneInv == Inv /\ TriggersDone => Inv'
<1> SUFFICES ASSUME Inv, TriggersDone PROVE Inv'
  OBVIOUS
<1>1. HandledSoFar /\ pc = "triggers"
  BY DEF Inv, TriggersDone, Working
<1>2. TypeOK'
  BY DEF Inv, TypeOK, TriggersDone, store
<1>3. HandledSoFar'
  BY <1>1 DEF TriggersDone, HandledSoFar, Exists
<1>4. LoopState'
  BY DEF Inv, LoopState, TriggersDone
<1>5. pc' \in Working /\ pc \in Working
  BY <1>1 DEF TriggersDone, Working
<1>6. QED
  BY <1>2, <1>3, <1>4, <1>5, WithinBlock DEF TriggersDone

\* The while loop's turn gives the new data sources this block's triggers.
LEMMA CreateInv == Inv /\ create_dynamic_data_sources => Inv'
<1> SUFFICES ASSUME Inv, create_dynamic_data_sources PROVE Inv'
  OBVIOUS
<1> USE RunAssumption
<1> DEFINE new == created \ Exists(hosts)
<1>1. /\ pc = "created" /\ needs_restart /\ todo = {}
      /\ BlockIsNext /\ HostsAreStoredOrPending /\ HandledSoFar
  BY DEF Inv, create_dynamic_data_sources, Working, LoopState
<1>2. /\ new \subseteq DataSource /\ block \in Block /\ block \in 0..Never /\ block # Never
      /\ Triggers[block] \subseteq DataSource
  BY DEF Inv, TypeOK, Block, Never
<1>3. TypeOK'
  BY <1>2 DEF Inv, TypeOK, create_dynamic_data_sources, store
<1>4. \A d \in DataSource : hosts'[d] = IF d \in new THEN block ELSE hosts[d]
  BY DEF create_dynamic_data_sources
<1>5. Exists(hosts)' = Exists(hosts) \cup new
  BY <1>2, <1>4 DEF Exists
<1>6. HostsAreStoredOrPending'
  <2>1. \A d \in new : hosts[d] = Never /\ d \notin pending /\ stored[d] = Never
    BY <1>1, <1>2 DEF Exists, HostsAreStoredOrPending
  <2>2. pending' = pending \cup new /\ filter' = filter \cup new /\ block' = block /\ stored' = stored
    BY DEF create_dynamic_data_sources, store
  <2>3. \A d \in DataSource : hosts'[d] = IF d \in pending' THEN block ELSE stored[d]
    BY <1>1, <1>4, <2>1, <2>2 DEF HostsAreStoredOrPending
  <2>4. QED
    BY <1>1, <1>5, <2>1, <2>2, <2>3 DEF HostsAreStoredOrPending
<1>7. HandledSoFar'
  <2>1. todo' = Triggers[block] \cap new /\ created' = {} /\ UNCHANGED <<block, errors, handled>>
    BY DEF create_dynamic_data_sources
  <2>2. todo' \subseteq Triggers[block] \cap Exists(hosts)'
    BY <1>5, <2>1
  <2>3. ASSUME ~errors, NEW d \in DataSource
        PROVE  handled[d] = IF d \in Triggers[block] /\ d \in Exists(hosts)' /\ d \notin todo'
                            THEN 1 ELSE 0
    BY <1>1, <1>5, <2>1, <2>3 DEF HandledSoFar
  <2>4. \A d \in DataSource : handled[d] > 0 => Creates[block][d] \subseteq Exists(hosts)'
    BY <1>1, <1>5 DEF HandledSoFar
  <2>5. QED
    BY <2>1, <2>2, <2>3, <2>4 DEF HandledSoFar
<1>8. BlockIsNext'
  BY <1>1 DEF BlockIsNext, create_dynamic_data_sources, store, Exists
<1>9. LoopState' /\ LoadedIsStored' /\ NeverCanceled'
  BY <1>1 DEF Inv, LoopState, LoadedIsStored, NeverCanceled, create_dynamic_data_sources
<1>10. QED
  BY <1>3, <1>6, <1>7, <1>8, <1>9
  DEF Inv, StoredNotAhead, ExactlyOnce, CreatedAreStored, create_dynamic_data_sources, store

\* What one transaction of a block without errors does to the store.
LEMMA TransactStore ==
    ASSUME Inv, pc = "commit", ~errors, Transact
    PROVE  /\ StoredNotAhead' /\ ExactlyOnce' /\ CreatedAreStored'
           /\ stored' = hosts
           /\ block_ptr' \in Block
           /\ applied' \in [Block -> [DataSource -> Nat]]
<1> USE RunAssumption
<1>1. BlockIsNext /\ HostsAreStoredOrPending /\ HandledSoFar /\ todo = {} /\ created = {}
  BY DEF Inv, Working, LoopState
<1>2. /\ block \in Block /\ block \in Nat /\ block_ptr \in Nat
      /\ Never \in Nat /\ block < Never
  BY DEF Inv, TypeOK, Block, Never
<1>3. stored' = hosts
  <2>1. \A d \in DataSource : stored'[d] = hosts[d]
    BY <1>1 DEF Transact, forward_block_ptr, HostsAreStoredOrPending
  <2>2. QED
    BY <2>1 DEF Transact, forward_block_ptr, Inv, TypeOK
<1>4. applied' \in [Block -> [DataSource -> Nat]]
  BY <1>2 DEF Transact, forward_block_ptr, Inv, TypeOK
<1>5. StoredNotAhead'
  <2>1. \A d \in DataSource : stored[d] \in 0..Never /\ hosts[d] \in 0..Never
    BY DEF Inv, TypeOK
  <2>2. block <= block /\ block_ptr <= block
    BY <1>1, <1>2 DEF BlockIsNext
  <2>3. ASSUME NEW d \in DataSource PROVE hosts[d] <= block \/ hosts[d] = Never
    <3>1. stored[d] <= block_ptr \/ stored[d] = Never
      BY DEF Inv, StoredNotAhead
    <3>2. hosts[d] = block \/ hosts[d] = stored[d]
      BY <1>1 DEF HostsAreStoredOrPending
    <3>3. QED
      BY <1>2, <2>1, <2>2, <3>1, <3>2
  <2>4. QED
    BY <1>3, <2>3 DEF StoredNotAhead, Transact, forward_block_ptr
<1>6. ExactlyOnce'
  <2> SUFFICES ASSUME NEW b \in Block, NEW d \in DataSource, b > StartPtr
               PROVE  applied'[b][d] = IF b <= block /\ d \in Triggers[b] /\ hosts[d] <= b
                                       THEN 1 ELSE 0
    BY <1>3 DEF ExactlyOnce, Transact, forward_block_ptr
  <2>1. applied[b][d] = IF b <= block_ptr /\ d \in Triggers[b] /\ stored[d] <= b THEN 1 ELSE 0
    BY DEF Inv, ExactlyOnce
  <2>2. hosts[d] = IF d \in pending THEN block ELSE stored[d]
    BY <1>1 DEF HostsAreStoredOrPending
  <2>3. d \in pending => stored[d] = Never
    BY <1>1 DEF HostsAreStoredOrPending
  <2>4. stored[d] \in 0..Never /\ (stored[d] <= block_ptr \/ stored[d] = Never)
    BY DEF Inv, TypeOK, StoredNotAhead
  <2>5. block > block_ptr /\ b \in Nat /\ b < Never
    BY <1>1, <1>2 DEF BlockIsNext, Block, Never
  <2>6. CASE b = block
    <3>1. applied'[b][d] = applied[b][d] + handled[d]
      BY <2>6 DEF Transact, forward_block_ptr, Inv, TypeOK
    <3>2. applied[b][d] = 0
      BY <1>2, <2>1, <2>5, <2>6
    <3>3. handled[d] = IF d \in Triggers[block] /\ d \in Exists(hosts) THEN 1 ELSE 0
      BY <1>1 DEF HandledSoFar
    <3>4. d \in Exists(hosts) <=> hosts[d] <= block
      <4>1. hosts[d] # Never => hosts[d] <= block
        BY <1>2, <2>2, <2>4, <2>5
      <4>2. ~(Never <= block)
        BY <1>2
      <4>3. QED
        BY <4>1, <4>2 DEF Exists
    <3>5. QED
      BY <1>2, <2>6, <3>1, <3>2, <3>3, <3>4
  <2>7. CASE b # block
    <3>1. applied'[b][d] = applied[b][d]
      BY <2>7 DEF Transact, forward_block_ptr, Inv, TypeOK
    <3>2. CASE b <= block_ptr
      BY <1>2, <2>1, <2>2, <2>3, <2>4, <2>5, <3>1, <3>2
    <3>3. CASE block_ptr < b /\ b < block
      <4>1. d \in Triggers[b] => stored[d] = Never
        BY <1>1, <3>3 DEF BlockIsNext, Exists
      <4>2. QED
        <5>1. d \in Triggers[b] => ~(hosts[d] <= b)
          BY <1>2, <2>2, <2>5, <3>3, <4>1
        <5>2. applied[b][d] = 0
          BY <1>2, <2>1, <2>5, <3>3
        <5>3. QED
          BY <3>1, <5>1, <5>2
    <3>4. CASE block < b
      BY <1>2, <2>1, <2>5, <3>1, <3>4
    <3>5. QED
      BY <1>2, <2>5, <2>7, <3>2, <3>3, <3>4
  <2>8. QED
    BY <2>6, <2>7
<1>7. CreatedAreStored'
  <2> SUFFICES ASSUME NEW b \in Block, NEW d \in DataSource, b > StartPtr, applied'[b][d] > 0,
                      NEW e \in Creates[b][d]
               PROVE  hosts[e] <= b
    BY <1>3 DEF CreatedAreStored
  <2>1. e \in DataSource /\ hosts[e] \in 0..Never /\ stored[e] \in 0..Never
    BY DEF Inv, TypeOK
  <2>2. hosts[e] = IF e \in pending THEN block ELSE stored[e]
    BY <1>1, <2>1 DEF HostsAreStoredOrPending
  <2>3. /\ e \in pending => stored[e] = Never
        /\ stored[e] <= block_ptr \/ stored[e] = Never
    BY <1>1, <2>1 DEF HostsAreStoredOrPending, Inv, StoredNotAhead
  <2>4. block > block_ptr /\ b \in Nat /\ b < Never
    BY <1>1, <1>2 DEF BlockIsNext, Block, Never
  <2>5. CASE b = block /\ handled[d] > 0
    <3>1. e \in Exists(hosts)
      BY <1>1, <2>5 DEF HandledSoFar
    <3>2. QED
      BY <1>2, <2>1, <2>2, <2>3, <2>4, <2>5, <3>1 DEF Exists
  <2>6. CASE ~(b = block /\ handled[d] > 0)
    <3>1. applied[b][d] > 0
      BY <2>6 DEF Transact, forward_block_ptr, Inv, TypeOK
    <3>2. stored[e] <= b
      BY <3>1 DEF Inv, CreatedAreStored
    <3>3. QED
      BY <1>2, <2>1, <2>2, <2>3, <2>4, <3>2
  <2>7. QED
    BY <2>5, <2>6
<1>8. QED
  BY <1>2, <1>3, <1>4, <1>5, <1>6, <1>7 DEF Transact, forward_block_ptr

\* The transaction stores the block, its data sources and the pointer together.
LEMMA CommitInv == Inv /\ transact_block_operations => Inv'
<1> SUFFICES ASSUME Inv, transact_block_operations PROVE Inv'
  OBVIOUS
<1>1. BlockIsNext /\ HostsAreStoredOrPending /\ (~needs_restart => pending = {})
  BY DEF Inv, Working, LoopState, transact_block_operations
<1>2. /\ StoredNotAhead' /\ ExactlyOnce' /\ CreatedAreStored'
      /\ stored' = hosts /\ block_ptr' = block
      /\ block_ptr' \in Block /\ applied' \in [Block -> [DataSource -> Nat]]
  BY TransactStore DEF transact_block_operations, Transact, forward_block_ptr
<1>3. TypeOK'
  BY <1>2 DEF Inv, TypeOK, transact_block_operations, blockState
<1>4. LoadedIsStored'
  <2>1. hosts' = stored' /\ filter' = Exists(hosts')
    BY <1>1, <1>2 DEF transact_block_operations, HostsAreStoredOrPending
  <2>2. ASSUME pc' = "next" PROVE stream' = [at |-> block_ptr', filter |-> Exists(hosts')]
    <3>1. pending = {}
      BY <1>1, <2>2 DEF transact_block_operations
    <3>2. Exists(hosts) = Exists(stored)
      BY <1>1, <3>1 DEF HostsAreStoredOrPending, Exists
    <3>3. stream.at = block /\ stream.filter = Exists(hosts)
      BY <1>1, <3>2 DEF BlockIsNext
    <3>4. QED
      BY <1>2, <3>3 DEF transact_block_operations, Inv, TypeOK
  <2>3. Exists(hosts)' = Exists(hosts')
    BY DEF Exists
  <2>4. QED
    BY <2>1, <2>2, <2>3 DEF LoadedIsStored
<1>5. LoopState' /\ NeverCanceled' /\ pc' \notin Working
  BY DEF transact_block_operations, LoopState, NeverCanceled, Working, Inv
<1>6. QED
  BY <1>2, <1>3, <1>4, <1>5 DEF Inv

\* It does so when the answer is lost.
LEMMA UnacknowledgedInv == Inv /\ CommitUnacknowledged => Inv'
<1> SUFFICES ASSUME Inv, CommitUnacknowledged PROVE Inv'
  OBVIOUS
<1>1. /\ StoredNotAhead' /\ ExactlyOnce' /\ CreatedAreStored' /\ stored' = hosts
      /\ block_ptr' \in Block /\ applied' \in [Block -> [DataSource -> Nat]]
  BY TransactStore DEF CommitUnacknowledged
<1>2. TypeOK'
  BY <1>1 DEF Inv, TypeOK, CommitUnacknowledged, blockState
<1>3. LoadedIsStored' /\ LoopState' /\ NeverCanceled' /\ pc' \notin Working
  BY DEF CommitUnacknowledged, LoadedIsStored, LoopState, NeverCanceled, Working
<1>4. QED
  BY <1>1, <1>2, <1>3 DEF Inv

\* Every step keeps the invariant.
LEMMA NextInv == Inv /\ [Next]_vars => Inv'
<1> SUFFICES ASSUME Inv, [Next]_vars PROVE Inv'
  OBVIOUS
<1>1. CASE start_indexer
  BY <1>1, StartInv
<1>2. CASE new_block_stream
  BY <1>2, ConnectInv
<1>3. CASE StreamFails
  BY <1>3, ThreadEndsInv DEF StreamFails
<1>4. CASE \E b \in Block : ProcessBlock(b)
  BY <1>4, ProcessBlockInv
<1>5. CASE \E d \in DataSource : HandlerReturns(d) \/ HandlerTraps(d) \/ PossibleReorg(d)
  BY <1>5, HandlerReturnsInv, HandlerTrapsInv, PossibleReorgInv
<1>6. CASE HandlerFails
  BY <1>6, ThreadEndsInv DEF HandlerFails
<1>7. CASE TriggersDone
  BY <1>7, TriggersDoneInv
<1>8. CASE create_dynamic_data_sources
  BY <1>8, CreateInv
<1>9. CASE CreateFails
  BY <1>9, ThreadEndsInv DEF CreateFails
<1>10. CASE transact_block_operations
  BY <1>10, CommitInv
<1>11. CASE CommitUnacknowledged
  BY <1>11, UnacknowledgedInv
<1>12. CASE CommitFails
  BY <1>12, ThreadEndsInv DEF CommitFails
<1>13. CASE Crash
  BY <1>13, ExitInv DEF Crash
<1>14. CASE UNCHANGED vars
  <2> USE <1>14 DEF vars, store, blockState
  <2>1. TypeOK'
    BY DEF Inv, TypeOK
  <2>2. StoredNotAhead' /\ ExactlyOnce' /\ CreatedAreStored'
    BY DEF Inv, StoredNotAhead, ExactlyOnce, CreatedAreStored
  <2>3. LoadedIsStored'
    BY DEF Inv, LoadedIsStored, Exists
  <2>4. (pc \in Working => BlockIsNext /\ HostsAreStoredOrPending)'
    BY DEF Inv, BlockIsNext, HostsAreStoredOrPending, Exists
  <2>5. (pc \in Working => HandledSoFar)'
    BY DEF Inv, HandledSoFar, Exists
  <2>6. LoopState' /\ NeverCanceled'
    BY DEF Inv, LoopState, NeverCanceled
  <2>7. QED
    BY <2>1, <2>2, <2>3, <2>4, <2>5, <2>6 DEF Inv
<1>15. QED
  BY <1>1, <1>2, <1>3, <1>4, <1>5, <1>6, <1>7, <1>8, <1>9, <1>10, <1>11, <1>12,
     <1>13, <1>14 DEF Next

\* Inv is an invariant of the deployment's thread.
THEOREM Invariance == Spec => []Inv
BY InitInv, NextInv, PTL DEF Spec

\* The variables of run_indexer and of the store keep their types.
THEOREM TypeCorrect == Spec => []TypeOK
<1>1. Inv => TypeOK
  BY DEF Inv
<1>2. QED
  BY <1>1, Invariance, PTL

\* process_block and transact_block_operations apply every trigger of every
\* data source exactly once, whatever the chain, the data sources and the
\* handlers that create them, across errors, restarts and crashes.
THEOREM ExactlyOnceHolds == Spec => []ExactlyOnce
<1>1. Inv => ExactlyOnce
  BY DEF Inv
<1>2. QED
  BY <1>1, Invariance, PTL

\* No data source created by a committed handler is lost: it is in the store
\* with the pointer and the entities of the block that created it.
THEOREM CreatedAreStoredHolds == Spec => []CreatedAreStored
<1>1. Inv => CreatedAreStored
  BY DEF Inv
<1>2. QED
  BY <1>1, Invariance, PTL

\* The assertion of add_dynamic_data_source, that hosts are ordered by creation
\* block, never fails.
THEOREM HostsOrdered == Spec => []HostsOrderedByCreation
<1>1. Inv => HostsOrderedByCreation
  <2> SUFFICES ASSUME Inv, pc = "created", NEW d \in Exists(hosts) PROVE hosts[d] <= block
    BY DEF HostsOrderedByCreation
  <2>1. BlockIsNext /\ HostsAreStoredOrPending /\ d \in DataSource /\ hosts[d] # Never
    BY DEF Inv, Working, Exists
  <2>2. stored[d] \in Nat /\ block \in Nat /\ block_ptr \in Nat
    BY <2>1, RunAssumption DEF Inv, TypeOK, Block, Never
  <2>3. stored[d] <= block_ptr \/ stored[d] = Never
    BY <2>1 DEF Inv, StoredNotAhead
  <2>4. hosts[d] = block \/ hosts[d] = stored[d]
    BY <2>1 DEF HostsAreStoredOrPending
  <2>5. block > block_ptr
    BY <2>1 DEF BlockIsNext
  <2>6. QED
    BY <2>1, <2>2, <2>3, <2>4, <2>5
<1>2. QED
  BY <1>1, Invariance, PTL

\* Between blocks run_indexer holds, and its stream filters for, exactly the
\* data sources a restart would load from the store, and within a block they stay
\* in the order in which it would.
THEOREM MemoryIsTheStoreHolds == Spec => []MemoryIsTheStore
<1>1. Inv /\ HostsOrderedByCreation => MemoryIsTheStore
  BY DEF Inv, LoadedIsStored, MemoryIsTheStore
<1>2. QED
  BY <1>1, Invariance, HostsOrdered, PTL

\* The cancel check between the handlers and the transaction never fires: the
\* guard of the stream a block came from is in instances until it is committed.
THEOREM NeverCanceledHolds == Spec => []NeverCanceled
<1>1. Inv => NeverCanceled
  BY DEF Inv
<1>2. QED
  BY <1>1, Invariance, PTL
=============================================================================
