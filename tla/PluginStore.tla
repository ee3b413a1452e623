---------------------------- MODULE PluginStore ----------------------------
(***************************************************************************)
(* CacheableStore (apis/indexer_api/src/store): the entity cache that a    *)
(* Solana plugin saves to, and the flush that turns it into versions of    *)
(* rows, one transaction for each block.  Two callers share it, the loop   *)
(* over the stream and a history task (SolanaRuntime).  flush is under a   *)
(* mutex; save and get go through the plugin's own reference and are not.  *)
(*                                                                         *)
(* The plugin is given a reference to a local that is moved into the mutex *)
(* right after.  What the reference reaches from then on is undefined: the *)
(* store that is flushed, or the place it was moved from, a copy with a    *)
(* cache of its own that nobody flushes.  `current` and `updates` are the  *)
(* cache the reference reaches.                                            *)
(*                                                                         *)
(* A version of an entity is valid for the slots from lo up to hi.         *)
(***************************************************************************)
EXTENDS Integers, FiniteSets, Functions

CONSTANTS
    EntityKey,  \* entities
    Required,   \* attributes that are not nullable
    Saved,      \* what the handlers save: maps from attributes to values
    LastSlot,   \* bound: slots of the chain
    MaxFaults,  \* bound: failing transactions and crashes
    Null,       \* Value::Null
    Absent,     \* there is no such entity
    Uncached,   \* the key is not in the map `current`
    None

Caller == {"stream", "history"}
Slots == 1..LastSlot
Infinity == LastSlot + 1
NoEntity == [f \in {} |-> Null]

\* Entities are maps of some of the attributes.
Entity ==
    UNION {[names -> UNION {Range(data) : data \in Saved}] :
              names \in SUBSET UNION {DOMAIN data : data \in Saved}}

Version == [key : EntityKey, lo : Slots, hi : 1..Infinity, data : Entity]
Modification == [kind : {"Insert", "Overwrite"}, data : Entity]
Transaction == [by : Caller, block : Slots, mods : [EntityKey -> Modification \cup {None}]]

ASSUME PluginAssumption ==
    /\ LastSlot \in Nat
    /\ Saved \subseteq Entity
    /\ {Absent, Uncached, None} \cap Entity = {}
    /\ Uncached # Absent
    /\ None \notin Modification
    /\ None \notin Transaction

VARIABLES
    shared,    \* the plugin's reference reaches the store that is flushed
    rows,      \* the table: versions of entities
    current,   \* key -> what was read from the store, or Uncached
    updates,   \* key -> the accumulated update, or None
    handling,  \* caller -> the slot it handles, or None
    flushing,  \* the transaction under way, or None
    todo,      \* slots that no one has handled
    newest,    \* the highest slot of the stream
    wanted,    \* history variable: key -> what the saves give one by one
    stale,     \* history variable: keys read while a transaction was changing them
    faults

cache == <<current, updates>>
progress == <<todo, newest>>
pluginVars == <<shared, rows, cache, handling, flushing, progress, wanted, stale, faults>>

merge(data, update) ==
    [f \in DOMAIN data \cup DOMAIN update |-> IF f \in DOMAIN update THEN update[f] ELSE data[f]]

\* A null in the update removes the attribute.
merge_remove_null_fields(data, update) ==
    LET merged == merge(data, update)
    IN  Restrict(merged, {f \in DOMAIN merged : f \in DOMAIN update => update[f] # Null})

apply_to(update, entity) ==
    CASE update = None -> entity
      [] update # None /\ entity = Absent -> update
      [] OTHER -> merge_remove_null_fields(entity, update)

\* A plausible bug: the later update takes the place of the earlier one.
accumulate_Replaces(op, update) == update

accumulate(op, update) == IF op = None THEN update ELSE merge(op, update)
-----------------------------------------------------------------------------
(* The table. *)
Open(r) == r.hi = Infinity
Overlap(r, q) == r.lo < q.hi /\ q.lo < r.hi

\* FindQuery at BLOCK_NUMBER_MAX.
Find(k) ==
    IF \E r \in rows : r.key = k /\ Open(r)
    THEN (CHOOSE r \in rows : r.key = k /\ Open(r)).data
    ELSE Absent

PluginInit ==
    /\ shared \in BOOLEAN
    /\ rows = {}
    /\ current = [k \in EntityKey |-> Uncached]
    /\ updates = [k \in EntityKey |-> None]
    /\ handling = [c \in Caller |-> None]
    /\ flushing = None
    /\ todo = Slots
    /\ newest = 0
    /\ wanted = [k \in EntityKey |-> Absent]
    /\ stale = {}
    /\ faults = 0

\* A caller turns to a block: the stream to a later one than all before, the
\* history to one before the stream's.
Begin(c, s) ==
    /\ handling[c] = None
    /\ s \in todo
    /\ IF c = "stream" THEN s > newest ELSE s < newest
    /\ newest' = IF c = "stream" THEN s ELSE newest
    /\ handling' = [handling EXCEPT ![c] = s]
    /\ todo' = todo \ {s}
    /\ UNCHANGED <<shared, rows, cache, flushing, wanted, stale, faults>>

\* A handler runs in this caller, and not the flush after it.
InHandler(c) == handling[c] # None /\ (flushing # None => flushing.by # c)

\* CacheableStore::save, EntityCache::set: the attributes are merged into the
\* update that is already there.
save(c, k, data) ==
    /\ InHandler(c)
    /\ updates' = [updates EXCEPT ![k] = accumulate(@, data)]
    /\ wanted' = [wanted EXCEPT ![k] =
                    merge_remove_null_fields(IF @ = Absent THEN NoEntity ELSE @, data)]
    /\ UNCHANGED <<shared, rows, current, handling, flushing, progress, stale, faults>>

\* What EntityCache::get answers.
Lookup(k) == apply_to(updates[k], IF current[k] = Uncached THEN Find(k) ELSE current[k])

\* EntityCache::get, get_current_entity: a miss reads the store and keeps the
\* answer.
get(c, k) ==
    /\ InHandler(c)
    /\ current[k] = Uncached
    /\ current' = [current EXCEPT ![k] = Find(k)]
    /\ stale' = IF flushing # None /\ flushing.mods[k] # None THEN stale \cup {k} ELSE stale
    /\ UNCHANGED <<shared, rows, updates, handling, flushing, progress, wanted, faults>>

\* as_modifications for one key: the store's entity if `current` has none, with
\* the update; nothing if that makes no difference.
as_modifications(k) ==
    LET cur == IF current[k] = Uncached THEN Find(k) ELSE current[k]
    IN  CASE updates[k] = None -> None
          [] updates[k] # None /\ cur = Absent ->
               [kind |-> "Insert", data |-> merge_remove_null_fields(NoEntity, updates[k])]
          [] OTHER ->
               LET data == merge_remove_null_fields(cur, updates[k])
               IN  IF data = cur THEN None ELSE [kind |-> "Overwrite", data |-> data]

\* CacheableStore::flush, up to the transaction: the cache is replaced by an
\* empty one first.  No modifications, no transaction.  The store under the
\* mutex has nothing to flush if the plugin saves to another.
flush(c) ==
    /\ InHandler(c)
    /\ flushing = None
    /\ LET mods == [k \in EntityKey |-> IF shared THEN as_modifications(k) ELSE None]
       IN  IF \E k \in EntityKey : mods[k] # None
           THEN /\ flushing' = [by |-> c, block |-> handling[c], mods |-> mods]
                /\ UNCHANGED handling
           ELSE /\ handling' = [handling EXCEPT ![c] = None]
                /\ UNCHANGED flushing
    /\ IF shared
       THEN /\ updates' = [k \in EntityKey |-> None]
            /\ current' = [k \in EntityKey |-> Uncached]
       ELSE UNCHANGED cache
    /\ UNCHANGED <<shared, rows, progress, wanted, stale, faults>>

\* InsertQuery: a new version from this block on.
InsertQuery(k, data, block) == [key |-> k, lo |-> block, hi |-> Infinity, data |-> data]

\* ClampRangeQuery: the current versions of these entities end before the block.
ClampRangeQuery(keys, block) ==
    {IF r.key \in keys /\ Open(r) THEN [r EXCEPT !.hi = block] ELSE r : r \in rows}

\* apply_entity_modifications: the table after the inserts and the overwrites.
apply_entity_modifications(mods, block) ==
    ClampRangeQuery({k \in EntityKey : mods[k] # None /\ mods[k].kind = "Overwrite"}, block)
        \cup {InsertQuery(k, mods[k].data, block) : k \in {j \in EntityKey : mods[j] # None}}

\* InsertQuery::new refuses an entity without a value that is not nullable.
\* Postgres refuses a range that ends before it starts, and by the table's
\* exclusion constraint two versions of an entity that overlap.
Accepted(mods, block) ==
    LET after == apply_entity_modifications(mods, block)
    IN  /\ \A k \in EntityKey : mods[k] # None => Required \subseteq DOMAIN mods[k].data
        /\ \A r \in after : r.lo <= r.hi
        /\ \A r, q \in after : r # q /\ r.key = q.key => ~Overlap(r, q)

\* transact_block_operations, and the end of flush: an error is logged, the
\* modifications are gone, and flush answers Ok.
transact_block_operations(commits) ==
    /\ flushing # None
    /\ IF commits
       THEN /\ Accepted(flushing.mods, flushing.block)
            /\ rows' = apply_entity_modifications(flushing.mods, flushing.block)
            /\ UNCHANGED <<wanted, faults>>
       ELSE /\ \/ ~Accepted(flushing.mods, flushing.block) /\ UNCHANGED faults
               \/ faults < MaxFaults /\ faults' = faults + 1
            /\ wanted' = [k \in EntityKey |-> IF flushing.mods[k] = None THEN wanted[k]
                                        ELSE apply_to(updates[k], Find(k))]
            /\ UNCHANGED rows
    /\ flushing' = None
    /\ handling' = [handling EXCEPT ![flushing.by] = None]
    /\ UNCHANGED <<shared, cache, progress, stale>>

\* A new process: what was not committed is gone, and the slots after the one in
\* the indexers table are handled again.
Crash(s) ==
    /\ faults < MaxFaults
    /\ faults' = faults + 1
    /\ current' = [k \in EntityKey |-> Uncached]
    /\ updates' = [k \in EntityKey |-> None]
    /\ handling' = [c \in Caller |-> None]
    /\ flushing' = None
    /\ todo' = {t \in Slots : t >= s}
    /\ newest' = 0
    /\ wanted' = [k \in EntityKey |-> Find(k)]
    /\ stale' = {}
    /\ UNCHANGED <<shared, rows>>

PluginNext ==
    \/ \E c \in Caller :
         \/ \E s \in Slots : Begin(c, s)
         \/ \E k \in EntityKey, data \in Saved : save(c, k, data)
         \/ \E k \in EntityKey : get(c, k)
         \/ flush(c)
    \/ \E commits \in BOOLEAN : transact_block_operations(commits)
    \/ \E s \in Slots : Crash(s)

PluginSpec == PluginInit /\ [][PluginNext]_pluginVars
-----------------------------------------------------------------------------
\* The attributes of an entity that have a value.
Content(e) == IF e = Absent THEN Absent ELSE merge_remove_null_fields(NoEntity, e)

\* The current version of an entity, with the transaction under way.
Stored(k) ==
    IF flushing # None /\ flushing.mods[k] # None THEN flushing.mods[k].data ELSE Find(k)

\* The current version of an entity, with the transaction under way and with what
\* is in the cache, is what the saves of both callers give one after the other.
\* A save is only lost with a transaction that fails, which takes the other
\* caller's saves with it, or by a handler that reads an entity while a
\* transaction is changing it.
SavesSurvive ==
    \A k \in EntityKey \ stale :
        Content(apply_to(updates[k], Stored(k))) = Content(wanted[k])

\* The history of an entity only grows at its end: a version that was closed is
\* never changed, and the current one stays as it is or is closed and followed by
\* one that is not for an earlier slot, whatever the order in which the two
\* callers flush.
GrowsAtTheEnd(before, after) ==
    \A r \in before :
        \/ r \in after
        \/ /\ Open(r)
           /\ \E c, q \in after : c = [r EXCEPT !.hi = q.lo] /\ q.key = r.key
                                 /\ Open(q) /\ q.lo >= r.lo

\* Versions of an entity are added, or closed, at the end of its history
\* (ClampRangeQuery, flush).
HistoryGrowsAtTheEnd == [][GrowsAtTheEnd(rows, rows')]_pluginVars

\* An entity has at most one current version.
OneOpenIn(T) == \A r, q \in T : r.key = q.key /\ Open(r) /\ Open(q) => r = q

\* "For now, we flush after each block" (proxy.rs:39): once the callers are done
\* with their blocks, nothing they saved is still in the cache only.
FlushedAfterEachBlock ==
    (\A c \in Caller : handling[c] = None) => \A k \in EntityKey : updates[k] = None

\* A saved attribute is lost only with a transaction that fails or by a read
\* while one is running, an entity has one current version at a time, and its
\* versions only grow at their end (CacheableStore::save and flush,
\* ClampRangeQuery).  When the plugin's reference reaches the store that is
\* flushed, whichever caller's flush comes first leaves nothing behind.
PluginKeepsSaves ==
    /\ [](OneOpenIn(rows) /\ SavesSurvive /\ (shared => FlushedAfterEachBlock))
    /\ HistoryGrowsAtTheEnd
=============================================================================
