---------------------------- MODULE EntityCache ----------------------------
(***************************************************************************)
(* massbit/src/components/store.rs (EntityCache), the handler brackets of  *)
(* BlockState (massbit/src/components/indexer/instance.rs), and the way    *)
(* process_block turns a block's updates into one store transaction        *)
(* (manager/src/indexer/instance_manager.rs, store/postgres).              *)
(*                                                                         *)
(* The entity operations of the mappings pass through three layers:        *)
(* handler_updates of the running handler, updates of the block, and       *)
(* current, the cache over the store that outlives the block.  `wanted`    *)
(* and `wantedInHandler` are history variables: the entities that the same *)
(* operations give when each is applied at once, in the order issued.      *)
(***************************************************************************)
EXTENDS Naturals, FiniteSets, TLC

CONSTANTS
    Key,      \* entity keys
    Field,    \* attributes other than id and __typename
    Val,      \* non-null attribute values
    Null,     \* Value::Null
    Absent,   \* the attribute is not in the entity's map
    None,     \* no entity / no operation
    Uncached  \* the key is not in the LFU cache

VARIABLES
    rows,             \* the store: key -> latest row, or None
    current,          \* the LFU cache: key -> entity, None or Uncached
    updates,          \* key -> accumulated operation of the block, or None
    handler_updates,  \* the same for the running handler
    mods,             \* the modifications as_modifications returned
    errors,           \* BlockState::has_errors
    pc,               \* idle, block, handler, commit or failed
    base,             \* history: entities at the start of the block
    wanted,           \* history: entities after the finished handlers
    wantedInHandler   \* history: entities after the running handler so far

vars == <<rows, current, updates, handler_updates, mods, errors, pc,
          base, wanted, wantedInHandler>>
layers == <<updates, handler_updates, mods, errors>>
history == <<base, wanted, wantedInHandler>>

-----------------------------------------------------------------------------
(* Entities.  typename tells whether the map holds __typename, which the   *)
(* store adds to every entity it reads (relational_queries.rs).            *)
Entity == [attrs : [Field -> Val \cup {Null, Absent}], typename : BOOLEAN]

\* A row of the entity table: __typename is not a column, and a null column is
\* a missing attribute.
Row == {e \in Entity : ~e.typename /\ \A f \in Field : e.attrs[f] # Null}

EmptyEntity == [attrs |-> [f \in Field |-> Absent], typename |-> FALSE]

merge(e, update) ==
    [attrs |-> [f \in Field |->
                  IF update.attrs[f] = Absent THEN e.attrs[f] ELSE update.attrs[f]],
     typename |-> e.typename \/ update.typename]

\* A null in the update removes the attribute.
merge_remove_null_fields(e, update) ==
    [attrs |-> [f \in Field |->
                  CASE update.attrs[f] = Absent -> e.attrs[f]
                    [] update.attrs[f] = Null   -> Absent
                    [] OTHER                    -> update.attrs[f]],
     typename |-> e.typename \/ update.typename]

Contents == [Field -> Val \cup {Absent}]

\* An entity as a reader tells it apart: a null attribute reads as a missing
\* one, and __typename is not an attribute of the schema.
Content(e) ==
    IF e = None THEN None ELSE merge_remove_null_fields(EmptyEntity, e).attrs

-----------------------------------------------------------------------------
(* EntityOp. *)
Remove == [op |-> "Remove"]
Update(e) == [op |-> "Update", data |-> e]
Overwrite(e) == [op |-> "Overwrite", data |-> e]

EntityOp == {Remove} \cup {Update(e) : e \in Entity} \cup {Overwrite(e) : e \in Entity}

apply_to(op, e) ==
    CASE op = None                             -> e
      [] op # None /\ op.op = "Remove"         -> None
      [] op # None /\ op.op = "Overwrite"      -> op.data
      [] op # None /\ op.op = "Update" ->
            IF e = None THEN op.data ELSE merge_remove_null_fields(e, op.data)

\* A plausible bug: an update after a removal forgets the removal.
accumulate_ForgetsRemove(op, next) ==
    IF op = None \/ next.op # "Update" \/ op.op = "Remove" THEN next
    ELSE [op |-> op.op, data |-> merge(op.data, next.data)]

accumulate(op, next) ==
    IF op = None \/ next.op # "Update" THEN next
    ELSE IF op.op = "Remove" THEN Overwrite(next.data)
    ELSE [op |-> op.op, data |-> merge(op.data, next.data)]

\* The columns InsertQuery writes, null for a missing attribute, and a stored row
\* as the store returns it: deserialize_with_layout leaves nulls out.
ToRow(e) ==
    [attrs |-> [f \in Field |-> IF e.attrs[f] = Null THEN Absent ELSE e.attrs[f]],
     typename |-> FALSE]
FromRow(row) == [attrs |-> row.attrs, typename |-> TRUE]

\* get_entity: the cached entity, or the store's without __typename.
get_entity(k) ==
    IF current[k] # Uncached THEN current[k]
    ELSE rows[k]

\* What EntityCache::get returns to a mapping.
Lookup(k) == apply_to(handler_updates[k], apply_to(updates[k], get_entity(k)))
-----------------------------------------------------------------------------
Init ==
    /\ rows = [k \in Key |-> None]
    /\ current = [k \in Key |-> Uncached]
    /\ updates = [k \in Key |-> None]
    /\ handler_updates = [k \in Key |-> None]
    /\ mods = [k \in Key |-> None]
    /\ errors = FALSE
    /\ pc = "idle"
    /\ base = [k \in Key |-> None]
    /\ wanted = base
    /\ wantedInHandler = base

\* process_block: a new BlockState takes the cache of the context.  The
\* entities the block starts from are those the cache and the store show.
BeginBlock ==
    /\ pc = "idle"
    /\ pc' = "block"
    /\ base' = [k \in Key |-> Content(get_entity(k))]
    /\ wanted' = base'
    /\ wantedInHandler' = base'
    /\ UNCHANGED <<rows, current, layers>>

enter_handler ==
    /\ pc = "block"
    /\ pc' = "handler"
    /\ wantedInHandler' = wanted
    /\ UNCHANGED <<rows, current, layers, base, wanted>>

\* store.get: a miss reads the store and caches the answer, present or not.
get(k) ==
    /\ pc = "handler"
    /\ current' = [current EXCEPT ![k] = get_entity(k)]
    /\ UNCHANGED <<rows, layers, pc, history>>

\* The content c, or no entity, after one update: the history's own arithmetic.
Updated(c, e) ==
    [f \in Field |-> CASE e.attrs[f] = Absent -> IF c = None THEN Absent ELSE c[f]
                       [] e.attrs[f] = Null   -> Absent
                       [] OTHER               -> e.attrs[f]]

entity_op(k, op) ==
    handler_updates' = [handler_updates EXCEPT ![k] = accumulate(@, op)]

\* A mapping passes __typename to store.set only if it copied it from an entity
\* that it read in this handler, under this key or another.
set(k, e) ==
    /\ pc = "handler"
    /\ e.typename => \E j \in Key : get_entity(j) # None /\ get_entity(j).typename
    /\ entity_op(k, Update(e))
    /\ wantedInHandler' = [wantedInHandler EXCEPT ![k] = Updated(@, e)]
    /\ UNCHANGED <<rows, current, updates, mods, errors, pc, base, wanted>>

remove(k) ==
    /\ pc = "handler"
    /\ entity_op(k, Remove)
    /\ wantedInHandler' = [wantedInHandler EXCEPT ![k] = None]
    /\ UNCHANGED <<rows, current, updates, mods, errors, pc, base, wanted>>

\* The handler's operations are accumulated onto the block's.
exit_handler ==
    /\ pc = "handler"
    /\ pc' = "block"
    /\ updates' = [k \in Key |->
                     IF handler_updates[k] = None THEN updates[k]
                     ELSE accumulate(updates[k], handler_updates[k])]
    /\ handler_updates' = [k \in Key |-> None]
    /\ wanted' = wantedInHandler
    /\ UNCHANGED <<rows, current, mods, errors, base, wantedInHandler>>

\* A plausible bug: the updates are not cleared.
exit_handler_and_discard_changes_NoClear ==
    /\ pc = "handler"
    /\ pc' = "block"
    /\ errors' = TRUE
    /\ wantedInHandler' = wanted
    /\ UNCHANGED <<rows, current, updates, handler_updates, mods, base, wanted>>

\* A deterministic error: the handler leaves no trace in the block's updates.
exit_handler_and_discard_changes ==
    /\ pc = "handler"
    /\ pc' = "block"
    /\ handler_updates' = [k \in Key |-> None]
    /\ errors' = TRUE
    /\ wantedInHandler' = wanted
    /\ UNCHANGED <<rows, current, updates, mods, base, wanted>>

-----------------------------------------------------------------------------
(* The end of process_block. *)

Insert(e) == [kind |-> "Insert", data |-> e]
Overwritten(e) == [kind |-> "Overwrite", data |-> e]
Removed == [kind |-> "Remove"]
EntityModification ==
    {Removed} \cup {Insert(e) : e \in Entity} \cup {Overwritten(e) : e \in Entity}

ASSUME EntityAssumption ==
    /\ Null # Absent
    /\ Null \notin Val
    /\ Absent \notin Val
    /\ None # Uncached
    /\ None \notin Entity \cup EntityOp \cup EntityModification \cup Contents
    /\ Uncached \notin Entity

\* get_many: the updated keys the cache does not hold are read from the store,
\* __typename included; the ones the store does not have stay uncached.
WithMissing ==
    [k \in Key |-> IF updates[k] # None /\ current[k] = Uncached /\ rows[k] # None
                   THEN FromRow(rows[k]) ELSE current[k]]

\* The cached entity and the modification that the updates of one key give.
Outcome(cached, op) ==
    LET cur == IF cached = Uncached THEN None ELSE cached
    IN  CASE op = None -> [cached |-> cached, mod |-> None]
          [] op # None /\ op.op # "Remove" /\ cur = None ->
               LET data == merge_remove_null_fields(EmptyEntity, op.data)
               IN  [cached |-> data, mod |-> Insert(data)]
          [] op # None /\ op.op # "Remove" /\ cur # None ->
               LET data == IF op.op = "Overwrite" THEN op.data
                           ELSE merge_remove_null_fields(cur, op.data)
               IN  [cached |-> data,
                    mod |-> IF cur # data THEN Overwritten(data) ELSE None]
          [] op # None /\ op.op = "Remove" /\ cur # None ->
               [cached |-> None, mod |-> Removed]
          [] op # None /\ op.op = "Remove" /\ cur = None ->
               [cached |-> Uncached, mod |-> None]

\* as_modifications, then the eviction of any part of the cache.
as_modifications ==
    /\ pc = "block"
    /\ ~errors
    /\ \E evicted \in SUBSET Key :
         current' = [k \in Key |-> IF k \in evicted THEN Uncached
                                   ELSE Outcome(WithMissing[k], updates[k]).cached]
    /\ mods' = [k \in Key |-> Outcome(WithMissing[k], updates[k]).mod]
    /\ updates' = [k \in Key |-> None]
    /\ pc' = "commit"
    /\ UNCHANGED <<rows, handler_updates, errors, history>>

\* A deterministic error fails the block: nothing of it is written.
FailBlock ==
    /\ pc = "block"
    /\ errors
    /\ pc' = "failed"
    /\ UNCHANGED <<rows, current, layers, history>>

\* Of the modifications only the inserts reach the entity tables.  A row
\* with the same id and an open block range refuses the insert, and the
\* transaction is rolled back.
transact_block_operations ==
    /\ pc = "commit"
    /\ LET inserted == {k \in Key : mods[k] # None /\ mods[k].kind = "Insert"}
       IN  IF \E k \in inserted : rows[k] # None
           THEN /\ pc' = "failed"
                /\ UNCHANGED rows
           ELSE /\ pc' = "idle"
                /\ rows' = [k \in Key |-> IF k \in inserted THEN ToRow(mods[k].data) ELSE rows[k]]
    /\ mods' = [k \in Key |-> None]
    /\ UNCHANGED <<current, updates, handler_updates, errors, history>>

\* A possible reorg drops the block state, and the cache it had taken, and the
\* block is delivered again; so does a new process after a failure or a crash.
DropBlockState ==
    /\ pc # "idle"
    /\ current' = [k \in Key |-> Uncached]
    /\ updates' = [k \in Key |-> None]
    /\ handler_updates' = [k \in Key |-> None]
    /\ mods' = [k \in Key |-> None]
    /\ errors' = FALSE
    /\ pc' = "idle"
    /\ UNCHANGED <<rows, history>>

Next ==
    \/ BeginBlock
    \/ enter_handler
    \/ \E k \in Key : get(k) \/ remove(k)
    \/ \E k \in Key, e \in Entity : set(k, e)
    \/ exit_handler
    \/ exit_handler_and_discard_changes
    \/ as_modifications
    \/ FailBlock
    \/ transact_block_operations
    \/ DropBlockState

Spec == Init /\ [][Next]_vars
-----------------------------------------------------------------------------
TypeOK ==
    /\ rows \in [Key -> Row \cup {None}]
    /\ current \in [Key -> Entity \cup {None, Uncached}]
    /\ updates \in [Key -> EntityOp \cup {None}]
    /\ handler_updates \in [Key -> EntityOp \cup {None}]
    /\ mods \in [Key -> EntityModification \cup {None}]
    /\ errors \in BOOLEAN
    /\ pc \in {"idle", "block", "handler", "commit", "failed"}
    /\ \A h \in {base, wanted, wantedInHandler} : h \in [Key -> Contents \cup {None}]

\* A handler reads its own writes and those of the handlers before it in the
\* block, whatever the three layers of EntityCache hold and however often the
\* same entity was removed and set again: store.get agrees with the entities
\* that the operations give one after the other.
ReadsOwnWrites ==
    pc = "handler" => \A k \in Key : Content(Lookup(k)) = wantedInHandler[k]

\* The modifications process_block hands to the store turn the entities the
\* block started from into the ones its handlers wanted, and the cache kept
\* for the next block shows those.
CommitsWhatWasWanted ==
    pc = "commit" => \A k \in Key :
        /\ CASE mods[k] = None -> wanted[k] = base[k]
             [] mods[k] # None /\ mods[k].kind = "Remove" -> wanted[k] = None
             [] OTHER -> wanted[k] = Content(mods[k].data)
        /\ current[k] # Uncached => Content(current[k]) = wanted[k]

\* store.rs 146-147: current is the state of the entities in the store, and
\* an entry of None means that the entity is not in the store.
CurrentIsTheStore ==
    pc = "idle" => \A k \in Key :
        current[k] # Uncached => Content(current[k]) = Content(rows[k])
=============================================================================
