---------------------- MODULE EntityCacheAndQueueProof ----------------------
(***************************************************************************)
(* Proofs about EntityCache: whatever the keys, attributes and values, the *)
(* three layers of operations give what the operations give one by one.    *)
(* And, after them, about RingQueue: for every length of its buffer it     *)
(* implements BoundedQueue.                                                *)
(***************************************************************************)
EXTENDS EntityCache, RingQueue, TLAPS

\* What an operation does to the content of an entity.
Applied(op, c) ==
    IF op = None THEN c
    ELSE IF op.op = "Remove" THEN None
    ELSE IF op.op = "Overwrite" THEN Content(op.data)
    ELSE Updated(c, op.data)

\* Entity::new is an entity.
LEMMA EmptyTyped == EmptyEntity \in Entity
BY DEF EmptyEntity, Entity

\* merge and merge_remove_null_fields give entities.
LEMMA MergeTyped ==
    ASSUME NEW e \in Entity, NEW u \in Entity
    PROVE  merge(e, u) \in Entity /\ merge_remove_null_fields(e, u) \in Entity
<1>1. merge(e, u) \in Entity
  BY DEF merge, Entity
<1>2. merge_remove_null_fields(e, u) \in Entity
  BY DEF merge_remove_null_fields, Entity
<1>3. QED
  BY <1>1, <1>2

\* Content, attribute by attribute.
LEMMA ContentOf ==
    ASSUME NEW e \in Entity
    PROVE  /\ Content(e) = [f \in Field |-> IF e.attrs[f] = Null THEN Absent ELSE e.attrs[f]]
           /\ Content(e) \in Contents
           /\ Content(e) # None
<1> USE EntityAssumption
<1>1. e # None
  OBVIOUS
<1>2. Content(e) = [f \in Field |-> IF e.attrs[f] = Null THEN Absent ELSE e.attrs[f]]
  BY <1>1 DEF Content, merge_remove_null_fields, EmptyEntity
<1>3. Content(e) \in Contents
  BY <1>2 DEF Contents, Entity
<1>4. QED
  BY <1>2, <1>3

\* No entity has no content.
LEMMA ContentNone == Content(None) = None
BY DEF Content

\* What a reader sees of an entity holds no null.
LEMMA ContentTyped ==
    ASSUME NEW e \in Entity \cup {None} PROVE Content(e) \in Contents \cup {None}
BY ContentOf, ContentNone

\* The history's own update gives contents again.
LEMMA UpdatedTyped ==
    ASSUME NEW c \in Contents \cup {None}, NEW u \in Entity
    PROVE  Updated(c, u) \in Contents /\ Updated(c, u) # None
<1>1. Updated(c, u) \in Contents
  BY DEF Updated, Contents, Entity
<1>2. QED
  BY <1>1, EntityAssumption

\* merge_remove_null_fields on contents.
LEMMA ContentMerge ==
    ASSUME NEW e \in Entity, NEW u \in Entity
    PROVE  Content(merge_remove_null_fields(e, u)) = Updated(Content(e), u)
<1> USE EntityAssumption
<1> DEFINE m == merge_remove_null_fields(e, u)
<1>1. m \in Entity
  BY MergeTyped
<1>2. Content(m) = [f \in Field |-> IF m.attrs[f] = Null THEN Absent ELSE m.attrs[f]]
  BY <1>1, ContentOf
<1>3. \A f \in Field : Content(e)[f] = IF e.attrs[f] = Null THEN Absent ELSE e.attrs[f]
  BY ContentOf
<1>4. Content(e) # None
  BY ContentOf
<1>5. \A f \in Field : m.attrs[f] = CASE u.attrs[f] = Absent -> e.attrs[f]
                                       [] u.attrs[f] = Null   -> Absent
                                       [] OTHER               -> u.attrs[f]
  BY DEF merge_remove_null_fields
<1>6. QED
  BY <1>2, <1>3, <1>4, <1>5 DEF Updated

\* An update of nothing is the update's own content.
LEMMA UpdatedNone ==
    ASSUME NEW u \in Entity PROVE Updated(None, u) = Content(u)
BY ContentOf, EntityAssumption DEF Updated

\* The cases of an operation.
LEMMA OpCases ==
    ASSUME NEW op \in EntityOp
    PROVE  /\ op # None
           /\ \/ op = Remove /\ op.op = "Remove"
              \/ op = Update(op.data) /\ op.op = "Update" /\ op.data \in Entity
              \/ op = Overwrite(op.data) /\ op.op = "Overwrite" /\ op.data \in Entity
BY EntityAssumption DEF EntityOp, Remove, Update, Overwrite

\* apply_to, on contents, is Applied.
LEMMA ApplyContent ==
    ASSUME NEW op \in EntityOp \cup {None}, NEW e \in Entity \cup {None}
    PROVE  /\ apply_to(op, e) \in Entity \cup {None}
           /\ Content(apply_to(op, e)) = Applied(op, Content(e))
<1>1. CASE op = None
  BY <1>1 DEF apply_to, Applied
<1>2. CASE op # None /\ op.op = "Remove"
  BY <1>2, ContentNone DEF apply_to, Applied
<1>3. CASE op # None /\ op.op = "Overwrite"
  BY <1>3, OpCases DEF apply_to, Applied
<1>4. CASE op # None /\ op.op = "Update"
  <2>1. op.data \in Entity
    BY <1>4, OpCases
  <2>2. CASE e = None
    <3>1. apply_to(op, e) = op.data
      BY <1>4, <2>2 DEF apply_to
    <3>2. QED
      BY <1>4, <2>1, <2>2, <3>1, UpdatedNone, ContentNone DEF Applied
  <2>3. CASE e # None
    <3>1. apply_to(op, e) = merge_remove_null_fields(e, op.data)
      BY <1>4, <2>3 DEF apply_to
    <3>2. Applied(op, Content(e)) = Updated(Content(e), op.data)
      BY <1>4 DEF Applied
    <3>3. QED
      BY <2>1, <2>3, <3>1, <3>2, ContentMerge, MergeTyped
  <2>4. QED
    BY <2>2, <2>3
<1>5. QED
  BY <1>1, <1>2, <1>3, <1>4, OpCases

\* Two updates in a row are the update of their merge.
LEMMA UpdatedTwice ==
    ASSUME NEW c \in Contents \cup {None}, NEW u \in Entity, NEW v \in Entity
    PROVE  Updated(Updated(c, u), v) = Updated(c, merge(u, v))
<1> USE EntityAssumption
<1>1. Updated(c, u) # None
  BY UpdatedTyped
<1>2. \A f \in Field : merge(u, v).attrs[f] = IF v.attrs[f] = Absent THEN u.attrs[f] ELSE v.attrs[f]
  BY DEF merge
<1>3. QED
  BY <1>1, <1>2 DEF Updated

\* The same when the first operation replaced the entity.
LEMMA UpdatedContent ==
    ASSUME NEW u \in Entity, NEW v \in Entity
    PROVE  Updated(Content(u), v) = Content(merge(u, v))
<1>1. Content(u) = Updated(None, u)
  BY UpdatedNone
<1>2. Content(merge(u, v)) = Updated(None, merge(u, v))
  BY MergeTyped, UpdatedNone
<1>3. QED
  BY <1>1, <1>2, UpdatedTwice

\* EntityOp::accumulate composes operations: applying what two operations
\* accumulate to is applying the one and then the other.
THEOREM AccumulateComposes ==
    ASSUME NEW op \in EntityOp \cup {None}, NEW next \in EntityOp, NEW c \in Contents \cup {None}
    PROVE  /\ accumulate(op, next) \in EntityOp
           /\ Applied(accumulate(op, next), c) = Applied(next, Applied(op, c))
<1>1. CASE op = None
  BY <1>1 DEF accumulate, Applied
<1>2. CASE op # None /\ next.op # "Update"
  <2>1. accumulate(op, next) = next
    BY <1>2 DEF accumulate
  <2>2. next.op = "Remove" \/ next.op = "Overwrite"
    BY <1>2, OpCases
  <2>3. QED
    BY <2>1, <2>2, OpCases DEF Applied
<1>3. CASE op # None /\ next.op = "Update"
  <2>1. next.data \in Entity /\ next # None
    BY <1>3, OpCases
  <2>2. CASE op.op = "Remove"
    <3>1. accumulate(op, next) = Overwrite(next.data)
      BY <1>3, <2>1, <2>2 DEF accumulate
    <3>2. Overwrite(next.data) \in EntityOp
      BY <2>1 DEF EntityOp
    <3>3. Applied(Overwrite(next.data), c) = Content(next.data)
      BY <3>2, OpCases DEF Applied, Overwrite
    <3>4. Applied(next, Applied(op, c)) = Updated(None, next.data)
      BY <1>3, <2>1, <2>2 DEF Applied
    <3>5. QED
      BY <2>1, <3>1, <3>2, <3>3, <3>4, UpdatedNone
  <2>3. CASE op.op = "Update"
    <3>1. op.data \in Entity
      BY <1>3, <2>3, OpCases
    <3>2. accumulate(op, next) = Update(merge(op.data, next.data))
      BY <1>3, <2>1, <2>3 DEF accumulate, Update
    <3>3. Update(merge(op.data, next.data)) \in EntityOp
      BY <2>1, <3>1, MergeTyped DEF EntityOp
    <3>4. Applied(Update(merge(op.data, next.data)), c) = Updated(c, merge(op.data, next.data))
      BY <3>3, OpCases DEF Applied, Update
    <3>5. Applied(next, Applied(op, c)) = Updated(Updated(c, op.data), next.data)
      BY <1>3, <2>1, <2>3 DEF Applied
    <3>6. QED
      BY <2>1, <3>1, <3>2, <3>3, <3>4, <3>5, UpdatedTwice
  <2>4. CASE op.op = "Overwrite"
    <3>1. op.data \in Entity
      BY <1>3, <2>4, OpCases
    <3>2. accumulate(op, next) = Overwrite(merge(op.data, next.data))
      BY <1>3, <2>1, <2>4 DEF accumulate, Overwrite
    <3>3. Overwrite(merge(op.data, next.data)) \in EntityOp
      BY <2>1, <3>1, MergeTyped DEF EntityOp
    <3>4. Applied(Overwrite(merge(op.data, next.data)), c) = Content(merge(op.data, next.data))
      BY <3>3, OpCases DEF Applied, Overwrite
    <3>5. Applied(next, Applied(op, c)) = Updated(Content(op.data), next.data)
      BY <1>3, <2>1, <2>4 DEF Applied
    <3>6. QED
      BY <2>1, <3>1, <3>2, <3>3, <3>4, <3>5, UpdatedContent
  <2>5. QED
    BY <1>3, <2>2, <2>3, <2>4, OpCases
<1>4. QED
  BY <1>1, <1>2, <1>3
-----------------------------------------------------------------------------
\* What as_modifications computes for one key, on contents.
LEMMA OutcomeContent ==
    ASSUME NEW cached \in Entity \cup {None, Uncached}, NEW op \in EntityOp \cup {None},
           NEW e \in Entity \cup {None}, Content(e) = Content(IF cached = Uncached THEN None ELSE cached)
                                         \/ (op = None /\ cached = Uncached)
    PROVE  LET out == Outcome(cached, op) IN
           /\ out.cached \in Entity \cup {None, Uncached}
           /\ out.mod \in EntityModification \cup {None}
           /\ out.cached # Uncached => Content(out.cached) = Applied(op, Content(e))
           /\ out.mod = None => Applied(op, Content(e)) = Content(e)
           /\ out.mod # None /\ out.mod.kind = "Remove" => Applied(op, Content(e)) = None
           /\ out.mod # None /\ out.mod.kind # "Remove" => Content(out.mod.data) = Applied(op, Content(e))
<1> USE EntityAssumption
<1> DEFINE cur == IF cached = Uncached THEN None ELSE cached
<1>0. cur \in Entity \cup {None}
  OBVIOUS
<1>1. CASE op = None
  <2>1. Outcome(cached, op) = [cached |-> cached, mod |-> None]
    BY <1>1 DEF Outcome
  <2>2. QED
    BY <1>1, <2>1 DEF Applied
<1>2. CASE op # None /\ op.op # "Remove" /\ cur = None
  <2> DEFINE data == merge_remove_null_fields(EmptyEntity, op.data)
  <2>1. op.data \in Entity /\ data \in Entity
    BY <1>2, OpCases, EmptyTyped, MergeTyped
  <2>2. Outcome(cached, op) = [cached |-> data, mod |-> Insert(data)]
    BY <1>2 DEF Outcome
  <2>3. Content(data) = Content(op.data)
    <3>1. Content(data) = Updated(Content(EmptyEntity), op.data)
      BY <2>1, EmptyTyped, ContentMerge
    <3>2. Content(EmptyEntity) # None /\ \A f \in Field : Content(EmptyEntity)[f] = Absent
      BY EmptyTyped, ContentOf DEF EmptyEntity
    <3>3. Updated(Content(EmptyEntity), op.data) = Updated(None, op.data)
      BY <3>2 DEF Updated
    <3>4. QED
      BY <2>1, <3>1, <3>3, UpdatedNone
  <2>4. Applied(op, None) = Content(op.data)
    BY <1>2, <2>1, UpdatedNone DEF Applied
  <2>5. Content(e) = None
    BY <1>2, ContentNone
  <2>6. Insert(data) \in EntityModification /\ Insert(data) # None
        /\ Insert(data).kind = "Insert" /\ Insert(data).data = data
    BY <2>1 DEF EntityModification, Insert
  <2>7. data # Uncached
    BY <2>1
  <2>8. QED
    BY <2>1, <2>2, <2>3, <2>4, <2>5, <2>6, <2>7
<1>3. CASE op # None /\ op.op # "Remove" /\ cur # None
  <2> DEFINE data == IF op.op = "Overwrite" THEN op.data ELSE merge_remove_null_fields(cur, op.data)
  <2>1. op.data \in Entity /\ data \in Entity /\ cur \in Entity
    BY <1>0, <1>3, OpCases, MergeTyped
  <2>2. Outcome(cached, op) = [cached |-> data, mod |-> IF cur # data THEN Overwritten(data) ELSE None]
    BY <1>3 DEF Outcome
  <2>3. Content(e) = Content(cur)
    BY <1>3
  <2>4. Content(data) = Applied(op, Content(cur))
    BY <1>3, <2>1, ContentMerge DEF Applied
  <2>5. Overwritten(data) \in EntityModification /\ Overwritten(data) # None
        /\ Overwritten(data).kind = "Overwrite" /\ Overwritten(data).data = data
    BY <2>1 DEF EntityModification, Overwritten
  <2>6. QED
    BY <2>1, <2>2, <2>3, <2>4, <2>5
<1>4. CASE op # None /\ op.op = "Remove"
  <2>1. Outcome(cached, op) = IF cur # None THEN [cached |-> None, mod |-> Removed]
                              ELSE [cached |-> Uncached, mod |-> None]
    BY <1>4 DEF Outcome
  <2>2. Removed \in EntityModification /\ Removed # None /\ Removed.kind = "Remove"
    BY DEF EntityModification, Removed
  <2>3. Applied(op, Content(e)) = None
    BY <1>4 DEF Applied
  <2>4. cur = None => Content(e) = None
    BY <1>4, ContentNone
  <2>5. QED
    BY <2>1, <2>2, <2>3, <2>4, ContentNone
<1>5. QED
  BY <1>1, <1>2, <1>3, <1>4
-----------------------------------------------------------------------------
NoOps(ops) == \A k \in Key : ops[k] = None

\* Inside a block: the block's updates turn what it started from into what its
\* finished handlers wanted.
BlockLayer ==
    \A k \in Key : /\ base[k] = Content(get_entity(k))
                   /\ wanted[k] = Applied(updates[k], base[k])

\* Inside a handler: its own updates do the rest.
HandlerLayer == \A k \in Key : wantedInHandler[k] = Applied(handler_updates[k], wanted[k])

Inv ==
    /\ TypeOK
    /\ pc \in {"idle", "commit"} => NoOps(updates)
    /\ pc \in {"idle", "block", "commit"} => NoOps(handler_updates)
    /\ pc \in {"block", "handler"} => BlockLayer
    /\ pc = "handler" => HandlerLayer
    /\ CommitsWhatWasWanted

\* A new cache satisfies the invariant.
LEMMA InitInv == Init => Inv
<1> SUFFICES ASSUME Init PROVE Inv
  OBVIOUS
<1>1. /\ rows \in [Key -> Row \cup {None}] /\ base \in [Key -> Contents \cup {None}]
      /\ current \in [Key -> Entity \cup {None, Uncached}]
      /\ updates \in [Key -> EntityOp \cup {None}] /\ mods \in [Key -> EntityModification \cup {None}]
  BY DEF Init
<1>2. TypeOK
  BY <1>1 DEF Init, TypeOK
<1>3. NoOps(updates) /\ NoOps(handler_updates)
  BY DEF Init, NoOps
<1>4. QED
  BY <1>2, <1>3 DEF Init, Inv, CommitsWhatWasWanted

\* get_entity answers with an entity, or none.
LEMMA GetEntityTyped ==
    ASSUME TypeOK, NEW k \in Key
    PROVE  /\ get_entity(k) \in Entity \cup {None}
           /\ Content(get_entity(k)) \in Contents \cup {None}
<1>1. get_entity(k) \in Entity \cup {None}
  BY DEF TypeOK, get_entity, Row
<1>2. QED
  BY <1>1, ContentTyped

\* process_block starts a block from what the cache and the store show.
LEMMA BeginBlockInv == Inv /\ BeginBlock => Inv'
<1> SUFFICES ASSUME Inv, BeginBlock PROVE Inv'
  OBVIOUS
<1>1. TypeOK /\ NoOps(updates) /\ NoOps(handler_updates)
  BY DEF Inv, BeginBlock
<1>2. base' \in [Key -> Contents \cup {None}]
  BY <1>1, GetEntityTyped DEF BeginBlock
<1>3. TypeOK'
  BY <1>1, <1>2 DEF TypeOK, BeginBlock, layers
<1>4. BlockLayer'
  BY <1>1 DEF BlockLayer, BeginBlock, layers, get_entity, NoOps, Applied
<1>5. QED
  BY <1>1, <1>3, <1>4 DEF Inv, BeginBlock, layers, NoOps, CommitsWhatWasWanted

\* enter_handler keeps the invariant.
LEMMA EnterHandlerInv == Inv /\ enter_handler => Inv'
<1> SUFFICES ASSUME Inv, enter_handler PROVE Inv'
  OBVIOUS
<1>1. TypeOK /\ NoOps(handler_updates) /\ BlockLayer
  BY DEF Inv, enter_handler
<1>2. TypeOK'
  BY <1>1 DEF TypeOK, enter_handler, layers
<1>3. BlockLayer' /\ HandlerLayer'
  BY <1>1 DEF BlockLayer, HandlerLayer, enter_handler, layers, get_entity, NoOps, Applied
<1>4. QED
  BY <1>2, <1>3 DEF Inv, enter_handler, CommitsWhatWasWanted

\* store.get only fills the cache.
LEMMA GetInv == ASSUME Inv, NEW k \in Key, get(k) PROVE Inv'
<1>1. TypeOK /\ BlockLayer /\ HandlerLayer
  BY DEF Inv, get
<1>2. get_entity(k) \in Entity \cup {None}
  BY <1>1, GetEntityTyped
<1>3. TypeOK'
  BY <1>1, <1>2 DEF TypeOK, get, layers, history
<1>4. \A j \in Key : get_entity(j)' = get_entity(j)
  <2>1. get_entity(k) # Uncached
    BY <1>2, EntityAssumption
  <2>2. QED
    BY <1>1, <2>1 DEF get_entity, get, TypeOK
<1>5. BlockLayer' /\ HandlerLayer'
  BY <1>1, <1>4 DEF BlockLayer, HandlerLayer, get, layers, history
<1>6. QED
  BY <1>3, <1>5 DEF Inv, get, CommitsWhatWasWanted

\* One more operation of the running handler.
LEMMA EntityOpInv ==
    ASSUME Inv, pc = "handler", NEW k \in Key, NEW op \in EntityOp, entity_op(k, op),
           wantedInHandler' = [wantedInHandler EXCEPT ![k] = Applied(op, @)],
           Applied(op, wantedInHandler[k]) \in Contents \cup {None},
           UNCHANGED <<rows, current, updates, mods, errors, pc, base, wanted>>
    PROVE  Inv'
<1>1. TypeOK /\ BlockLayer /\ HandlerLayer
  BY DEF Inv
<1>2. \A j \in Key : handler_updates[j] \in EntityOp \cup {None} /\ wanted[j] \in Contents \cup {None}
  BY <1>1 DEF TypeOK
<1>3. /\ accumulate(handler_updates[k], op) \in EntityOp
      /\ Applied(accumulate(handler_updates[k], op), wanted[k])
            = Applied(op, Applied(handler_updates[k], wanted[k]))
  BY <1>2, AccumulateComposes
<1>4. TypeOK'
  BY <1>1, <1>3 DEF TypeOK, entity_op
<1>5. HandlerLayer'
  BY <1>1, <1>3 DEF HandlerLayer, entity_op, TypeOK
<1>6. BlockLayer'
  BY <1>1 DEF BlockLayer, get_entity
<1>7. QED
  BY <1>4, <1>5, <1>6 DEF Inv, CommitsWhatWasWanted

\* store.set accumulates as if it had been applied at once.
LEMMA SetInv == ASSUME Inv, NEW k \in Key, NEW e \in Entity, set(k, e) PROVE Inv'
<1>1. Update(e) \in EntityOp
  BY DEF EntityOp
<1>2. \A c : Applied(Update(e), c) = Updated(c, e)
  BY <1>1, OpCases DEF Applied, Update
<1>3. wantedInHandler[k] \in Contents \cup {None}
  BY DEF Inv, TypeOK
<1>4. QED
  BY <1>1, <1>2, <1>3, EntityOpInv, UpdatedTyped DEF set

\* store.remove likewise.
LEMMA RemoveInv == ASSUME Inv, NEW k \in Key, remove(k) PROVE Inv'
<1>1. Remove \in EntityOp
  BY DEF EntityOp
<1>2. \A c : Applied(Remove, c) = None
  BY <1>1, OpCases DEF Applied, Remove
<1>3. /\ wantedInHandler' = [wantedInHandler EXCEPT ![k] = Applied(Remove, wantedInHandler[k])]
      /\ Applied(Remove, wantedInHandler[k]) \in Contents \cup {None}
  BY <1>2 DEF remove
<1>4. QED
  BY <1>1, <1>3, EntityOpInv DEF remove

\* exit_handler composes the handler's operations with the block's.
LEMMA ExitHandlerInv == Inv /\ exit_handler => Inv'
<1> SUFFICES ASSUME Inv, exit_handler PROVE Inv'
  OBVIOUS
<1>1. TypeOK /\ BlockLayer /\ HandlerLayer
  BY DEF Inv, exit_handler
<1>2. ASSUME NEW k \in Key
      PROVE  /\ updates'[k] \in EntityOp \cup {None}
             /\ Applied(updates'[k], base[k]) = wantedInHandler[k]
  <2>1. updates[k] \in EntityOp \cup {None} /\ base[k] \in Contents \cup {None}
        /\ handler_updates[k] \in EntityOp \cup {None}
    BY <1>1 DEF TypeOK
  <2>2. wantedInHandler[k] = Applied(handler_updates[k], Applied(updates[k], base[k]))
    BY <1>1 DEF BlockLayer, HandlerLayer
  <2>3. CASE handler_updates[k] = None
    BY <2>1, <2>2, <2>3 DEF exit_handler, Applied
  <2>4. CASE handler_updates[k] # None
    BY <2>1, <2>2, <2>4, AccumulateComposes DEF exit_handler
  <2>5. QED
    BY <2>3, <2>4
<1>3. TypeOK'
  BY <1>1, <1>2 DEF TypeOK, exit_handler
<1>4. BlockLayer'
  BY <1>1, <1>2 DEF BlockLayer, exit_handler, get_entity
<1>5. QED
  BY <1>3, <1>4 DEF Inv, NoOps, exit_handler, CommitsWhatWasWanted

\* exit_handler_and_discard_changes leaves no trace of the handler.
LEMMA DiscardInv == Inv /\ exit_handler_and_discard_changes => Inv'
<1> SUFFICES ASSUME Inv, exit_handler_and_discard_changes PROVE Inv'
  OBVIOUS
<1>1. TypeOK /\ BlockLayer
  BY DEF Inv, exit_handler_and_discard_changes
<1>2. TypeOK'
  BY <1>1 DEF TypeOK, exit_handler_and_discard_changes
<1>3. BlockLayer'
  BY <1>1 DEF BlockLayer, exit_handler_and_discard_changes, get_entity
<1>4. QED
  BY <1>2, <1>3 DEF Inv, NoOps, exit_handler_and_discard_changes, CommitsWhatWasWanted

\* as_modifications turns the accumulated operations into what was wanted.
LEMMA AsModificationsInv == Inv /\ as_modifications => Inv'
<1> SUFFICES ASSUME Inv, as_modifications PROVE Inv'
  OBVIOUS
<1> USE EntityAssumption
<1>1. TypeOK /\ BlockLayer /\ NoOps(handler_updates)
  BY DEF Inv, as_modifications
<1> DEFINE out(k) == Outcome(WithMissing[k], updates[k])
<1>2. ASSUME NEW k \in Key
      PROVE  /\ out(k).cached \in Entity \cup {None, Uncached}
             /\ out(k).mod \in EntityModification \cup {None}
             /\ out(k).cached # Uncached => Content(out(k).cached) = wanted[k]
             /\ out(k).mod = None => wanted[k] = base[k]
             /\ out(k).mod # None /\ out(k).mod.kind = "Remove" => wanted[k] = None
             /\ out(k).mod # None /\ out(k).mod.kind # "Remove" => Content(out(k).mod.data) = wanted[k]
  <2>1. /\ updates[k] \in EntityOp \cup {None}
        /\ current[k] \in Entity \cup {None, Uncached}
        /\ rows[k] \in Row \cup {None}
    BY <1>1 DEF TypeOK
  <2>2. get_entity(k) \in Entity \cup {None}
    BY <1>1, GetEntityTyped
  <2>3. rows[k] # None => FromRow(rows[k]) \in Entity /\ Content(FromRow(rows[k])) = Content(rows[k])
    <3>1. SUFFICES ASSUME rows[k] \in Entity
                   PROVE  FromRow(rows[k]) \in Entity /\ Content(FromRow(rows[k])) = Content(rows[k])
      BY <2>1 DEF Row
    <3>2. FromRow(rows[k]) \in Entity /\ FromRow(rows[k]).attrs = rows[k].attrs
      BY <3>1 DEF FromRow, Entity
    <3>3. QED
      BY <3>1, <3>2, ContentOf
  <2>4. WithMissing[k] = IF updates[k] # None /\ current[k] = Uncached /\ rows[k] # None
                         THEN FromRow(rows[k]) ELSE current[k]
    BY DEF WithMissing
  <2>5. WithMissing[k] \in Entity \cup {None, Uncached}
    BY <2>1, <2>3, <2>4
  <2>6. \/ Content(get_entity(k)) = Content(IF WithMissing[k] = Uncached THEN None ELSE WithMissing[k])
        \/ updates[k] = None /\ WithMissing[k] = Uncached
    BY <2>1, <2>3, <2>4 DEF get_entity
  <2>7. base[k] = Content(get_entity(k)) /\ wanted[k] = Applied(updates[k], base[k])
    BY <1>1 DEF BlockLayer
  <2> DEFINE e == get_entity(k)
  <2>8. /\ out(k).cached \in Entity \cup {None, Uncached}
        /\ out(k).mod \in EntityModification \cup {None}
        /\ out(k).cached # Uncached => Content(out(k).cached) = Applied(updates[k], Content(e))
        /\ out(k).mod = None => Applied(updates[k], Content(e)) = Content(e)
        /\ out(k).mod # None /\ out(k).mod.kind = "Remove" => Applied(updates[k], Content(e)) = None
        /\ out(k).mod # None /\ out(k).mod.kind # "Remove"
             => Content(out(k).mod.data) = Applied(updates[k], Content(e))
    BY <2>1, <2>2, <2>5, <2>6, OutcomeContent, Zenon
  <2>9. QED
    BY <2>7, <2>8
<1>3. \A k \in Key : current'[k] = Uncached \/ current'[k] = out(k).cached
  BY DEF as_modifications
<1>4. \A k \in Key : mods'[k] = out(k).mod
  BY DEF as_modifications
<1>5. /\ current' \in [Key -> Entity \cup {None, Uncached}]
      /\ mods' \in [Key -> EntityModification \cup {None}]
  BY <1>2, <1>3, <1>4 DEF as_modifications
<1>6. TypeOK'
  BY <1>1, <1>5 DEF TypeOK, as_modifications, history
<1>7. CommitsWhatWasWanted'
  <2> SUFFICES ASSUME NEW k \in Key
               PROVE  /\ mods'[k] = None => wanted[k] = base[k]
                      /\ mods'[k] # None /\ mods'[k].kind = "Remove" => wanted[k] = None
                      /\ mods'[k] # None /\ mods'[k].kind # "Remove" => wanted[k] = Content(mods'[k].data)
                      /\ current'[k] # Uncached => Content(current'[k]) = wanted[k]
    BY DEF CommitsWhatWasWanted, as_modifications, history
  <2>1. QED
    BY <1>2, <1>3, <1>4
<1>8. QED
  BY <1>1, <1>6, <1>7 DEF Inv, NoOps, as_modifications, history

\* A failed block keeps the invariant.
LEMMA FailBlockInv == Inv /\ FailBlock => Inv'
BY DEF Inv, TypeOK, FailBlock, layers, history, CommitsWhatWasWanted

\* The transaction keeps the invariant, committed or rolled back.
LEMMA TransactInv == Inv /\ transact_block_operations => Inv'
<1> SUFFICES ASSUME Inv, transact_block_operations PROVE Inv'
  OBVIOUS
<1> USE EntityAssumption
<1>1. TypeOK /\ NoOps(updates) /\ NoOps(handler_updates)
  BY DEF Inv, transact_block_operations
<1>2. rows' \in [Key -> Row \cup {None}]
  <2>1. ASSUME NEW k \in Key, mods[k] # None, mods[k].kind = "Insert"
        PROVE  ToRow(mods[k].data) \in Row
    <3>1. mods[k].data \in Entity
      BY <1>1, <2>1 DEF TypeOK, EntityModification, Insert, Overwritten, Removed
    <3>2. QED
      BY <3>1 DEF ToRow, Row, Entity
  <2>2. QED
    BY <1>1, <2>1 DEF TypeOK, transact_block_operations
<1>3. TypeOK'
  BY <1>1, <1>2 DEF TypeOK, transact_block_operations, history
<1>4. QED
  BY <1>1, <1>3 DEF Inv, NoOps, transact_block_operations, CommitsWhatWasWanted

\* Dropping the block state keeps the invariant.
LEMMA DropBlockStateInv == Inv /\ DropBlockState => Inv'
<1> SUFFICES ASSUME Inv, DropBlockState PROVE Inv'
  OBVIOUS
<1>1. /\ current' \in [Key -> Entity \cup {None, Uncached}]
      /\ updates' \in [Key -> EntityOp \cup {None}]
      /\ handler_updates' \in [Key -> EntityOp \cup {None}]
      /\ mods' \in [Key -> EntityModification \cup {None}]
  BY DEF DropBlockState
<1>2. TypeOK'
  BY <1>1 DEF Inv, TypeOK, DropBlockState, history
<1>3. NoOps(updates)' /\ NoOps(handler_updates)' /\ pc' = "idle"
  BY DEF NoOps, DropBlockState
<1>4. QED
  BY <1>2, <1>3 DEF Inv, CommitsWhatWasWanted

\* So does a step that changes nothing.
LEMMA StutterInv == Inv /\ UNCHANGED vars => Inv'
BY DEF Inv, TypeOK, vars, NoOps, BlockLayer, HandlerLayer, get_entity, CommitsWhatWasWanted

\* Every step keeps the invariant.
LEMMA NextInv == Inv /\ [Next]_vars => Inv'
<1> SUFFICES ASSUME Inv, [Next]_vars PROVE Inv'
  OBVIOUS
<1>1. CASE \E k \in Key : get(k) \/ remove(k)
  BY <1>1, GetInv, RemoveInv
<1>2. CASE \E k \in Key, e \in Entity : set(k, e)
  BY <1>2, SetInv
<1>3. QED
  BY <1>1, <1>2, BeginBlockInv, EnterHandlerInv, ExitHandlerInv, DiscardInv,
     AsModificationsInv, FailBlockInv, TransactInv, DropBlockStateInv, StutterInv DEF Next

\* The invariant holds in every state of EntityCache.
THEOREM Invariance == Spec => []Inv
BY InitInv, NextInv, PTL DEF Spec

\* The layers of EntityCache, the modifications and the store keep their types.
THEOREM TypeCorrect == Spec => []TypeOK
<1>1. Inv => TypeOK
  BY DEF Inv
<1>2. QED
  BY <1>1, Invariance, PTL

\* EntityCache::get shows a handler every write before it, of its own and of the
\* earlier handlers of the block, for all keys, attributes and values.
THEOREM ReadsOwnWritesHolds == Spec => []ReadsOwnWrites
<1>1. Inv => ReadsOwnWrites
  <2> SUFFICES ASSUME Inv, pc = "handler", NEW k \in Key
               PROVE  Content(Lookup(k)) = wantedInHandler[k]
    BY DEF ReadsOwnWrites
  <2>1. TypeOK /\ BlockLayer /\ HandlerLayer
    BY DEF Inv
  <2>2. get_entity(k) \in Entity \cup {None}
    BY <2>1, GetEntityTyped
  <2>3. updates[k] \in EntityOp \cup {None} /\ handler_updates[k] \in EntityOp \cup {None}
    BY <2>1 DEF TypeOK
  <2>4. /\ apply_to(updates[k], get_entity(k)) \in Entity \cup {None}
        /\ Content(apply_to(updates[k], get_entity(k))) = Applied(updates[k], Content(get_entity(k)))
    BY <2>2, <2>3, ApplyContent
  <2>5. Content(Lookup(k)) = Applied(handler_updates[k], Applied(updates[k], Content(get_entity(k))))
    BY <2>3, <2>4, ApplyContent DEF Lookup
  <2>6. QED
    BY <2>1, <2>5 DEF BlockLayer, HandlerLayer
<1>2. QED
  BY <1>1, Invariance, PTL

\* as_modifications hands the store what the block's handlers wanted, entity by
\* entity, and keeps a cache that shows it.
THEOREM CommitsWhatWasWantedHolds == Spec => []CommitsWhatWasWanted
<1>1. Inv => CommitsWhatWasWanted
  BY DEF Inv
<1>2. QED
  BY <1>1, Invariance, PTL

-----------------------------------------------------------------------------
(* The ring buffer.                                                         *)

\* The header is within the buffer; a buffer of no slots keeps its first header.
RingInv ==
    /\ head \in Nat /\ count \in 0 .. BufLen /\ seq_num \in Int
    /\ BufLen > 0 => head < BufLen
    /\ DOMAIN buf = 0 .. BufLen - 1

\* An index wraps around the buffer at most once.
Wrap(x) == IF x < BufLen THEN x ELSE x - BufLen

\* The remainder of an index that is less than twice the buffer's length.
LEMMA Wraps ==
  ASSUME NEW x \in Nat, BufLen > 0, x < 2 * BufLen
  PROVE  x % BufLen = Wrap(x) /\ Wrap(x) \in 0 .. BufLen - 1
<1> USE RingAssumption
<1>1. PICK q \in Int, r \in Int : q = x \div BufLen /\ r = x % BufLen
  OBVIOUS
<1>2. x = BufLen * q + r /\ 0 <= r /\ r < BufLen
  BY <1>1
<1>3. q = 0 \/ q = 1
  <2>1. CASE q < 0
    <3>1. BufLen * q <= BufLen * (-1)
      BY <2>1
    <3>2. QED
      BY <3>1, <1>2
  <2>2. CASE q > 1
    <3>1. BufLen * q >= BufLen * 2
      BY <2>2
    <3>2. QED
      BY <3>1, <1>2
  <2>3. QED
    BY <2>1, <2>2, <1>1
<1>4. QED
  BY <1>1, <1>2, <1>3 DEF Wrap

\* What a sequence with one more item at the end, or without its first one, is.
LEMMA AppendIs ==
  ASSUME NEW S, NEW s \in Seq(S), NEW v \in S, NEW t \in Seq(S),
         Len(t) = Len(s) + 1, \A i \in 1 .. Len(s) : t[i] = s[i], t[Len(s) + 1] = v
  PROVE  t = Append(s, v)
OBVIOUS

LEMMA TailIs ==
  ASSUME NEW S, NEW s \in Seq(S), NEW t \in Seq(S), Len(s) # 0,
         Len(t) = Len(s) - 1, \A i \in 1 .. Len(s) - 1 : t[i] = s[i + 1]
  PROVE  s # <<>> /\ t = Tail(s) /\ Head(s) = s[1]
OBVIOUS

\* A function over the first numbers is a sequence.
LEMMA SeqIs ==
  ASSUME NEW n \in Nat, NEW f, f = [i \in 1 .. n |-> f[i]], NEW S, \A i \in 1 .. n : f[i] \in S
  PROVE  f \in Seq(S) /\ Len(f) = n
<1>1. f \in [1 .. n -> S]
  OBVIOUS
<1>2. QED
  BY <1>1

\* The items of the queue are a sequence as long as its count (Queue::iter).
LEMMA IterIs ==
  ASSUME RingInv
  PROVE  Len(Iter) = count
<1>1. count \in Nat
  BY RingAssumption DEF RingInv
<1>2. Iter = [i \in 1 .. count |-> Iter[i]]
  BY DEF Iter
<1>3. QED
  BY <1>1, <1>2, SeqIs

\* The slots of a queue's items, as indices without a remainder.
LEMMA IterAt ==
  ASSUME RingInv, NEW i \in 1 .. count
  PROVE  Iter[i] = buf[Wrap(head + i - 1)] /\ Wrap(head + i - 1) \in 0 .. BufLen - 1
<1>1. BufLen > 0 /\ head + i - 1 \in Nat /\ head + i - 1 < 2 * BufLen
  BY RingAssumption DEF RingInv
<1>2. Iter[i] = buf[(head + i - 1) % BufLen]
  BY DEF Iter
<1>3. QED
  BY <1>1, <1>2, Wraps

\* RingInv holds initially, and every call keeps it.
LEMMA RingInitInv == RingInit => RingInv
BY RingAssumption DEF RingInit, RingInv

LEMMA RingNextInv ==
  ASSUME RingInv, [RingNext]_ringVars
  PROVE  RingInv'
<1> USE RingAssumption
<1>1. ASSUME NEW v \in Items, PushBack(v) PROVE RingInv'
  BY <1>1 DEF PushBack, QueueFull, RingInv
<1>2. ASSUME NEW v \in Items, PushFails(v) PROVE RingInv'
  BY <1>2 DEF PushFails, RingInv
<1>3. ASSUME PopFront PROVE RingInv'
  <2>1. CASE count = 0
    BY <1>3, <2>1 DEF PopFront, RingInv
  <2>2. CASE count # 0
    <3>1. BufLen > 0 /\ head + 1 \in Nat /\ head + 1 < 2 * BufLen /\ count - 1 \in 0 .. BufLen
      BY <2>2 DEF RingInv
    <3>2. (head + 1) % BufLen \in Nat /\ (head + 1) % BufLen < BufLen
      BY <3>1, Wraps
    <3>3. QED
      BY <1>3, <2>2, <3>1, <3>2 DEF PopFront, RingInv
  <2>3. QED
    BY <2>1, <2>2
<1>4. ASSUME NEW n \in 0 .. BufLen, RevertPushes(n) PROVE RingInv'
  BY <1>4 DEF RevertPushes, RingInv
<1>5. CASE UNCHANGED ringVars
  BY <1>5 DEF ringVars, RingInv
<1>6. QED
  BY <1>1, <1>2, <1>3, <1>4, <1>5 DEF RingNext

\* An item goes in after the others: its slot is none of theirs (Queue::push_back).
LEMMA PushImplements ==
  ASSUME RingInv, RingInv', NEW v \in Items, PushBack(v)
  PROVE  Abstract!PushBack(v)
<1> USE RingAssumption
<1>1. /\ count < BufLen /\ count' = count + 1 /\ head' = head
      /\ buf' = [buf EXCEPT ![(head + count) % BufLen] = v]
  BY DEF PushBack, QueueFull, RingInv
<1>2. (head + count) % BufLen = Wrap(head + count) /\ Wrap(head + count) \in DOMAIN buf
  <2>1. BufLen > 0 /\ head + count \in Nat /\ head + count < 2 * BufLen /\ DOMAIN buf = 0 .. BufLen - 1
    BY <1>1 DEF RingInv
  <2>2. QED
    BY <2>1, Wraps
<1>3. ASSUME NEW i \in 1 .. count PROVE Iter'[i] = Iter[i]
  <2>1. Iter[i] = buf[Wrap(head + i - 1)] /\ Wrap(head + i - 1) \in 0 .. BufLen - 1
    BY IterAt
  <2>2. Wrap(head + i - 1) # Wrap(head + count)
    BY <1>1 DEF Wrap, RingInv
  <2>3. Iter'[i] = buf'[(head + i - 1) % BufLen]
    BY <1>1 DEF Iter, RingInv
  <2>4. (head + i - 1) % BufLen = Wrap(head + i - 1)
    BY Wraps, <1>1 DEF RingInv
  <2>5. QED
    BY <1>1, <1>2, <2>1, <2>2, <2>3, <2>4 DEF RingInv
<1>4. Iter'[count + 1] = v
  <2>1. Iter'[count + 1] = buf'[(head + count) % BufLen]
    BY <1>1 DEF Iter, RingInv
  <2>2. QED
    BY <2>1, <1>1, <1>2
<1>5. Iter' = Append(Iter, v)
  <2> DEFINE S == {Iter[i] : i \in 1 .. count} \cup {Iter'[i] : i \in 1 .. count'} \cup {v}
  <2>1. Iter = [i \in 1 .. count |-> Iter[i]] /\ Iter' = [i \in 1 .. count' |-> Iter'[i]]
    BY DEF Iter
  <2>2. count \in Nat /\ count' \in Nat /\ count' = count + 1
    BY <1>1 DEF RingInv
  <2>3. (\A i \in 1 .. count : Iter[i] \in S) /\ (\A i \in 1 .. count' : Iter'[i] \in S)
    OBVIOUS
  <2> HIDE DEF S
  <2>4. Iter \in Seq(S) /\ Len(Iter) = count
    BY <2>1, <2>2, <2>3, SeqIs
  <2>5. Iter' \in Seq(S) /\ Len(Iter') = count'
    BY <2>1, <2>2, <2>3, SeqIs
  <2>6. v \in S
    BY DEF S
  <2>7. QED
    BY <2>2, <2>4, <2>5, <2>6, <1>3, <1>4, AppendIs
<1>6. QED
  BY <1>1, <1>5, IterIs DEF PushBack, Abstract!PushBack

\* A queue that is full refuses the item (Queue::push_back).
LEMMA RefuseImplements ==
  ASSUME RingInv, NEW v \in Items, PushFails(v)
  PROVE  Abstract!Refuse(v)
<1>1. Iter' = Iter /\ Len(Iter) = BufLen
  BY IterIs DEF PushFails, QueueFull, Iter
<1>2. QED
  BY <1>1 DEF PushFails, Abstract!Refuse

\* The first item comes out, the others move up (Queue::pop_front).
LEMMA PopImplements ==
  ASSUME RingInv, RingInv', PopFront
  PROVE  Abstract!PopFront \/ Abstract!PopNothing
<1> USE RingAssumption
<1>1. CASE count = 0
  <2>1. Iter' = Iter /\ Iter = <<>>
    BY <1>1 DEF PopFront, Iter
  <2>2. QED
    BY <1>1, <2>1 DEF PopFront, Abstract!PopNothing
<1>2. CASE count # 0
  <2>1. /\ count > 0 /\ BufLen > 0 /\ head < BufLen
        /\ count' = count - 1 /\ head' = (head + 1) % BufLen /\ buf' = buf
        /\ returned' = buf[head]
    BY <1>2 DEF PopFront, RingInv
  <2>2. head' = Wrap(head + 1)
    BY <2>1, Wraps DEF RingInv
  <2>3. ASSUME NEW i \in 1 .. count - 1 PROVE Iter'[i] = Iter[i + 1]
    <3>1. Iter[i + 1] = buf[Wrap(head + i)]
      <4>1. i + 1 \in 1 .. count /\ head + (i + 1) - 1 = head + i
        BY DEF RingInv
      <4>2. QED
        BY <4>1, IterAt
    <3>2. Iter'[i] = buf[(head' + i - 1) % BufLen]
      BY <2>1 DEF Iter
    <3>3. (head' + i - 1) % BufLen = Wrap(head' + i - 1)
      BY Wraps, <2>1 DEF RingInv
    <3>4. Wrap(head' + i - 1) = Wrap(head + i)
      BY <2>1, <2>2 DEF Wrap, RingInv
    <3>5. QED
      BY <3>1, <3>2, <3>3, <3>4
  <2>4. Iter[1] = buf[head]
    <3>1. 1 \in 1 .. count /\ head + 1 - 1 = head
      BY <2>1 DEF RingInv
    <3>2. Iter[1] = buf[Wrap(head)]
      BY <3>1, IterAt
    <3>3. QED
      BY <3>2, <2>1 DEF Wrap
  <2>5. Iter # <<>> /\ Iter' = Tail(Iter) /\ Head(Iter) = Iter[1]
    <3> DEFINE S == {Iter[i] : i \in 1 .. count} \cup {Iter'[i] : i \in 1 .. count'}
    <3>1. Iter = [i \in 1 .. count |-> Iter[i]] /\ Iter' = [i \in 1 .. count' |-> Iter'[i]]
      BY DEF Iter
    <3>2. count \in Nat /\ count' \in Nat /\ count' = count - 1
      BY <2>1 DEF RingInv
    <3>3. (\A i \in 1 .. count : Iter[i] \in S) /\ (\A i \in 1 .. count' : Iter'[i] \in S)
      OBVIOUS
    <3> HIDE DEF S
    <3>4. Iter \in Seq(S) /\ Len(Iter) = count
      BY <3>1, <3>2, <3>3, SeqIs
    <3>5. Iter' \in Seq(S) /\ Len(Iter') = count'
      BY <3>1, <3>2, <3>3, SeqIs
    <3>6. QED
      BY <3>2, <3>4, <3>5, <2>1, <2>3, TailIs
  <2>6. QED
    BY <1>2, <2>1, <2>4, <2>5 DEF PopFront, Abstract!PopFront
<1>3. QED
  BY <1>1, <1>2

\* The first of the items stay (Queue::revert_pushes).
LEMMA RevertImplements ==
  ASSUME RingInv, NEW n \in 0 .. BufLen, RevertPushes(n)
  PROVE  Abstract!RevertPushes(n)
<1> USE RingAssumption
<1>1. Iter' = [i \in 1 .. n |-> Iter[i]]
  BY DEF RevertPushes, Iter, RingInv
<1>2. Iter' = SubSeq(Iter, 1, n)
  BY <1>1, IterIs DEF RevertPushes, RingInv
<1>3. QED
  BY <1>2, IterIs DEF RevertPushes, Abstract!RevertPushes, RingInv

\* For every size of the buffer and any items, the ring buffer of a market is a
\* bounded queue: wherever its head is, items come out in the order of the pushes,
\* a push fails only when the buffer is full, and pushes that are taken back leave
\* the items before them as they were.
THEOREM QueueImplements == RingSpec => IsABoundedQueue
<1>1. RingInit => Abstract!Init
  <2> SUFFICES ASSUME RingInit PROVE Abstract!Init
    OBVIOUS
  <2>1. Iter = <<>>
    BY DEF RingInit, Iter
  <2>2. QED
    BY <2>1 DEF RingInit, Abstract!Init
<1>2. ASSUME RingInv, RingInv', [RingNext]_ringVars
      PROVE  [Abstract!Next]_<<Iter, seq_num, returned>>
  <2>1. CASE \E v \in Items : PushBack(v)
    BY <1>2, <2>1, PushImplements DEF Abstract!Next
  <2>2. CASE \E v \in Items : PushFails(v)
    BY <1>2, <2>2, RefuseImplements DEF Abstract!Next
  <2>3. CASE PopFront
    BY <1>2, <2>3, PopImplements DEF Abstract!Next
  <2>4. CASE \E n \in 0 .. BufLen : RevertPushes(n)
    BY <1>2, <2>4, RevertImplements DEF Abstract!Next
  <2>5. CASE UNCHANGED ringVars
    BY <2>5 DEF ringVars, Iter
  <2>6. QED
    BY <1>2, <2>1, <2>2, <2>3, <2>4, <2>5 DEF RingNext
<1>3. QED
  BY <1>1, <1>2, RingInitInv, RingNextInv, PTL DEF RingSpec, IsABoundedQueue, Abstract!Spec
=============================================================================
