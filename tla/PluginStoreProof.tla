-------------------------- MODULE PluginStoreProof --------------------------
(***************************************************************************)
(* Proofs about PluginStore.  First the algebra of updates: accumulate and *)
(* then apply_to leave the content that the updates leave one by one.      *)
(* Then the table: the exclusion constraint leaves an entity one current   *)
(* version.  SavesSurvive is not inductive: flush computes modifications   *)
(* from the cache, so it needs that what is cached is what is stored, but  *)
(* for the keys that were read while a transaction was changing them.      *)
(***************************************************************************)
EXTENDS PluginStore, TLAPS

\* An entity is a map of some of the attributes, and any such map is an entity.
LEMMA EntityIs ==
    ASSUME NEW e \in Entity, NEW S \in SUBSET DOMAIN e
    PROVE  /\ e = [f \in DOMAIN e |-> e[f]]
           /\ [f \in S |-> e[f]] \in Entity
<1> DEFINE A == UNION {DOMAIN data : data \in Saved}
           V == UNION {Range(data) : data \in Saved}
<1>1. PICK D \in SUBSET A : e \in [D -> V]
  BY DEF Entity
<1>2. S \subseteq A /\ [f \in S |-> e[f]] \in [S -> V]
  BY <1>1
<1>3. QED
  BY <1>1, <1>2 DEF Entity

\* merge gives an entity (Entity::merge).
LEMMA MergeIs ==
    ASSUME NEW e \in Entity, NEW u \in Entity
    PROVE  /\ merge(e, u) \in Entity
           /\ DOMAIN merge(e, u) = DOMAIN e \cup DOMAIN u
           /\ \A f \in DOMAIN u : merge(e, u)[f] = u[f]
           /\ \A f \in DOMAIN e \ DOMAIN u : merge(e, u)[f] = e[f]
<1> DEFINE A == UNION {DOMAIN data : data \in Saved}
           V == UNION {Range(data) : data \in Saved}
<1>1. PICK D \in SUBSET A : e \in [D -> V]
  BY DEF Entity
<1>2. PICK C \in SUBSET A : u \in [C -> V]
  BY DEF Entity
<1> HIDE DEF A, V
<1>3. merge(e, u) \in [D \cup C -> V]
  BY <1>1, <1>2 DEF merge
<1>4. D \cup C \in SUBSET A
  OBVIOUS
<1>5. merge(e, u) \in Entity
  BY <1>3, <1>4 DEF Entity, A, V
<1>6. QED
  BY <1>5 DEF merge

\* The attributes that an update leaves, and their values
\* (Entity::merge_remove_null_fields).
Kept(e, u) == {f \in DOMAIN e \cup DOMAIN u : f \in DOMAIN u => u[f] # Null}

\* merge_remove_null_fields gives an entity.
LEMMA RemoveIs ==
    ASSUME NEW e \in Entity, NEW u \in Entity
    PROVE  /\ merge_remove_null_fields(e, u) \in Entity
           /\ DOMAIN merge_remove_null_fields(e, u) = Kept(e, u)
           /\ \A f \in Kept(e, u) : merge_remove_null_fields(e, u)[f]
                                      = IF f \in DOMAIN u THEN u[f] ELSE e[f]
<1> DEFINE m == merge(e, u)
           S == {f \in DOMAIN m : f \in DOMAIN u => u[f] # Null}
<1>1. /\ m \in Entity
      /\ DOMAIN m = DOMAIN e \cup DOMAIN u
      /\ \A f \in DOMAIN u : m[f] = u[f]
      /\ \A f \in DOMAIN e \ DOMAIN u : m[f] = e[f]
  BY MergeIs
<1>2. merge_remove_null_fields(e, u) = [f \in S |-> m[f]]
  BY DEF merge_remove_null_fields, Restrict
<1>3. S \in SUBSET DOMAIN m /\ S = Kept(e, u)
  BY <1>1 DEF Kept
<1> HIDE DEF m, S
<1>4. [f \in S |-> m[f]] \in Entity
  BY <1>1, <1>3, EntityIs
<1>5. QED
  BY <1>1, <1>2, <1>3, <1>4 DEF Kept

\* Entity::new is an entity, without attributes.
LEMMA NoEntityIs ==
    ASSUME NEW e \in Entity PROVE NoEntity \in Entity /\ DOMAIN NoEntity = {}
<1> DEFINE A == UNION {DOMAIN data : data \in Saved}
           V == UNION {Range(data) : data \in Saved}
<1>1. NoEntity \in [{} -> V] /\ {} \in SUBSET A
  BY DEF NoEntity
<1>2. QED
  BY <1>1 DEF Entity, NoEntity

\* Two entities with the same attributes and values are one.
LEMMA SameEntity ==
    ASSUME NEW e \in Entity, NEW d \in Entity, DOMAIN e = DOMAIN d,
           \A f \in DOMAIN e : e[f] = d[f]
    PROVE  e = d
<1>1. e = [f \in DOMAIN e |-> e[f]] /\ d = [f \in DOMAIN d |-> d[f]]
  BY EntityIs
<1>2. QED
  BY <1>1

\* The content of an entity: its attributes that have a value.
LEMMA ContentIs ==
    ASSUME NEW e \in Entity
    PROVE  /\ Content(e) = merge_remove_null_fields(NoEntity, e)
           /\ Content(e) \in Entity
           /\ Content(e) # Absent
           /\ DOMAIN Content(e) = {f \in DOMAIN e : e[f] # Null}
           /\ \A f \in DOMAIN Content(e) : Content(e)[f] = e[f]
<1>1. e # Absent /\ NoEntity \in Entity /\ DOMAIN NoEntity = {}
  BY NoEntityIs, PluginAssumption
<1>2. Content(e) = merge_remove_null_fields(NoEntity, e)
  BY <1>1 DEF Content
<1>3. /\ Content(e) \in Entity
      /\ DOMAIN Content(e) = Kept(NoEntity, e)
      /\ \A f \in Kept(NoEntity, e) : Content(e)[f] = IF f \in DOMAIN e THEN e[f] ELSE NoEntity[f]
  BY <1>1, <1>2, RemoveIs
<1>4. Kept(NoEntity, e) = {f \in DOMAIN e : e[f] # Null}
  BY <1>1 DEF Kept
<1>5. QED
  BY <1>1, <1>2, <1>3, <1>4, PluginAssumption

\* Removing the nulls of an entity does not change its content.
LEMMA ContentTwice ==
    ASSUME NEW e \in Entity
    PROVE  Content(merge_remove_null_fields(NoEntity, e)) = Content(e)
<1> DEFINE d == Content(e)
<1>1. /\ d = merge_remove_null_fields(NoEntity, e)
      /\ d \in Entity
      /\ DOMAIN d = {f \in DOMAIN e : e[f] # Null}
      /\ \A f \in DOMAIN d : d[f] = e[f]
  BY ContentIs
<1> HIDE DEF d
<1>2. /\ Content(d) \in Entity
      /\ DOMAIN Content(d) = {f \in DOMAIN d : d[f] # Null}
      /\ \A f \in DOMAIN Content(d) : Content(d)[f] = d[f]
  BY <1>1, ContentIs
<1>3. DOMAIN Content(d) = DOMAIN d
  BY <1>1, <1>2
<1>4. Content(d) = d
  BY <1>1, <1>2, <1>3, SameEntity
<1>5. QED
  BY <1>1, <1>4 DEF d

\* Entities with the same values have the same content, and the other way round.
LEMMA SameContent ==
    ASSUME NEW e \in Entity, NEW d \in Entity
    PROVE  (Content(e) = Content(d)) <=>
             (/\ \A f \in DOMAIN e : e[f] # Null => f \in DOMAIN d /\ d[f] = e[f]
              /\ \A f \in DOMAIN d : d[f] # Null => f \in DOMAIN e /\ e[f] = d[f])
<1>1. /\ Content(e) \in Entity
      /\ DOMAIN Content(e) = {f \in DOMAIN e : e[f] # Null}
      /\ \A f \in DOMAIN Content(e) : Content(e)[f] = e[f]
  BY ContentIs
<1>2. /\ Content(d) \in Entity
      /\ DOMAIN Content(d) = {f \in DOMAIN d : d[f] # Null}
      /\ \A f \in DOMAIN Content(d) : Content(d)[f] = d[f]
  BY ContentIs
<1>3. ASSUME Content(e) = Content(d)
      PROVE  /\ \A f \in DOMAIN e : e[f] # Null => f \in DOMAIN d /\ d[f] = e[f]
             /\ \A f \in DOMAIN d : d[f] # Null => f \in DOMAIN e /\ e[f] = d[f]
  BY <1>1, <1>2, <1>3
<1>4. ASSUME /\ \A f \in DOMAIN e : e[f] # Null => f \in DOMAIN d /\ d[f] = e[f]
             /\ \A f \in DOMAIN d : d[f] # Null => f \in DOMAIN e /\ e[f] = d[f]
      PROVE  Content(e) = Content(d)
  <2>1. DOMAIN Content(e) = DOMAIN Content(d)
    BY <1>1, <1>2, <1>4
  <2>2. \A f \in DOMAIN Content(e) : Content(e)[f] = Content(d)[f]
    BY <1>1, <1>2, <1>4, <2>1
  <2>3. QED
    BY <1>1, <1>2, <2>1, <2>2, SameEntity
<1>5. QED
  BY <1>3, <1>4

\* What an update makes of an entity depends on its content only.
LEMMA ContentMerge ==
    ASSUME NEW e \in Entity, NEW d \in Entity, NEW u \in Entity, Content(e) = Content(d)
    PROVE  Content(merge_remove_null_fields(e, u)) = Content(merge_remove_null_fields(d, u))
<1> DEFINE m == merge_remove_null_fields(e, u)
           n == merge_remove_null_fields(d, u)
<1>1. /\ m \in Entity
      /\ DOMAIN m = Kept(e, u)
      /\ \A f \in Kept(e, u) : m[f] = IF f \in DOMAIN u THEN u[f] ELSE e[f]
  BY RemoveIs
<1>2. /\ n \in Entity
      /\ DOMAIN n = Kept(d, u)
      /\ \A f \in Kept(d, u) : n[f] = IF f \in DOMAIN u THEN u[f] ELSE d[f]
  BY RemoveIs
<1> HIDE DEF m, n
<1>3. /\ \A f \in DOMAIN e : e[f] # Null => f \in DOMAIN d /\ d[f] = e[f]
      /\ \A f \in DOMAIN d : d[f] # Null => f \in DOMAIN e /\ e[f] = d[f]
  BY SameContent
<1>4. \A f \in DOMAIN m : m[f] # Null => f \in DOMAIN n /\ n[f] = m[f]
  BY <1>1, <1>2, <1>3 DEF Kept
<1>5. \A f \in DOMAIN n : n[f] # Null => f \in DOMAIN m /\ m[f] = n[f]
  BY <1>1, <1>2, <1>3 DEF Kept
<1>6. Content(m) = Content(n)
  BY <1>1, <1>2, <1>4, <1>5, SameContent
<1>7. QED
  BY <1>6 DEF m, n

\* An update of an update, taken as one, leaves the same content.
LEMMA MergeOfUpdates ==
    ASSUME NEW u \in Entity, NEW data \in Entity
    PROVE  Content(merge(u, data)) = Content(merge_remove_null_fields(u, data))
<1> DEFINE m == merge(u, data)
           n == merge_remove_null_fields(u, data)
<1>1. /\ m \in Entity
      /\ DOMAIN m = DOMAIN u \cup DOMAIN data
      /\ \A f \in DOMAIN data : m[f] = data[f]
      /\ \A f \in DOMAIN u \ DOMAIN data : m[f] = u[f]
  BY MergeIs
<1>2. /\ n \in Entity
      /\ DOMAIN n = Kept(u, data)
      /\ \A f \in Kept(u, data) : n[f] = IF f \in DOMAIN data THEN data[f] ELSE u[f]
  BY RemoveIs
<1> HIDE DEF m, n
<1>3. \A f \in DOMAIN m : m[f] # Null => f \in DOMAIN n /\ n[f] = m[f]
  BY <1>1, <1>2 DEF Kept
<1>4. \A f \in DOMAIN n : n[f] # Null => f \in DOMAIN m /\ m[f] = n[f]
  BY <1>1, <1>2 DEF Kept
<1>5. Content(m) = Content(n)
  BY <1>1, <1>2, <1>3, <1>4, SameContent
<1>6. QED
  BY <1>5 DEF m, n

\* The two updates on a stored entity, one by one and as one.
LEMMA RemoveTwice ==
    ASSUME NEW e \in Entity, NEW u \in Entity, NEW data \in Entity
    PROVE  merge_remove_null_fields(e, merge(u, data))
             = merge_remove_null_fields(merge_remove_null_fields(e, u), data)
<1> DEFINE m == merge(u, data)
           n == merge_remove_null_fields(e, u)
           x == merge_remove_null_fields(e, m)
           y == merge_remove_null_fields(n, data)
<1>1. /\ m \in Entity
      /\ DOMAIN m = DOMAIN u \cup DOMAIN data
      /\ \A f \in DOMAIN data : m[f] = data[f]
      /\ \A f \in DOMAIN u \ DOMAIN data : m[f] = u[f]
  BY MergeIs
<1>2. /\ n \in Entity
      /\ DOMAIN n = Kept(e, u)
      /\ \A f \in Kept(e, u) : n[f] = IF f \in DOMAIN u THEN u[f] ELSE e[f]
  BY RemoveIs
<1> HIDE DEF m, n
<1>3. /\ x \in Entity
      /\ DOMAIN x = Kept(e, m)
      /\ \A f \in Kept(e, m) : x[f] = IF f \in DOMAIN m THEN m[f] ELSE e[f]
  BY <1>1, RemoveIs
<1>4. /\ y \in Entity
      /\ DOMAIN y = Kept(n, data)
      /\ \A f \in Kept(n, data) : y[f] = IF f \in DOMAIN data THEN data[f] ELSE n[f]
  BY <1>2, RemoveIs
<1> HIDE DEF x, y
<1>5. Kept(e, m) = Kept(n, data)
  BY <1>1, <1>2 DEF Kept
<1>6. \A f \in Kept(e, m) : x[f] = y[f]
  BY <1>1, <1>2, <1>3, <1>4, <1>5 DEF Kept
<1>7. x = y
  BY <1>3, <1>4, <1>5, <1>6, SameEntity
<1>8. QED
  BY <1>7 DEF x, y, m, n

\* What the store and the cache hold of an entity is an entity or none.
LEMMA ApplyTyped ==
    ASSUME NEW u \in Entity \cup {None}, NEW e \in Entity \cup {Absent}
    PROVE  apply_to(u, e) \in Entity \cup {Absent}
<1>1. CASE u = None
  BY <1>1 DEF apply_to
<1>2. CASE u # None /\ e = Absent
  BY <1>2 DEF apply_to
<1>3. CASE u # None /\ e # Absent
  <2>1. apply_to(u, e) = merge_remove_null_fields(e, u)
    BY <1>3 DEF apply_to
  <2>2. QED
    BY <1>3, <2>1, RemoveIs
<1>4. QED
  BY <1>1, <1>2, <1>3

\* The entity an update finds: none is one without attributes.
Or(e) == IF e = Absent THEN NoEntity ELSE e

\* accumulate: the accumulated update has the effect of its updates, one after
\* the other (EntityOp::accumulate and apply_to).
LEMMA AccumulateIs ==
    ASSUME NEW u \in Entity \cup {None}, NEW e \in Entity \cup {Absent}, NEW data \in Entity
    PROVE  /\ accumulate(u, data) \in Entity
           /\ Content(apply_to(accumulate(u, data), e))
                = Content(merge_remove_null_fields(Or(apply_to(u, e)), data))
<1>0. /\ data # None /\ data # Absent
      /\ \A x \in Entity : x # None /\ x # Absent
  BY PluginAssumption
<1>1. CASE u = None
  <2>1. accumulate(u, data) = data /\ apply_to(u, e) = e
    BY <1>1 DEF accumulate, apply_to
  <2>2. CASE e = Absent
    <3>1. apply_to(data, e) = data
      BY <1>0, <2>2 DEF apply_to
    <3>2. Or(e) = NoEntity
      BY <2>2 DEF Or
    <3>3. Content(merge_remove_null_fields(NoEntity, data)) = Content(data)
      BY ContentTwice
    <3>4. QED
      BY <2>1, <3>1, <3>2, <3>3
  <2>3. CASE e # Absent
    <3>1. apply_to(data, e) = merge_remove_null_fields(e, data)
      BY <1>0, <2>3 DEF apply_to
    <3>2. QED
      BY <2>1, <2>3, <3>1 DEF Or
  <2>4. QED
    BY <2>2, <2>3
<1>2. CASE u # None
  <2>0. u \in Entity
    BY <1>2
  <2>1. accumulate(u, data) = merge(u, data) /\ merge(u, data) \in Entity
    BY <1>2, <2>0, MergeIs DEF accumulate
  <2>2. merge(u, data) # None
    BY <1>0, <2>1
  <2>3. CASE e = Absent
    <3>1. apply_to(merge(u, data), e) = merge(u, data) /\ apply_to(u, e) = u
      BY <1>2, <2>2, <2>3 DEF apply_to
    <3>2. Or(u) = u
      BY <1>0, <2>0 DEF Or
    <3>3. QED
      BY <2>0, <2>1, <3>1, <3>2, MergeOfUpdates
  <2>4. CASE e # Absent
    <3>1. /\ apply_to(merge(u, data), e) = merge_remove_null_fields(e, merge(u, data))
          /\ apply_to(u, e) = merge_remove_null_fields(e, u)
      BY <1>2, <2>2, <2>4 DEF apply_to
    <3>2. merge_remove_null_fields(e, u) \in Entity
      BY <2>0, <2>4, RemoveIs
    <3>3. Or(apply_to(u, e)) = merge_remove_null_fields(e, u)
      BY <1>0, <3>1, <3>2 DEF Or
    <3>4. QED
      BY <2>0, <2>1, <2>4, <3>1, <3>3, RemoveTwice
  <2>5. QED
    BY <2>3, <2>4
<1>3. QED
  BY <1>1, <1>2

\* A save has the same effect on two entities with the same content.
LEMMA SaveIs ==
    ASSUME NEW e \in Entity \cup {Absent}, NEW d \in Entity \cup {Absent}, NEW data \in Entity,
           Content(e) = Content(d)
    PROVE  /\ merge_remove_null_fields(Or(e), data) \in Entity
           /\ Content(merge_remove_null_fields(Or(e), data))
                = Content(merge_remove_null_fields(Or(d), data))
<1>1. Content(Absent) = Absent /\ \A x \in Entity : Content(x) # Absent
  BY ContentIs DEF Content
<1>2. (e = Absent) <=> (d = Absent)
  BY <1>1
<1>3. CASE e = Absent
  <2>1. Or(e) = NoEntity /\ Or(d) = NoEntity /\ NoEntity \in Entity
    BY <1>2, <1>3, NoEntityIs DEF Or
  <2>2. QED
    BY <2>1, RemoveIs
<1>4. CASE e # Absent
  <2>1. Or(e) = e /\ Or(d) = d /\ e \in Entity /\ d \in Entity
    BY <1>2, <1>4 DEF Or
  <2>2. QED
    BY <2>1, RemoveIs, ContentMerge
<1>5. QED
  BY <1>3, <1>4
-----------------------------------------------------------------------------
(* The table. *)

\* The current version of an entity in a table.
Found(T, k) ==
    IF \E r \in T : r.key = k /\ Open(r)
    THEN (CHOOSE r \in T : r.key = k /\ Open(r)).data
    ELSE Absent

\* FindQuery answers the current version, or none.
LEMMA FoundIs ==
    ASSUME NEW T \in SUBSET Version, OneOpenIn(T), NEW k \in EntityKey
    PROVE  /\ \A r \in T : r.key = k /\ Open(r) => Found(T, k) = r.data
           /\ (\A r \in T : ~(r.key = k /\ Open(r))) => Found(T, k) = Absent
           /\ Found(T, k) \in Entity \cup {Absent}
<1>1. CASE \E r \in T : r.key = k /\ Open(r)
  <2> DEFINE q == CHOOSE r \in T : r.key = k /\ Open(r)
  <2>1. q \in T /\ q.key = k /\ Open(q)
    BY <1>1
  <2>2. Found(T, k) = q.data
    BY <1>1 DEF Found
  <2> HIDE DEF q
  <2>3. q.data \in Entity
    BY <2>1 DEF Version
  <2>4. QED
    BY <1>1, <2>1, <2>2, <2>3 DEF OneOpenIn
<1>2. CASE ~ \E r \in T : r.key = k /\ Open(r)
  BY <1>2 DEF Found
<1>3. QED
  BY <1>1, <1>2

\* A table that holds the same versions of an entity answers the same.
LEMMA FoundSame ==
    ASSUME NEW T \in SUBSET Version, OneOpenIn(T), NEW S \in SUBSET Version, OneOpenIn(S),
           NEW k \in EntityKey, \A r \in Version : r.key = k => (r \in S <=> r \in T)
    PROVE  Found(S, k) = Found(T, k)
<1>1. CASE \E r \in T : r.key = k /\ Open(r)
  <2>1. PICK r \in T : r.key = k /\ Open(r)
    BY <1>1
  <2>2. r \in S
    BY <2>1
  <2>3. QED
    BY <2>1, <2>2, FoundIs
<1>2. CASE \A r \in T : ~(r.key = k /\ Open(r))
  <2>1. \A r \in S : ~(r.key = k /\ Open(r))
    BY <1>2
  <2>2. QED
    BY <1>2, <2>1, FoundIs
<1>3. QED
  BY <1>1, <1>2

PluginTyped ==
    /\ rows \subseteq Version
    /\ current \in [EntityKey -> Entity \cup {Absent, Uncached}]
    /\ updates \in [EntityKey -> Entity \cup {None}]
    /\ handling \in [Caller -> Slots \cup {None}]
    /\ flushing \in Transaction \cup {None}
    /\ wanted \in [EntityKey -> Entity \cup {Absent}]
    /\ stale \subseteq EntityKey

\* What was read into the cache is what the store holds, unless it was read while
\* a transaction was changing it (get_current_entity, flush).
CachedIsStored ==
    \A k \in EntityKey \ stale : current[k] # Uncached =>
        /\ current[k] = Find(k)
        /\ flushing # None => flushing.mods[k] = None

PluginInv == PluginTyped /\ OneOpenIn(rows) /\ CachedIsStored /\ SavesSurvive
\* Find, on the rows.
LEMMA FindIs == ASSUME NEW k PROVE Find(k) = Found(rows, k)
BY DEF Find, Found

\* The entities of the store, and of the transaction under way.
LEMMA StoredTyped ==
    ASSUME PluginTyped, OneOpenIn(rows), NEW k \in EntityKey
    PROVE  /\ Find(k) \in Entity \cup {Absent}
           /\ Stored(k) \in Entity \cup {Absent}
<1>1. Find(k) \in Entity \cup {Absent}
  BY FindIs, FoundIs DEF PluginTyped
<1>2. ASSUME flushing # None, flushing.mods[k] # None
      PROVE  flushing.mods[k].data \in Entity
  BY <1>2 DEF PluginTyped, Transaction, Modification
<1>3. QED
  BY <1>1, <1>2 DEF Stored

\* At the start there is nothing.
LEMMA PluginInitInv == PluginInit => PluginInv
<1> SUFFICES ASSUME PluginInit PROVE PluginInv
  OBVIOUS
<1>1. PluginTyped /\ OneOpenIn(rows) /\ CachedIsStored
  BY DEF PluginInit, PluginTyped, OneOpenIn, CachedIsStored
<1>2. \A k \in EntityKey : Stored(k) = Absent
  BY DEF PluginInit, Stored, Find
<1>3. SavesSurvive
  BY <1>2 DEF PluginInit, SavesSurvive, apply_to
<1>4. QED
  BY <1>1, <1>3 DEF PluginInv

\* A caller that turns to a block touches neither cache nor table.
LEMMA BeginInv ==
    ASSUME PluginInv, NEW c \in Caller, NEW s \in Slots, Begin(c, s)
    PROVE  PluginInv'
<1>1. PluginTyped'
  BY DEF PluginInv, PluginTyped, Begin, cache
<1>2. \A k : Find(k)' = Find(k) /\ Stored(k)' = Stored(k)
  BY DEF Begin, Find, Stored
<1>3. OneOpenIn(rows)' /\ CachedIsStored' /\ SavesSurvive'
  BY <1>2 DEF PluginInv, OneOpenIn, CachedIsStored, SavesSurvive, Begin, cache
<1>4. QED
  BY <1>1, <1>3 DEF PluginInv

\* save adds to the update what the history variable adds to the entity.
LEMMA SaveInv ==
    ASSUME PluginInv, NEW c \in Caller, NEW k \in EntityKey, NEW data \in Saved, save(c, k, data)
    PROVE  PluginInv'
<1>0. data \in Entity /\ PluginTyped /\ OneOpenIn(rows)
  BY PluginAssumption DEF PluginInv
<1>1. /\ updates' = [updates EXCEPT ![k] = accumulate(updates[k], data)]
      /\ wanted' = [wanted EXCEPT ![k] = merge_remove_null_fields(Or(wanted[k]), data)]
      /\ UNCHANGED <<rows, current, handling, flushing, stale>>
  BY DEF save, Or
<1>2. updates[k] \in Entity \cup {None} /\ wanted[k] \in Entity \cup {Absent}
  BY <1>0 DEF PluginTyped
<1>3. accumulate(updates[k], data) \in Entity
  BY <1>0, <1>2, AccumulateIs
<1>4. merge_remove_null_fields(Or(wanted[k]), data) \in Entity
  BY <1>0, <1>2, SaveIs
<1>5. PluginTyped'
  BY <1>0, <1>1, <1>3, <1>4 DEF PluginTyped
<1>6. \A j : Find(j)' = Find(j) /\ Stored(j)' = Stored(j)
  BY <1>1 DEF Find, Stored
<1>7. OneOpenIn(rows)' /\ CachedIsStored'
  BY <1>1, <1>6 DEF PluginInv, OneOpenIn, CachedIsStored
<1>8. ASSUME NEW j \in EntityKey \ stale
      PROVE  Content(apply_to(updates'[j], Stored(j))) = Content(wanted'[j])
  <2>1. Content(apply_to(updates[j], Stored(j))) = Content(wanted[j])
    BY DEF PluginInv, SavesSurvive
  <2>2. CASE j # k
    BY <1>0, <1>1, <2>1, <2>2 DEF PluginTyped
  <2>3. CASE j = k
    <3>1. /\ updates'[k] = accumulate(updates[k], data)
          /\ wanted'[k] = merge_remove_null_fields(Or(wanted[k]), data)
      BY <1>0, <1>1 DEF PluginTyped
    <3>2. Stored(k) \in Entity \cup {Absent}
      BY <1>0, StoredTyped
    <3>3. apply_to(updates[k], Stored(k)) \in Entity \cup {Absent}
      BY <1>2, <3>2, ApplyTyped
    <3>4. Content(merge_remove_null_fields(Or(apply_to(updates[k], Stored(k))), data))
            = Content(merge_remove_null_fields(Or(wanted[k]), data))
      BY <1>0, <1>2, <2>1, <2>3, <3>3, SaveIs
    <3>5. Content(apply_to(accumulate(updates[k], data), Stored(k)))
            = Content(merge_remove_null_fields(Or(apply_to(updates[k], Stored(k))), data))
      BY <1>0, <1>2, <3>2, AccumulateIs
    <3>6. QED
      BY <2>3, <3>1, <3>4, <3>5
  <2>4. QED
    BY <2>2, <2>3
<1>9. SavesSurvive'
  BY <1>1, <1>6, <1>8 DEF SavesSurvive
<1>10. QED
  BY <1>5, <1>7, <1>9 DEF PluginInv

\* A miss keeps what the store holds; while a transaction changes the entity the
\* key is stale.
LEMMA GetInv ==
    ASSUME PluginInv, NEW c \in Caller, NEW k \in EntityKey, get(c, k)
    PROVE  PluginInv'
<1>0. PluginTyped /\ OneOpenIn(rows)
  BY DEF PluginInv
<1>1. Find(k) \in Entity \cup {Absent}
  BY <1>0, StoredTyped
<1>2. PluginTyped'
  BY <1>0, <1>1 DEF PluginTyped, get
<1>3. \A j : Find(j)' = Find(j) /\ Stored(j)' = Stored(j)
  BY DEF get, Find, Stored
<1>4. stale \subseteq stale'
  BY DEF get
<1>5. OneOpenIn(rows)' /\ SavesSurvive'
  BY <1>3, <1>4 DEF PluginInv, OneOpenIn, SavesSurvive, get
<1>6. ASSUME NEW j \in EntityKey \ stale', current'[j] # Uncached
      PROVE  current'[j] = Find(j) /\ (flushing # None => flushing.mods[j] = None)
  <2>1. CASE j = k
    <3>1. current'[k] = Find(k)
      BY <1>0 DEF PluginTyped, get
    <3>2. flushing # None => flushing.mods[k] = None
      BY <1>6, <2>1 DEF get
    <3>3. QED
      BY <2>1, <3>1, <3>2
  <2>2. CASE j # k
    <3>1. current'[j] = current[j]
      BY <1>0, <2>2 DEF PluginTyped, get
    <3>2. QED
      BY <1>4, <1>6, <3>1 DEF PluginInv, CachedIsStored
  <2>3. QED
    BY <2>1, <2>2
<1>7. CachedIsStored'
  <2>1. flushing' = flushing
    BY DEF get
  <2>2. QED
    BY <1>3, <1>6, <2>1 DEF CachedIsStored
<1>8. QED
  BY <1>2, <1>5, <1>7 DEF PluginInv
\* as_modifications gives modifications, and what they leave of an entity is what
\* the update makes of the stored one.
LEMMA ModificationIs ==
    ASSUME PluginInv, NEW k \in EntityKey
    PROVE  /\ as_modifications(k) \in Modification \cup {None}
           /\ k \notin stale =>
                Content(IF as_modifications(k) # None THEN as_modifications(k).data ELSE Find(k))
                  = Content(apply_to(updates[k], Find(k)))
<1> DEFINE cur == IF current[k] = Uncached THEN Find(k) ELSE current[k]
           u == updates[k]
           m == as_modifications(k)
<1>1. cur \in Entity \cup {Absent} /\ u \in Entity \cup {None}
  BY StoredTyped DEF PluginInv, PluginTyped
<1>2. k \notin stale => cur = Find(k)
  BY DEF PluginInv, CachedIsStored
<1>3. \A d \in Entity : /\ [kind |-> "Insert", data |-> d] \in Modification
                        /\ [kind |-> "Overwrite", data |-> d] \in Modification
                        /\ [kind |-> "Insert", data |-> d] # None
                        /\ [kind |-> "Overwrite", data |-> d] # None
  BY PluginAssumption DEF Modification
<1>4. CASE u = None
  BY <1>4 DEF as_modifications, apply_to
<1>5. CASE u # None /\ cur = Absent
  <2> DEFINE d == merge_remove_null_fields(NoEntity, u)
  <2>1. m = [kind |-> "Insert", data |-> d]
    BY <1>5 DEF as_modifications
  <2>2. d \in Entity /\ Content(d) = Content(u)
    BY <1>1, <1>5, NoEntityIs, RemoveIs, ContentTwice
  <2>3. k \notin stale => apply_to(u, Find(k)) = u
    BY <1>2, <1>5 DEF apply_to
  <2> HIDE DEF d, m
  <2>4. m \in Modification /\ m # None /\ m.data = d
    BY <1>3, <2>1, <2>2
  <2>5. QED
    BY <2>2, <2>3, <2>4 DEF m
<1>6. CASE u # None /\ cur # Absent
  <2> DEFINE d == merge_remove_null_fields(cur, u)
  <2>1. m = IF d = cur THEN None ELSE [kind |-> "Overwrite", data |-> d]
    BY <1>6 DEF as_modifications
  <2>2. d \in Entity
    BY <1>1, <1>6, RemoveIs
  <2>3. k \notin stale => apply_to(u, Find(k)) = d
    BY <1>2, <1>6 DEF apply_to
  <2> HIDE DEF d, m
  <2>4. CASE d = cur
    <3>1. m = None
      BY <2>1, <2>4
    <3>2. QED
      BY <1>2, <2>3, <2>4, <3>1 DEF m
  <2>5. CASE d # cur
    <3>1. m \in Modification /\ m # None /\ m.data = d
      BY <1>3, <2>1, <2>2, <2>5
    <3>2. QED
      BY <2>3, <3>1 DEF m
  <2>6. QED
    BY <2>4, <2>5
<1>7. QED
  BY <1>4, <1>5, <1>6

\* flush moves the updates into the transaction, or finds that they change nothing.
LEMMA FlushSharedInv ==
    ASSUME PluginInv, NEW c \in Caller, shared, flush(c)
    PROVE  PluginInv'
<1> DEFINE mods == [k \in EntityKey |-> as_modifications(k)]
           t == [by |-> c, block |-> handling[c], mods |-> mods]
<1>0. PluginTyped /\ OneOpenIn(rows)
  BY DEF PluginInv
<1>1. \A k \in EntityKey : as_modifications(k) \in Modification \cup {None}
  BY ModificationIs
<1>2. handling[c] \in Slots
  BY <1>0 DEF PluginTyped, flush, InHandler
<1>3. t \in Transaction
  BY <1>1, <1>2 DEF Transaction
<1>4. /\ \/ flushing' = t /\ UNCHANGED handling
         \/ /\ \A k \in EntityKey : mods[k] = None
            /\ handling' = [handling EXCEPT ![c] = None]
            /\ flushing' = None
      /\ updates' = [k \in EntityKey |-> None]
      /\ current' = [k \in EntityKey |-> Uncached]
      /\ flushing = None
      /\ UNCHANGED <<rows, wanted, stale>>
  BY DEF flush
<1> HIDE DEF mods
<1>5. t # None /\ t.mods = mods
  BY <1>3, PluginAssumption
<1>6. PluginTyped'
  <2>1. handling' \in [Caller -> Slots \cup {None}]
    BY <1>0, <1>4 DEF PluginTyped
  <2>2. flushing' \in Transaction \cup {None}
    BY <1>3, <1>4
  <2>3. QED
    BY <1>0, <1>4, <2>1, <2>2 DEF PluginTyped
<1>7. \A k : Find(k)' = Find(k)
  BY <1>4 DEF Find
<1>8. OneOpenIn(rows)' /\ CachedIsStored'
  BY <1>0, <1>4 DEF OneOpenIn, CachedIsStored
<1>9. ASSUME NEW k \in EntityKey \ stale
      PROVE  Content(apply_to(updates'[k], Stored(k)')) = Content(wanted[k])
  <2>1. Stored(k) = Find(k)
    BY <1>4 DEF Stored
  <2>2. Content(apply_to(updates[k], Find(k))) = Content(wanted[k])
    BY <2>1 DEF PluginInv, SavesSurvive
  <2>3. mods[k] = as_modifications(k)
    BY DEF mods
  <2>4. Stored(k)' = IF mods[k] # None THEN mods[k].data ELSE Find(k)
    <3>1. CASE flushing' = t
      BY <1>5, <1>7, <3>1 DEF Stored
    <3>2. CASE flushing' = None /\ mods[k] = None
      BY <1>7, <3>2 DEF Stored
    <3>3. QED
      BY <1>4, <3>1, <3>2
  <2>5. apply_to(updates'[k], Stored(k)') = Stored(k)'
    BY <1>4 DEF apply_to
  <2>6. QED
    BY <2>2, <2>3, <2>4, <2>5, ModificationIs
<1>10. SavesSurvive'
  BY <1>4, <1>9 DEF SavesSurvive
<1>11. QED
  BY <1>6, <1>8, <1>10 DEF PluginInv

\* A flush of a store that the plugin does not save to leaves cache and table.
LEMMA FlushInv ==
    ASSUME PluginInv, NEW c \in Caller, flush(c)
    PROVE  PluginInv'
<1>1. CASE shared
  BY <1>1, FlushSharedInv
<1>2. CASE ~shared
  <2>1. /\ handling' = [handling EXCEPT ![c] = None]
        /\ UNCHANGED <<rows, current, updates, flushing, wanted, stale>>
    BY <1>2 DEF flush, cache
  <2>2. PluginTyped'
    BY <2>1 DEF PluginInv, PluginTyped
  <2>3. \A k : Find(k)' = Find(k) /\ Stored(k)' = Stored(k)
    BY <2>1 DEF Find, Stored
  <2>4. OneOpenIn(rows)' /\ CachedIsStored' /\ SavesSurvive'
    BY <2>1, <2>3 DEF PluginInv, OneOpenIn, CachedIsStored, SavesSurvive
  <2>5. QED
    BY <2>2, <2>4 DEF PluginInv
<1>3. QED
  BY <1>1, <1>2

\* What a transaction that commits leaves in the table: one current version of an
\* entity, the new one where it has one, and nothing else is touched
\* (apply_entity_modifications, the exclusion constraint).
LEMMA CommitIs ==
    ASSUME PluginTyped, OneOpenIn(rows), NEW t \in Transaction, Accepted(t.mods, t.block)
    PROVE  LET after == apply_entity_modifications(t.mods, t.block)
           IN  /\ after \subseteq Version
               /\ OneOpenIn(after)
               /\ \A k \in EntityKey : t.mods[k] # None => Found(after, k) = t.mods[k].data
               /\ \A k \in EntityKey : t.mods[k] = None => Found(after, k) = Found(rows, k)
<1> DEFINE after == apply_entity_modifications(t.mods, t.block)
           keys == {k \in EntityKey : t.mods[k] # None /\ t.mods[k].kind = "Overwrite"}
           Clamped(r) == IF r.key \in keys /\ Open(r) THEN [r EXCEPT !.hi = t.block] ELSE r
           New(k) == InsertQuery(k, t.mods[k].data, t.block)
<1>0. LastSlot \in Nat
  BY PluginAssumption
<1>1. /\ t.block \in Slots
      /\ \A k \in EntityKey : t.mods[k] # None => t.mods[k] \in Modification
  BY DEF Transaction
<1>2. after = {Clamped(r) : r \in rows} \cup {New(k) : k \in {j \in EntityKey : t.mods[j] # None}}
  BY DEF apply_entity_modifications, ClampRangeQuery
<1>3. \A r \in rows : r \in Version /\ Clamped(r) \in Version /\ Clamped(r).key = r.key
  BY <1>0, <1>1 DEF PluginTyped, Version, Slots, Infinity
<1>4. \A k \in EntityKey : t.mods[k] # None =>
         New(k) \in Version /\ Open(New(k)) /\ New(k).key = k /\ New(k).data = t.mods[k].data
  BY <1>0, <1>1 DEF InsertQuery, Version, Slots, Infinity, Open, Modification
<1> HIDE DEF keys, New
<1>5. after \subseteq Version
  BY <1>2, <1>3, <1>4
<1>6. \A r, q \in after : r # q /\ r.key = q.key => ~Overlap(r, q)
  BY DEF Accepted
<1>7. OneOpenIn(after)
  BY <1>0, <1>5, <1>6 DEF OneOpenIn, Open, Overlap, Version, Slots, Infinity
<1>8. ASSUME NEW k \in EntityKey, t.mods[k] # None PROVE Found(after, k) = t.mods[k].data
  <2>1. New(k) \in after
    BY <1>2, <1>8
  <2> HIDE DEF after
  <2>2. QED
    BY <1>4, <1>5, <1>7, <1>8, <2>1, FoundIs
<1>9. ASSUME NEW k \in EntityKey, t.mods[k] = None PROVE Found(after, k) = Found(rows, k)
  <2>1. k \notin keys
    BY <1>9 DEF keys
  <2>2. \A r \in rows : r.key = k => Clamped(r) = r
    BY <2>1
  <2>3. ASSUME NEW r \in Version, r.key = k PROVE r \in after <=> r \in rows
    <3>1. r \in rows => r \in after
      BY <1>2, <2>2, <2>3
    <3>2. ASSUME r \in after PROVE r \in rows
      <4>1. CASE \E q \in rows : r = Clamped(q)
        <5>1. PICK q \in rows : r = Clamped(q)
          BY <4>1
        <5>2. q.key = k
          BY <1>3, <2>3, <5>1
        <5>3. QED
          BY <2>2, <5>1, <5>2
      <4>2. CASE \E j \in EntityKey : t.mods[j] # None /\ r = New(j)
        BY <1>4, <1>9, <2>3, <4>2
      <4>3. QED
        BY <1>2, <3>2, <4>1, <4>2
    <3>3. QED
      BY <3>1, <3>2
  <2> HIDE DEF after
  <2>4. rows \in SUBSET Version
    BY DEF PluginTyped
  <2>5. QED
    BY <1>5, <1>7, <2>3, <2>4, FoundSame
<1>10. QED
  BY <1>5, <1>7, <1>8, <1>9
\* A transaction that commits has become part of the table; one that fails takes
\* its modifications with it, in the history variable too.
LEMMA TransactInv ==
    ASSUME PluginInv, NEW commits \in BOOLEAN, transact_block_operations(commits)
    PROVE  PluginInv'
<1>0. PluginTyped /\ OneOpenIn(rows) /\ CachedIsStored /\ SavesSurvive
  BY DEF PluginInv
<1>1. flushing \in Transaction /\ flushing # None
  BY <1>0 DEF PluginTyped, transact_block_operations
<1>2. /\ flushing' = None
      /\ handling' = [handling EXCEPT ![flushing.by] = None]
      /\ UNCHANGED <<current, updates, stale>>
  BY DEF transact_block_operations, cache
<1>3. \A k : Stored(k)' = Find(k)'
  BY <1>2 DEF Stored
<1>4. \A k \in EntityKey : Find(k) \in Entity \cup {Absent}
  BY <1>0, StoredTyped
<1>5. handling' \in [Caller -> Slots \cup {None}]
  BY <1>0, <1>2 DEF PluginTyped
<1>6. CASE commits
  <2> DEFINE after == apply_entity_modifications(flushing.mods, flushing.block)
  <2>1. /\ Accepted(flushing.mods, flushing.block)
        /\ rows' = after
        /\ wanted' = wanted
    BY <1>6 DEF transact_block_operations
  <2>2. /\ after \subseteq Version
        /\ OneOpenIn(after)
        /\ \A k \in EntityKey : flushing.mods[k] # None => Found(after, k) = flushing.mods[k].data
        /\ \A k \in EntityKey : flushing.mods[k] = None => Found(after, k) = Found(rows, k)
    BY <1>0, <1>1, <2>1, CommitIs
  <2> HIDE DEF after
  <2>3. \A k : Find(k)' = Found(after, k)
    BY <2>1 DEF Find, Found
  <2>4. \A k \in EntityKey : Find(k)' = Stored(k)
    BY <1>1, <2>2, <2>3, FindIs DEF Stored
  <2>5. PluginTyped'
    BY <1>0, <1>2, <1>5, <2>1, <2>2 DEF PluginTyped
  <2>6. OneOpenIn(rows)'
    BY <2>1, <2>2 DEF OneOpenIn
  <2>7. CachedIsStored'
    <3>1. \A k \in EntityKey \ stale : current[k] # Uncached => current[k] = Find(k)'
      BY <1>0, <1>1, <2>2, <2>3, FindIs DEF CachedIsStored
    <3>2. QED
      BY <1>2, <3>1 DEF CachedIsStored
  <2>8. SavesSurvive'
    BY <1>0, <1>2, <1>3, <2>1, <2>4 DEF SavesSurvive
  <2>9. QED
    BY <2>5, <2>6, <2>7, <2>8 DEF PluginInv
<1>7. CASE ~commits
  <2>1. /\ rows' = rows
        /\ wanted' = [k \in EntityKey |-> IF flushing.mods[k] = None THEN wanted[k]
                                    ELSE apply_to(updates[k], Find(k))]
    BY <1>7 DEF transact_block_operations
  <2>2. \A k : Find(k)' = Find(k)
    BY <2>1 DEF Find
  <2>3. \A k \in EntityKey : apply_to(updates[k], Find(k)) \in Entity \cup {Absent}
    BY <1>0, <1>4, ApplyTyped DEF PluginTyped
  <2>4. wanted' \in [EntityKey -> Entity \cup {Absent}]
    BY <1>0, <2>1, <2>3 DEF PluginTyped
  <2>5. PluginTyped'
    BY <1>0, <1>2, <1>5, <2>1, <2>4 DEF PluginTyped
  <2>6. OneOpenIn(rows)'
    BY <1>0, <2>1 DEF OneOpenIn
  <2>7. CachedIsStored'
    BY <1>0, <1>2, <2>2 DEF CachedIsStored
  <2>8. ASSUME NEW k \in EntityKey \ stale
        PROVE  Content(apply_to(updates[k], Find(k))) = Content(wanted'[k])
    <3>1. CASE flushing.mods[k] = None
      <4>1. Stored(k) = Find(k) /\ wanted'[k] = wanted[k]
        BY <2>1, <3>1 DEF Stored
      <4>2. QED
        BY <1>0, <4>1 DEF SavesSurvive
    <3>2. CASE flushing.mods[k] # None
      BY <2>1, <3>2
    <3>3. QED
      BY <3>1, <3>2
  <2>9. SavesSurvive'
    BY <1>2, <1>3, <2>2, <2>8 DEF SavesSurvive
  <2>10. QED
    BY <2>5, <2>6, <2>7, <2>9 DEF PluginInv
<1>8. QED
  BY <1>6, <1>7

\* A new process has an empty cache and the same table.
LEMMA CrashInv ==
    ASSUME PluginInv, NEW s \in Slots, Crash(s)
    PROVE  PluginInv'
<1>0. PluginTyped /\ OneOpenIn(rows)
  BY DEF PluginInv
<1>1. \A k \in EntityKey : Find(k) \in Entity \cup {Absent}
  BY <1>0, StoredTyped
<1>2. PluginTyped'
  BY <1>0, <1>1 DEF PluginTyped, Crash
<1>3. \A k : Find(k)' = Find(k) /\ Stored(k)' = Find(k)
  BY DEF Crash, Find, Stored
<1>4. OneOpenIn(rows)' /\ CachedIsStored'
  BY <1>0 DEF OneOpenIn, CachedIsStored, Crash
<1>5. SavesSurvive'
  BY <1>3 DEF SavesSurvive, Crash, apply_to
<1>6. QED
  BY <1>2, <1>4, <1>5 DEF PluginInv

\* Every step keeps the invariant.
LEMMA PluginNextInv == PluginInv /\ [PluginNext]_pluginVars => PluginInv'
<1> SUFFICES ASSUME PluginInv, [PluginNext]_pluginVars PROVE PluginInv'
  OBVIOUS
<1>1. ASSUME NEW c \in Caller, NEW s \in Slots, Begin(c, s) PROVE PluginInv'
  BY <1>1, BeginInv
<1>2. ASSUME NEW c \in Caller, NEW k \in EntityKey, NEW data \in Saved, save(c, k, data)
      PROVE  PluginInv'
  BY <1>2, SaveInv
<1>3. ASSUME NEW c \in Caller, NEW k \in EntityKey, get(c, k) PROVE PluginInv'
  BY <1>3, GetInv
<1>4. ASSUME NEW c \in Caller, flush(c) PROVE PluginInv'
  BY <1>4, FlushInv
<1>5. ASSUME NEW commits \in BOOLEAN, transact_block_operations(commits) PROVE PluginInv'
  BY <1>5, TransactInv
<1>6. ASSUME NEW s \in Slots, Crash(s) PROVE PluginInv'
  BY <1>6, CrashInv
<1>7. CASE UNCHANGED pluginVars
  <2>1. \A k : Find(k)' = Find(k) /\ Stored(k)' = Stored(k)
    BY <1>7 DEF pluginVars, Find, Stored
  <2>2. PluginTyped' /\ OneOpenIn(rows)' /\ CachedIsStored' /\ SavesSurvive'
    BY <1>7, <2>1 DEF pluginVars, cache, PluginInv, PluginTyped, OneOpenIn, CachedIsStored,
                      SavesSurvive
  <2>3. QED
    BY <2>2 DEF PluginInv
<1>8. QED
  BY <1>1, <1>2, <1>3, <1>4, <1>5, <1>6, <1>7 DEF PluginNext

\* A transaction closes the current version where the new one starts, and the
\* database refuses one that would start before it.
LEMMA CommitGrows ==
    ASSUME PluginTyped, NEW t \in Transaction, Accepted(t.mods, t.block)
    PROVE  GrowsAtTheEnd(rows, apply_entity_modifications(t.mods, t.block))
<1> DEFINE after == apply_entity_modifications(t.mods, t.block)
           keys == {k \in EntityKey : t.mods[k] # None /\ t.mods[k].kind = "Overwrite"}
           New(k) == InsertQuery(k, t.mods[k].data, t.block)
<1>0. LastSlot \in Nat /\ t.block \in Slots
  BY PluginAssumption DEF Transaction
<1>1. \A r \in rows :
         (IF r.key \in keys /\ Open(r) THEN [r EXCEPT !.hi = t.block] ELSE r) \in after
  BY DEF apply_entity_modifications, ClampRangeQuery
<1>2. \A k \in keys : New(k) \in after
  BY DEF apply_entity_modifications
<1>3. \A r \in after : r.lo <= r.hi
  BY DEF Accepted
<1> HIDE DEF after
<1>4. ASSUME NEW r \in rows, r.key \in keys, Open(r)
      PROVE  \E c, q \in after : c = [r EXCEPT !.hi = q.lo] /\ q.key = r.key
                                   /\ Open(q) /\ q.lo >= r.lo
  <2> DEFINE c == [r EXCEPT !.hi = t.block]
             q == New(r.key)
  <2>1. c \in after /\ q \in after
    BY <1>1, <1>2, <1>4
  <2>2. q.lo = t.block /\ q.key = r.key /\ Open(q)
    BY DEF InsertQuery, Open
  <2>3. r \in Version
    BY <1>4 DEF PluginTyped
  <2>4. c.lo = r.lo /\ c.hi = t.block
    BY <2>3 DEF Version
  <2>5. r.lo <= t.block
    BY <1>3, <2>1, <2>4
  <2>6. r.lo \in Int /\ t.block \in Int
    BY <1>0, <2>3 DEF Version, Slots
  <2>7. q.lo >= r.lo
    BY <2>2, <2>5, <2>6
  <2>8. c = [r EXCEPT !.hi = q.lo]
    BY <2>2
  <2>9. QED
    BY <2>1, <2>2, <2>7, <2>8
<1>5. QED
  BY <1>1, <1>4 DEF GrowsAtTheEnd, after

\* Every step only adds to the end of the histories.
LEMMA StepGrows ==
    ASSUME PluginInv, [PluginNext]_pluginVars
    PROVE  GrowsAtTheEnd(rows, rows')
<1>1. ASSUME UNCHANGED rows PROVE GrowsAtTheEnd(rows, rows')
  BY <1>1 DEF GrowsAtTheEnd
<1>2. ASSUME NEW commits \in BOOLEAN, transact_block_operations(commits)
      PROVE  GrowsAtTheEnd(rows, rows')
  <2>1. flushing \in Transaction
    BY <1>2 DEF PluginInv, PluginTyped, transact_block_operations
  <2>2. CASE commits
    <3>1. /\ Accepted(flushing.mods, flushing.block)
          /\ rows' = apply_entity_modifications(flushing.mods, flushing.block)
      BY <1>2, <2>2 DEF transact_block_operations
    <3>2. QED
      BY <2>1, <3>1, CommitGrows DEF PluginInv
  <2>3. CASE ~commits
    BY <1>1, <1>2, <2>3 DEF transact_block_operations
  <2>4. QED
    BY <2>2, <2>3
<1>3. (\E commits \in BOOLEAN : transact_block_operations(commits)) \/ UNCHANGED rows
  BY DEF PluginNext, pluginVars, Begin, save, get, flush, Crash
<1>4. QED
  BY <1>1, <1>2, <1>3

\* Whatever is in the cache that a flush empties, some caller is still to flush
\* it (handle_block_mapping: handle_block, then flush).
SomeoneFlushes ==
    shared /\ (\E k \in EntityKey : updates[k] # None) => \E c \in Caller : InHandler(c)

\* A caller that has saved is in its handler until its own flush, and any flush
\* empties the cache.
LEMMA SomeoneFlushesNext ==
    ASSUME PluginInv, SomeoneFlushes, [PluginNext]_pluginVars
    PROVE  SomeoneFlushes'
<1>0. PluginTyped
  BY DEF PluginInv
<1>1. ASSUME NEW c \in Caller, NEW s \in Slots, Begin(c, s) PROVE SomeoneFlushes'
  <2>1. /\ handling[c] = None /\ handling' = [handling EXCEPT ![c] = s]
        /\ UNCHANGED <<shared, updates, flushing>>
    BY <1>1 DEF Begin, cache
  <2>2. ASSUME NEW d \in Caller, InHandler(d) PROVE InHandler(d)'
    BY <1>0, <2>1, <2>2 DEF InHandler, PluginTyped
  <2>3. QED
    BY <2>1, <2>2 DEF SomeoneFlushes
<1>2. ASSUME NEW c \in Caller, NEW k \in EntityKey, NEW data \in Saved, save(c, k, data)
      PROVE  SomeoneFlushes'
  BY <1>2 DEF save, SomeoneFlushes, InHandler
<1>3. ASSUME NEW c \in Caller, NEW k \in EntityKey, get(c, k) PROVE SomeoneFlushes'
  BY <1>3 DEF get, SomeoneFlushes, InHandler
<1>4. ASSUME NEW c \in Caller, flush(c) PROVE SomeoneFlushes'
  BY <1>4 DEF flush, SomeoneFlushes
<1>5. ASSUME NEW commits \in BOOLEAN, transact_block_operations(commits) PROVE SomeoneFlushes'
  <2>1. /\ flushing # None /\ flushing' = None
        /\ handling' = [handling EXCEPT ![flushing.by] = None]
        /\ UNCHANGED <<shared, updates>>
    BY <1>5 DEF transact_block_operations, cache
  <2>2. ASSUME NEW d \in Caller, InHandler(d) PROVE InHandler(d)'
    BY <1>0, <2>1, <2>2 DEF InHandler, PluginTyped
  <2>3. QED
    BY <2>1, <2>2 DEF SomeoneFlushes
<1>6. ASSUME NEW s \in Slots, Crash(s) PROVE SomeoneFlushes'
  BY <1>6 DEF Crash, SomeoneFlushes
<1>7. CASE UNCHANGED pluginVars
  BY <1>7 DEF pluginVars, cache, SomeoneFlushes, InHandler
<1>8. QED
  BY <1>1, <1>2, <1>3, <1>4, <1>5, <1>6, <1>7 DEF PluginNext

\* For every set of entities, attributes and values and any number of slots: what
\* the two callers save survives, but for failed transactions and stale reads,
\* versions are added at the end of an entity's history only, and if the plugin's
\* reference reaches the store that is flushed, nothing is left in its cache once
\* both callers are done (CacheableStore, handle_block_mapping).
THEOREM PluginSafety == PluginSpec => PluginKeepsSaves
<1> DEFINE I == PluginInv /\ SomeoneFlushes
<1>1. PluginInit => I
  <2>1. PluginInit => SomeoneFlushes
    BY DEF PluginInit, SomeoneFlushes
  <2>2. QED
    BY <2>1, PluginInitInv
<1>2. I /\ [PluginNext]_pluginVars => I'
  BY PluginNextInv, SomeoneFlushesNext
<1>3. I => OneOpenIn(rows) /\ SavesSurvive /\ (shared => FlushedAfterEachBlock)
  <2>1. SomeoneFlushes => (shared => FlushedAfterEachBlock)
    BY DEF SomeoneFlushes, FlushedAfterEachBlock, InHandler
  <2>2. QED
    BY <2>1 DEF PluginInv
<1>4. I /\ [PluginNext]_pluginVars => [GrowsAtTheEnd(rows, rows')]_pluginVars
  BY StepGrows
<1> HIDE DEF I
<1>5. QED
  BY <1>1, <1>2, <1>3, <1>4, PTL DEF PluginSpec, PluginKeepsSaves, HistoryGrowsAtTheEnd
=============================================================================
