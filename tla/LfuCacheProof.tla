--------------------------- MODULE LfuCacheProof ---------------------------
(* Proofs about LfuCache, for every set of keys and weights and every bound. *)
EXTENDS LfuCache, FiniteSetTheorems, WellFoundedInduction, TLAPS

-----------------------------------------------------------------------------
(* What the entries of a queue weigh together.  The sum of the library     *)
(* picks the entries one by one, in an order of its own; the lemmas are by *)
(* induction over the number of entries.                                   *)

\* What is true of 0 and passed on by every number is true of all.
LEMMA SetInduction ==
    ASSUME NEW T, 0 \in T, \A n \in Nat : n \in T => n + 1 \in T
    PROVE Nat \subseteq T
<1>1. SUFFICES ASSUME Nat \ T # {} PROVE FALSE
  OBVIOUS
<1>2. PICK x \in Nat \ T : \A y \in Nat \ T : ~(y < x)
  <2>1. IsWellFoundedOn(OpToRel(<, Nat), Nat)
    BY NatLessThanWellFounded
  <2>2. \E x \in Nat \ T : \A y \in Nat \ T : ~(<<y, x>> \in OpToRel(<, Nat))
    BY <1>1, <2>1, WFMin
  <2>3. OpToRel(<, Nat) = {ss \in Nat \X Nat : ss[1] < ss[2]}
    BY Zenon DEF OpToRel
  <2>4. PICK x \in Nat \ T : \A y \in Nat \ T : ~(<<y, x>> \in {ss \in Nat \X Nat : ss[1] < ss[2]})
    BY <2>2, <2>3, Zenon
  <2>5. \A y \in Nat \ T : ~(y < x)
    BY <2>4
  <2>6. QED
    BY <2>5
<1>3. x # 0 /\ x - 1 \in Nat
  BY <1>2
<1>4. x - 1 \in T
  BY <1>2, <1>3
<1>5. QED
  BY <1>2, <1>3, <1>4

Pick(s) == CHOOSE x \in s : TRUE

\* iter sums up the weights of the entries of q over each of the sets in D.
IsSum(iter, q, D) ==
    iter = [s \in D |-> IF s = {} THEN 0
                        ELSE q[Pick(s)].weight + iter[s \ {Pick(s)}]]

Weighs(q) == IsFiniteSet(DOMAIN q) /\ \A k \in DOMAIN q : q[k].weight \in Nat

Small(q, n) == {s \in SUBSET DOMAIN q : Cardinality(s) <= n}

\* The entry that the sum takes first is one of the set.
LEMMA PickIn == ASSUME NEW s, s # {} PROVE Pick(s) \in s
  BY DEF Pick

\* Without one of its entries a set of cached keys is smaller by one, so that
\* sums over the queue can be built up by its size.
LEMMA Smaller ==
    ASSUME NEW q, Weighs(q), NEW s \in SUBSET DOMAIN q, s # {}, NEW k \in s
    PROVE  /\ IsFiniteSet(s) /\ s \ {k} \in SUBSET DOMAIN q
           /\ Cardinality(s) \in Nat /\ Cardinality(s \ {k}) \in Nat
           /\ Cardinality(s \ {k}) = Cardinality(s) - 1
<1>1. IsFiniteSet(s)
  BY FS_Subset DEF Weighs
<1>2. QED
  BY <1>1, FS_RemoveElement, FS_CardinalityType

\* The weights of a finite queue can be summed up over every set of its keys.
LEMMA SumExists ==
    ASSUME NEW q, Weighs(q)
    PROVE  \E iter : IsSum(iter, q, SUBSET DOMAIN q)
<1> DEFINE T == {n \in Nat : \E iter : IsSum(iter, q, Small(q, n))}
<1>1. 0 \in T
  <2> DEFINE f == [s \in Small(q, 0) |-> 0]
  <2>1. ASSUME NEW s \in Small(q, 0) PROVE s = {}
    <3>1. IsFiniteSet(s) /\ Cardinality(s) \in Nat /\ Cardinality(s) <= 0
      BY FS_Subset, FS_CardinalityType DEF Small, Weighs
    <3>2. QED
      BY <3>1, FS_EmptySet
  <2>2. IsSum(f, q, Small(q, 0))
    BY <2>1 DEF IsSum
  <2>3. QED
    BY <2>2
<1>2. ASSUME NEW n \in Nat, n \in T PROVE n + 1 \in T
  <2>1. PICK f : IsSum(f, q, Small(q, n))
    BY <1>2
  <2> DEFINE g == [s \in Small(q, n + 1) |-> IF s = {} THEN 0
                        ELSE q[Pick(s)].weight + f[s \ {Pick(s)}]]
  <2>2. ASSUME NEW s \in Small(q, n + 1), s # {} PROVE g[s \ {Pick(s)}] = f[s \ {Pick(s)}]
    <3> DEFINE r == s \ {Pick(s)}
    <3>1. r \in Small(q, n) /\ r \in Small(q, n + 1)
      BY <2>2, PickIn, Smaller DEF Small
    <3>2. f[r] = IF r = {} THEN 0 ELSE q[Pick(r)].weight + f[r \ {Pick(r)}]
      BY <2>1, <3>1 DEF IsSum
    <3>3. g[r] = IF r = {} THEN 0 ELSE q[Pick(r)].weight + f[r \ {Pick(r)}]
      BY <3>1
    <3>4. QED
      BY <3>2, <3>3
  <2>3. IsSum(g, q, Small(q, n + 1))
    BY <2>2, Zenon DEF IsSum
  <2>4. QED
    BY <2>3
<1>3. Nat \subseteq T
  BY <1>1, <1>2, SetInduction
<1>4. Cardinality(DOMAIN q) \in T
  BY <1>3, FS_CardinalityType DEF Weighs
<1>5. Small(q, Cardinality(DOMAIN q)) = SUBSET DOMAIN q
  BY FS_Subset DEF Small, Weighs
<1>6. QED
  BY <1>4, <1>5

Sums(iter, q) == IsSum(iter, q, SUBSET DOMAIN q)

\* A sum over a set is the weight of the entry taken first and the sum of the rest.
LEMMA SumStep ==
    ASSUME NEW q, NEW iter, Sums(iter, q), NEW s \in SUBSET DOMAIN q
    PROVE  iter[s] = IF s = {} THEN 0 ELSE q[Pick(s)].weight + iter[s \ {Pick(s)}]
BY DEF IsSum, Sums

\* The sum of entries' weights is a number.
LEMMA SumType ==
    ASSUME NEW q, Weighs(q), NEW iter, Sums(iter, q),
           NEW s \in SUBSET DOMAIN q
    PROVE  iter[s] \in Nat
<1> DEFINE T == {n \in Nat : \A r \in SUBSET DOMAIN q : Cardinality(r) = n => iter[r] \in Nat}
<1>1. 0 \in T
  <2>1. ASSUME NEW r \in SUBSET DOMAIN q, Cardinality(r) = 0 PROVE iter[r] = 0
    <3>1. r = {}
      BY <2>1, FS_Subset, FS_EmptySet DEF Weighs
    <3>2. QED
      BY <3>1, SumStep
  <2>2. QED
    BY <2>1
<1>2. ASSUME NEW n \in Nat, n \in T PROVE n + 1 \in T
  <2>1. ASSUME NEW r \in SUBSET DOMAIN q, Cardinality(r) = n + 1 PROVE iter[r] \in Nat
    <3>1. r # {}
      BY <2>1, FS_EmptySet
    <3>2. Pick(r) \in r /\ Pick(r) \in DOMAIN q
      BY <3>1, PickIn
    <3>3. r \ {Pick(r)} \in SUBSET DOMAIN q /\ Cardinality(r \ {Pick(r)}) = n
      BY <2>1, <3>1, <3>2, Smaller
    <3>4. iter[r \ {Pick(r)}] \in Nat
      BY <1>2, <3>3
    <3>5. iter[r] = q[Pick(r)].weight + iter[r \ {Pick(r)}]
      BY <3>1, SumStep
    <3>6. QED
      BY <3>2, <3>4, <3>5 DEF Weighs
  <2>2. QED
    BY <2>1
<1>3. Nat \subseteq T
  BY <1>1, <1>2, SetInduction
<1>4. Cardinality(s) \in Nat
  BY FS_Subset, FS_CardinalityType DEF Weighs
<1>5. QED
  BY <1>3, <1>4

\* Whatever is picked first, an entry of the set counts once.
LEMMA SumRemove ==
    ASSUME NEW q, Weighs(q), NEW iter, Sums(iter, q),
           NEW s \in SUBSET DOMAIN q, NEW k \in s
    PROVE  iter[s] = q[k].weight + iter[s \ {k}]
<1> DEFINE P(r) == \A j \in r : iter[r] = q[j].weight + iter[r \ {j}]
           T == {n \in Nat : \A r \in SUBSET DOMAIN q : Cardinality(r) = n => P(r)}
<1>1. 0 \in T
  <2>1. ASSUME NEW r \in SUBSET DOMAIN q, Cardinality(r) = 0 PROVE P(r)
    BY <2>1, FS_Subset, FS_EmptySet DEF Weighs
  <2>2. QED
    BY <2>1
<1>2. ASSUME NEW n \in Nat, n \in T PROVE n + 1 \in T
  <2>1. ASSUME NEW r \in SUBSET DOMAIN q, Cardinality(r) = n + 1, NEW j \in r
        PROVE  iter[r] = q[j].weight + iter[r \ {j}]
    <3> DEFINE x == Pick(r)
    <3>1. x \in r /\ x \in DOMAIN q /\ j \in DOMAIN q
      BY PickIn
    <3>2. iter[r] = q[x].weight + iter[r \ {x}]
      BY <2>1, SumStep
    <3>3. ASSUME x # j PROVE iter[r] = q[j].weight + iter[r \ {j}]
      <4>1. /\ r \ {x} \in SUBSET DOMAIN q /\ Cardinality(r \ {x}) = n
            /\ r \ {j} \in SUBSET DOMAIN q /\ Cardinality(r \ {j}) = n
        BY <2>1, <3>1, Smaller
      <4>2. P(r \ {x}) /\ P(r \ {j})
        BY <1>2, <4>1
      <4>3. iter[r \ {x}] = q[j].weight + iter[(r \ {x}) \ {j}]
        BY <2>1, <3>3, <4>2
      <4>4. iter[r \ {j}] = q[x].weight + iter[(r \ {j}) \ {x}]
        BY <3>1, <3>3, <4>2
      <4>5. (r \ {x}) \ {j} = (r \ {j}) \ {x} /\ (r \ {j}) \ {x} \in SUBSET DOMAIN q
        OBVIOUS
      <4>6. iter[(r \ {j}) \ {x}] \in Nat /\ q[x].weight \in Nat /\ q[j].weight \in Nat
        BY <3>1, <4>5, SumType DEF Weighs
      <4> HIDE DEF x
      <4>7. iter[r \ {x}] = q[j].weight + iter[(r \ {j}) \ {x}]
        BY <4>3, <4>5, Zenon
      <4>8. q[x].weight + (q[j].weight + iter[(r \ {j}) \ {x}])
              = q[j].weight + (q[x].weight + iter[(r \ {j}) \ {x}])
        BY <4>6
      <4>9. iter[r] = q[x].weight + (q[j].weight + iter[(r \ {j}) \ {x}])
        BY <3>2, <4>7, Zenon
      <4>10. q[j].weight + iter[r \ {j}] = q[j].weight + (q[x].weight + iter[(r \ {j}) \ {x}])
        BY <4>4, Zenon
      <4>11. QED
        BY <4>8, <4>9, <4>10, Zenon
    <3>4. QED
      BY <3>2, <3>3
  <2>2. QED
    BY <2>1
<1>3. Nat \subseteq T
  BY <1>1, <1>2, SetInduction
<1>4. Cardinality(s) \in Nat
  BY FS_Subset, FS_CardinalityType DEF Weighs
<1>5. QED
  BY <1>3, <1>4

Agree(p, q, s) ==
    s \subseteq DOMAIN p /\ s \subseteq DOMAIN q /\ \A k \in s : p[k].weight = q[k].weight

\* A sum depends only on the weights of the entries that are summed up.
LEMMA SumAgrees ==
    ASSUME NEW p, Weighs(p), NEW q, Weighs(q),
           NEW f, Sums(f, p), NEW g, Sums(g, q),
           NEW s, Agree(p, q, s)
    PROVE  f[s] = g[s]
<1> DEFINE T == {n \in Nat : \A r \in SUBSET s : Cardinality(r) = n => f[r] = g[r]}
<1>0. \A r \in SUBSET s : r \in SUBSET DOMAIN p /\ r \in SUBSET DOMAIN q
  BY DEF Agree
<1>1. 0 \in T
  <2>1. ASSUME NEW r \in SUBSET s, Cardinality(r) = 0 PROVE f[r] = g[r]
    <3>1. r = {}
      BY <1>0, <2>1, FS_Subset, FS_EmptySet DEF Weighs
    <3>2. QED
      BY <1>0, <3>1, SumStep
  <2>2. QED
    BY <2>1
<1>2. ASSUME NEW n \in Nat, n \in T PROVE n + 1 \in T
  <2>1. ASSUME NEW r \in SUBSET s, Cardinality(r) = n + 1 PROVE f[r] = g[r]
    <3>1. r # {}
      BY <2>1, FS_EmptySet
    <3>2. Pick(r) \in r /\ r \in SUBSET DOMAIN p /\ r \in SUBSET DOMAIN q
      BY <1>0, <3>1, PickIn
    <3>3. r \ {Pick(r)} \in SUBSET s /\ Cardinality(r \ {Pick(r)}) = n
      BY <2>1, <3>1, <3>2, Smaller
    <3>4. f[r \ {Pick(r)}] = g[r \ {Pick(r)}]
      BY <1>2, <3>3
    <3>5. f[r] = p[Pick(r)].weight + f[r \ {Pick(r)}]
      BY <3>1, <3>2, SumStep
    <3>6. g[r] = q[Pick(r)].weight + g[r \ {Pick(r)}]
      BY <3>1, <3>2 DEF Sums, IsSum
    <3>7. p[Pick(r)].weight = q[Pick(r)].weight
      BY <3>2 DEF Agree
    <3>8. QED
      BY <3>4, <3>5, <3>6, <3>7
  <2>2. QED
    BY <2>1
<1>3. Nat \subseteq T
  BY <1>1, <1>2, SetInduction
<1>4. Cardinality(s) \in Nat
  BY <1>0, FS_Subset, FS_CardinalityType DEF Weighs
<1>5. QED
  BY <1>3, <1>4

-----------------------------------------------------------------------------
\* QueueWeight is such a sum.
LEMMA WeightIsSum ==
    ASSUME NEW q, Weighs(q)
    PROVE  \E iter : Sums(iter, q) /\ QueueWeight(q) = iter[DOMAIN q]
<1> DEFINE I == CHOOSE iter : iter = [s \in SUBSET DOMAIN q |-> IF s = {} THEN 0
        ELSE q[CHOOSE x \in s : TRUE].weight + iter[s \ {CHOOSE x \in s : TRUE}]]
<1>1. QueueWeight(q) = I[DOMAIN q]
  BY DEF QueueWeight, MapThenSumSet, MapThenFoldSet
<1>2. Sums(I, q)
  <2>1. \E iter : iter = [s \in SUBSET DOMAIN q |-> IF s = {} THEN 0
        ELSE q[CHOOSE x \in s : TRUE].weight + iter[s \ {CHOOSE x \in s : TRUE}]]
    BY SumExists DEF IsSum, Pick
  <2>2. I = [s \in SUBSET DOMAIN q |-> IF s = {} THEN 0
        ELSE q[CHOOSE x \in s : TRUE].weight + I[s \ {CHOOSE x \in s : TRUE}]]
    BY <2>1, Zenon
  <2>3. QED
    BY <2>2, Zenon DEF Sums, IsSum, Pick
<1> HIDE DEF I
<1>3. QED
  BY <1>1, <1>2

\* What a queue weighs is a number.
LEMMA WeightType == ASSUME NEW q, Weighs(q) PROVE QueueWeight(q) \in Nat
<1>1. PICK iter : Sums(iter, q) /\ QueueWeight(q) = iter[DOMAIN q]
  BY WeightIsSum
<1>2. DOMAIN q \in SUBSET DOMAIN q
  OBVIOUS
<1>3. QED
  BY <1>1, <1>2, SumType

\* An empty queue weighs nothing.
LEMMA WeightOfNone == ASSUME NEW q, Weighs(q), DOMAIN q = {} PROVE QueueWeight(q) = 0
<1>1. PICK iter : Sums(iter, q) /\ QueueWeight(q) = iter[DOMAIN q]
  BY WeightIsSum
<1>2. DOMAIN q \in SUBSET DOMAIN q
  OBVIOUS
<1>3. QED
  BY <1>1, <1>2, SumStep

\* Two queues whose entries weigh the same weigh the same: reading an entry or
\* marking it stale changes nothing.
LEMMA SameWeight ==
    ASSUME NEW p, Weighs(p), NEW q, Weighs(q), DOMAIN p = DOMAIN q,
           \A k \in DOMAIN q : p[k].weight = q[k].weight
    PROVE  QueueWeight(p) = QueueWeight(q)
<1>1. PICK f : Sums(f, p) /\ QueueWeight(p) = f[DOMAIN p]
  BY WeightIsSum
<1>2. PICK g : Sums(g, q) /\ QueueWeight(q) = g[DOMAIN q]
  BY WeightIsSum
<1>3. f[DOMAIN q] = g[DOMAIN q]
  <2>1. Agree(p, q, DOMAIN q)
    BY DEF Agree
  <2>2. QED
    BY <1>1, <1>2, <2>1, SumAgrees
<1>4. QED
  BY <1>1, <1>2, <1>3

\* A popped entry takes its weight, and no other, with it.
LEMMA WeightOfDrop ==
    ASSUME NEW q, Weighs(q), NEW k \in DOMAIN q
    PROVE  Weighs(Drop(q, k)) /\ QueueWeight(q) = q[k].weight + QueueWeight(Drop(q, k))
<1> DEFINE r == Drop(q, k)
<1>1. DOMAIN r = DOMAIN q \ {k} /\ \A j \in DOMAIN r : r[j] = q[j]
  BY DEF Drop
<1>2. Weighs(r)
  BY <1>1, FS_RemoveElement DEF Weighs
<1> HIDE DEF r
<1>3. PICK f : Sums(f, q) /\ QueueWeight(q) = f[DOMAIN q]
  BY WeightIsSum
<1>4. PICK g : Sums(g, r) /\ QueueWeight(r) = g[DOMAIN r]
  BY <1>2, WeightIsSum
<1>5. f[DOMAIN q] = q[k].weight + f[DOMAIN r]
  <2>1. DOMAIN q \in SUBSET DOMAIN q
    OBVIOUS
  <2>2. QED
    BY <1>1, <1>3, <2>1, SumRemove
<1>6. f[DOMAIN r] = g[DOMAIN r]
  <2>1. Agree(q, r, DOMAIN r)
    BY <1>1 DEF Agree
  <2>2. QED
    BY <1>2, <1>3, <1>4, <2>1, SumAgrees
<1>7. QED
  BY <1>2, <1>3, <1>4, <1>5, <1>6 DEF r

-----------------------------------------------------------------------------
(* Types and marks. *)

\* What Reweigh leaves in total_weight is again a usize.
LEMMA ReweighTyped ==
    ASSUME TypeOK, NEW d \in Nat, NEW up \in Nat, Reweigh(d, up)
    PROVE  /\ total_weight' \in 0..(UsizeLimit - 1)
           /\ pc' \in {pc, "panicked"}
<1>1. total_weight \in Int /\ UsizeLimit \in Nat \ {0}
  BY LfuAssumption DEF TypeOK
<1>2. (total_weight - d + up) % UsizeLimit \in 0..(UsizeLimit - 1)
  BY <1>1
<1>3. QED
  BY <1>2 DEF TypeOK, Reweigh

\* remove finds the entry it meant to remove at the front of the queue, so its
\* assertion holds: no entry has a priority of (stale, 0) before it.
THEOREM RemovePopsItsKey ==
    ASSUME TypeOK, NEW k \in Key, k \in DOMAIN queue, Remove(k)
    PROVE  queue' = Drop(queue, k) /\ Reweigh(queue[k].weight, 0)
<1> DEFINE q == [queue EXCEPT ![k] = FirstOut(queue[k])]
<1>1. PICK p \in DOMAIN queue :
        /\ IsNextOut(q, p)
        /\ queue' = Drop(q, p)
        /\ IF p = k THEN Reweigh(queue[k].weight, 0)
           ELSE pc' = "panicked" /\ UNCHANGED total_weight
  BY DEF Remove
<1>2. q[k].stale = TRUE /\ q[k].freq = 0 /\ DOMAIN q = DOMAIN queue
  BY DEF FirstOut
<1>3. PoppedNoLater(q[p], q[k])
  BY <1>1, <1>2 DEF IsNextOut
<1>4. p = k
  <2> SUFFICES ASSUME p # k PROVE FALSE
    OBVIOUS
  <2>1. q[p] = queue[p]
    BY <1>1
  <2>2. queue[p].freq \in Nat /\ queue[p].freq > 0
    BY <1>1, LfuAssumption DEF TypeOK, Entry
  <2>3. QED
    BY <1>2, <1>3, <2>1, <2>2 DEF PoppedNoLater
<1>5. Drop(q, k) = Drop(queue, k)
  BY DEF Drop
<1>6. QED
  BY <1>1, <1>4, <1>5

\* The type of the cache's state is kept by every operation of lfu_cache.rs,
\* whatever the entries weigh.
THEOREM TypeCorrect == Spec => []TypeOK
<1>1. Init => TypeOK
  <2> SUFFICES ASSUME Init PROVE TypeOK
    OBVIOUS
  <2>1. total_weight \in 0..(UsizeLimit - 1) /\ stale_counter \in 0..(StalePeriod - 1)
    BY LfuAssumption DEF Init
  <2>2. merged \in BOOLEAN
    BY DEF Init
  <2>3. QED
    BY <2>1, <2>2 DEF Init, TypeOK
<1>2. TypeOK /\ [Next]_vars => TypeOK'
  <2> SUFFICES ASSUME TypeOK, [Next]_vars
               PROVE  TypeOK'
    OBVIOUS
  <2> USE LfuAssumption
  <2>1. ASSUME NEW k \in Key, Get(k)
        PROVE  TypeOK'
    <3>1. CASE k \in DOMAIN queue
      <4>1. Touched(queue[k], queue[k].weight) \in Entry
        BY <2>1, <3>1 DEF Get, TypeOK, Touched, Entry
      <4>2. QED
        BY <2>1, <3>1, <4>1 DEF Get, TypeOK
    <3>2. CASE k \notin DOMAIN queue
      BY <2>1, <3>2 DEF Get, TypeOK
    <3>3. QED
      BY <3>1, <3>2
  <2>2. ASSUME NEW k \in Key, Remove(k)
        PROVE  TypeOK'
    <3>1. CASE k \in DOMAIN queue
      <4>1. queue[k].weight \in Nat /\ 0 \in Nat
        BY <3>1 DEF TypeOK, Entry
      <4>2. queue' = Drop(queue, k) /\ Reweigh(queue[k].weight, 0)
        BY <2>2, <3>1, RemovePopsItsKey
      <4>3. /\ total_weight' \in 0..(UsizeLimit - 1) /\ pc' \in {pc, "panicked"}
            /\ DOMAIN queue' \subseteq Key /\ \A j \in DOMAIN queue' : queue'[j] \in Entry
        <5>1. total_weight' \in 0..(UsizeLimit - 1) /\ pc' \in {pc, "panicked"}
          BY <4>1, <4>2, ReweighTyped
        <5>2. DOMAIN queue' \subseteq Key /\ \A j \in DOMAIN queue' : queue'[j] \in Entry
          BY <4>2 DEF Drop, TypeOK
        <5>3. QED
          BY <5>1, <5>2
      <4>4. QED
        BY <2>2, <4>3 DEF Remove, TypeOK
    <3>2. CASE k \notin DOMAIN queue
      BY <2>2, <3>2 DEF Remove, TypeOK
    <3>3. QED
      BY <3>1, <3>2
  <2>3. ASSUME NEW k \in Key, NEW w \in Weight, Insert(k, w)
        PROVE  TypeOK'
    <3>1. CASE k \in DOMAIN queue
      <4>1. queue[k].weight \in Nat /\ w \in Nat
        BY <3>1 DEF TypeOK, Entry
      <4>2. total_weight' \in 0..(UsizeLimit - 1) /\ pc' \in {pc, "panicked"}
        BY <2>3, <3>1, <4>1, ReweighTyped DEF Insert
      <4>3. Touched(queue[k], w) \in Entry
        BY <2>3, <3>1 DEF Insert, Touched, TypeOK, Entry
      <4>4. DOMAIN queue' \subseteq Key /\ \A j \in DOMAIN queue' : queue'[j] \in Entry
        BY <2>3, <3>1, <4>3 DEF Insert, TypeOK
      <4>5. QED
        BY <2>3, <4>2, <4>4 DEF Insert, TypeOK
    <3>2. CASE k \notin DOMAIN queue
      <4>1. total_weight' \in 0..(UsizeLimit - 1) /\ pc' \in {pc, "panicked"}
        <5>1. w \in Nat /\ 0 \in Nat
          OBVIOUS
        <5>2. QED
          BY <2>3, <3>2, <5>1, ReweighTyped DEF Insert
      <4>2. [weight |-> w, will_stale |-> FALSE, stale |-> FALSE, freq |-> 1] \in Entry
        BY DEF Entry
      <4>3. DOMAIN queue' \subseteq Key /\ \A j \in DOMAIN queue' : queue'[j] \in Entry
        <5>1. /\ DOMAIN queue' = DOMAIN queue \cup {k}
              /\ \A j \in DOMAIN queue : queue'[j] = queue[j] \/ j = k
              /\ queue'[k] = [weight |-> w, will_stale |-> FALSE, stale |-> FALSE, freq |-> 1]
          BY <2>3, <3>2 DEF Insert, Put
        <5>2. QED
          BY <4>2, <5>1 DEF TypeOK
      <4>4. QED
        BY <2>3, <4>1, <4>3 DEF Insert, TypeOK
    <3>3. QED
      BY <3>1, <3>2
  <2>4. CASE EvictStart
    <3>1. \A k \in DOMAIN queue : StaleChecked(queue[k]) \in Entry
      BY DEF StaleChecked, TypeOK, Entry
    <3>2. DOMAIN queue' \subseteq Key /\ \A k \in DOMAIN queue' : queue'[k] \in Entry
      BY <2>4, <3>1 DEF EvictStart, TypeOK
    <3>3. stale_counter' \in 0..(StalePeriod - 1)
      BY <2>4 DEF EvictStart, TypeOK
    <3>4. QED
      BY <2>4, <3>2, <3>3 DEF EvictStart, TypeOK
  <2>5. CASE EvictPop
    <3>1. CASE pc' = "panicked" /\ UNCHANGED <<queue, total_weight>>
      BY <2>5, <3>1 DEF EvictPop, TypeOK
    <3>2. ASSUME NEW k \in DOMAIN queue,
                 queue' = Drop(queue, k), Reweigh(queue[k].weight, 0)
          PROVE  TypeOK'
      <4>1. queue[k].weight \in Nat /\ 0 \in Nat
        BY DEF TypeOK, Entry
      <4>2. total_weight' \in 0..(UsizeLimit - 1) /\ pc' \in {pc, "panicked"}
        BY <3>2, <4>1, ReweighTyped
      <4>3. DOMAIN queue' \subseteq Key /\ \A j \in DOMAIN queue' : queue'[j] \in Entry
        BY <3>2 DEF Drop, TypeOK
      <4>4. QED
        BY <2>5, <4>2, <4>3 DEF EvictPop, TypeOK
    <3>3. QED
      BY <2>5, <3>1, <3>2 DEF EvictPop
  <2>6. CASE EvictReturn
    BY <2>6 DEF EvictReturn, TypeOK
  <2>7. CASE UNCHANGED vars
    BY <2>7 DEF vars, TypeOK
  <2>8. ASSUME NEW other \in Foreign, NEW keepOwn \in BOOLEAN, Extend(other, keepOwn)
        PROVE  TypeOK'
    <3>1. DOMAIN queue' \subseteq Key
      BY <2>8 DEF Extend, TypeOK
    <3>2. \A k \in DOMAIN queue' : queue'[k] \in Entry
      BY <2>8 DEF Extend, TypeOK, Entry
    <3>3. QED
      BY <2>8, <3>1, <3>2 DEF Extend, TypeOK
  <2>9. QED
    BY <2>1, <2>2, <2>3, <2>4, <2>5, <2>6, <2>7, <2>8 DEF Next
<1>3. QED
  BY <1>1, <1>2, PTL DEF Spec

\* An entry about to go stale was not accessed since the last stale check, for
\* any sequence of get, insert, remove, evict and extend.
THEOREM MarkedAreUntouchedHolds == Spec => []MarkedAreUntouched
<1>1. Init => MarkedAreUntouched
  BY DEF Init, MarkedAreUntouched
<1>2. TypeOK /\ MarkedAreUntouched /\ [Next]_vars => MarkedAreUntouched'
  <2> SUFFICES ASSUME TypeOK, MarkedAreUntouched, [Next]_vars PROVE MarkedAreUntouched'
    OBVIOUS
  <2>1. ASSUME NEW k \in Key, Get(k) PROVE MarkedAreUntouched'
    BY <2>1 DEF Get, MarkedAreUntouched, Touched
  <2>2. ASSUME NEW k \in Key, Remove(k) PROVE MarkedAreUntouched'
    <3>1. queue' = queue \/ queue' = Drop(queue, k)
      BY <2>2, RemovePopsItsKey DEF Remove
    <3>2. accessed' = accessed
      BY <2>2 DEF Remove
    <3>3. QED
      BY <3>1, <3>2 DEF MarkedAreUntouched, Drop
  <2>3. ASSUME NEW k \in Key, NEW w \in Weight, Insert(k, w) PROVE MarkedAreUntouched'
    BY <2>3 DEF Insert, MarkedAreUntouched, Touched, Put
  <2>4. CASE EvictStart
    BY <2>4 DEF EvictStart, MarkedAreUntouched, StaleChecked
  <2>5. CASE EvictPop
    BY <2>5 DEF EvictPop, MarkedAreUntouched, Drop
  <2>6. CASE EvictReturn
    BY <2>6 DEF EvictReturn, MarkedAreUntouched
  <2>7. ASSUME NEW other \in Foreign, NEW keepOwn \in BOOLEAN, Extend(other, keepOwn)
        PROVE  MarkedAreUntouched'
    <3>1. \A k \in DOMAIN other : ~other[k].will_stale
      BY <2>7, LfuAssumption
    <3>2. QED
      BY <2>7, <3>1 DEF Extend, MarkedAreUntouched
  <2>8. CASE UNCHANGED vars
    BY <2>8 DEF vars, MarkedAreUntouched
  <2>9. QED
    BY <2>1, <2>2, <2>3, <2>4, <2>5, <2>6, <2>7, <2>8 DEF Next
<1>3. QED
  BY <1>1, <1>2, TypeCorrect, PTL DEF Spec

-----------------------------------------------------------------------------
(* The weight is accounted for.                                            *)

\* The entries of the cache are in memory together: they weigh less than a
\* usize can count.
Fits == QueueWeight(queue) < UsizeLimit

\* The inductive invariant: until another cache is merged in, the cache holds
\* finitely many entries, total_weight is what they weigh and nothing panicked.
Accounted ==
    /\ pc = "panicked" => merged
    /\ ~merged => IsFiniteSet(DOMAIN queue) /\ total_weight = QueueWeight(queue)

\* total_weight does not wrap while it is below the limit of a usize.
LEMMA ModSmall == ASSUME NEW u \in Nat \ {0}, NEW n \in Nat, n < u PROVE n % u = n
OBVIOUS

\* A pop subtracts what the entry weighs, which total_weight contains.
LEMMA PopIsAccounted ==
    ASSUME Weighs(queue), total_weight = QueueWeight(queue), QueueWeight(queue) < UsizeLimit,
           NEW k \in DOMAIN queue, queue' = Drop(queue, k), Reweigh(queue[k].weight, 0)
    PROVE  pc' = pc /\ IsFiniteSet(DOMAIN queue') /\ total_weight' = QueueWeight(queue')
<1>1. Weighs(Drop(queue, k)) /\ QueueWeight(queue) = queue[k].weight + QueueWeight(Drop(queue, k))
  BY WeightOfDrop
<1>2. queue[k].weight \in Nat /\ QueueWeight(Drop(queue, k)) \in Nat /\ UsizeLimit \in Nat \ {0}
  BY <1>1, WeightType, LfuAssumption DEF Weighs
<1>3. ~(total_weight < queue[k].weight)
        /\ total_weight - queue[k].weight + 0 = QueueWeight(Drop(queue, k))
        /\ QueueWeight(Drop(queue, k)) < UsizeLimit
  BY <1>1, <1>2
<1>4. QueueWeight(Drop(queue, k)) % UsizeLimit = QueueWeight(Drop(queue, k))
  BY <1>2, <1>3, ModSmall
<1>5. pc' = pc /\ total_weight' = QueueWeight(Drop(queue, k))
  BY <1>3, <1>4 DEF Reweigh
<1>6. QED
  BY <1>1, <1>5 DEF Weighs

\* insert adds what the new entry weighs, in place of what the old one weighed.
LEMMA InsertIsAccounted ==
    ASSUME TypeOK, Weighs(queue), total_weight = QueueWeight(queue),
           NEW k \in Key, NEW w \in Weight, Insert(k, w), QueueWeight(queue') < UsizeLimit
    PROVE  pc' = pc /\ IsFiniteSet(DOMAIN queue') /\ total_weight' = QueueWeight(queue')
<1>0. w \in Nat /\ UsizeLimit \in Nat \ {0} /\ QueueWeight(queue) \in Nat
  BY WeightType, LfuAssumption
<1>1. PICK q : q = queue'
  OBVIOUS
<1>2. CASE k \in DOMAIN queue
  <2>1. /\ q = [queue EXCEPT ![k] = Touched(queue[k], w)]
        /\ Reweigh(queue[k].weight, w)
    BY <1>1, <1>2 DEF Insert
  <2>2. DOMAIN q = DOMAIN queue /\ q[k].weight = w /\ \A j \in DOMAIN q \ {k} : q[j] = queue[j]
    BY <1>2, <2>1 DEF Touched
  <2>3. Weighs(q)
    BY <1>0, <2>2 DEF Weighs
  <2>4. Drop(q, k) = Drop(queue, k)
    BY <2>2 DEF Drop
  <2>5. /\ QueueWeight(q) = w + QueueWeight(Drop(queue, k))
        /\ QueueWeight(queue) = queue[k].weight + QueueWeight(Drop(queue, k))
        /\ Weighs(Drop(queue, k))
    BY <1>2, <2>2, <2>3, <2>4, WeightOfDrop
  <2>6. QueueWeight(Drop(queue, k)) \in Nat /\ queue[k].weight \in Nat /\ QueueWeight(q) \in Nat
    BY <1>2, <2>3, <2>5, WeightType DEF Weighs
  <2>7. ~(total_weight < queue[k].weight) /\ total_weight - queue[k].weight + w = QueueWeight(q)
    BY <1>0, <2>5, <2>6
  <2>8. QueueWeight(q) % UsizeLimit = QueueWeight(q)
    BY <1>0, <1>1, <2>6, ModSmall
  <2>9. pc' = pc /\ total_weight' = QueueWeight(q)
    BY <2>1, <2>7, <2>8 DEF Reweigh
  <2>10. QED
    BY <1>1, <2>3, <2>9 DEF Weighs
<1>3. CASE k \notin DOMAIN queue
  <2> DEFINE e == [weight |-> w, will_stale |-> FALSE, stale |-> FALSE, freq |-> 1]
  <2>1. q = Put(queue, k, e) /\ Reweigh(0, w)
    BY <1>1, <1>3 DEF Insert
  <2>2. /\ DOMAIN q = DOMAIN queue \cup {k} /\ q[k].weight = w
        /\ \A j \in DOMAIN queue : q[j] = queue[j]
    BY <1>3, <2>1 DEF Put
  <2>3. Weighs(q)
    BY <1>0, <2>2, FS_AddElement DEF Weighs
  <2>4. /\ DOMAIN Drop(q, k) = DOMAIN queue
        /\ \A j \in DOMAIN queue : Drop(q, k)[j].weight = queue[j].weight
    BY <1>3, <2>2 DEF Drop
  <2>5. QueueWeight(q) = w + QueueWeight(Drop(q, k)) /\ Weighs(Drop(q, k))
    BY <2>2, <2>3, WeightOfDrop
  <2>6. QueueWeight(Drop(q, k)) = QueueWeight(queue)
    BY <2>4, <2>5, SameWeight
  <2>7. ~(total_weight < 0) /\ total_weight - 0 + w = QueueWeight(q) /\ QueueWeight(q) \in Nat
    BY <1>0, <2>5, <2>6
  <2>8. QueueWeight(q) % UsizeLimit = QueueWeight(q)
    BY <1>0, <1>1, <2>7, ModSmall
  <2>9. pc' = pc /\ total_weight' = QueueWeight(q)
    BY <2>1, <2>7, <2>8 DEF Reweigh
  <2>10. QED
    BY <1>1, <2>3, <2>9 DEF Weighs
<1>4. QED
  BY <1>2, <1>3

\* An entry that is read or checked for being stale keeps its weight.
LEMMA KeptIsAccounted ==
    ASSUME Weighs(queue), total_weight = QueueWeight(queue), total_weight' = total_weight,
           DOMAIN queue' = DOMAIN queue,
           \A k \in DOMAIN queue : queue'[k].weight = queue[k].weight
    PROVE  IsFiniteSet(DOMAIN queue') /\ total_weight' = QueueWeight(queue')
<1>1. PICK q : q = queue'
  OBVIOUS
<1>2. Weighs(q) /\ DOMAIN q = DOMAIN queue /\ \A k \in DOMAIN queue : q[k].weight = queue[k].weight
  BY <1>1 DEF Weighs
<1>3. QueueWeight(q) = QueueWeight(queue)
  BY <1>2, SameWeight
<1>4. QED
  BY <1>1, <1>2, <1>3 DEF Weighs

\* Evicting stops before the cache is empty: an empty one weighs nothing.
LEMMA EvictFindsAnEntry ==
    ASSUME Weighs(queue), total_weight = QueueWeight(queue), total_weight > MaxWeight
    PROVE  DOMAIN queue # {}
<1>1. SUFFICES ASSUME DOMAIN queue = {} PROVE FALSE
  OBVIOUS
<1>2. QueueWeight(queue) = 0
  BY <1>1, WeightOfNone
<1>3. QED
  BY <1>2, LfuAssumption

\* As long as no other cache is merged in, every operation of lfu_cache.rs keeps
\* total_weight equal to what the entries weigh and none of them panics: evict
\* never finds the queue empty, remove's assertion holds and no subtraction
\* underflows.
THEOREM WeightIsAccounted == Spec /\ []Fits => []AccountsForWeight
<1>1. Init => Accounted
  <2> SUFFICES ASSUME Init PROVE Accounted
    OBVIOUS
  <2>1. DOMAIN queue = {} /\ Weighs(queue)
    BY FS_EmptySet DEF Init, Weighs
  <2>2. QueueWeight(queue) = 0
    BY <2>1, WeightOfNone
  <2>3. QED
    BY <2>1, <2>2 DEF Init, Accounted, Weighs
<1>2. TypeOK /\ Accounted /\ Fits /\ Fits' /\ [Next]_vars => Accounted'
  <2> SUFFICES ASSUME TypeOK, Accounted, Fits, Fits', [Next]_vars
               PROVE  Accounted'
    OBVIOUS
  <2>1. ASSUME NEW other \in Foreign, NEW keepOwn \in BOOLEAN, Extend(other, keepOwn)
        PROVE  Accounted'
    BY <2>1 DEF Extend, Accounted
  <2>2. CASE merged
    <3>1. merged'
      BY <2>2 DEF Next, vars, Get, Insert, Remove, EvictStart, EvictPop, EvictReturn, Extend
    <3>2. QED
      BY <3>1 DEF Accounted
  <2>3. CASE ~merged
    <3>1. Weighs(queue) /\ total_weight = QueueWeight(queue) /\ pc # "panicked"
      BY <2>3, LfuAssumption DEF Accounted, Weighs, TypeOK, Entry
    <3>2. QueueWeight(queue) < UsizeLimit /\ QueueWeight(queue') < UsizeLimit
      BY DEF Fits
    <3> DEFINE Kept == /\ pc' # "panicked" /\ IsFiniteSet(DOMAIN queue')
                       /\ total_weight' = QueueWeight(queue')
    <3>3. ASSUME NEW k \in Key, Get(k) PROVE Kept
      <4>1. /\ DOMAIN queue' = DOMAIN queue
            /\ \A j \in DOMAIN queue : queue'[j].weight = queue[j].weight
        BY <3>3 DEF Get, Touched
      <4>2. total_weight' = total_weight /\ pc' # "panicked"
        BY <3>1, <3>3 DEF Get
      <4>3. QED
        BY <3>1, <4>1, <4>2, KeptIsAccounted
    <3>4. ASSUME NEW k \in Key, Remove(k) PROVE Kept
      <4>1. CASE k \in DOMAIN queue
        BY <3>1, <3>2, <3>4, <4>1, RemovePopsItsKey, PopIsAccounted
      <4>2. CASE k \notin DOMAIN queue
        BY <3>1, <3>4, <4>2 DEF Remove, Weighs
      <4>3. QED
        BY <4>1, <4>2
    <3>5. ASSUME NEW k \in Key, NEW w \in Weight, Insert(k, w) PROVE Kept
      BY <3>1, <3>2, <3>5, InsertIsAccounted
    <3>6. CASE EvictStart
      <4>1. /\ DOMAIN queue' = DOMAIN queue
            /\ \A j \in DOMAIN queue : queue'[j].weight = queue[j].weight
        BY <3>6 DEF EvictStart, StaleChecked
      <4>2. total_weight' = total_weight /\ pc' # "panicked"
        BY <3>6 DEF EvictStart
      <4>3. Kept
        BY <3>1, <4>1, <4>2, KeptIsAccounted
      <4>4. QED
        BY <4>3, <2>3, <3>6 DEF Accounted, EvictStart
    <3>7. CASE EvictPop
      <4>1. DOMAIN queue # {}
        BY <3>1, <3>7, EvictFindsAnEntry DEF EvictPop
      <4>2. PICK k \in DOMAIN queue : queue' = Drop(queue, k) /\ Reweigh(queue[k].weight, 0)
        BY <3>7, <4>1 DEF EvictPop
      <4>3. Kept
        BY <3>1, <3>2, <4>2, PopIsAccounted
      <4>4. QED
        BY <4>3 DEF Accounted
    <3>8. CASE EvictReturn
      BY <3>1, <3>8 DEF EvictReturn, Accounted, Weighs
    <3>9. CASE UNCHANGED vars
      BY <3>1, <3>9 DEF vars, Accounted, Weighs
    <3>10. Kept => Accounted'
      BY DEF Accounted
    <3>11. QED
      BY <2>1, <3>3, <3>4, <3>5, <3>6, <3>7, <3>8, <3>9, <3>10 DEF Next
  <2>4. QED
    BY <2>2, <2>3
<1>3. Accounted => AccountsForWeight
  BY DEF Accounted, AccountsForWeight, WeightAccounted, PanicsOnlyIfMerged
<1>4. QED
  BY <1>1, <1>2, <1>3, TypeCorrect, PTL DEF Spec
=============================================================================
