------------------------------ MODULE LfuCache ------------------------------
(***************************************************************************)
(* massbit/src/util/lfu_cache.rs: the weight-bounded cache that keeps the  *)
(* entities of an indexer in memory between blocks.                        *)
(*                                                                         *)
(* An entry is what its eviction depends on: its weight, its will_stale    *)
(* mark, and its priority (stale, freq).  total_weight is a usize: a       *)
(* release build wraps it, a build with overflow checks panics.            *)
(***************************************************************************)
EXTENDS Integers, FiniteSets, FiniteSetsExt, TLC

CONSTANTS
    Key,             \* the cached keys
    Weight,          \* the weights an entry can have, in abstract bytes
    MaxWeight,       \* the max_weight every evict call passes
    StalePeriod,     \* STALE_PERIOD
    UsizeLimit,      \* 2^w for a usize of w bits
    OverflowChecks,  \* TRUE in a build whose arithmetic panics on overflow
    MaxFreq,         \* bound: accesses of one entry
    Foreign          \* the caches another block state can hand to extend

Entry == [weight : Weight, will_stale : BOOLEAN, stale : BOOLEAN, freq : 1..MaxFreq]

ASSUME LfuAssumption ==
    /\ Weight \subseteq Nat \ {0}
    /\ MaxWeight \in Nat
    /\ StalePeriod \in Nat \ {0}
    /\ UsizeLimit \in Nat \ {0}
    /\ OverflowChecks \in BOOLEAN
    /\ MaxFreq \in Nat \ {0}
    /\ \A other \in Foreign :
         /\ DOMAIN other \subseteq Key
         /\ \A k \in DOMAIN other : other[k] \in Entry /\ ~other[k].will_stale

VARIABLES
    queue,           \* the PriorityQueue: cached key -> entry
    total_weight,
    stale_counter,
    accessed,        \* history: keys read or written since the last stale check
    merged,          \* history: extend has been called
    pc               \* "idle", "evicting" inside evict's loop, or "panicked"

vars == <<queue, total_weight, stale_counter, accessed, merged, pc>>

Drop(f, k) == [j \in DOMAIN f \ {k} |-> f[j]]
Put(f, k, v) == [j \in DOMAIN f \cup {k} |-> IF j = k THEN v ELSE f[j]]

\* The weight the entries of a queue really have.
QueueWeight(q) == MapThenSumSet(LAMBDA k : q[k].weight, DOMAIN q)

Init ==
    /\ queue = [k \in {} |-> 0]
    /\ total_weight = 0
    /\ stale_counter = 0
    /\ accessed = {}
    /\ merged = FALSE
    /\ pc = "idle"

(***************************************************************************)
(* usize subtraction: total_weight := total_weight - d, or the panic of a  *)
(* checked build.  up is what is added right after it.                     *)
(***************************************************************************)
Reweigh(d, up) ==
    IF total_weight < d /\ OverflowChecks
    THEN pc' = "panicked" /\ UNCHANGED total_weight
    ELSE /\ total_weight' = (total_weight - d + up) % UsizeLimit
         /\ UNCHANGED pc

\* A plausible bug: will_stale is not reset.
Touched_StillStale(e, w) ==
    [weight |-> w, will_stale |-> e.will_stale, stale |-> e.stale, freq |-> e.freq + 1]

\* get_mut on a present key: one more access, and no longer about to go stale.
\* The stale flag of its priority stays as it is.
\* insert then gives it the weight w.
Touched(e, w) ==
    [weight |-> w, will_stale |-> FALSE, stale |-> e.stale, freq |-> e.freq + 1]

Get(k) ==
    /\ pc = "idle"
    /\ IF k \in DOMAIN queue
       THEN /\ queue[k].freq < MaxFreq
            /\ queue' = [queue EXCEPT ![k] = Touched(queue[k], queue[k].weight)]
            /\ accessed' = accessed \cup {k}
       ELSE UNCHANGED <<queue, accessed>>
    /\ UNCHANGED <<total_weight, stale_counter, merged, pc>>

\* A plausible bug: the weight of the replaced entry is not subtracted.
Insert_KeepsOldWeight(k, w) ==
    /\ pc = "idle"
    /\ IF k \in DOMAIN queue
       THEN /\ queue[k].freq < MaxFreq
            /\ queue' = [queue EXCEPT ![k] = Touched(queue[k], w)]
       ELSE queue' = Put(queue, k, [weight |-> w, will_stale |-> FALSE,
                                    stale |-> FALSE, freq |-> 1])
    /\ Reweigh(0, w)
    /\ accessed' = accessed \cup {k}
    /\ UNCHANGED <<stale_counter, merged>>

Insert(k, w) ==
    /\ pc = "idle"
    /\ IF k \in DOMAIN queue
       THEN /\ queue[k].freq < MaxFreq
            /\ queue' = [queue EXCEPT ![k] = Touched(queue[k], w)]
            /\ Reweigh(queue[k].weight, w)
       ELSE /\ queue' = Put(queue, k, [weight |-> w, will_stale |-> FALSE,
                                       stale |-> FALSE, freq |-> 1])
            /\ Reweigh(0, w)
    /\ accessed' = accessed \cup {k}
    /\ UNCHANGED <<stale_counter, merged>>

\* (stale, Reverse(freq)): stale entries are popped first, then rare ones.
PoppedNoLater(e, f) ==
    \/ e.stale /\ ~f.stale
    \/ e.stale = f.stale /\ e.freq <= f.freq

IsNextOut(q, k) == k \in DOMAIN q /\ \A j \in DOMAIN q : PoppedNoLater(q[k], q[j])

\* remove gives the entry the first priority there is, pops one, and asserts
\* that it is the entry's own.
FirstOut(e) == [weight |-> e.weight, will_stale |-> e.will_stale, stale |-> TRUE, freq |-> 0]

Remove(k) ==
    /\ pc = "idle"
    /\ IF k \in DOMAIN queue
       THEN LET q == [queue EXCEPT ![k] = FirstOut(queue[k])]
            IN  \E p \in DOMAIN queue :
                  /\ IsNextOut(q, p)
                  /\ queue' = Drop(q, p)
                  /\ IF p = k THEN Reweigh(queue[k].weight, 0)
                     ELSE pc' = "panicked" /\ UNCHANGED total_weight
       ELSE UNCHANGED <<queue, total_weight, pc>>
    /\ UNCHANGED <<stale_counter, accessed, merged>>

\* The stale check of one entry: stale now if nothing touched it since the last
\* check, and stale at the next one unless something touches it before.
StaleChecked(e) ==
    [weight |-> e.weight, will_stale |-> TRUE, stale |-> e.will_stale, freq |-> e.freq]

EvictStart ==
    /\ pc = "idle"
    /\ total_weight > MaxWeight
    /\ IF stale_counter + 1 = StalePeriod
       THEN /\ stale_counter' = 0
            /\ queue' = [k \in DOMAIN queue |-> StaleChecked(queue[k])]
            /\ accessed' = {}
       ELSE /\ stale_counter' = stale_counter + 1
            /\ UNCHANGED <<queue, accessed>>
    /\ pc' = "evicting"
    /\ UNCHANGED <<total_weight, merged>>

EvictPop ==
    /\ pc = "evicting"
    /\ total_weight > MaxWeight
    /\ \/ /\ DOMAIN queue = {}
          /\ pc' = "panicked"
          /\ UNCHANGED <<queue, total_weight>>
       \/ \E k \in DOMAIN queue :
            /\ IsNextOut(queue, k)
            /\ queue' = Drop(queue, k)
            /\ Reweigh(queue[k].weight, 0)
    /\ UNCHANGED <<stale_counter, accessed, merged>>

\* A plausible bug: eviction ends without looking at the weight again.
EvictReturn_TooSoon ==
    /\ pc = "evicting"
    /\ pc' = "idle"
    /\ UNCHANGED <<queue, total_weight, stale_counter, accessed, merged>>

EvictReturn ==
    /\ pc = "evicting"
    /\ total_weight <= MaxWeight
    /\ pc' = "idle"
    /\ UNCHANGED <<queue, total_weight, stale_counter, accessed, merged>>

\* Extend: the entries of the other cache go into the priority queue, and
\* nothing else changes.  The queue is an external crate: for a key that both
\* caches hold it takes the new priority, and it may keep its own entry or
\* take the new one.
Extend(other, keepOwn) ==
    /\ pc = "idle"
    /\ LET kept == IF keepOwn THEN DOMAIN queue ELSE {}
       IN  /\ queue' = [k \in DOMAIN queue \cup DOMAIN other |->
                          IF k \notin DOMAIN other THEN queue[k]
                          ELSE IF k \in kept
                          THEN [weight |-> queue[k].weight, will_stale |-> queue[k].will_stale,
                                stale |-> other[k].stale, freq |-> other[k].freq]
                          ELSE other[k]]
           /\ accessed' = accessed \cup (DOMAIN other \ kept)
    /\ merged' = TRUE
    /\ UNCHANGED <<total_weight, stale_counter, pc>>

Next ==
    \/ \E k \in Key : Get(k) \/ Remove(k)
    \/ \E k \in Key, w \in Weight : Insert(k, w)
    \/ EvictStart
    \/ EvictPop
    \/ EvictReturn
    \/ \E other \in Foreign, keepOwn \in BOOLEAN : Extend(other, keepOwn)

Spec == Init /\ [][Next]_vars /\ WF_vars(EvictPop) /\ WF_vars(EvictReturn)
-----------------------------------------------------------------------------
TypeOK ==
    /\ DOMAIN queue \subseteq Key
    /\ \A k \in DOMAIN queue : queue[k] \in Entry
    /\ total_weight \in 0..(UsizeLimit - 1)
    /\ stale_counter \in 0..(StalePeriod - 1)
    /\ accessed \subseteq Key
    /\ merged \in BOOLEAN
    /\ pc \in {"idle", "evicting", "panicked"}

\* total_weight is what the entries in the queue weigh, as long as no other cache
\* was merged in: insert, remove and every pop of evict add and subtract the
\* weight stored in the entry.
WeightAccounted == ~merged /\ pc # "panicked" => total_weight = QueueWeight(queue)

\* Without extend no operation panics: evict never runs out of entries while
\* total_weight is above the limit (its expect), remove pops the entry it meant
\* to (its assert), and no subtraction from total_weight underflows.
PanicsOnlyIfMerged == pc = "panicked" => merged

\* An entry that was read or written since the last stale check is not marked to
\* go stale at the next one: eviction prefers entries a whole period untouched.
MarkedAreUntouched == \A k \in DOMAIN queue : queue[k].will_stale => k \notin accessed

\* As long as no other cache was merged in, total_weight is the weight of the
\* entries and nothing panics: what evict's expect and remove's assert rely on.
AccountsForWeight == WeightAccounted /\ PanicsOnlyIfMerged

\* Every evict that finds the cache too heavy returns, with entries that really
\* weigh no more than the limit, as long as no other cache was merged in.
EvictBoundsMemory ==
    (pc = "evicting" /\ ~merged) ~> (pc = "idle" /\ QueueWeight(queue) <= MaxWeight)
=============================================================================
