------------------------ MODULE PollingAndPoolProof ------------------------
(***************************************************************************)
(* Proofs about PollingBlockStream: over any node the stream implements    *)
(* BlockStream, for every chain, every range limit and every target.  And, *)
(* after them, about ConnectionPool:                                       *)
(* for any number of processes, threads and migrations, the connections in *)
(* use stay within the pool and a node that serves has the whole schema.   *)
(***************************************************************************)
EXTENDS PollingBlockStream, ConnectionPool, FiniteSetTheorems, TLAPS

\* Between ranges everything scanned has been yielded.
Caught == state # "yielding" => queue = {} /\ at = stream_ptr

\* What the answers to the requests in flight say.
Answers ==
    state = "scanning" =>
        /\ logs = "ok" => found = Matching \ missed
        /\ hash = "ok" => To <= head

\* What is still to be yielded of the last range.
Yielding ==
    state = "yielding" =>
        /\ stream_ptr <= head
        /\ \A b \in queue : at < b /\ b <= stream_ptr
        /\ at = stream_ptr \/ stream_ptr \in queue
        /\ \A c \in Triggered \ missed : at < c /\ c <= stream_ptr => c \in queue
        /\ \A b \in queue : b \in found <=> b \in Triggered \ missed

\* What the node did not have is not after the ranges asked for.
MissedAreAsked ==
    /\ state \in {"scanning", "completed", "panicked"} => \A b \in missed : b <= To
    /\ state \in {"begin", "yielding"} \/ logs # "ok" => \A b \in missed : b <= stream_ptr

Inv == TypeOK /\ Caught /\ Answers /\ Yielding /\ MissedAreAsked /\ SkipsOnlyMissed

\* get_next_step sizes a range between one block and the maximum.
LEMMA RangeSizeTyped == TypeOK => RangeSize \in 1..MaxRange
<1> SUFFICES ASSUME TypeOK PROVE RangeSize \in 1..MaxRange
  OBVIOUS
<1> USE PollingAssumption
<1>1. /\ previous.range \in 1..MaxRange /\ previous.total \in Nat
      /\ MaxRange \in Nat /\ MaxRange >= 1 /\ Target \in Nat
  BY DEF TypeOK
<1>2. Least(MaxRange, previous.range * 10) \in 1..MaxRange
  BY <1>1 DEF Least
<1>3. CASE previous.total = 0
  BY <1>2, <1>3 DEF RangeSize
<1>4. CASE previous.total # 0
  <2> DEFINE d == (Target * previous.range) \div previous.total
  <2>1. Target * previous.range \in Nat /\ previous.total \in Nat /\ previous.total > 0
    BY <1>1, <1>4
  <2>2. d \in Int
    BY <2>1
  <2>3. Greatest(d, 1) \in Int /\ Greatest(d, 1) >= 1
    BY <2>2 DEF Greatest
  <2>4. Least(Greatest(d, 1), Least(MaxRange, previous.range * 10)) \in 1..MaxRange
    BY <1>1, <1>2, <2>3 DEF Least
  <2>5. QED
    BY <1>4, <2>4 DEF RangeSize
<1>5. QED
  BY <1>3, <1>4

\* The previous_triggers_per_block that new starts with is a number.
LEMMA StartingType == StartingTriggers \in Nat
BY SMT DEF StartingTriggers

\* A new stream satisfies the invariant.
LEMMA InitInv == Init => Inv
<1> SUFFICES ASSUME Init PROVE Inv
  OBVIOUS
<1> USE PollingAssumption
<1>1. TypeOK
  <2>1. at \in 0..MaxBlock /\ head \in 0..MaxBlock /\ stream_ptr \in 0..MaxBlock
    BY DEF Init
  <2>2. last \in BOOLEAN
    BY DEF Init
  <2>3. previous \in [total : Nat, range : 1..MaxRange] /\ range_size \in 1..MaxRange
    <3>1. 1 \in 1..MaxRange
      OBVIOUS
    <3>2. QED
      BY <3>1, StartingType DEF Init
  <2>4. /\ found \subseteq Triggered /\ queue \subseteq 0..MaxBlock
        /\ delivered \subseteq Triggered /\ missed \subseteq Triggered
    BY DEF Init
  <2>5. QED
    BY <2>1, <2>2, <2>3, <2>4 DEF Init, TypeOK
<1>2. SkipsOnlyMissed
  BY DEF Init, SkipsOnlyMissed
<1>3. QED
  BY <1>1, <1>2 DEF Init, Inv, Caught, Answers, Yielding, MissedAreAsked

\* A finished scan moves the pointer past exactly what it queued.
LEMMA ScanReturnsInv == Inv /\ ScanReturns => Inv'
<1> SUFFICES ASSUME Inv, ScanReturns PROVE Inv'
  OBVIOUS
<1> USE PollingAssumption
<1>1. /\ TypeOK /\ MissedAreAsked /\ SkipsOnlyMissed /\ at = stream_ptr /\ To <= head
      /\ found = Matching \ missed
  BY DEF Inv, Caught, Answers, ScanReturns
<1>2. /\ stream_ptr \in Nat /\ range_size \in Nat /\ range_size >= 1 /\ head \in 0..MaxBlock
      /\ To = stream_ptr + range_size /\ To \in 0..MaxBlock /\ To > at
  BY <1>1 DEF TypeOK, To
<1>3. /\ queue' = found \cup {To} /\ stream_ptr' = To /\ state' = "yielding"
      /\ UNCHANGED <<at, head, found, delivered, missed>>
  BY DEF ScanReturns, blocks_with_triggers, scan
<1>4. TypeOK'
  <2>1. Total[found] \in Nat /\ found \subseteq 0..MaxBlock
    BY <1>1 DEF TypeOK
  <2>2. QED
    BY <1>1, <1>2, <1>3, <2>1 DEF TypeOK, ScanReturns, scan
<1>5. Yielding'
  <2>1. \A b \in found : b \in Nat /\ b >= stream_ptr + 1 /\ b <= To
    BY <1>1 DEF From, Matching
  <2>2. \A b \in queue' : at < b /\ b <= To
    BY <1>1, <1>2, <1>3, <2>1
  <2>3. \A c \in Triggered \ missed : at < c /\ c <= To => c \in found
    <3>1. \A c \in Triggered : c \in Nat
      OBVIOUS
    <3>2. QED
      BY <1>1, <1>2, <3>1 DEF From, Matching
  <2>4. \A b \in queue' : b \in found <=> b \in Triggered \ missed
    BY <1>1, <1>2, <1>3, <2>3 DEF Matching
  <2>5. QED
    BY <1>1, <1>3, <2>2, <2>3, <2>4 DEF Yielding
<1>6. MissedAreAsked'
  BY <1>1, <1>3 DEF MissedAreAsked, ScanReturns
<1>7. Caught' /\ Answers' /\ SkipsOnlyMissed'
  BY <1>1, <1>3 DEF Caught, Answers, SkipsOnlyMissed
<1>8. QED
  BY <1>4, <1>5, <1>6, <1>7 DEF Inv

\* Yielding the front of the queue leaves nothing out.
LEMMA YieldInv == ASSUME Inv, NEW b \in queue, Yield(b) PROVE Inv'
<1> USE PollingAssumption
<1>1. TypeOK /\ Yielding /\ MissedAreAsked /\ state = "yielding" /\ SkipsOnlyMissed
  BY DEF Inv, Yield
<1>2. /\ b \in 0..MaxBlock /\ at \in Nat /\ stream_ptr \in Nat /\ queue \subseteq 0..MaxBlock
      /\ at < b /\ b <= stream_ptr
      /\ \A c \in queue : b <= c
  BY <1>1 DEF TypeOK, Yielding, Yield
<1>3. TypeOK'
  BY <1>1, <1>2 DEF TypeOK, Yield, scan
<1>4. Yielding'
  <2>1. \A c \in queue' : b < c /\ c <= stream_ptr
    BY <1>1, <1>2 DEF Yielding, Yield
  <2>2. b = stream_ptr \/ stream_ptr \in queue'
    BY <1>1, <1>2 DEF Yielding, Yield
  <2>3. /\ \A c \in Triggered \ missed : b < c /\ c <= stream_ptr => c \in queue'
        /\ \A c \in queue' : c \in found <=> c \in Triggered \ missed
    BY <1>1, <1>2 DEF Yielding, Yield
  <2>4. QED
    BY <1>1, <2>1, <2>2, <2>3 DEF Yielding, Yield, scan
<1>5. SkipsOnlyMissed'
  <2> SUFFICES ASSUME NEW c \in Triggered, StartBlock < c, c <= b, c \notin missed
               PROVE  c \in delivered'
    BY DEF SkipsOnlyMissed, Yield
  <2>1. c \in Nat
    OBVIOUS
  <2>2. CASE c <= at
    BY <1>1, <2>2 DEF SkipsOnlyMissed, Yield
  <2>3. CASE at < c
    <3>1. c \in queue
      BY <1>1, <1>2, <2>1, <2>3 DEF Yielding
    <3>2. c = b
      BY <1>2, <2>1, <3>1
    <3>3. b \in found
      BY <1>1, <3>1, <3>2 DEF Yielding
    <3>4. QED
      BY <3>2, <3>3 DEF Yield
  <2>4. QED
    BY <1>2, <2>1, <2>2, <2>3
<1>6. MissedAreAsked'
  BY <1>1 DEF MissedAreAsked, Yield
<1>7. QED
  BY <1>1, <1>3, <1>4, <1>5, <1>6 DEF Inv, Caught, Answers, Yield

\* The node's answer has the triggers of the range, less those it does not have.
LEMMA AnswerLogsInv == Inv /\ AnswerLogs => Inv'
<1> SUFFICES ASSUME Inv, AnswerLogs PROVE Inv'
  OBVIOUS
<1> USE PollingAssumption
<1>1. TypeOK /\ MissedAreAsked /\ SkipsOnlyMissed /\ state = "scanning" /\ logs = "pending"
  BY DEF Inv, AnswerLogs
<1>2. /\ stream_ptr \in Nat /\ range_size \in Nat /\ range_size >= 1 /\ head \in Nat
      /\ To \in Nat /\ stream_ptr < To /\ stream_ptr < From
      /\ From' = From /\ To' = To /\ Matching' = Matching
  BY <1>1 DEF TypeOK, AnswerLogs, From, To, Matching
<1>3. Matching \subseteq Triggered /\ \A b \in Matching : b \in Nat /\ stream_ptr < b /\ b <= To
  BY <1>1, <1>2 DEF Matching, From
<1>4. \A b \in missed : b \in Nat /\ b <= stream_ptr
  BY <1>1 DEF MissedAreAsked, TypeOK
<1>5. TypeOK'
  BY <1>1, <1>3 DEF AnswerLogs, TypeOK
<1>6. CASE logs' = "ok"
  <2>1. /\ found' = {b \in Matching : b <= head}
        /\ missed' = missed \cup {b \in Matching : b > head}
    BY <1>6 DEF AnswerLogs
  <2>2. found' = Matching \ missed'
    <3>1. \A b \in Matching : b \notin missed /\ (b <= head <=> ~(b > head))
      BY <1>2, <1>3, <1>4
    <3>2. QED
      BY <2>1, <3>1
  <2>3. Answers'
    BY <1>2, <2>2 DEF AnswerLogs, Answers, Inv
  <2>4. MissedAreAsked'
    BY <1>1, <1>2, <1>3, <1>4, <1>6, <2>1 DEF AnswerLogs, MissedAreAsked
  <2>5. SkipsOnlyMissed'
    BY <1>1, <2>1 DEF AnswerLogs, SkipsOnlyMissed
  <2>6. QED
    BY <1>1, <1>5, <2>3, <2>4, <2>5 DEF AnswerLogs, Inv, Caught, Yielding
<1>7. CASE logs' = "failed"
  <2>1. UNCHANGED <<found, missed>>
    BY <1>7 DEF AnswerLogs
  <2>2. MissedAreAsked'
    BY <1>1, <1>2, <2>1 DEF AnswerLogs, MissedAreAsked
  <2>3. QED
    BY <1>1, <1>2, <1>5, <1>7, <2>1, <2>2
       DEF AnswerLogs, Inv, Caught, Answers, Yielding, SkipsOnlyMissed
<1>8. QED
  BY <1>6, <1>7 DEF AnswerLogs

\* Every step keeps the invariant.
LEMMA NextInv == Inv /\ [Next]_vars => Inv'
<1> SUFFICES ASSUME Inv, [Next]_vars PROVE Inv'
  OBVIOUS
<1> USE PollingAssumption DEF MissedAreAsked, SkipsOnlyMissed
<1>1. CASE HeadGrows
  <2>1. /\ head' \in 0..MaxBlock /\ head <= head' /\ head \in Nat /\ To \in Nat
        /\ stream_ptr \in Nat
    BY <1>1 DEF HeadGrows, Inv, TypeOK, To
  <2>2. TypeOK'
    BY <1>1, <2>1 DEF HeadGrows, Inv, TypeOK, scan
  <2>3. Answers'
    BY <1>1, <2>1 DEF HeadGrows, Inv, Answers, Matching, From, To, scan
  <2>4. Yielding'
    BY <1>1, <2>1 DEF HeadGrows, Inv, Yielding, scan
  <2>5. QED
    BY <1>1, <2>2, <2>3, <2>4 DEF HeadGrows, Inv, Caught, To, scan
<1>2. CASE BeginScan
  <2>1. TypeOK'
    BY <1>2, RangeSizeTyped DEF BeginScan, Inv, TypeOK
  <2>2. stream_ptr \in Nat /\ range_size' \in Nat /\ \A b \in missed : b \in Nat
    BY <1>2, <2>1 DEF BeginScan, Inv, TypeOK
  <2>3. MissedAreAsked'
    BY <1>2, <2>2 DEF BeginScan, Inv, To
  <2>4. QED
    BY <1>2, <2>1, <2>3 DEF BeginScan, Inv, Caught, Answers, Yielding
<1>3. CASE AnswerLogs
  BY <1>3, AnswerLogsInv
<1>4. CASE AnswerHash
  BY <1>4 DEF AnswerHash, Inv, TypeOK, Caught, Answers, Yielding, Matching, From, To
<1>5. CASE ScanReturns
  BY <1>5, ScanReturnsInv
<1>6. CASE ScanFails
  BY <1>6 DEF ScanFails, Inv, TypeOK, Caught, Answers, Yielding, To, scan
<1>7. CASE PollCompleted
  BY <1>7 DEF PollCompleted, Inv, TypeOK, Caught, Answers, Yielding, To, scan
<1>8. CASE \E b \in queue : Yield(b)
  BY <1>8, YieldInv
<1>9. CASE Depleted
  BY <1>9 DEF Depleted, Inv, TypeOK, Caught, Answers, Yielding, scan
<1>10. CASE UNCHANGED vars
  BY <1>10 DEF vars, scan, Inv, TypeOK, Caught, Answers, Yielding, Matching, From, To
<1>11. QED
  BY <1>1, <1>2, <1>3, <1>4, <1>5, <1>6, <1>7, <1>8, <1>9, <1>10 DEF Next, StreamStep

\* The invariant holds in every state of the polling stream.
THEOREM Invariance == Spec => []Inv
BY InitInv, NextInv, PTL DEF Spec

\* The polling stream's variables keep their types: the ranges stay between one
\* block and max_block_range_size, and end within the chain.
THEOREM TypeCorrect == Spec => []TypeOK
<1>1. Inv => TypeOK
  BY DEF Inv
<1>2. QED
  BY <1>1, Invariance, PTL

\* Whatever the node answers, poll_next passes over a block with triggers only if
\* the node did not have it when it was asked for the range.
THEOREM SkipsOnlyMissedHolds == Spec => []SkipsOnlyMissed
<1>1. Inv => SkipsOnlyMissed
  BY DEF Inv
<1>2. QED
  BY <1>1, Invariance, PTL

\* PollingBlockStream implements BlockStream, over any node: the blocks it misses
\* were asked for before the node had them.
THEOREM Implements == Spec => IsABlockStream
<1>1. Init => Stream!Init
  BY PollingAssumption DEF Init, Stream!Init
<1>2. Inv /\ [Next]_vars => [Stream!Next]_<<head, at, last, missed>>
  <2> SUFFICES ASSUME Inv, [Next]_vars
               PROVE  Stream!Next \/ UNCHANGED <<head, at, last, missed>>
    OBVIOUS
  <2>1. ASSUME NEW b \in queue, Yield(b) PROVE Stream!Next
    <3>1. TypeOK /\ Yielding /\ state = "yielding"
      BY <2>1 DEF Inv, Yield
    <3>2. /\ b \in 0..MaxBlock /\ at < b /\ b <= stream_ptr /\ stream_ptr <= head
          /\ stream_ptr \in Nat /\ at \in Nat /\ head \in Nat
      BY <3>1, PollingAssumption DEF TypeOK, Yielding
    <3>3. \A c \in Triggered \ missed : at < c => b <= c
      <4> SUFFICES ASSUME NEW c \in Triggered \ missed, at < c PROVE b <= c
        OBVIOUS
      <4>1. c \in Nat
        BY PollingAssumption
      <4>2. CASE c <= stream_ptr
        BY <2>1, <3>1, <4>2 DEF Yielding, Yield
      <4>3. CASE ~(c <= stream_ptr)
        BY <3>2, <4>1, <4>3
      <4>4. QED
        BY <4>2, <4>3
    <3>4. at' = b /\ last' = (b \in Triggered \ missed) /\ UNCHANGED <<head, missed>>
      BY <2>1, <3>1 DEF Yield, Yielding
    <3>5. Stream!Deliver(b)
      BY <3>2, <3>3, <3>4 DEF Stream!Deliver
    <3>6. QED
      BY <3>2, <3>5 DEF Stream!Next
  <2>2. CASE AnswerLogs
    <3>1. UNCHANGED <<head, at, last>>
      BY <2>2 DEF AnswerLogs
    <3>2. CASE logs' = "ok"
      <4> DEFINE early == {b \in Matching : b > head}
      <4>1. at = stream_ptr /\ stream_ptr \in Nat
        BY <2>2, PollingAssumption DEF Inv, Caught, TypeOK, AnswerLogs
      <4>2. early \in SUBSET {b \in Triggered : head < b /\ at < b}
        <5>1. \A b \in Triggered : b \in Nat /\ head \in Nat
          BY PollingAssumption DEF Inv, TypeOK
        <5>2. QED
          BY <4>1, <5>1 DEF Matching, From
      <4>3. missed' = missed \cup early
        BY <2>2, <3>2 DEF AnswerLogs
      <4> HIDE DEF early
      <4>4. Stream!Miss
        BY <3>1, <4>2, <4>3 DEF Stream!Miss
      <4>5. QED
        BY <4>4 DEF Stream!Next
    <3>3. CASE logs' = "failed"
      BY <2>2, <3>1, <3>3 DEF AnswerLogs
    <3>4. QED
      BY <2>2, <3>2, <3>3 DEF AnswerLogs
  <2>3. CASE HeadGrows
    <3>1. head' \in (head + 1)..MaxBlock /\ UNCHANGED <<at, last, missed>>
      BY <2>3, PollingAssumption DEF HeadGrows, Inv, TypeOK
    <3>2. QED
      BY <3>1 DEF Stream!Grow, Stream!Next
  <2>4. QED
    BY <2>1, <2>2, <2>3 DEF Next, StreamStep, BeginScan, AnswerHash, ScanReturns,
                            ScanFails, PollCompleted, Depleted, vars
<1>3. QED
  BY <1>1, <1>2, Invariance, PTL DEF Spec, IsABlockStream, Stream!Spec

-----------------------------------------------------------------------------
(* The pool.                                                                *)

\* The states of a thread in which it has a connection, and its other ones.
Busy == {"connected", "running"}
TaskStates == {"idle", "scheduled", "ok", "error", "canceled"} \cup Busy
Used(p) == {t \in Task : task[p][t] \in Busy}

PoolTyped ==
    /\ applied \in 0 .. MaxMigration
    /\ holder \in Proc \cup {NoProc}
    /\ phase \in [Proc -> {"off", "connecting", "locking", "migrating", "unlocking", "serving"}]
    /\ result \in [Proc -> {"none", "ok", "error", "swallowed"}]
    /\ pool \in [Proc -> {"Created", "Ready"}]
    /\ task \in [Proc -> [Task -> TaskStates]]
    /\ dropped \in [Proc -> SUBSET Task]
    /\ panicked = {}
    /\ set_up \subseteq Proc

\* Where the advisory lock is.
Locked == \A p \in Proc : phase[p] \in {"migrating", "unlocking"} => holder = p

\* What the setup of a process means for the schema, from the last migration on.
Migrated ==
    \A p \in Proc :
        /\ p \in set_up => /\ phase[p] = "serving"
                           /\ result[p] = "swallowed" \/ applied = MaxMigration
        /\ phase[p] = "unlocking" => result[p] \in {"error", "swallowed"} \/ applied = MaxMigration

\* The threads within the pool, and a thread that is canceled only for a future
\* that was dropped.
Threads ==
    \A p \in Proc : /\ InUse(p) <= PoolSize
                    /\ \A t \in Task : task[p][t] = "canceled" => t \in dropped[p]

PoolInv == PoolTyped /\ Locked /\ Migrated /\ Threads

-----------------------------------------------------------------------------
\* The connections in use are a number, which a new one increases by one, and
\* which does not grow without one (PoolInner's r2d2 pool).
LEMMA UsedAre ==
    ASSUME PoolTyped, NEW p \in Proc
    PROVE  /\ InUse(p) \in Nat /\ InUse(p) = Cardinality(Used(p)) /\ IsFiniteSet(Used(p))
           /\ Used(p)' \subseteq Used(p) => InUse(p)' <= InUse(p)
           /\ \A t \in Task : Used(p)' \subseteq Used(p) \cup {t} => InUse(p)' <= InUse(p) + 1
<1>1. InUse(p) = Cardinality(Used(p)) /\ InUse(p)' = Cardinality(Used(p)')
  BY DEF InUse, Used, Busy
<1>2. IsFiniteSet(Used(p)) /\ Cardinality(Used(p)) \in Nat
  <2>1. Used(p) \subseteq Task /\ IsFiniteSet(Task)
    BY PoolAssumption DEF Used
  <2> QED
    BY <2>1, FS_Subset, FS_CardinalityType, Zenon
<1>3. ASSUME NEW S, S \subseteq Used(p) PROVE Cardinality(S) <= Cardinality(Used(p))
  BY <1>2, <1>3, FS_Subset
<1>4. ASSUME NEW t \in Task, NEW S, S \subseteq Used(p) \cup {t}
      PROVE  Cardinality(S) <= Cardinality(Used(p)) + 1
  <2>1. /\ IsFiniteSet(Used(p) \cup {t})
        /\ Cardinality(Used(p) \cup {t}) =
              IF t \in Used(p) THEN Cardinality(Used(p)) ELSE Cardinality(Used(p)) + 1
    BY <1>2, FS_AddElement, Zenon
  <2>2. Cardinality(S) <= Cardinality(Used(p) \cup {t})
    BY <1>4, <2>1, FS_Subset
  <2>3. Cardinality(S) \in Nat
    BY <1>4, <2>1, FS_Subset, FS_CardinalityType
  <2> QED
    BY <1>2, <2>1, <2>2, <2>3
<1> QED
  BY <1>1, <1>2, <1>3, <1>4

\* A step that leaves the threads and their futures alone.
LEMMA SameThreads ==
    ASSUME Threads, UNCHANGED <<task, dropped>>
    PROVE  Threads'
BY DEF Threads, InUse

\* A step of one thread, to another of its states: a connection is taken only
\* from a pool that has one, and a thread canceled only for a dropped future.
Works(p, t, to) ==
    /\ to \in TaskStates
    /\ task' = [task EXCEPT ![p][t] = to]
    /\ \/ dropped' = dropped
       \/ dropped' = [dropped EXCEPT ![p] = @ \ {t}] /\ to = "idle"
    /\ UNCHANGED startup /\ panicked' = panicked
    /\ pool' \in [Proc -> {"Created", "Ready"}]
    /\ to \in Busy => task[p][t] \in Busy \/ InUse(p) < PoolSize
    /\ to = "canceled" => t \in dropped[p]

\* Such a step keeps the connections within the pool (with_conn).
LEMMA ThreadInv ==
    ASSUME PoolInv, NEW p \in Proc, NEW t \in Task, NEW to, Works(p, t, to)
    PROVE  PoolInv'
<1> USE DEF Works
<1>1. PoolTyped /\ Locked /\ Migrated /\ Threads
  BY DEF PoolInv
<1>2. task' \in [Proc -> [Task -> TaskStates]]
  BY <1>1 DEF PoolTyped
<1>3. dropped' \in [Proc -> SUBSET Task]
  BY <1>1 DEF PoolTyped
<1>4. PoolTyped'
  BY <1>1, <1>2, <1>3 DEF PoolTyped, startup
<1>5. Locked' /\ Migrated'
  BY <1>1 DEF Locked, Migrated, startup
<1>6. \A q \in Proc, u \in Task : task'[q][u] = IF q = p /\ u = t THEN to ELSE task[q][u]
  BY <1>1 DEF PoolTyped
<1>7. ASSUME NEW q \in Proc PROVE InUse(q)' <= PoolSize
  <2>1. InUse(q) \in Nat /\ InUse(q) <= PoolSize /\ PoolTyped' /\ PoolSize \in Nat
    BY <1>1, <1>4, UsedAre, PoolAssumption DEF Threads
  <2>2. InUse(q)' \in Nat
    BY <1>4, <1>2, PoolAssumption, FS_Subset, FS_CardinalityType DEF InUse
  <2>3. CASE q = p /\ to \in Busy /\ ~ (task[p][t] \in Busy)
    <3>1. Used(q)' \subseteq Used(q) \cup {t}
      BY <1>6, <2>3 DEF Used
    <3>2. InUse(q)' <= InUse(q) + 1
      BY <1>1, <3>1, UsedAre
    <3> QED
      BY <2>1, <2>2, <2>3, <3>2
  <2>4. CASE ~ (q = p /\ to \in Busy /\ ~ (task[p][t] \in Busy))
    <3>1. Used(q)' \subseteq Used(q)
      BY <1>6, <2>4 DEF Used
    <3>2. InUse(q)' <= InUse(q)
      BY <1>1, <3>1, UsedAre
    <3> QED
      BY <2>1, <2>2, <3>2
  <2> QED
    BY <2>3, <2>4
<1>8. ASSUME NEW q \in Proc, NEW u \in Task, task'[q][u] = "canceled"
      PROVE  u \in dropped'[q]
  <2>1. CASE q = p /\ u = t
    <3>1. to = "canceled" /\ t \in dropped[p]
      BY <1>6, <1>8, <2>1
    <3> QED
      BY <3>1, <2>1
  <2>2. CASE ~ (q = p /\ u = t)
    <3>1. u \in dropped[q]
      BY <1>1, <1>6, <1>8, <2>2 DEF Threads
    <3> QED
      BY <1>1, <2>2, <3>1 DEF PoolTyped
  <2> QED
    BY <2>1, <2>2
<1>9. Threads'
  BY <1>7, <1>8 DEF Threads
<1> QED
  BY <1>4, <1>5, <1>9 DEF PoolInv

\* What a step of one process in its start leaves alone, and what it may do.
OthersStay(p) ==
    /\ UNCHANGED tasks
    /\ \A q \in Proc : q # p => /\ phase'[q] = phase[q] /\ result'[q] = result[q]
                                /\ q \in set_up' <=> q \in set_up
                                /\ holder = q => holder' = q

Starts(p) ==
    /\ applied' >= applied
    /\ phase'[p] \in {"migrating", "unlocking"} => holder' = p
    /\ p \in set_up' => /\ phase'[p] = "serving"
                        /\ result'[p] = "swallowed" \/ applied' = MaxMigration
    /\ phase'[p] = "unlocking" => result'[p] \in {"error", "swallowed"} \/ applied' = MaxMigration

\* A step of a process in its start, which leaves the threads alone and does not
\* take the schema back.
LEMMA StartInv ==
    ASSUME PoolInv, NEW p \in Proc, PoolTyped', OthersStay(p), Starts(p)
    PROVE  PoolInv'
<1>1. Locked'
  BY DEF PoolInv, Locked, OthersStay, Starts
<1>2. applied = MaxMigration => applied' = MaxMigration
  BY PoolAssumption DEF PoolInv, PoolTyped, Starts
<1>3. Migrated'
  BY <1>2 DEF PoolInv, Migrated, OthersStay, Starts
<1>4. Threads'
  BY SameThreads DEF PoolInv, tasks, OthersStay
<1> QED
  BY <1>1, <1>3, <1>4 DEF PoolInv

\* A pool is created for a process that has none (main_pool).
LEMMA CreateInv == ASSUME PoolInv, NEW p \in Proc, create(p) PROVE PoolInv'
<1>1. PoolTyped'
  BY DEF PoolInv, PoolTyped, create, tasks
<1>2. p \notin set_up
  BY DEF PoolInv, Migrated, create
<1>3. OthersStay(p)
  BY DEF PoolInv, PoolTyped, create, OthersStay
<1>4. Starts(p)
  BY <1>2 DEF PoolInv, PoolTyped, create, Starts
<1> QED
  BY <1>1, <1>3, <1>4, StartInv, Zenon

\* The setup has its connection, or none (PoolInner::setup).
LEMMA ConnectsInv == ASSUME PoolInv, NEW p \in Proc, SetupConnects(p) PROVE PoolInv'
<1>1. PoolTyped'
  BY DEF PoolInv, PoolTyped, SetupConnects, tasks
<1>2. p \notin set_up
  BY DEF PoolInv, Migrated, SetupConnects
<1>3. OthersStay(p)
  BY DEF PoolInv, PoolTyped, SetupConnects, OthersStay
<1>4. Starts(p)
  BY <1>2 DEF PoolInv, PoolTyped, SetupConnects, Starts
<1> QED
  BY <1>1, <1>3, <1>4, StartInv, Zenon

\* The lock is taken only when nobody has it (lock_migration).
LEMMA LockInv == ASSUME PoolInv, NEW p \in Proc, lock_migration(p) PROVE PoolInv'
<1>1. PoolTyped'
  BY DEF PoolInv, PoolTyped, lock_migration, tasks
<1>2. p \notin set_up
  BY DEF PoolInv, Migrated, lock_migration
<1>3. \A q \in Proc : holder # q
  BY PoolAssumption DEF lock_migration
<1>4. OthersStay(p)
  BY <1>3 DEF PoolInv, PoolTyped, lock_migration, OthersStay
<1>5. Starts(p)
  BY <1>2 DEF PoolInv, PoolTyped, lock_migration, Starts
<1> QED
  BY <1>1, <1>4, <1>5, StartInv, Zenon

\* A migration is applied, or all of them were (migrate_schema).
LEMMA MigrateInv == ASSUME PoolInv, NEW p \in Proc, migrate_schema(p) PROVE PoolInv'
<1>1. /\ p \notin set_up /\ holder = p /\ phase[p] = "migrating"
      /\ applied \in 0 .. MaxMigration
  BY DEF PoolInv, PoolTyped, Migrated, Locked, migrate_schema
<1>2. PoolTyped'
  <2>1. applied' \in 0 .. MaxMigration
    BY <1>1, PoolAssumption DEF migrate_schema
  <2>2. phase' \in [Proc -> {"off", "connecting", "locking", "migrating", "unlocking", "serving"}]
    BY DEF PoolInv, PoolTyped, migrate_schema
  <2>3. result' \in [Proc -> {"none", "ok", "error", "swallowed"}]
    BY DEF PoolInv, PoolTyped, migrate_schema
  <2> QED
    BY <2>1, <2>2, <2>3 DEF PoolInv, PoolTyped, migrate_schema, tasks
<1>3. OthersStay(p)
  BY DEF PoolInv, PoolTyped, migrate_schema, OthersStay
<1>4. applied' >= applied /\ (phase'[p] = "unlocking" => applied' = MaxMigration)
  <2>1. CASE applied < MaxMigration
    <3>1. applied' = applied + 1 /\ phase' = phase
      BY <2>1 DEF migrate_schema
    <3> QED
      BY <1>1, <3>1
  <2>2. CASE ~ (applied < MaxMigration)
    <3>1. applied' = applied
      BY <2>2 DEF migrate_schema
    <3> QED
      BY <1>1, <2>2, <3>1, PoolAssumption
  <2> QED
    BY <2>1, <2>2
<1>5. Starts(p)
  BY <1>1, <1>4 DEF PoolInv, PoolTyped, migrate_schema, Starts
<1> QED
  BY <1>2, <1>3, <1>5, StartInv, Zenon

\* A migration fails, and the error counts or is swallowed (migrate_schema).
LEMMA FailInv == ASSUME PoolInv, NEW p \in Proc, MigrationFails(p) PROVE PoolInv'
<1>1. PoolTyped'
  BY DEF PoolInv, PoolTyped, MigrationFails, tasks
<1>2. p \notin set_up /\ holder = p
  BY DEF PoolInv, Migrated, Locked, MigrationFails
<1>3. result'[p] \in {"error", "swallowed"}
  BY DEF PoolInv, PoolTyped, MigrationFails
<1>4. OthersStay(p)
  BY DEF PoolInv, PoolTyped, MigrationFails, OthersStay
<1>5. Starts(p)
  BY <1>2, <1>3 DEF PoolInv, PoolTyped, MigrationFails, Starts
<1> QED
  BY <1>1, <1>4, <1>5, StartInv, Zenon

\* The end of the setup: the lock is free, and the pool ready or the process gone.
LEMMA UnlockInv == ASSUME PoolInv, NEW p \in Proc, unlock_migration(p) PROVE PoolInv'
<1>1. PoolTyped'
  BY DEF PoolInv, PoolTyped, unlock_migration, tasks
<1>2. p \notin set_up /\ holder = p /\ (result[p] \in {"error", "swallowed"} \/ applied = MaxMigration)
  BY DEF PoolInv, Migrated, Locked, unlock_migration
<1>3. OthersStay(p)
  BY <1>2 DEF PoolInv, PoolTyped, unlock_migration, OthersStay
<1>4. Starts(p)
  BY <1>2 DEF PoolInv, PoolTyped, unlock_migration, Starts
<1> QED
  BY <1>1, <1>3, <1>4, StartInv, Zenon

\* The end of a process frees its lock and its connections.
LEMMA CrashInv == ASSUME PoolInv, NEW p \in Proc, Crash(p) PROVE PoolInv'
<1>1. PoolTyped /\ Locked /\ Migrated /\ Threads
  BY DEF PoolInv
<1>2. task' \in [Proc -> [Task -> TaskStates]] /\ dropped' \in [Proc -> SUBSET Task]
  BY <1>1 DEF PoolTyped, Crash, Idle, TaskStates
<1>3. PoolTyped'
  BY <1>1, <1>2 DEF PoolTyped, Crash
<1>4. Locked' /\ Migrated'
  BY <1>1 DEF PoolTyped, Locked, Migrated, Crash
<1>5. \A q \in Proc, u \in Task : task'[q][u] = IF q = p THEN "idle" ELSE task[q][u]
  BY <1>1 DEF PoolTyped, Crash, Idle
<1>6. ASSUME NEW q \in Proc PROVE InUse(q)' <= PoolSize
  <2>1. Used(q)' \subseteq Used(q)
    BY <1>5 DEF Used, Busy
  <2>2. InUse(q)' <= InUse(q) /\ InUse(q) \in Nat /\ InUse(q) <= PoolSize
    BY <1>1, <2>1, UsedAre DEF Threads
  <2>3. InUse(q)' \in Nat
    BY <1>2, PoolAssumption, FS_Subset, FS_CardinalityType DEF InUse
  <2> QED
    BY <2>2, <2>3, PoolAssumption
<1>7. \A q \in Proc, u \in Task : task'[q][u] = "canceled" => u \in dropped'[q]
  BY <1>1, <1>5 DEF Threads, PoolTyped, Crash
<1> QED
  BY <1>3, <1>4, <1>6, <1>7 DEF PoolInv, Threads

\* An outage takes every session: the lock is free, and the connections too.
LEMMA OutageInv == ASSUME PoolInv, Outage PROVE PoolInv'
<1>1. PoolTyped /\ Locked /\ Migrated /\ Threads
  BY DEF PoolInv
<1>2. task' \in [Proc -> [Task -> TaskStates]]
  BY <1>1 DEF PoolTyped, Outage, TaskStates
<1>3. /\ phase' \in [Proc -> {"off", "connecting", "locking", "migrating", "unlocking", "serving"}]
      /\ \A p \in Proc : phase'[p] = phase[p] \/ phase'[p] = "off"
      /\ \A p \in Proc : phase'[p] \notin {"migrating", "unlocking"}
      /\ \A p \in Proc : phase[p] = "serving" => phase'[p] = "serving"
  BY <1>1 DEF PoolTyped, Outage
<1>4. PoolTyped'
  BY <1>1, <1>2, <1>3 DEF PoolTyped, Outage
<1>5. Locked' /\ Migrated'
  BY <1>1, <1>3 DEF PoolTyped, Locked, Migrated, Outage
<1>6. \A q \in Proc, u \in Task :
         task'[q][u] = IF task[q][u] \in {"connected", "running"} THEN "error" ELSE task[q][u]
  BY <1>1 DEF PoolTyped, Outage
<1>7. ASSUME NEW q \in Proc PROVE InUse(q)' <= PoolSize
  <2>1. Used(q)' \subseteq Used(q)
    BY <1>6 DEF Used, Busy
  <2>2. InUse(q)' <= InUse(q) /\ InUse(q) \in Nat /\ InUse(q) <= PoolSize
    BY <1>1, <2>1, UsedAre DEF Threads
  <2>3. InUse(q)' \in Nat
    BY <1>2, PoolAssumption, FS_Subset, FS_CardinalityType DEF InUse
  <2> QED
    BY <2>2, <2>3, PoolAssumption
<1>8. \A q \in Proc, u \in Task : task'[q][u] = "canceled" => u \in dropped'[q]
  BY <1>1, <1>6 DEF Threads, Outage
<1> QED
  BY <1>4, <1>5, <1>7, <1>8 DEF PoolInv, Threads

\* The steps of a future and of its thread (with_conn).
LEMMA WorkInv ==
    ASSUME PoolInv, NEW p \in Proc, NEW t \in Task,
           with_conn(p, t) \/ Drop(p, t) \/ ThreadStep(p, t)
    PROVE  PoolInv'
<1> USE DEF TaskStates, Busy
<1>1. PoolTyped /\ Threads /\ (task[p][t] = "canceled" => t \in dropped[p])
  BY DEF PoolInv, Threads
<1>2. CASE with_conn(p, t)
  <2>1. pool' \in [Proc -> {"Created", "Ready"}]
    BY <1>1, <1>2 DEF PoolTyped, with_conn
  <2>2. Works(p, t, "scheduled")
    BY <1>2, <2>1 DEF Works, with_conn, Moves
  <2> QED
    BY <2>2, ThreadInv, Zenon
<1>3. CASE Drop(p, t)
  <2>1. dropped' \in [Proc -> SUBSET Task] /\ \A q \in Proc : dropped[q] \subseteq dropped'[q]
    BY <1>1, <1>3 DEF PoolTyped, Drop
  <2>2. PoolTyped'
    BY <1>1, <1>3, <2>1 DEF PoolTyped, Drop, startup
  <2>3. Locked' /\ Migrated'
    BY <1>3 DEF PoolInv, Locked, Migrated, Drop, startup
  <2>4. \A q \in Proc : InUse(q)' <= PoolSize
    BY <1>1, <1>3 DEF Threads, InUse, Drop
  <2>5. \A q \in Proc, u \in Task : task'[q][u] = "canceled" => u \in dropped'[q]
    BY <1>1, <1>3, <2>1 DEF Threads, Drop
  <2> QED
    BY <2>2, <2>3, <2>4, <2>5 DEF PoolInv, Threads
<1>4. pool \in [Proc -> {"Created", "Ready"}]
  BY <1>1 DEF PoolTyped
<1>5. CASE Checkout(p, t)
  <2>1. \E to : Works(p, t, to)
    <3>1. \/ t \in dropped[p] /\ Works(p, t, "canceled")
          \/ Works(p, t, "connected")
          \/ Works(p, t, "error")
      BY <1>4, <1>5 DEF Works, Checkout, Moves
    <3> QED
      BY <3>1
  <2> QED
    BY <2>1, ThreadInv, Zenon
<1>6. CASE RunClosure(p, t)
  <2>1. Works(p, t, IF t \in dropped[p] THEN "canceled" ELSE "running")
    BY <1>4, <1>6 DEF Works, RunClosure, Moves
  <2> QED
    BY <2>1, ThreadInv, Zenon
<1>7. CASE ClosureEnds(p, t)
  <2>1. PICK to \in {"ok", "error", "canceled"} :
            (to = "canceled" => t \in dropped[p]) /\ Moves(p, t, to)
    BY <1>7 DEF ClosureEnds
  <2>2. Works(p, t, to)
    BY <1>4, <1>7, <2>1 DEF Works, ClosureEnds, Moves
  <2> QED
    BY <2>2, ThreadInv, Zenon
<1>8. CASE Await(p, t)
  <2>1. panicked' = panicked
    BY <1>1, <1>8 DEF Await
  <2>2. Works(p, t, "idle")
    BY <1>4, <1>8, <2>1 DEF Works, Await, Moves
  <2> QED
    BY <2>2, ThreadInv, Zenon
<1> QED
  BY <1>2, <1>3, <1>5, <1>6, <1>7, <1>8 DEF ThreadStep

\* The pools keep what they promise, for any processes, futures, pool size and
\* number of migrations, and through any crashes and outages (PoolInner::setup,
\* migrate_schema, with_conn).
THEOREM PoolSafety == PoolSpec => []PoolIsSafe
<1>1. PoolInit => PoolInv
  <2> SUFFICES ASSUME PoolInit PROVE PoolInv
    OBVIOUS
  <2>1. PoolTyped
    BY PoolAssumption DEF PoolInit, PoolTyped, Idle, TaskStates
  <2>2. Locked /\ Migrated
    BY DEF PoolInit, Locked, Migrated
  <2>3. ASSUME NEW p \in Proc PROVE InUse(p) <= PoolSize
    <3>1. Used(p) = {}
      BY DEF PoolInit, Idle, Used, Busy
    <3>2. InUse(p) = 0
      BY <2>1, <3>1, UsedAre, FS_EmptySet
    <3> QED
      BY <3>2, PoolAssumption
  <2>4. \A p \in Proc, t \in Task : task[p][t] # "canceled"
    BY DEF PoolInit, Idle
  <2> QED
    BY <2>1, <2>2, <2>3, <2>4 DEF PoolInv, Threads
<1>2. PoolInv /\ [PoolNext]_poolVars => PoolInv'
  <2> SUFFICES ASSUME PoolInv, [PoolNext]_poolVars PROVE PoolInv'
    OBVIOUS
  <2>1. CASE UNCHANGED poolVars
    BY <2>1 DEF poolVars, PoolInv, PoolTyped, Locked, Migrated, Threads, InUse
  <2>2. CASE Recover
    BY <2>2, SameThreads DEF Recover, tasks, PoolInv, PoolTyped, Locked, Migrated
  <2>3. ASSUME NEW p \in Proc, NEW t \in Task,
               with_conn(p, t) \/ Drop(p, t) \/ ThreadStep(p, t)
        PROVE  PoolInv'
    BY <2>3, WorkInv
  <2> QED
    BY <2>1, <2>2, <2>3, CreateInv, ConnectsInv, LockInv, MigrateInv, FailInv, UnlockInv,
       CrashInv, OutageInv DEF PoolNext
<1>3. PoolInv => PoolIsSafe
  <2> SUFFICES ASSUME PoolInv PROVE PoolIsSafe
    OBVIOUS
  <2>1. PoolTypeOK /\ CancelIsNeverSeen
    BY DEF PoolInv, PoolTyped, Threads, PoolTypeOK, CancelIsNeverSeen
  <2>2. OneMigratesAtATime
    BY DEF PoolInv, Locked, OneMigratesAtATime
  <2>3. WorkRunsMigrated
    BY PoolAssumption DEF PoolInv, PoolTyped, Migrated, WorkRunsMigrated
  <2> QED
    BY <2>1, <2>2, <2>3 DEF PoolIsSafe
<1> QED
  BY <1>1, <1>2, <1>3, PTL DEF PoolSpec
=============================================================================
