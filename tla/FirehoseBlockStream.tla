------------------------ MODULE FirehoseBlockStream ------------------------
(***************************************************************************)
(* The block stream over a Firehose endpoint                               *)
(* (massbit/src/blockchain/firehose_block_stream.rs): poll_next, an        *)
(* iteration of its loop per step, and the tasks that wake it after an     *)
(* error.  The endpoint sends the blocks from the one asked for on, all    *)
(* with triggers among them.                                               *)
(***************************************************************************)
EXTENDS Integers

CONSTANTS
    StartBlock,  \* the first block asked for
    MaxBlock,    \* bound: the last block of the chain
    Triggered,   \* the blocks with triggers that match the filter
    MaxFaults    \* bound: connections and messages that fail

\* A chain that has the first block asked for.
ASSUME ChainAssumption ==
    /\ StartBlock \in Nat \ {0}
    /\ MaxBlock \in Nat
    /\ Triggered \subseteq Nat

VARIABLES
    state,                \* BlockStreamState
    future,               \* the connection being made, while Connecting
    connection_attempts,
    timers,               \* the tasks of schedule_error_retry that still sleep
    woken,                \* whether the stream will be polled
    pos,                  \* the next block of the connection
    panicked,             \* a completed future was polled
    at,                   \* the furthest block delivered
    last,                 \* whether it came with triggers
    faults,
    connections,          \* the connections made
    times                 \* how often each block was delivered

firehoseVars == <<state, future, connection_attempts, timers, woken, pos, panicked, at, last,
          faults, connections, times>>
delivered == <<at, last, times>>

\* wait_duration is the same from here on.
LongestWait == 5

FirehoseInit ==
    /\ state = "Disconnected" /\ future = "none"
    /\ connection_attempts = 0 /\ timers = 0 /\ woken = TRUE
    /\ pos = StartBlock /\ panicked = FALSE
    /\ at = StartBlock - 1 /\ last = FALSE
    /\ faults = 0 /\ connections = 0
    /\ times = [b \in StartBlock..MaxBlock |-> 0]

Fault ==
    /\ faults < MaxFaults
    /\ faults' = faults + 1

\* A plausible bug: the waker is not handed to the task that waits.
schedule_error_retry_NoWaker ==
    /\ connection_attempts' =
         IF connection_attempts < LongestWait THEN connection_attempts + 1
         ELSE connection_attempts
    /\ woken' = FALSE
    /\ UNCHANGED timers

\* The waker is called when the wait is over.
schedule_error_retry ==
    /\ connection_attempts' =
         IF connection_attempts < LongestWait THEN connection_attempts + 1
         ELSE connection_attempts
    /\ timers' = timers + 1
    /\ woken' = FALSE

wake ==
    /\ timers > 0
    /\ timers' = timers - 1
    /\ woken' = TRUE
    /\ UNCHANGED <<state, future, connection_attempts, pos, panicked, delivered, faults, connections>>

\* A plausible bug: a request begins after the block that follows the last.
stream_blocks_AfterTheLast ==
    /\ pos' = at + 2
    /\ connections' = connections + 1

stream_blocks ==
    /\ pos' = StartBlock
    /\ connections' = connections + 1

Disconnected ==
    /\ state = "Disconnected" /\ woken
    /\ \/ /\ state' = "Connected"
          /\ connection_attempts' = 0
          /\ stream_blocks
          /\ UNCHANGED <<future, timers, woken, faults>>
       \/ Fault /\ schedule_error_retry /\ UNCHANGED <<state, future, pos, connections>>
       \/ /\ state' = "Connecting" /\ future' = "pending"
          /\ woken' = FALSE
          /\ UNCHANGED <<connection_attempts, timers, pos, faults, connections>>
    /\ UNCHANGED <<panicked, delivered>>

\* The connection's future resolves, and wakes the stream.
Resolve ==
    /\ future = "pending"
    /\ \/ future' = "ready" /\ UNCHANGED faults
       \/ Fault /\ future' = "failed"
    /\ woken' = TRUE
    /\ UNCHANGED <<state, connection_attempts, timers, pos, panicked, delivered, connections>>

\* A connection made here does not reset the attempts, and one that fails here
\* leaves its completed future to the next poll.
Connecting ==
    /\ state = "Connecting" /\ woken /\ ~panicked
    /\ \/ /\ future = "ready"
          /\ state' = "Connected" /\ future' = "none"
          /\ stream_blocks
          /\ UNCHANGED <<connection_attempts, timers, woken, panicked>>
       \/ /\ future = "failed"
          /\ future' = "completed"
          /\ schedule_error_retry
          /\ UNCHANGED <<state, pos, panicked, connections>>
       \/ /\ future = "completed"
          /\ panicked' = TRUE
          /\ UNCHANGED <<state, future, connection_attempts, timers, woken, pos, connections>>
       \/ /\ future = "pending"
          /\ woken' = FALSE
          /\ UNCHANGED <<state, future, connection_attempts, timers, pos, panicked, connections>>
    /\ UNCHANGED <<delivered, faults>>

\* A message becomes an event, as its payload says.
Deliver(b) ==
    /\ at' = IF b > at THEN b ELSE at
    /\ last' = IF b > at THEN b \in Triggered ELSE last
    /\ times' = [times EXCEPT ![b] = @ + 1]
    /\ pos' = b + 1

\* An error of the stream or of the mapper, or its end, disconnects.
Connected ==
    /\ state = "Connected"
    /\ \/ /\ \E b \in pos..MaxBlock :
               /\ \A c \in Triggered : pos <= c => b <= c
               /\ Deliver(b)
          /\ UNCHANGED <<state, connection_attempts, timers, woken, faults>>
       \/ /\ Fault
          /\ state' = "Disconnected"
          /\ schedule_error_retry
          /\ UNCHANGED <<pos, delivered>>
    /\ UNCHANGED <<future, panicked, connections>>

FirehoseNext ==
    \/ Disconnected
    \/ Resolve
    \/ Connecting
    \/ Connected
    \/ wake

\* The endpoint answers, and run_indexer polls whenever it is woken.
Fairness ==
    /\ WF_firehoseVars(Disconnected)
    /\ WF_firehoseVars(Resolve)
    /\ WF_firehoseVars(Connecting)
    /\ WF_firehoseVars(Connected)
    /\ WF_firehoseVars(wake)

FirehoseSpec == FirehoseInit /\ [][FirehoseNext]_firehoseVars /\ Fairness

-----------------------------------------------------------------------------
\* Over any number of connections the furthest block moves as BlockStream allows:
\* no block with triggers is stepped over, and none is missed.
Furthest == INSTANCE BlockStream WITH
    StartBlock <- StartBlock - 1, head <- MaxBlock, missed <- {}

SkipsNothing == Furthest!Spec

\* A block comes again only because the stream was connected again, which begins
\* anew at start_block.
OncePerConnection == \A b \in DOMAIN times : times[b] <= connections

\* The stream recovers from what fails, unless a connection fails that poll_next
\* had found pending: then the next poll panics.
Arrives == <>(at = MaxBlock \/ panicked)

\* Over any number of connections the stream steps over no block with triggers,
\* and delivers one again only after it was connected again (poll_next).
StepsOverNothing == []OncePerConnection /\ SkipsNothing
============================================================================
