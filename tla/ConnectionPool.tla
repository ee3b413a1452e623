--------------------------- MODULE ConnectionPool ---------------------------
(***************************************************************************)
(* The connection pools of the processes that share a database: each       *)
(* process migrates the schema when it starts, serialized with the others  *)
(* by an advisory lock, and then runs database work on blocking threads    *)
(* for futures that may be dropped at any moment.  The database goes down  *)
(* and comes back, migrations fail, and processes crash and start again.   *)
(*                                                                         *)
(* The database and r2d2, the library that keeps the connections, are      *)
(* modelled from how this code uses them.                                  *)
(***************************************************************************)
EXTENDS Integers, FiniteSets

CONSTANTS
    Proc,           \* the processes
    Server,         \* those whose database work is followed; the others only start
    Task,           \* the futures each of these may have at a time
    PoolSize,       \* connections of a pool
    MaxMigration,   \* the migrations this build embeds
    MaxFaults,      \* bound on outages, failed migrations and crashes
    NoProc

ASSUME PoolAssumption ==
    /\ NoProc \notin Proc /\ Server \subseteq Proc
    /\ IsFiniteSet(Task) /\ PoolSize \in Nat /\ MaxMigration \in Nat

VARIABLES
    up,         \* the database accepts connections
    applied,    \* the migrations in the database
    holder,     \* the process whose session holds the advisory lock
    phase,      \* where each process is in its start
    result,     \* what its migrations ended with
    pool,       \* its PoolState
    task,       \* where the blocking thread of each future is
    dropped,    \* the futures that were dropped
    panicked,   \* futures that panicked
    set_up,     \* history: the processes whose setup succeeded
    faults

poolVars == <<up, applied, holder, phase, result, pool, task, dropped, panicked, set_up, faults>>

InUse(p) == Cardinality({t \in Task : task[p][t] \in {"connected", "running"}})

\* The states of the pools; a pool never has more connections in use than its
\* size (PoolInner::create).
PoolTypeOK ==
    /\ applied \in 0..MaxMigration
    /\ holder \in Proc \cup {NoProc}
    /\ phase \in [Proc -> {"off", "connecting", "locking", "migrating", "unlocking", "serving"}]
    /\ pool \in [Proc -> {"Created", "Ready"}]
    /\ \A p \in Proc : InUse(p) <= PoolSize

Idle == [t \in Task |-> "idle"]

PoolInit ==
    /\ up \in BOOLEAN
    /\ applied = 0
    /\ holder = NoProc
    /\ phase = [p \in Proc |-> "off"]
    /\ result = [p \in Proc |-> "none"]
    /\ pool = [p \in Proc |-> "Created"]
    /\ task = [p \in Proc |-> Idle]
    /\ dropped = [p \in Proc |-> {}]
    /\ panicked = {}
    /\ set_up = {}
    /\ faults = 0

-----------------------------------------------------------------------------
(* The start of a process.                                                 *)

tasks == <<task, dropped, panicked>>

\* main_pool and StoreBuilder::new: a fresh pool, set up before anything uses it.
create(p) ==
    /\ phase[p] = "off"
    /\ phase' = [phase EXCEPT ![p] = "connecting"]
    /\ pool' = [pool EXCEPT ![p] = "Created"]
    /\ result' = [result EXCEPT ![p] = "none"]
    /\ UNCHANGED <<up, applied, holder, set_up, faults>>
    /\ UNCHANGED tasks

\* PoolInner::setup takes a connection.  Without one the setup ends with an
\* error that ConnectionPool::setup ignores.
SetupConnects(p) ==
    /\ phase[p] = "connecting"
    /\ phase' = [phase EXCEPT ![p] = IF up THEN "locking" ELSE "serving"]
    /\ UNCHANGED <<up, applied, holder, result, pool, set_up, faults>>
    /\ UNCHANGED tasks

\* A plausible bug: the migrations run without the lock.
lock_migration_Never(p) ==
    /\ phase[p] = "locking" /\ up
    /\ holder' = holder
    /\ phase' = [phase EXCEPT ![p] = "migrating"]
    /\ UNCHANGED <<up, applied, result, pool, set_up, faults>>
    /\ UNCHANGED tasks

lock_migration(p) ==
    /\ phase[p] = "locking" /\ up /\ holder = NoProc
    /\ holder' = p
    /\ phase' = [phase EXCEPT ![p] = "migrating"]
    /\ UNCHANGED <<up, applied, result, pool, set_up, faults>>
    /\ UNCHANGED tasks

\* migrate_schema: the pending migrations, one by one, each announced in the
\* output before it runs.
migrate_schema(p) ==
    /\ phase[p] = "migrating" /\ up
    /\ IF applied < MaxMigration
       THEN applied' = applied + 1 /\ UNCHANGED <<phase, result>>
       ELSE /\ result' = [result EXCEPT ![p] = "ok"]
            /\ phase' = [phase EXCEPT ![p] = "unlocking"]
            /\ UNCHANGED applied
    /\ UNCHANGED <<up, holder, pool, set_up, faults>>
    /\ UNCHANGED tasks

\* An error counts only if there was output: one that comes before the first
\* migration is announced is taken for success.
MigrationFails(p) ==
    /\ phase[p] = "migrating" /\ up /\ faults < MaxFaults
    /\ faults' = faults + 1
    /\ \E output \in BOOLEAN :
          /\ output => applied < MaxMigration
          /\ result' = [result EXCEPT ![p] = IF output THEN "error" ELSE "swallowed"]
    /\ phase' = [phase EXCEPT ![p] = "unlocking"]
    /\ UNCHANGED <<up, applied, holder, pool, set_up>>
    /\ UNCHANGED tasks

\* The end of setup: Ready, or the process panics.
unlock_migration(p) ==
    /\ phase[p] = "unlocking" /\ up
    /\ holder' = IF holder = p THEN NoProc ELSE holder
    /\ IF result[p] = "error"
       THEN phase' = [phase EXCEPT ![p] = "off"] /\ UNCHANGED <<pool, set_up>>
       ELSE /\ phase' = [phase EXCEPT ![p] = "serving"]
            /\ pool' = [pool EXCEPT ![p] = "Ready"]
            /\ set_up' = set_up \cup {p}
    /\ UNCHANGED <<up, applied, result, faults>>
    /\ UNCHANGED tasks

-----------------------------------------------------------------------------
(* with_conn.                                                              *)

startup == <<up, applied, holder, phase, result, set_up, faults>>

Moves(p, t, to) == task' = [task EXCEPT ![p][t] = to]

\* get_ready turns a pool that was never set up into a ready one.
with_conn(p, t) ==
    /\ phase[p] = "serving" /\ task[p][t] = "idle"
    /\ pool' = [pool EXCEPT ![p] = "Ready"]
    /\ Moves(p, t, "scheduled")
    /\ UNCHANGED startup /\ UNCHANGED <<dropped, panicked>>

\* The caller drops the future, and with it the cancel guard: the thread is
\* not stopped.
Drop(p, t) ==
    /\ task[p][t] # "idle" /\ t \notin dropped[p]
    /\ dropped' = [dropped EXCEPT ![p] = @ \cup {t}]
    /\ UNCHANGED startup /\ UNCHANGED <<pool, task, panicked>>

\* The thread starts, and checks the token before it takes a connection.  A
\* checkout waits for a free one and fails when the database is down.
Checkout(p, t) ==
    /\ task[p][t] = "scheduled"
    /\ \/ t \in dropped[p] /\ Moves(p, t, "canceled")
       \/ t \notin dropped[p] /\ up /\ InUse(p) < PoolSize /\ Moves(p, t, "connected")
       \/ t \notin dropped[p] /\ (~ up \/ InUse(p) >= PoolSize) /\ Moves(p, t, "error")
    /\ UNCHANGED startup /\ UNCHANGED <<pool, dropped, panicked>>

\* The token is checked again, then the closure runs.
RunClosure(p, t) ==
    /\ task[p][t] = "connected"
    /\ Moves(p, t, IF t \in dropped[p] THEN "canceled" ELSE "running")
    /\ UNCHANGED startup /\ UNCHANGED <<pool, dropped, panicked>>

\* The closure returns, or one of its own checks of the token ends it; the
\* connection goes back.
ClosureEnds(p, t) ==
    /\ task[p][t] = "running"
    /\ \E to \in {"ok", "error", "canceled"} :
          /\ to = "canceled" => t \in dropped[p]
          /\ Moves(p, t, to)
    /\ UNCHANGED startup /\ UNCHANGED <<pool, dropped, panicked>>

\* The future gets the result, unless it is gone; a result of Cancel makes it
\* panic.
Await(p, t) ==
    /\ task[p][t] \in {"ok", "error", "canceled"}
    /\ Moves(p, t, "idle")
    /\ dropped' = [dropped EXCEPT ![p] = @ \ {t}]
    /\ panicked' = IF t \notin dropped[p] /\ task[p][t] = "canceled"
                   THEN panicked \cup {p} ELSE panicked
    /\ UNCHANGED startup /\ UNCHANGED pool

-----------------------------------------------------------------------------
(* What goes wrong around the pool.                                        *)

\* The end of a process closes its sessions, which frees the lock.
Crash(p) ==
    /\ phase[p] # "off" /\ faults < MaxFaults
    /\ faults' = faults + 1
    /\ phase' = [phase EXCEPT ![p] = "off"]
    /\ holder' = IF holder = p THEN NoProc ELSE holder
    /\ task' = [task EXCEPT ![p] = Idle]
    /\ dropped' = [dropped EXCEPT ![p] = {}]
    /\ set_up' = set_up \ {p}
    /\ UNCHANGED <<up, applied, result, pool, panicked>>

\* An outage ends every session: a process in its migrations cannot release
\* the lock and panics, a closure gets an error.
Outage ==
    /\ up /\ faults < MaxFaults
    /\ faults' = faults + 1
    /\ up' = FALSE
    /\ holder' = NoProc
    /\ phase' = [p \in Proc |->
                    IF phase[p] \in {"locking", "migrating", "unlocking"} THEN "off" ELSE phase[p]]
    /\ task' = [p \in Proc |-> [t \in Task |->
                    IF task[p][t] \in {"connected", "running"} THEN "error" ELSE task[p][t]]]
    /\ UNCHANGED <<applied, result, pool, dropped, panicked, set_up>>

Recover ==
    /\ ~ up
    /\ up' = TRUE
    /\ UNCHANGED <<applied, holder, phase, result, pool, set_up, faults>>
    /\ UNCHANGED tasks

ThreadStep(p, t) == Checkout(p, t) \/ RunClosure(p, t) \/ ClosureEnds(p, t) \/ Await(p, t)

PoolNext ==
    \/ \E p \in Proc :
          \/ create(p) \/ SetupConnects(p) \/ lock_migration(p) \/ migrate_schema(p)
          \/ MigrationFails(p) \/ unlock_migration(p) \/ Crash(p)
          \/ p \in Server /\ \E t \in Task : with_conn(p, t) \/ Drop(p, t) \/ ThreadStep(p, t)
    \/ Outage \/ Recover

\* The threads of the blocking pool run to their end.
PoolFairness == \A p \in Server : \A t \in Task : WF_poolVars(ThreadStep(p, t))

PoolSpec == PoolInit /\ [][PoolNext]_poolVars /\ PoolFairness

-----------------------------------------------------------------------------
(* Properties.                                                             *)

\* Processes that start together do not run migrations in parallel
\* (migrate_schema under the advisory lock), also after crashes and outages.
OneMigratesAtATime ==
    \A p, q \in Proc : p # q => ~ (phase[p] = "migrating" /\ phase[q] = "migrating")

\* A future whose token is checked at every step never panics over a Cancel it
\* did not ask for: only a dropped future's thread ends canceled (with_conn).
CancelIsNeverSeen == panicked = {}

\* Database work runs on the migrated schema, unless the database was down
\* when the process started, or its migrations failed before the first one was
\* announced.  In those two cases the pool is ready without a setup.
WorkRunsMigrated ==
    \A p \in Server :
        (\E t \in Task : task[p][t] = "running") /\ applied < MaxMigration
        => p \notin set_up \/ result[p] = "swallowed"

\* The connection of a dropped future comes back to the pool: its thread goes
\* on and ends (spawn_blocking_allow_panic with the cancel token).
ConnectionsComeBack ==
    \A p \in Server : \A t \in Task :
        (t \in dropped[p] /\ task[p][t] \in {"connected", "running"})
        ~> task[p][t] \notin {"connected", "running"}

\* What the pools promise together, for any processes and futures: connections
\* within their number, one migration at a time, no Cancel that nobody asked for,
\* and work on the migrated schema (setup, migrate_schema, with_conn).
PoolIsSafe ==
    PoolTypeOK /\ OneMigratesAtATime /\ CancelIsNeverSeen /\ WorkRunsMigrated
=============================================================================
