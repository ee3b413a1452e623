---------------------------- MODULE WasmRuntime ----------------------------
(***************************************************************************)
(* runtime/wasm: a host sends a trigger with the block state to the        *)
(* mapping thread and awaits the state it returns (host.rs, mapping.rs).   *)
(* The thread instantiates the module, runs the handler between            *)
(* enter_handler and exit_handler and sorts its traps (module/mod.rs).     *)
(* ipfs.map runs a callback per JSON value, each in an instance of its own *)
(* with an empty block state, while the stopwatch of the caller is paused. *)
(* If a timeout is set, which by default it is not, a watchdog task per    *)
(* instance interrupts it when the stopwatch says so.                      *)
(*                                                                         *)
(* `stack` holds the instances, the running one last.  An operation of a   *)
(* handler (store.set, store.remove, dataSource.create) is a number.       *)
(* `mine` and `kept` are history variables: the operations the running     *)
(* handler issued, and those of the handlers that returned.  `ran` of an   *)
(* instance is the time its own code ran.                                  *)
(***************************************************************************)
EXTENDS Integers, Sequences

CONSTANTS
    MaxRequests,  \* bound: triggers of the block
    MaxOps,       \* bound: operations of all handlers
    MaxMaps,      \* bound: calls of ipfs.map
    MaxValues,    \* bound: JSON values of an IPFS file
    MaxDepth,     \* bound: nesting of ipfs.map
    MaxElapsed,   \* bound: what a stopwatch shows
    Timeout,      \* GRAPH_MAPPING_HANDLER_TIMEOUT
    MinWait,      \* minimum_wait
    None

VARIABLES
    thread,    \* waiting, starting, running, replying or ended
    runner,    \* idle, awaiting, dropped, failed or reorg
    state,     \* the block state while the runner owns it
    stack,     \* the instances of the thread
    result,    \* what the thread is about to send
    requests, ops, maps,
    watched,   \* GRAPH_MAPPING_HANDLER_TIMEOUT is set
    mine, kept,
    cause      \* history: the first trap since the request, with its depth

wasmVars == <<thread, runner, state, stack, result, requests, ops, maps, mine, kept, cause,
              watched>>

Traps == {"reorg", "deterministic", "unknown", "trap code", "stack overflow", "interrupt"}
Deterministic == {"deterministic", "trap code"}

ASSUME WasmAssumption ==
    /\ MaxDepth \in Nat /\ Timeout \in Nat /\ MinWait \in Nat
    /\ None \notin Nat /\ None \notin Traps /\ None \notin Nat \X Traps

-----------------------------------------------------------------------------
(* BlockState.  done: operations of the block; pending: those of the       *)
(* running handler, entities and created data sources alike.               *)
NewState == [done |-> {}, pending |-> {}, in_handler |-> FALSE, errors |-> 0]

enter_handler(s) == [s EXCEPT !.in_handler = TRUE]

exit_handler(s) ==
    [s EXCEPT !.in_handler = FALSE, !.done = @ \cup s.pending, !.pending = {}]

\* A plausible bug: the handler's changes stay pending.
discard_changes_NoClear(s) ==
    [s EXCEPT !.in_handler = FALSE, !.errors = @ + 1, !.done = @ \cup s.pending]

exit_handler_and_discard_changes_due_to_error(s) ==
    [s EXCEPT !.in_handler = FALSE, !.pending = {}, !.errors = @ + 1]

extend(s, other) ==
    [s EXCEPT !.pending = IF s.in_handler THEN @ \cup other.done ELSE @,
              !.done = IF s.in_handler THEN @ ELSE @ \cup other.done,
              !.errors = @ + other.errors]

-----------------------------------------------------------------------------
(* An instance.  todo: None, or the values ipfs.map has yet to pass on;    *)
(* outs: the states its callbacks returned, taken together; left: how long *)
(* its watchdog still sleeps, None once it has ended, or if there is none. *)
from_valid_module_with_ctx(s) ==
    [state |-> s, elapsed |-> 0, on |-> TRUE, stopped |-> FALSE,
     left |-> IF watched THEN 0 ELSE None,
     todo |-> None, outs |-> NewState, err |-> FALSE, ran |-> 0]

Top == stack[Len(stack)]
SetTop(f) == [stack EXCEPT ![Len(stack)] = f]

\* Wasm code runs, and not a host function.
Guest == thread = "running" /\ Top.todo = None
Mapping == thread = "running" /\ Top.todo # None

WasmInit ==
    /\ thread = "waiting" /\ runner = "idle" /\ state = NewState
    /\ stack = <<>> /\ result = None /\ requests = 0 /\ ops = 0 /\ maps = 0
    /\ mine = {} /\ kept = {} /\ cause = None /\ watched \in BOOLEAN

-----------------------------------------------------------------------------
(* The host. *)
send_mapping_request ==
    /\ runner = "idle" /\ requests < MaxRequests
    /\ requests' = requests + 1
    /\ IF thread = "ended"
       THEN runner' = "failed" /\ UNCHANGED <<thread, state, stack>>
       ELSE /\ thread = "waiting"
            /\ runner' = "awaiting" /\ thread' = "starting"
            /\ stack' = <<from_valid_module_with_ctx(state)>>
            /\ state' = None
    /\ cause' = None /\ mine' = {}
    /\ UNCHANGED <<result, ops, maps, kept, watched>>

\* The indexer is stopped while it awaits the result.
Cancel ==
    /\ runner = "awaiting" /\ runner' = "dropped"
    /\ UNCHANGED <<thread, state, stack, result, requests, ops, maps, mine, kept, cause, watched>>

\* The thread ends: a panic (instantiation, _start, a failed allocation,
\* ens.nameByHash) or an error of from_valid_module_with_ctx.  The sender of
\* the result is dropped with it.
ThreadEnds ==
    /\ thread \in {"starting", "running"}
    /\ thread' = "ended" /\ stack' = <<>>
    /\ runner' = IF runner = "awaiting" THEN "failed" ELSE runner
    /\ UNCHANGED <<state, result, requests, ops, maps, mine, kept, cause, watched>>

\* The trap of the handler or of a callback, the first one, with its depth.
FirstTrap(c) == IF cause = None /\ c # None THEN <<Len(stack), c>> ELSE cause

(* handle_trigger, up to the call of the handler. *)
handle_trigger ==
    /\ thread = "starting"
    /\ \/ /\ thread' = "running"
          /\ stack' = SetTop([Top EXCEPT !.state = enter_handler(@)])
          /\ UNCHANGED <<result, cause>>
       \/ \* No such function, or the trigger cannot be passed.
          /\ thread' = "replying" /\ result' = [kind |-> "unknown", state |-> None]
          /\ stack' = <<>> /\ cause' = FirstTrap("unknown")
    /\ UNCHANGED <<runner, state, requests, ops, maps, mine, kept, watched>>

\* store.set, store.remove and dataSource.create.
store_set ==
    /\ Guest /\ ops < MaxOps
    /\ ops' = ops + 1
    /\ stack' = SetTop([Top EXCEPT !.state.pending = @ \cup {ops}])
    /\ mine' = mine \cup {ops}
    /\ UNCHANGED <<thread, runner, state, result, requests, maps, kept, cause, watched>>

-----------------------------------------------------------------------------
(* invoke_handler after the call: c is None or the trap. *)
Outcome(c, s) ==
    CASE c = None           -> [kind |-> "ok", state |-> exit_handler(s)]
      [] c = "reorg"        -> [kind |-> "reorg", state |-> None]
      [] c \in Deterministic ->
             [kind |-> "ok", state |-> exit_handler_and_discard_changes_due_to_error(s)]
      [] OTHER              -> [kind |-> "unknown", state |-> None]

invoke_handler(c) ==
    /\ Len(stack) = 1
    /\ thread' = "replying" /\ stack' = <<>>
    /\ result' = Outcome(c, Top.state)
    /\ cause' = FirstTrap(c)
    /\ UNCHANGED <<runner, state, requests, ops, maps, mine, kept, watched>>

\* handle_json_callback after the call: any trap is an error of ipfs.map.
handle_json_callback(c) ==
    /\ Len(stack) > 1
    /\ stack' = [i \in 1 .. Len(stack) - 1 |->
                   IF i < Len(stack) - 1 THEN stack[i]
                   ELSE IF c = None
                   THEN [stack[i] EXCEPT !.outs = extend(@, exit_handler(Top.state))]
                   ELSE [stack[i] EXCEPT !.err = TRUE]]
    /\ cause' = FirstTrap(c)
    /\ UNCHANGED <<thread, runner, state, result, requests, ops, maps, mine, kept, watched>>

Returns == Guest /\ (invoke_handler(None) \/ handle_json_callback(None))

\* A host function fails, or the code traps; the interrupt is seen at the
\* next loop or call.
Trapped(c) ==
    /\ Guest
    /\ c = "interrupt" => Top.stopped
    /\ invoke_handler(c) \/ handle_json_callback(c)

-----------------------------------------------------------------------------
(* ipfs.map. *)

ipfs_map ==
    /\ Guest /\ maps < MaxMaps /\ Len(stack) < MaxDepth
    /\ maps' = maps + 1
    /\ \E n \in 0..MaxValues :
          stack' = SetTop([Top EXCEPT !.todo = n, !.outs = NewState, !.on = FALSE])
    /\ UNCHANGED <<thread, runner, state, result, requests, ops, mine, kept, cause, watched>>

\* The next value: an instance of its own, with an empty block state.
NextValue ==
    /\ Mapping /\ ~Top.err /\ Top.todo > 0
    /\ stack' = Append(SetTop([Top EXCEPT !.todo = @ - 1]),
                       from_valid_module_with_ctx(enter_handler(NewState)))
    /\ UNCHANGED <<thread, runner, state, result, requests, ops, maps, mine, kept, cause, watched>>

\* All callbacks returned: their states are added to the caller's.
Extended(f) ==
    [f EXCEPT !.state = extend(@, f.outs), !.todo = None, !.outs = NewState]

\* A plausible bug: the stopwatch stays stopped.
MapReturns_NoRestart ==
    /\ Mapping /\ ~Top.err /\ Top.todo = 0
    /\ stack' = SetTop(Extended(Top))
    /\ UNCHANGED <<thread, runner, state, result, requests, ops, maps, mine, kept, cause, watched>>

MapReturns ==
    /\ Mapping /\ ~Top.err /\ Top.todo = 0
    /\ stack' = SetTop([Extended(Top) EXCEPT !.on = TRUE])
    /\ UNCHANGED <<thread, runner, state, result, requests, ops, maps, mine, kept, cause, watched>>

\* A callback failed, or the stream of values did: ipfs.map is an unknown
\* error of its caller, and what the callbacks did is dropped.
MapFails ==
    /\ Mapping /\ (Top.err \/ Top.todo > 0)
    /\ invoke_handler("unknown") \/ handle_json_callback("unknown")

-----------------------------------------------------------------------------
(* Time.  A stopwatch shows strictly more than the whole ticks it has run, *)
(* so time_left < minimum_wait as soon as Timeout - elapsed = minimum_wait.*)
Watchdog(i) ==
    /\ stack[i].left = 0
    /\ LET f == stack[i] IN
       stack' = [stack EXCEPT ![i] =
                   IF Timeout - f.elapsed <= MinWait
                   THEN [f EXCEPT !.stopped = TRUE, !.left = None]
                   ELSE [f EXCEPT !.left = Timeout - f.elapsed]]
    /\ UNCHANGED <<thread, runner, state, result, requests, ops, maps, mine, kept, cause, watched>>

Tick ==
    /\ stack # <<>>
    /\ \A i \in DOMAIN stack : stack[i].on => stack[i].elapsed < MaxElapsed
    /\ stack' = [i \in DOMAIN stack |->
                   LET f == stack[i] IN
                   [f EXCEPT !.elapsed = IF f.on THEN @ + 1 ELSE @,
                             !.left = IF @ = None \/ @ = 0 THEN @ ELSE @ - 1,
                             !.ran = IF i = Len(stack) /\ f.todo = None /\ @ < Timeout THEN @ + 1 ELSE @]]
    /\ stack' # stack
    /\ UNCHANGED <<thread, runner, state, result, requests, ops, maps, mine, kept, cause, watched>>

-----------------------------------------------------------------------------
(* The thread sends the result; it ends if nobody waits for it. *)
Reply ==
    /\ thread = "replying"
    /\ result' = None
    /\ thread' = IF runner = "awaiting" THEN "waiting" ELSE "ended"
    /\ \/ runner # "awaiting" /\ UNCHANGED <<runner, state>>
       \/ runner = "awaiting" /\ result.kind = "ok" /\ runner' = "idle" /\ state' = result.state
       \/ /\ runner = "awaiting" /\ result.kind # "ok"
          /\ runner' = IF result.kind = "reorg" THEN "reorg" ELSE "failed"
          /\ UNCHANGED state
    /\ kept' = IF cause = None THEN kept \cup mine ELSE kept
    /\ UNCHANGED <<stack, requests, ops, maps, mine, cause, watched>>

WasmNext ==
    \/ send_mapping_request \/ Cancel \/ ThreadEnds \/ handle_trigger
    \/ store_set \/ Returns
    \/ \E c \in Traps : Trapped(c)
    \/ ipfs_map \/ NextValue \/ MapReturns \/ MapFails
    \/ \E i \in DOMAIN stack : Watchdog(i)
    \/ Tick \/ Reply

\* Threads and timers are scheduled, and a file ends.  Of the guest's code
\* only that it sees the interrupt: a handler may loop for ever.
WasmFairness ==
    /\ WF_wasmVars(handle_trigger)
    /\ WF_wasmVars(Reply) /\ WF_wasmVars(Tick)
    /\ WF_wasmVars(Trapped("interrupt"))
    /\ WF_wasmVars(NextValue \/ MapReturns \/ MapFails)
    /\ WF_wasmVars(\E i \in DOMAIN stack : Watchdog(i))

WasmSpec == WasmInit /\ [][WasmNext]_wasmVars /\ WasmFairness

-----------------------------------------------------------------------------
\* A handler is all or nothing: the block state the runner holds is outside
\* any handler and holds exactly the operations of the handlers that returned,
\* those of their ipfs.map callbacks included (invoke_handler,
\* BlockState::extend).
HandlerIsAllOrNothing ==
    runner = "idle" =>
        state.done = kept /\ state.pending = {} /\ ~state.in_handler

\* A failure is recorded as an error of the indexer, which repeats on every
\* node, only when the handler's own instance trapped for a deterministic
\* reason; a callback of ipfs.map never counts, whatever made it fail, and a
\* possible reorg is reported as one only if the handler itself met it.
OnlyDeterministicIsRecorded ==
    thread = "replying" =>
        IF result.kind = "ok"
        THEN cause = None \/ cause \in {1} \X Deterministic
        ELSE (result.kind = "reorg") <=> (cause = <<1, "reorg">>)

\* ipfs.map pauses the timeout: an instance is interrupted only when its own
\* code has run for the timeout, less the second the watchdog does not wait.
NotInterruptedEarly ==
    \A i \in DOMAIN stack : stack[i].stopped => stack[i].ran >= Timeout - MinWait

\* With a timeout a trigger is answered even if the handler or a callback never
\* returns: the interrupt reaches whichever instance runs (the watchdog task of
\* from_valid_module_with_ctx, the guard in ipfs_map).  Without one, which is the
\* default, nothing ends code that loops, and a trigger is answered if the
\* guest's code always comes to its end or to a host function.
EveryTriggerIsAnswered ==
    watched \/ []<>~Guest => (runner = "awaiting" ~> runner # "awaiting")

\* What a handler does stays with it, however it ends: all or nothing of it is
\* kept, only its own deterministic traps are errors of the indexer, and it has
\* the whole timeout to itself (invoke_handler, ipfs_map, the watchdog).
HandlersAreContained ==
    HandlerIsAllOrNothing /\ OnlyDeterministicIsRecorded /\ NotInterruptedEarly
=============================================================================
