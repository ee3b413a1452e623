-------------------------- MODULE WasmRuntimeProof --------------------------
(***************************************************************************)
(* Proofs about WasmRuntime: what a handler does stays with it, for any    *)
(* number of triggers, operations, values and nested calls of ipfs.map,    *)
(* and any timeout.                                                        *)
(***************************************************************************)
EXTENDS WasmRuntime, TLAPS

BlockStates ==
    [done : SUBSET Nat, pending : SUBSET Nat, in_handler : BOOLEAN, errors : Nat]

Instances ==
    [state : BlockStates, elapsed : Nat, on : BOOLEAN, left : Nat \cup {None},
     stopped : BOOLEAN, todo : Nat \cup {None}, outs : BlockStates, err : BOOLEAN, ran : Nat]

Typed ==
    /\ thread \in {"waiting", "starting", "running", "replying", "ended"}
    /\ runner \in {"idle", "awaiting", "dropped", "failed", "reorg"}
    /\ stack \in Seq(Instances)
    /\ ops \in Nat
    /\ mine \in SUBSET Nat
    /\ kept \in SUBSET Nat
    /\ cause \in {None} \cup (Nat \X Traps)
    /\ runner = "idle" => state \in BlockStates
    /\ thread = "replying" => /\ result.kind \in {"ok", "reorg", "unknown"}
                              /\ result.kind = "ok" => result.state \in BlockStates

\* The stopwatch of an instance runs while its own code does, and shows the
\* time that code has run.
Timed(f) ==
    /\ f.on <=> f.todo = None
    /\ f.ran >= Timeout \/ f.ran = f.elapsed
    /\ f.stopped => f.ran >= Timeout - MinWait

\* An instance that is not in ipfs.map has nothing left from it, and the states
\* its callbacks returned are outside any handler.
Mapped(f) ==
    /\ f.todo = None => f.outs = NewState /\ ~ f.err
    /\ f.outs.pending = {} /\ ~ f.outs.in_handler

\* Only the last instance runs code of its own; the others wait in ipfs.map for
\* a callback that has not failed.
Nested ==
    /\ thread \in {"starting", "running"} <=> Len(stack) > 0
    /\ thread = "starting" => Len(stack) = 1
    /\ \A i \in 1 .. Len(stack) :
          /\ Timed(stack[i])
          /\ Mapped(stack[i])
          /\ i < Len(stack) => stack[i].todo # None /\ ~ stack[i].err

Outside(s) == s.pending = {} /\ ~ s.in_handler

\* The operations of the running handler and of its callbacks.
Issued ==
    UNION {stack[i].state.pending \cup stack[i].outs.done : i \in 1 .. Len(stack)}

\* Where the operations of the handlers are: those of earlier handlers in the
\* state of the first instance, those of the running one apart from them.
Contained ==
    /\ runner = "idle" => /\ thread \in {"waiting", "ended"}
                          /\ Outside(state) /\ state.done = kept
    /\ thread = "starting" => /\ cause = None /\ mine = {}
                              /\ stack[1].todo = None
                              /\ Outside(stack[1].state) /\ stack[1].state.done = kept
    /\ thread = "running" =>
          /\ stack[1].state.done = kept
          /\ \A i \in 1 .. Len(stack) : /\ stack[i].state.in_handler
                                        /\ i > 1 => stack[i].state.done = {}
          /\ cause = None => mine = Issued /\ ~ Top.err
          /\ cause # None => Top.err /\ cause[1] > 1
    /\ thread = "replying" =>
          /\ result.kind = "ok" =>
                /\ Outside(result.state)
                /\ result.state.done = IF cause = None THEN kept \cup mine ELSE kept
          /\ OnlyDeterministicIsRecorded

Inv == Typed /\ Nested /\ Contained

-----------------------------------------------------------------------------
(* The operators of the model.                                             *)

\* A new block state, and what the operations of BlockState make of one.
LEMMA States ==
    ASSUME NEW s \in BlockStates, NEW o \in BlockStates
    PROVE  /\ NewState \in BlockStates
           /\ enter_handler(s) \in BlockStates
           /\ exit_handler(s) \in BlockStates
           /\ exit_handler_and_discard_changes_due_to_error(s) \in BlockStates
           /\ extend(s, o) \in BlockStates
<1>1. NewState \in BlockStates
  BY DEF BlockStates, NewState
<1>2. enter_handler(s) \in BlockStates
  BY Zenon DEF BlockStates, enter_handler
<1>3. exit_handler(s) \in BlockStates
  BY Zenon DEF BlockStates, exit_handler
<1>4. exit_handler_and_discard_changes_due_to_error(s) \in BlockStates
  <2>1. s.errors + 1 \in Nat
    BY DEF BlockStates
  <2> QED
    BY <2>1, Zenon DEF BlockStates, exit_handler_and_discard_changes_due_to_error
<1>5. extend(s, o) \in BlockStates
  <2>1. s.errors + o.errors \in Nat
    BY DEF BlockStates
  <2>2. s.done \cup o.done \in SUBSET Nat /\ s.pending \cup o.done \in SUBSET Nat
    BY DEF BlockStates
  <2> QED
    BY <2>1, <2>2, Zenon DEF BlockStates, extend
<1> QED
  BY <1>1, <1>2, <1>3, <1>4, <1>5, Zenon

\* What a returned callback adds to a state: its operations are pending in one
\* that is in a handler, and done in one that is not (BlockState::extend).
LEMMA Extends ==
    ASSUME NEW s \in BlockStates, NEW o \in BlockStates
    PROVE  /\ extend(s, o).in_handler = s.in_handler
           /\ s.in_handler => /\ extend(s, o).pending = s.pending \cup o.done
                              /\ extend(s, o).done = s.done
           /\ ~ s.in_handler => /\ extend(s, o).pending = s.pending
                                /\ extend(s, o).done = s.done \cup o.done
BY DEF BlockStates, extend

\* A new instance has the state it is given and a stopwatch at zero
\* (from_valid_module_with_ctx).
LEMMA Fresh ==
    ASSUME NEW s \in BlockStates
    PROVE  LET f == from_valid_module_with_ctx(s)
           IN  /\ f \in Instances /\ f.state = s /\ f.todo = None /\ f.outs = NewState
               /\ ~ f.err /\ Timed(f) /\ Mapped(f)
<1>1. NewState \in BlockStates
  BY States
<1>2. from_valid_module_with_ctx(s) \in Instances
  BY <1>1 DEF Instances, from_valid_module_with_ctx
<1> QED
  BY <1>1, <1>2, WasmAssumption DEF from_valid_module_with_ctx, Timed, Mapped, NewState

\* The instances after a step, seen as Nested sees them.
LEMMA NestedNext ==
    ASSUME thread' = "running", Len(stack') > 0,
           \A i \in 1 .. Len(stack') :
               /\ Timed(stack'[i])
               /\ Mapped(stack'[i])
               /\ i < Len(stack') => stack'[i].todo # None /\ ~ stack'[i].err
    PROVE  Nested'
BY DEF Nested, Timed, Mapped

\* Changing the running instance leaves the others as they are.
LEMMA TopSet ==
    ASSUME Typed, Len(stack) > 0, NEW f \in Instances, stack' = SetTop(f)
    PROVE  /\ stack' \in Seq(Instances)
           /\ Len(stack') = Len(stack)
           /\ stack'[Len(stack)] = f
           /\ \A i \in 1 .. Len(stack) : i < Len(stack) => stack'[i] = stack[i]
BY DEF Typed, SetTop

\* The running instance is one of them.
LEMMA TopIn ==
    ASSUME Typed, Len(stack) > 0
    PROVE  Len(stack) \in 1 .. Len(stack) /\ Len(stack) \in Nat /\ Top \in Instances
BY DEF Typed, Top

\* The running instance takes a step of its own: the instances stay nested.
LEMMA NestedTop ==
    ASSUME Typed, Nested, thread \in {"starting", "running"}, thread' = "running",
           NEW f \in Instances, stack' = SetTop(f), Timed(f), Mapped(f)
    PROVE  Nested'
<1>1. Len(stack) > 0 /\ Len(stack) \in Nat
  BY DEF Nested, Typed
<1>2. /\ Len(stack') = Len(stack)
      /\ stack'[Len(stack)] = f
      /\ \A i \in 1 .. Len(stack) : i < Len(stack) => stack'[i] = stack[i]
  BY <1>1, TopSet
<1>3. ASSUME NEW i \in 1 .. Len(stack')
      PROVE  /\ Timed(stack'[i])
             /\ Mapped(stack'[i])
             /\ i < Len(stack') => stack'[i].todo # None /\ ~ stack'[i].err
  <2>1. CASE i = Len(stack)
    BY <2>1, <1>2
  <2>2. CASE i < Len(stack)
    <3>1. i \in 1 .. Len(stack) /\ stack'[i] = stack[i]
      BY <2>2, <1>1, <1>2
    <3> QED
      BY <3>1, <2>2, <1>2 DEF Nested
  <2> QED
    BY <2>1, <2>2, <1>1, <1>2
<1> QED
  BY <1>1, <1>2, <1>3 DEF Nested, Timed, Mapped

\* ... and what the handler has issued grows by what the step issues.
LEMMA IssuedTop ==
    ASSUME Typed, Len(stack) > 0, NEW f \in Instances, stack' = SetTop(f), NEW X,
           f.state.pending \cup f.outs.done = (Top.state.pending \cup Top.outs.done) \cup X
    PROVE  Issued' = Issued \cup X
<1>1. /\ Len(stack') = Len(stack) /\ Len(stack) \in Nat
      /\ stack'[Len(stack)] = f
      /\ \A i \in 1 .. Len(stack) : i < Len(stack) => stack'[i] = stack[i]
  BY TopSet, TopIn
<1>2. ASSUME NEW o PROVE o \in Issued' => o \in Issued \cup X
  BY <1>1 DEF Issued, Top
<1>3. ASSUME NEW o PROVE o \in Issued \cup X => o \in Issued'
  BY <1>1 DEF Issued, Top
<1> QED
  BY <1>2, <1>3

\* A step of the running instance that keeps its state in the handler: what is
\* done stays so, and what is pending is the handler's.
LEMMA ContainedTop ==
    ASSUME Inv, thread = "running", thread' = "running", cause = None,
           UNCHANGED <<runner, state, kept, cause>>,
           NEW f \in Instances, stack' = SetTop(f),
           f.state.done = Top.state.done, f.state.in_handler, ~ f.err,
           NEW X, mine' = mine \cup X,
           f.state.pending \cup f.outs.done = (Top.state.pending \cup Top.outs.done) \cup X
    PROVE  Contained'
<1>1. Len(stack) > 0 /\ Typed
  BY DEF Inv, Nested
<1>2. /\ Len(stack') = Len(stack) /\ Len(stack) \in Nat
      /\ stack'[Len(stack)] = f
      /\ \A i \in 1 .. Len(stack) : i < Len(stack) => stack'[i] = stack[i]
  BY <1>1, TopSet, TopIn
<1>3. Issued' = Issued \cup X
  BY <1>1, IssuedTop
<1>4. stack'[1].state.done = kept'
  BY <1>1, <1>2 DEF Inv, Contained, Top
<1>5. \A i \in 1 .. Len(stack') : /\ stack'[i].state.in_handler
                                  /\ i > 1 => stack'[i].state.done = {}
  BY <1>1, <1>2 DEF Inv, Contained, Top
<1>6. cause' = None /\ mine' = Issued' /\ ~ Top'.err
  BY <1>2, <1>3 DEF Inv, Contained, Top
<1>7. runner' # "idle"
  BY DEF Inv, Contained
<1> QED
  BY <1>4, <1>5, <1>6, <1>7 DEF Contained

-----------------------------------------------------------------------------
(* The steps.                                                              *)

\* A trigger goes to the thread with the state of the block, or the thread is
\* gone (send_mapping_request).
LEMMA SendStep ==
    ASSUME Inv, send_mapping_request
    PROVE  Inv'
<1>1. CASE thread = "ended"
  <2>1. Typed'
    BY <1>1 DEF Inv, Typed, send_mapping_request
  <2>2. Nested'
    BY <1>1 DEF Inv, Nested, send_mapping_request, Timed, Mapped
  <2>3. Contained'
    BY <1>1 DEF Inv, Contained, send_mapping_request
  <2> QED
    BY <2>1, <2>2, <2>3 DEF Inv
<1>2. CASE thread # "ended"
  <2> DEFINE f == from_valid_module_with_ctx(state)
  <2>1. /\ runner = "idle" /\ state \in BlockStates
        /\ thread' = "starting" /\ runner' = "awaiting" /\ stack' = <<f>>
        /\ cause' = None /\ mine' = {} /\ UNCHANGED <<result, ops, maps, kept>>
    BY <1>2 DEF Inv, Typed, send_mapping_request
  <2>2. /\ f \in Instances /\ f.state = state /\ f.todo = None /\ f.outs = NewState
        /\ ~ f.err /\ Timed(f) /\ Mapped(f)
    BY <2>1, Fresh
  <2> HIDE DEF f
  <2>3. stack' \in Seq(Instances) /\ Len(stack') = 1 /\ stack'[1] = f
    BY <2>1, <2>2
  <2>4. Typed'
    BY <2>1, <2>3 DEF Inv, Typed
  <2>5. Nested'
    BY <2>1, <2>2, <2>3 DEF Nested, Timed, Mapped
  <2>6. Contained'
    BY <2>1, <2>2, <2>3 DEF Inv, Contained, Outside
  <2> QED
    BY <2>4, <2>5, <2>6 DEF Inv
<1> QED
  BY <1>1, <1>2

\* The indexer goes away while it waits (process_mapping_trigger).
LEMMA CancelStep ==
    ASSUME Inv, Cancel
    PROVE  Inv'
<1>1. Typed'
  BY DEF Inv, Typed, Cancel
<1>2. Nested'
  BY DEF Inv, Nested, Cancel, Timed, Mapped
<1>3. Contained'
  BY DEF Inv, Contained, Cancel, Top, Issued, OnlyDeterministicIsRecorded
<1> QED
  BY <1>1, <1>2, <1>3 DEF Inv

\* The thread panics, and its instances are gone (spawn_module).
LEMMA EndStep ==
    ASSUME Inv, ThreadEnds
    PROVE  Inv'
<1>1. stack' \in Seq(Instances) /\ Len(stack') = 0
  BY DEF ThreadEnds
<1>2. Typed'
  BY <1>1 DEF Inv, Typed, ThreadEnds
<1>3. Nested'
  BY <1>1 DEF Nested, ThreadEnds
<1>4. Contained'
  BY DEF Inv, Contained, ThreadEnds
<1> QED
  BY <1>2, <1>3, <1>4 DEF Inv

\* The handler is entered, or is not there (handle_trigger).
LEMMA HandleStep ==
    ASSUME Inv, handle_trigger
    PROVE  Inv'
<1>1. /\ Typed /\ thread = "starting" /\ Len(stack) = 1 /\ Top \in Instances
      /\ Top = stack[1] /\ stack \in Seq(Instances)
  <2>1. Typed /\ Nested /\ thread = "starting" /\ stack \in Seq(Instances)
    BY DEF Inv, Typed, handle_trigger
  <2>2. Len(stack) = 1
    BY <2>1 DEF Nested
  <2> QED
    BY <2>1, <2>2 DEF Top
<1>2. /\ cause = None /\ mine = {} /\ Top.todo = None /\ runner # "idle"
      /\ Outside(Top.state) /\ Top.state.done = kept
      /\ Top.outs = NewState /\ ~ Top.err /\ Timed(Top) /\ Mapped(Top)
  BY <1>1 DEF Inv, Nested, Contained, Mapped
<1>3. CASE thread' = "running"
  <2> DEFINE f == [Top EXCEPT !.state = enter_handler(@)]
  <2>1. stack' = SetTop(f) /\ UNCHANGED <<runner, state, requests, ops, maps, mine, kept, cause, result>>
    BY <1>3 DEF handle_trigger
  <2>2. Top.state \in BlockStates /\ enter_handler(Top.state) \in BlockStates
    BY <1>1, States, Zenon DEF Instances
  <2>3. f \in Instances
    BY <1>1, <2>2, Zenon DEF Instances
  <2>4. /\ f.state = enter_handler(Top.state) /\ f.todo = Top.todo /\ f.outs = Top.outs
        /\ f.err = Top.err /\ f.on = Top.on /\ f.ran = Top.ran /\ f.elapsed = Top.elapsed
        /\ f.stopped = Top.stopped
    BY <1>1 DEF Instances
  <2>5. /\ f.state.in_handler /\ f.state.done = kept /\ f.state.pending = {}
    BY <2>2, <2>4, <1>2 DEF BlockStates, enter_handler, Outside
  <2>6. Timed(f) /\ Mapped(f)
    BY <2>4, <1>2 DEF Timed, Mapped
  <2> HIDE DEF f
  <2>7. stack' \in Seq(Instances) /\ Len(stack') = 1 /\ stack'[1] = f
    BY <1>1, <2>1, <2>3, TopSet
  <2>8. Typed'
    BY <2>1, <2>7, <1>3, <1>2 DEF Inv, Typed
  <2>9. Nested'
    BY <2>7, <2>6, <1>3 DEF Nested, Timed, Mapped
  <2>10. Issued' = {}
    BY <2>7, <2>5, <2>4, <1>2 DEF Issued, NewState
  <2>11. Contained'
    <3>1. \A i \in 1 .. Len(stack') : i = 1 /\ stack'[i].state.in_handler
      BY <2>5, <2>7
    <3>2. stack'[1].state.done = kept' /\ cause' = None /\ mine' = Issued'
      BY <2>1, <2>5, <2>7, <2>10, <1>2
    <3>3. ~ Top'.err
      BY <2>4, <2>7, <1>2 DEF Top
    <3> QED
      BY <3>1, <3>2, <3>3, <2>1, <1>2, <1>3 DEF Contained
  <2> QED
    BY <2>8, <2>9, <2>11 DEF Inv
<1>4. CASE thread' # "running"
  <2>1. /\ thread' = "replying" /\ result' = [kind |-> "unknown", state |-> None]
        /\ stack' = <<>> /\ cause' = <<1, "unknown">>
        /\ UNCHANGED <<runner, state, requests, ops, maps, mine, kept>>
    BY <1>1, <1>2, <1>4, WasmAssumption, Zenon DEF handle_trigger, FirstTrap, Traps
  <2>2. cause' \in Nat \X Traps /\ result'.kind = "unknown"
    BY <2>1, Zenon DEF Traps
  <2>3. Typed'
    BY <2>1, <2>2, <1>2 DEF Inv, Typed
  <2>4. Nested'
    BY <2>1 DEF Nested
  <2>5. Contained'
    BY <2>1, <2>2, <1>2 DEF Inv, Contained, OnlyDeterministicIsRecorded
  <2> QED
    BY <2>3, <2>4, <2>5 DEF Inv
<1> QED
  BY <1>3, <1>4

\* What holds while the handler or a callback runs its own code: nothing has
\* failed, and nothing is left from ipfs.map.
LEMMA InGuest ==
    ASSUME Inv, Guest
    PROVE  /\ Typed /\ Nested /\ thread = "running" /\ Len(stack) > 0 /\ Len(stack) \in Nat
           /\ Top \in Instances /\ Top.todo = None /\ Top.on /\ ~ Top.err
           /\ Top.outs = NewState /\ Timed(Top) /\ Mapped(Top)
           /\ cause = None /\ mine = Issued /\ Top.state.in_handler
<1>1. Typed /\ Nested /\ Contained /\ thread = "running" /\ Top.todo = None
  BY DEF Inv, Guest
<1>2. Len(stack) > 0 /\ Len(stack) \in Nat /\ Len(stack) \in 1 .. Len(stack) /\ Top \in Instances
  BY <1>1, TopIn DEF Nested
<1>3. Timed(Top) /\ Mapped(Top)
  BY <1>1, <1>2 DEF Nested, Top
<1>4. Top.on /\ ~ Top.err /\ Top.outs = NewState
  BY <1>1, <1>3 DEF Timed, Mapped
<1>5. cause = None /\ mine = Issued /\ Top.state.in_handler
  BY <1>1, <1>2, <1>4 DEF Contained, Top
<1> QED
  BY <1>1, <1>2, <1>3, <1>4, <1>5

\* The same while the running instance is in ipfs.map.
LEMMA InMapping ==
    ASSUME Inv, Mapping
    PROVE  /\ Typed /\ Nested /\ thread = "running" /\ Len(stack) > 0 /\ Len(stack) \in Nat
           /\ Top \in Instances /\ Top.todo # None /\ Top.todo \in Nat /\ ~ Top.on
           /\ Timed(Top) /\ Mapped(Top) /\ Top.state.in_handler
           /\ ~ Top.err => cause = None /\ mine = Issued
<1>1. Typed /\ Nested /\ Contained /\ thread = "running" /\ Top.todo # None
  BY DEF Inv, Mapping
<1>2. Len(stack) > 0 /\ Len(stack) \in Nat /\ Len(stack) \in 1 .. Len(stack) /\ Top \in Instances
  BY <1>1, TopIn DEF Nested
<1>3. Timed(Top) /\ Mapped(Top)
  BY <1>1, <1>2 DEF Nested, Top
<1>4. ~ Top.on /\ Top.todo \in Nat
  BY <1>1, <1>2, <1>3 DEF Timed, Instances
<1>5. Top.state.in_handler /\ (~ Top.err => cause = None /\ mine = Issued)
  BY <1>1, <1>2 DEF Contained, Top
<1> QED
  BY <1>1, <1>2, <1>3, <1>4, <1>5

\* An operation of the handler is pending (store_set, store_remove,
\* data_source_create).
LEMMA StoreStep ==
    ASSUME Inv, store_set
    PROVE  Inv'
<1> DEFINE f == [Top EXCEPT !.state.pending = @ \cup {ops}]
<1>1. /\ Guest /\ stack' = SetTop(f) /\ mine' = mine \cup {ops} /\ ops' = ops + 1
      /\ UNCHANGED <<thread, runner, state, result, requests, maps, kept, cause>>
  BY DEF store_set
<1>2. /\ Typed /\ Nested /\ thread = "running" /\ Len(stack) > 0
      /\ Top \in Instances /\ Top.todo = None /\ ~ Top.err
      /\ Top.outs = NewState /\ Timed(Top) /\ Mapped(Top)
      /\ cause = None /\ Top.state.in_handler
  BY <1>1, InGuest
<1>3. ops \in Nat /\ mine \in SUBSET Nat
  BY <1>2 DEF Typed
<1>4. Top.state \in BlockStates
  BY <1>2 DEF Instances
<1> DEFINE s == [Top.state EXCEPT !.pending = @ \cup {ops}]
<1>5. s \in BlockStates
  <2>1. Top.state.pending \cup {ops} \in SUBSET Nat
    BY <1>3, <1>4 DEF BlockStates
  <2> QED
    BY <1>4, <2>1, Zenon DEF BlockStates
<1>6. s.pending = Top.state.pending \cup {ops} /\ s.done = Top.state.done /\ s.in_handler
  BY <1>2, <1>4 DEF BlockStates
<1>7. f = [Top EXCEPT !.state = s]
  BY <1>2 DEF Instances
<1>8. f \in Instances
  BY <1>7, <1>5, <1>2, Zenon DEF Instances
<1>9. /\ f.state = s /\ f.todo = Top.todo /\ f.outs = Top.outs
      /\ f.err = Top.err /\ f.on = Top.on /\ f.ran = Top.ran /\ f.elapsed = Top.elapsed
      /\ f.stopped = Top.stopped
  BY <1>7, <1>2 DEF Instances
<1>10. Timed(f) /\ Mapped(f)
  BY <1>9, <1>2 DEF Timed, Mapped
<1> HIDE DEF f, s
<1>11. Typed'
  <2>1. stack' \in Seq(Instances)
    BY <1>1, <1>2, <1>8, TopSet
  <2>2. ops' \in Nat /\ mine' \in SUBSET Nat
    BY <1>1, <1>3
  <2> QED
    BY <1>1, <1>2, <2>1, <2>2 DEF Typed
<1>12. Nested'
  BY <1>1, <1>2, <1>8, <1>10, NestedTop
<1>13. Contained'
  BY <1>1, <1>2, <1>6, <1>8, <1>9, ContainedTop, Zenon
<1> QED
  BY <1>11, <1>12, <1>13 DEF Inv

\* The first trap is remembered with its depth.
LEMMA Traced ==
    ASSUME Typed, NEW c \in Traps \cup {None}, Len(stack) \in Nat
    PROVE  /\ FirstTrap(c) \in {None} \cup (Nat \X Traps)
           /\ cause # None => FirstTrap(c) = cause
           /\ c = None => FirstTrap(c) = cause
           /\ cause = None /\ c # None => /\ FirstTrap(c) = <<Len(stack), c>>
                                          /\ FirstTrap(c) # None
BY WasmAssumption DEF Typed, FirstTrap

\* How a callback or the handler itself may end: with any outcome of its own
\* code, or with the error of ipfs.map.
Ends(c) == Guest \/ (Mapping /\ c = "unknown")

\* The handler ends, and its state is kept, discarded or dropped
\* (invoke_handler).
LEMMA InvokeStep ==
    ASSUME Inv, NEW c \in Traps \cup {None}, Ends(c), invoke_handler(c)
    PROVE  Inv'
<1>1. /\ Typed /\ Nested /\ Contained /\ thread = "running" /\ Len(stack) = 1 /\ Len(stack) \in Nat
      /\ Top \in Instances /\ Top = stack[1] /\ Top.state.in_handler
      /\ Top.todo = None \/ c = "unknown"
      /\ Top.todo = None => cause = None /\ mine = Issued /\ Top.outs = NewState
  BY InGuest, InMapping DEF Ends, invoke_handler, Top, Inv, Guest, Mapping
<1>2. /\ thread' = "replying" /\ stack' = <<>> /\ result' = Outcome(c, Top.state)
      /\ cause' = FirstTrap(c)
      /\ UNCHANGED <<runner, state, requests, ops, maps, mine, kept>>
  BY DEF invoke_handler
<1>3. Top.state \in BlockStates /\ Top.state.done = kept /\ runner # "idle"
  BY <1>1 DEF Contained, Instances
<1>4. Top.todo = None => mine = Top.state.pending
  <2>1. Issued = Top.state.pending \cup Top.outs.done
    BY <1>1 DEF Issued
  <2>2. NewState.done = {}
    BY DEF NewState
  <2> QED
    BY <2>1, <2>2, <1>1, Zenon
<1> DEFINE ok == exit_handler(Top.state)
           no == exit_handler_and_discard_changes_due_to_error(Top.state)
<1>5. /\ ok \in BlockStates /\ Outside(ok) /\ ok.done = kept \cup Top.state.pending
      /\ no \in BlockStates /\ Outside(no) /\ no.done = kept
  <2>1. ok \in BlockStates /\ no \in BlockStates
    BY <1>3, States
  <2>2. Outside(ok) /\ ok.done = kept \cup Top.state.pending
    BY <1>3 DEF Outside, exit_handler, BlockStates
  <2>3. Outside(no) /\ no.done = kept
    BY <1>3 DEF Outside, exit_handler_and_discard_changes_due_to_error, BlockStates
  <2> QED
    BY <2>1, <2>2, <2>3
<1> HIDE DEF ok, no
<1>6. /\ c = None => result'.kind = "ok" /\ result'.state = ok
      /\ c \in Deterministic => result'.kind = "ok" /\ result'.state = no
      /\ c = "reorg" => result'.kind = "reorg"
      /\ c \in Traps \ (Deterministic \cup {"reorg"}) => result'.kind = "unknown"
  BY <1>2, WasmAssumption, Zenon DEF Outcome, Deterministic, Traps, ok, no
<1>7. Nested'
  BY <1>2 DEF Nested
<1>8. Typed'
  <2>1. cause' \in {None} \cup (Nat \X Traps)
    BY <1>1, <1>2, Traced
  <2>2. result'.kind \in {"ok", "reorg", "unknown"} /\ (result'.kind = "ok" => result'.state \in BlockStates)
    BY <1>5, <1>6, Zenon DEF Traps, Deterministic
  <2> QED
    BY <1>1, <1>2, <1>3, <2>1, <2>2 DEF Typed
<1>9. result'.kind = "ok" =>
          /\ Outside(result'.state)
          /\ result'.state.done = IF cause' = None THEN kept' \cup mine' ELSE kept'
  <2>1. CASE c = None
    BY <2>1, <1>1, <1>2, <1>4, <1>5, <1>6, Traced, WasmAssumption, Zenon DEF Traps
  <2>2. CASE c \in Deterministic
    BY <2>2, <1>1, <1>2, <1>5, <1>6, Traced, WasmAssumption, Zenon DEF Traps, Deterministic
  <2> QED
    BY <2>1, <2>2, <1>6, Zenon DEF Traps, Deterministic
<1>10. OnlyDeterministicIsRecorded'
  <2>1. CASE Top.todo = None
    <3>1. cause = None /\ (c # None => cause' = <<1, c>>) /\ (c = None => cause' = None)
      BY <2>1, <1>1, <1>2, Traced
    <3>2. CASE c = None
      BY <3>1, <3>2, <1>6 DEF OnlyDeterministicIsRecorded
    <3>3. CASE c \in Deterministic
      <4>1. cause' = <<1, c>> /\ result'.kind = "ok"
        BY <3>1, <3>3, <1>6, WasmAssumption, Zenon DEF Traps, Deterministic
      <4>2. cause' \in {1} \X Deterministic
        BY <4>1, <3>3
      <4> QED
        BY <4>1, <4>2 DEF OnlyDeterministicIsRecorded
    <3>4. CASE c \in Traps \ Deterministic
      <4>1. cause' = <<1, c>> /\ result'.kind # "ok"
        BY <3>1, <3>4, <1>6, WasmAssumption, Zenon DEF Traps, Deterministic
      <4>2. (result'.kind = "reorg") <=> (c = "reorg")
        BY <3>4, <1>6, Zenon DEF Traps, Deterministic
      <4>3. cause' = <<1, "reorg">> <=> c = "reorg"
        BY <4>1
      <4> QED
        BY <4>1, <4>2, <4>3 DEF OnlyDeterministicIsRecorded
    <3> QED
      BY <3>2, <3>3, <3>4
  <2>2. CASE Top.todo # None
    <3>1. c = "unknown" /\ result'.kind = "unknown"
      BY <2>2, <1>1, <1>6, Zenon DEF Traps, Deterministic
    <3>2. cause' # <<1, "reorg">>
      <4>1. CASE cause = None
        <5>1. cause' = <<1, "unknown">>
          BY <4>1, <3>1, <1>1, <1>2, Traced, WasmAssumption, Zenon DEF Traps
        <5> QED
          BY <5>1
      <4>2. CASE cause # None
        <5>1. cause[1] > 1 /\ cause' = cause
          BY <4>2, <1>1, <1>2, Traced DEF Contained
        <5> QED
          BY <5>1
      <4> QED
        BY <4>1, <4>2
    <3> QED
      BY <3>1, <3>2 DEF OnlyDeterministicIsRecorded
  <2> QED
    BY <2>1, <2>2
<1>11. Contained'
  BY <1>2, <1>3, <1>9, <1>10 DEF Contained
<1> QED
  BY <1>7, <1>8, <1>11 DEF Inv

\* A callback ends: its operations go to the states that ipfs.map collects, or
\* ipfs.map has failed (handle_json_callback).
LEMMA CallbackStep ==
    ASSUME Inv, NEW c \in Traps \cup {None}, Ends(c), handle_json_callback(c)
    PROVE  Inv'
<1>0. PICK n : n = Len(stack) - 1
  OBVIOUS
<1>1. /\ Typed /\ Nested /\ Contained /\ thread = "running" /\ Len(stack) > 1 /\ Len(stack) \in Nat
      /\ Top \in Instances /\ Top.state.in_handler
      /\ Top.todo = None \/ c = "unknown"
      /\ Top.todo = None => cause = None /\ mine = Issued /\ Top.outs = NewState
  BY InGuest, InMapping DEF Ends, handle_json_callback, Inv, Guest, Mapping
<1>2. /\ n \in 1 .. Len(stack) /\ n \in Nat /\ n < Len(stack) /\ n + 1 = Len(stack)
      /\ stack \in Seq(Instances) /\ stack[n] \in Instances
  BY <1>0, <1>1 DEF Typed
<1>3. /\ stack[n].todo # None /\ ~ stack[n].err /\ Timed(stack[n]) /\ Mapped(stack[n])
      /\ stack[n].state.in_handler /\ Top.state.done = {} /\ runner # "idle"
  <2>1. stack[n].todo # None /\ ~ stack[n].err /\ Timed(stack[n]) /\ Mapped(stack[n])
    BY <1>1, <1>2, Zenon DEF Nested
  <2>2. Len(stack) \in 1 .. Len(stack)
    BY <1>1
  <2>3. runner # "idle"
    BY <1>1 DEF Contained
  <2>4. \A i \in 1 .. Len(stack) : /\ stack[i].state.in_handler
                                   /\ i > 1 => stack[i].state.done = {}
    BY <1>1, Zenon DEF Contained
  <2> QED
    BY <2>1, <2>2, <2>3, <2>4, <1>1, <1>2, Zenon DEF Top
<1>4. Top.state \in BlockStates /\ stack[n].outs \in BlockStates
  BY <1>1, <1>2 DEF Instances
<1> DEFINE outs == extend(stack[n].outs, exit_handler(Top.state))
           good == [stack[n] EXCEPT !.outs = outs]
           bad  == [stack[n] EXCEPT !.err = TRUE]
           f    == IF c = None THEN good ELSE bad
<1>5. /\ outs \in BlockStates /\ outs.pending = {} /\ ~ outs.in_handler
      /\ outs.done = stack[n].outs.done \cup Top.state.pending
  <2>1. exit_handler(Top.state) \in BlockStates
    BY <1>4, States
  <2>2. exit_handler(Top.state).done = Top.state.pending
    BY <1>3, <1>4 DEF exit_handler, BlockStates
  <2>3. stack[n].outs.pending = {} /\ ~ stack[n].outs.in_handler
    BY <1>3 DEF Mapped
  <2>4. outs \in BlockStates
    BY <2>1, <1>4, States, Zenon
  <2>5. /\ outs.in_handler = stack[n].outs.in_handler /\ outs.pending = stack[n].outs.pending
        /\ outs.done = stack[n].outs.done \cup exit_handler(Top.state).done
    BY <2>1, <2>3, <1>4, Extends
  <2> QED
    BY <2>2, <2>3, <2>4, <2>5
<1> HIDE DEF outs
<1>6. /\ good \in Instances /\ good.outs = outs /\ good.state = stack[n].state
      /\ good.todo = stack[n].todo /\ good.err = stack[n].err /\ Timed(good)
  <2>1. good \in Instances
    BY <1>2, <1>5, Zenon DEF Instances
  <2> QED
    BY <2>1, <1>2, <1>3 DEF Instances, Timed
<1>7. /\ bad \in Instances /\ bad.outs = stack[n].outs /\ bad.state = stack[n].state
      /\ bad.todo = stack[n].todo /\ bad.err /\ Timed(bad)
  <2>1. bad \in Instances
    BY <1>2, Zenon DEF Instances
  <2> QED
    BY <2>1, <1>2, <1>3 DEF Instances, Timed
<1> HIDE DEF good, bad
<1>8. f \in Instances /\ f.state = stack[n].state /\ f.todo # None /\ Timed(f) /\ Mapped(f)
  BY <1>3, <1>5, <1>6, <1>7, Zenon DEF Mapped
<1>9. /\ stack' = [i \in 1 .. n |-> IF i < n THEN stack[i] ELSE f]
      /\ cause' = FirstTrap(c)
      /\ UNCHANGED <<thread, runner, state, result, requests, ops, maps, mine, kept>>
  <2>1. stack' = [i \in 1 .. n |-> IF i < n THEN stack[i]
                                   ELSE IF c = None
                                   THEN [stack[i] EXCEPT !.outs = extend(@, exit_handler(Top.state))]
                                   ELSE [stack[i] EXCEPT !.err = TRUE]]
    BY <1>0, Zenon DEF handle_json_callback
  <2>2. \A i \in 1 .. n : ~ (i < n) => i = n
    BY <1>2
  <2>3. stack' = [i \in 1 .. n |-> IF i < n THEN stack[i] ELSE f]
    BY <2>1, <2>2, Zenon DEF good, bad, outs
  <2> QED
    BY <2>3, Zenon DEF handle_json_callback
<1> HIDE DEF f
<1>10. /\ stack' \in Seq(Instances) /\ Len(stack') = n /\ stack'[n] = f
       /\ \A i \in 1 .. n : i < n => stack'[i] = stack[i]
  <2>1. \A i \in 1 .. n : i \in 1 .. Len(stack) /\ stack[i] \in Instances
    BY <1>2
  <2>2. \A i \in 1 .. n : stack'[i] \in Instances
    BY <1>8, <1>9, <2>1
  <2>3. stack' \in [1 .. n -> Instances]
    BY <1>9, <2>2
  <2> QED
    BY <1>2, <1>9, <2>3
<1>11. Typed'
  <2>1. cause' \in {None} \cup (Nat \X Traps)
    BY <1>1, <1>9, Traced
  <2> QED
    BY <1>1, <1>9, <1>10, <2>1 DEF Typed
<1>12. Nested'
  <2>1. ASSUME NEW i \in 1 .. Len(stack')
        PROVE  /\ Timed(stack'[i])
               /\ Mapped(stack'[i])
               /\ i < Len(stack') => stack'[i].todo # None /\ ~ stack'[i].err
    <3>1. CASE i = n
      <4>1. stack'[i] = f /\ ~ (i < Len(stack'))
        BY <3>1, <1>2, <1>10
      <4> QED
        BY <4>1, <1>8, Zenon
    <3>2. CASE i < n
      <4>1. i \in 1 .. Len(stack) /\ i < Len(stack) /\ stack'[i] = stack[i]
        BY <3>2, <1>2, <1>10
      <4> QED
        BY <4>1, <1>1 DEF Nested
    <3>3. i = n \/ i < n
      BY <1>2, <1>10
    <3> QED
      BY <3>1, <3>2, <3>3
  <2>2. thread' = "running" /\ Len(stack') > 0
    BY <1>1, <1>2, <1>9, <1>10
  <2> QED
    BY <2>1, <2>2, NestedNext, Zenon
<1>13. c = None => Issued' = Issued
  <2> SUFFICES ASSUME c = None
               PROVE  Issued' = Issued
    OBVIOUS
  <2>1. f.state.pending \cup f.outs.done =
            (stack[n].state.pending \cup stack[n].outs.done) \cup Top.state.pending
    BY <1>5, <1>6 DEF f
  <2>2. Top.outs.done = {}
    <3>1. c # "unknown"
      BY WasmAssumption, Zenon DEF Traps
    <3> QED
      BY <3>1, <1>1 DEF NewState
  <2>3. ASSUME NEW o PROVE o \in Issued' => o \in Issued
    <3> SUFFICES ASSUME o \in Issued' PROVE o \in Issued
      OBVIOUS
    <3>1. PICK i \in 1 .. n : o \in stack'[i].state.pending \cup stack'[i].outs.done
      BY <1>10 DEF Issued
    <3>2. CASE i < n
      <4>1. i \in 1 .. Len(stack) /\ stack'[i] = stack[i]
        BY <3>2, <1>2, <1>10
      <4> QED
        BY <3>1, <4>1, Zenon DEF Issued
    <3>3. CASE i = n
      <4>1. o \in f.state.pending \cup f.outs.done
        BY <3>1, <3>3, <1>10, Zenon
      <4>2. \/ o \in stack[n].state.pending \cup stack[n].outs.done
            \/ o \in Top.state.pending \cup Top.outs.done
        BY <4>1, <2>1, Zenon
      <4>3. n \in 1 .. Len(stack) /\ Len(stack) \in 1 .. Len(stack)
        BY <1>2
      <4> QED
        BY <4>2, <4>3, Zenon DEF Issued, Top
    <3> QED
      BY <3>2, <3>3, <1>2
  <2>4. ASSUME NEW o PROVE o \in Issued => o \in Issued'
    <3> SUFFICES ASSUME o \in Issued PROVE o \in Issued'
      OBVIOUS
    <3>1. PICK i \in 1 .. Len(stack) : o \in stack[i].state.pending \cup stack[i].outs.done
      BY DEF Issued
    <3>2. CASE i < n
      BY <3>1, <3>2, <1>2, <1>10 DEF Issued
    <3>3. CASE i = n
      BY <3>1, <3>3, <2>1, <1>2, <1>10 DEF Issued
    <3>4. CASE i = Len(stack)
      BY <3>1, <3>4, <2>1, <2>2, <1>2, <1>10 DEF Issued, Top
    <3> QED
      BY <3>2, <3>3, <3>4, <1>2
  <2> QED
    BY <2>3, <2>4
<1>14. Contained'
  <2>5. \A i \in 1 .. Len(stack') : i \in 1 .. Len(stack) /\ stack'[i].state = stack[i].state
    BY <1>2, <1>8, <1>10
  <2>6. 1 \in 1 .. Len(stack') /\ kept' = kept
    BY <1>2, <1>9, <1>10
  <2>7. /\ stack[1].state.done = kept
        /\ \A i \in 1 .. Len(stack) : /\ stack[i].state.in_handler
                                      /\ i > 1 => stack[i].state.done = {}
    BY <1>1 DEF Contained
  <2>1. stack'[1].state.done = kept'
    BY <2>5, <2>6, <2>7, Zenon
  <2>2. \A i \in 1 .. Len(stack') : /\ stack'[i].state.in_handler
                                    /\ i > 1 => stack'[i].state.done = {}
    BY <2>5, <2>7, Zenon
  <2>3. CASE c = None
    <3>1. cause' = None /\ mine' = Issued'
      BY <2>3, <1>1, <1>9, <1>13, Traced, WasmAssumption, Zenon DEF Traps
    <3>2. ~ Top'.err
      BY <2>3, <1>3, <1>6, <1>10 DEF f, Top
    <3> QED
      BY <3>1, <3>2, <2>1, <2>2, <1>1, <1>3, <1>9, Zenon DEF Contained
  <2>4. CASE c # None
    <3>1. Top'.err
      BY <2>4, <1>7, <1>10 DEF f, Top
    <3>2. cause' # None /\ cause'[1] > 1
      <4>1. CASE cause = None
        <5>1. cause' = <<Len(stack), c>> /\ cause' # None
          BY <4>1, <2>4, <1>1, <1>9, Traced
        <5> QED
          BY <5>1, <1>1
      <4>2. CASE cause # None
        BY <4>2, <1>1, <1>9, Traced DEF Contained
      <4> QED
        BY <4>1, <4>2
    <3> QED
      BY <3>1, <3>2, <2>1, <2>2, <1>1, <1>3, <1>9, Zenon DEF Contained
  <2> QED
    BY <2>3, <2>4
<1> QED
  BY <1>11, <1>12, <1>14 DEF Inv

\* The stopwatch stops with the call of ipfs.map (ipfs_map).
LEMMA MapStep ==
    ASSUME Inv, ipfs_map
    PROVE  Inv'
<1>1. PICK v \in 0 .. MaxValues :
          stack' = SetTop([Top EXCEPT !.todo = v, !.outs = NewState, !.on = FALSE])
  BY Zenon DEF ipfs_map
<1> DEFINE f == [Top EXCEPT !.todo = v, !.outs = NewState, !.on = FALSE]
<1>2. /\ Guest /\ stack' = SetTop(f) /\ v \in Nat
      /\ UNCHANGED <<thread, runner, state, result, requests, ops, mine, kept, cause>>
  BY <1>1 DEF ipfs_map
<1>3. /\ Typed /\ Nested /\ thread = "running" /\ Len(stack) > 0
      /\ Top \in Instances /\ Top.todo = None /\ ~ Top.err
      /\ Top.outs = NewState /\ Timed(Top) /\ Mapped(Top)
      /\ cause = None /\ Top.state.in_handler
  BY <1>2, InGuest
<1>4. NewState \in BlockStates /\ NewState.pending = {} /\ ~ NewState.in_handler
  BY <1>3, States, Zenon DEF NewState, Instances
<1>5. f \in Instances
  BY <1>2, <1>3, <1>4, Zenon DEF Instances
<1>6. /\ f.state = Top.state /\ f.todo = v /\ f.outs = NewState /\ f.err = Top.err
      /\ f.on = FALSE /\ f.ran = Top.ran /\ f.elapsed = Top.elapsed /\ f.stopped = Top.stopped
  BY <1>3 DEF Instances
<1>7. v # None
  BY <1>2, WasmAssumption
<1>8. Timed(f) /\ Mapped(f)
  BY <1>3, <1>4, <1>6, <1>7 DEF Timed, Mapped
<1> HIDE DEF f
<1>9. Typed'
  <2>1. stack' \in Seq(Instances)
    BY <1>2, <1>3, <1>5, TopSet
  <2> QED
    BY <1>2, <1>3, <2>1 DEF Typed
<1>10. Nested'
  BY <1>2, <1>3, <1>5, <1>8, NestedTop
<1>11. Contained'
  <2>1. /\ mine' = mine \cup {}
        /\ f.state.pending \cup f.outs.done = (Top.state.pending \cup Top.outs.done) \cup {}
    BY <1>2, <1>3, <1>6
  <2> QED
    BY <2>1, <1>2, <1>3, <1>5, <1>6, ContainedTop, Zenon
<1> QED
  BY <1>9, <1>10, <1>11 DEF Inv

\* The callbacks have returned: their operations are the caller's, and the
\* stopwatch goes on (ipfs_map).
LEMMA MapReturnsStep ==
    ASSUME Inv, MapReturns
    PROVE  Inv'
<1> DEFINE f == [Extended(Top) EXCEPT !.on = TRUE]
           s == extend(Top.state, Top.outs)
<1>1. /\ Mapping /\ ~ Top.err /\ stack' = SetTop(f)
      /\ UNCHANGED <<thread, runner, state, result, requests, ops, maps, mine, kept, cause>>
  BY DEF MapReturns
<1>2. /\ Typed /\ Nested /\ thread = "running" /\ Len(stack) > 0
      /\ Top \in Instances /\ Timed(Top) /\ Mapped(Top)
      /\ cause = None /\ Top.state.in_handler
  BY <1>1, InMapping
<1>3. Top.state \in BlockStates /\ Top.outs \in BlockStates
  BY <1>2 DEF Instances
<1>4. /\ NewState \in BlockStates /\ NewState.pending = {} /\ ~ NewState.in_handler
      /\ NewState.done = {} /\ s \in BlockStates
  BY <1>3, States DEF NewState
<1>5. /\ s.in_handler /\ s.done = Top.state.done /\ s.pending = Top.state.pending \cup Top.outs.done
  <2>1. /\ extend(Top.state, Top.outs).in_handler = Top.state.in_handler
        /\ Top.state.in_handler =>
              /\ extend(Top.state, Top.outs).pending = Top.state.pending \cup Top.outs.done
              /\ extend(Top.state, Top.outs).done = Top.state.done
    BY <1>3, Extends, Zenon
  <2> QED
    BY <2>1, <1>2
<1> HIDE DEF s
<1>6. Extended(Top) \in Instances
  <2>1. Extended(Top) = [Top EXCEPT !.state = s, !.todo = None, !.outs = NewState]
    BY DEF Extended, s
  <2> QED
    BY <2>1, <1>2, <1>4, Zenon DEF Instances
<1>7. f \in Instances
  BY <1>6, Zenon DEF Instances
<1>8. /\ f.state = s /\ f.todo = None /\ f.outs = NewState /\ f.err = Top.err
      /\ f.on = TRUE /\ f.ran = Top.ran /\ f.elapsed = Top.elapsed /\ f.stopped = Top.stopped
  BY <1>2, <1>6 DEF Instances, Extended, s
<1>9. Timed(f) /\ Mapped(f)
  BY <1>1, <1>2, <1>4, <1>8 DEF Timed, Mapped
<1> HIDE DEF f
<1>10. Typed'
  <2>1. stack' \in Seq(Instances)
    BY <1>1, <1>2, <1>7, TopSet
  <2> QED
    BY <1>1, <1>2, <2>1 DEF Typed
<1>11. Nested'
  BY <1>1, <1>2, <1>7, <1>9, NestedTop
<1>12. Contained'
  <2>1. /\ mine' = mine \cup {}
        /\ f.state.pending \cup f.outs.done = (Top.state.pending \cup Top.outs.done) \cup {}
    BY <1>1, <1>4, <1>5, <1>8
  <2> QED
    BY <2>1, <1>1, <1>2, <1>5, <1>7, <1>8, ContainedTop, Zenon
<1> QED
  BY <1>10, <1>11, <1>12 DEF Inv

\* A callback starts in an instance of its own, with an empty state
\* (HostExports::ipfs_map).
LEMMA NextValueStep ==
    ASSUME Inv, NextValue
    PROVE  Inv'
<1> DEFINE f == [Top EXCEPT !.todo = @ - 1]
           g == from_valid_module_with_ctx(enter_handler(NewState))
<1>0. PICK n : n = Len(stack)
  OBVIOUS
<1>1. /\ Mapping /\ ~ Top.err /\ Top.todo > 0 /\ stack' = Append(SetTop(f), g)
      /\ UNCHANGED <<thread, runner, state, result, requests, ops, maps, mine, kept, cause>>
  BY DEF NextValue
<1>2. /\ Typed /\ Nested /\ Contained /\ thread = "running" /\ n > 0 /\ n \in Nat
      /\ stack \in Seq(Instances)
      /\ Top \in Instances /\ Top.todo \in Nat /\ Timed(Top) /\ Mapped(Top) /\ Top.todo # None
      /\ cause = None /\ mine = Issued /\ Top.state.in_handler
  BY <1>0, <1>1, InMapping DEF Inv, Typed
<1>3. Top.todo - 1 \in Nat /\ Top.todo - 1 # None
  BY <1>1, <1>2, WasmAssumption
<1>4. f \in Instances
  BY <1>2, <1>3, Zenon DEF Instances
<1>5. /\ f.state = Top.state /\ f.todo = Top.todo - 1 /\ f.outs = Top.outs /\ f.err = Top.err
      /\ f.on = Top.on /\ f.ran = Top.ran /\ f.elapsed = Top.elapsed /\ f.stopped = Top.stopped
  BY <1>2 DEF Instances
<1>6. Timed(f) /\ Mapped(f) /\ f.todo # None /\ ~ f.err
  BY <1>1, <1>2, <1>3, <1>5 DEF Timed, Mapped
<1>7. /\ NewState \in BlockStates /\ enter_handler(NewState) \in BlockStates
      /\ enter_handler(NewState).in_handler /\ enter_handler(NewState).done = {}
      /\ enter_handler(NewState).pending = {} /\ NewState.done = {}
  <2>1. NewState \in BlockStates
    BY DEF BlockStates, NewState
  <2> QED
    BY <2>1, States DEF NewState, enter_handler
<1>8. /\ g \in Instances /\ g.state = enter_handler(NewState) /\ g.outs = NewState /\ ~ g.err
      /\ Timed(g) /\ Mapped(g)
  BY <1>7, Fresh
<1> HIDE DEF f, g
<1>9. /\ SetTop(f) \in Seq(Instances) /\ Len(SetTop(f)) = n /\ SetTop(f)[n] = f
      /\ \A i \in 1 .. n : i < n => SetTop(f)[i] = stack[i]
  BY <1>0, <1>2, <1>4 DEF SetTop
<1>10. /\ stack' \in Seq(Instances) /\ Len(stack') = n + 1 /\ stack'[n + 1] = g /\ stack'[n] = f
       /\ \A i \in 1 .. n : i < n => stack'[i] = stack[i]
  BY <1>1, <1>2, <1>8, <1>9
<1>11. Typed'
  BY <1>1, <1>2, <1>10 DEF Typed
<1>12. Nested'
  <2>1. ASSUME NEW i \in 1 .. Len(stack')
        PROVE  /\ Timed(stack'[i])
               /\ Mapped(stack'[i])
               /\ i < Len(stack') => stack'[i].todo # None /\ ~ stack'[i].err
    <3>1. CASE i = n + 1
      BY <3>1, <1>8, <1>10
    <3>2. CASE i = n
      BY <3>2, <1>6, <1>10
    <3>3. CASE i < n
      <4>1. i \in 1 .. n /\ stack'[i] = stack[i]
        BY <3>3, <1>2, <1>10
      <4> QED
        BY <1>0, <4>1, <3>3, <1>2 DEF Nested
    <3>4. i = n + 1 \/ i = n \/ i < n
      BY <1>2, <1>10
    <3> QED
      BY <3>1, <3>2, <3>3, <3>4, Zenon
  <2>2. thread' = "running" /\ Len(stack') > 0
    BY <1>1, <1>2, <1>10
  <2> QED
    BY <2>1, <2>2, NestedNext, Zenon
<1>15. \A i \in 1 .. n : stack'[i].state = stack[i].state /\ stack'[i].outs = stack[i].outs
  <2> SUFFICES ASSUME NEW i \in 1 .. n
               PROVE  stack'[i].state = stack[i].state /\ stack'[i].outs = stack[i].outs
    OBVIOUS
  <2>1. CASE i = n
    BY <1>0, <2>1, <1>5, <1>10, Zenon DEF Top
  <2>2. CASE i < n
    BY <2>2, <1>10, Zenon
  <2> QED
    BY <2>1, <2>2, <1>2
<1>13. Issued' = Issued
  <2>1. ASSUME NEW o PROVE o \in Issued' => o \in Issued
    <3> SUFFICES ASSUME o \in Issued' PROVE o \in Issued
      OBVIOUS
    <3>1. PICK i \in 1 .. n + 1 : o \in stack'[i].state.pending \cup stack'[i].outs.done
      BY <1>10 DEF Issued
    <3>2. i # n + 1
      BY <3>1, <1>7, <1>8, <1>10
    <3>3. i \in 1 .. n
      BY <3>2, <1>2
    <3> QED
      BY <1>0, <3>1, <3>3, <1>15, Zenon DEF Issued
  <2>2. ASSUME NEW o PROVE o \in Issued => o \in Issued'
    <3> SUFFICES ASSUME o \in Issued PROVE o \in Issued'
      OBVIOUS
    <3>1. PICK i \in 1 .. n : o \in stack[i].state.pending \cup stack[i].outs.done
      BY <1>0 DEF Issued
    <3>2. i \in 1 .. Len(stack')
      BY <1>2, <1>10
    <3> QED
      BY <3>1, <3>2, <1>15, Zenon DEF Issued
  <2> QED
    BY <2>1, <2>2
<1>14. Contained'
  <2>4. \A i \in 1 .. n : stack'[i].state = stack[i].state
    BY <1>2, <1>15
  <2>5. 1 \in 1 .. n /\ n + 1 > 1 /\ kept' = kept
    BY <1>1, <1>2
  <2>6. /\ stack[1].state.done = kept
        /\ \A i \in 1 .. n : /\ stack[i].state.in_handler
                             /\ i > 1 => stack[i].state.done = {}
    BY <1>0, <1>2 DEF Contained
  <2>1. stack'[1].state.done = kept'
    BY <2>4, <2>5, <2>6, Zenon
  <2>7. stack'[n + 1].state.in_handler /\ stack'[n + 1].state.done = {}
    BY <1>7, <1>8, <1>10, Zenon
  <2>2. \A i \in 1 .. Len(stack') : /\ stack'[i].state.in_handler
                                    /\ i > 1 => stack'[i].state.done = {}
    <3> SUFFICES ASSUME NEW i \in 1 .. Len(stack')
                 PROVE  /\ stack'[i].state.in_handler
                        /\ i > 1 => stack'[i].state.done = {}
      OBVIOUS
    <3>1. i = n + 1 \/ i \in 1 .. n
      BY <1>2, <1>10
    <3> QED
      BY <3>1, <2>4, <2>6, <2>7, Zenon
  <2>3. ~ Top'.err
    BY <1>8, <1>10 DEF Top
  <2> QED
    BY <2>1, <2>2, <2>3, <1>1, <1>2, <1>13, Zenon DEF Contained
<1> QED
  BY <1>11, <1>12, <1>14 DEF Inv

-----------------------------------------------------------------------------
(* Time passes for the instances, and changes nothing but their clocks.    *)

\* What a step of the clocks leaves alone.
SameWork(f, g) ==
    /\ g \in Instances /\ Timed(g)
    /\ g.state = f.state /\ g.todo = f.todo /\ g.outs = f.outs /\ g.err = f.err

\* A step that changes only clocks, and those as Timed says (the stopwatch and
\* the watchdog of from_valid_module_with_ctx).
LEMMA ClockStep ==
    ASSUME Inv,
           stack' \in Seq(Instances), Len(stack') = Len(stack),
           \A i \in 1 .. Len(stack) : SameWork(stack[i], stack'[i]),
           UNCHANGED <<thread, runner, state, result, requests, ops, maps, mine, kept, cause>>
    PROVE  Inv'
<1>1. Typed /\ Nested /\ Contained /\ stack \in Seq(Instances) /\ Len(stack) \in Nat
  BY DEF Inv, Typed
<1>2. \A i \in 1 .. Len(stack) :
          /\ Timed(stack'[i])
          /\ stack'[i].state = stack[i].state /\ stack'[i].todo = stack[i].todo
          /\ stack'[i].outs = stack[i].outs /\ stack'[i].err = stack[i].err
  BY DEF SameWork
<1>3. Typed'
  BY <1>1 DEF Typed
<1>4. Nested'
  <2>1. ASSUME NEW i \in 1 .. Len(stack')
        PROVE  /\ Timed(stack'[i])
               /\ Mapped(stack'[i])
               /\ i < Len(stack') => stack'[i].todo # None /\ ~ stack'[i].err
    BY <1>1, <1>2, Zenon DEF Nested, Mapped
  <2> QED
    BY <2>1, <1>1, Zenon DEF Nested, Timed, Mapped
<1>5. Issued' = Issued
  <2>1. ASSUME NEW o PROVE o \in Issued' <=> o \in Issued
    BY <1>1, <1>2 DEF Issued
  <2> QED
    BY <2>1, Zenon
<1>6. Contained'
  <2>1. thread = "starting" => Contained'
    <3> SUFFICES ASSUME thread = "starting" PROVE Contained'
      OBVIOUS
    <3>1. 1 \in 1 .. Len(stack)
      BY <1>1 DEF Nested
    <3> QED
      BY <3>1, <1>1, <1>2, Zenon DEF Contained, Outside
  <2>2. thread = "running" => Contained'
    <3> SUFFICES ASSUME thread = "running" PROVE Contained'
      OBVIOUS
    <3>1. 1 \in 1 .. Len(stack) /\ Len(stack) \in 1 .. Len(stack)
      BY <1>1 DEF Nested
    <3>2. Top'.err = Top.err
      BY <3>1, <1>2, Zenon DEF Top
    <3>3. stack'[1].state.done = kept'
      BY <3>1, <1>1, <1>2, Zenon DEF Contained
    <3>4. \A i \in 1 .. Len(stack') : /\ stack'[i].state.in_handler
                                      /\ i > 1 => stack'[i].state.done = {}
      BY <3>1, <1>1, <1>2 DEF Contained
    <3> QED
      BY <3>2, <3>3, <3>4, <1>1, <1>5, Zenon DEF Contained
  <2>3. thread \notin {"starting", "running"} => Contained'
    BY <1>1 DEF Contained, Outside, OnlyDeterministicIsRecorded
  <2> QED
    BY <2>1, <2>2, <2>3
<1> QED
  BY <1>3, <1>4, <1>6 DEF Inv

\* The watchdog interrupts an instance, or sleeps for the time that is left.
LEMMA WatchdogStep ==
    ASSUME Inv, NEW i \in DOMAIN stack, Watchdog(i)
    PROVE  Inv'
<1>1. Typed /\ Nested /\ stack \in Seq(Instances) /\ Len(stack) \in Nat /\ i \in 1 .. Len(stack)
  BY DEF Inv, Typed
<1>2. stack[i] \in Instances /\ \A j \in 1 .. Len(stack) : stack[j] \in Instances /\ Timed(stack[j])
  BY <1>1 DEF Nested
<1> DEFINE f == stack[i]
           g == IF Timeout - f.elapsed <= MinWait
                THEN [f EXCEPT !.stopped = TRUE, !.left = None]
                ELSE [f EXCEPT !.left = Timeout - f.elapsed]
<1>3. stack' = [stack EXCEPT ![i] = g]
      /\ UNCHANGED <<thread, runner, state, result, requests, ops, maps, mine, kept, cause>>
  BY Zenon DEF Watchdog
<1>4. SameWork(f, g)
  <2>1. f.elapsed \in Nat /\ f.ran \in Nat
    BY <1>2 DEF Instances
  <2>2. CASE Timeout - f.elapsed <= MinWait
    <3>1. g = [f EXCEPT !.stopped = TRUE, !.left = None]
      BY <2>2
    <3>2. g \in Instances
      BY <3>1, <1>2, Zenon DEF Instances
    <3>3. /\ g.state = f.state /\ g.todo = f.todo /\ g.outs = f.outs /\ g.err = f.err
          /\ g.on = f.on /\ g.elapsed = f.elapsed /\ g.ran = f.ran
      BY <3>1, <1>2 DEF Instances
    <3>4. f.ran >= Timeout - MinWait
      BY <2>1, <2>2, <1>2, WasmAssumption DEF Timed
    <3>5. Timed(g)
      BY <3>3, <3>4, <1>2 DEF Timed
    <3> QED
      BY <3>2, <3>3, <3>5 DEF SameWork
  <2>3. CASE ~ (Timeout - f.elapsed <= MinWait)
    <3>1. g = [f EXCEPT !.left = Timeout - f.elapsed] /\ Timeout - f.elapsed \in Nat
      BY <2>1, <2>3, WasmAssumption
    <3>2. g \in Instances
      BY <3>1, <1>2, Zenon DEF Instances
    <3>3. /\ g.state = f.state /\ g.todo = f.todo /\ g.outs = f.outs /\ g.err = f.err
          /\ g.on = f.on /\ g.elapsed = f.elapsed /\ g.ran = f.ran /\ g.stopped = f.stopped
      BY <3>1, <1>2, Zenon DEF Instances
    <3>4. Timed(g)
      <4>1. Timed(f)
        BY <1>1, <1>2
      <4> HIDE DEF f, g
      <4> QED
        BY <4>1, <3>3 DEF Timed
    <3> QED
      BY <3>2, <3>3, <3>4 DEF SameWork
  <2> QED
    BY <2>2, <2>3
<1> HIDE DEF g
<1>5. stack' \in Seq(Instances) /\ Len(stack') = Len(stack)
  BY <1>1, <1>3, <1>4 DEF SameWork
<1>6. ASSUME NEW j \in 1 .. Len(stack)
      PROVE  SameWork(stack[j], stack'[j])
  <2>1. CASE j = i
    BY <2>1, <1>1, <1>3, <1>4
  <2>2. CASE j # i
    BY <2>2, <1>1, <1>2, <1>3 DEF SameWork
  <2> QED
    BY <2>1, <2>2
<1> QED
  BY <1>3, <1>5, <1>6, ClockStep

\* A tick: the stopwatch of the running code goes on, and of no other.
LEMMA TickStep ==
    ASSUME Inv, Tick
    PROVE  Inv'
<1>1. Typed /\ Nested /\ stack \in Seq(Instances) /\ Len(stack) \in Nat /\ DOMAIN stack = 1 .. Len(stack)
  BY DEF Inv, Typed
<1> DEFINE e(i) == IF stack[i].on THEN stack[i].elapsed + 1 ELSE stack[i].elapsed
           l(i) == IF stack[i].left = None \/ stack[i].left = 0 THEN stack[i].left ELSE stack[i].left - 1
           r(i) == IF i = Len(stack) /\ stack[i].todo = None /\ stack[i].ran < Timeout
                   THEN stack[i].ran + 1 ELSE stack[i].ran
           g(i) == [stack[i] EXCEPT !.elapsed = e(i), !.left = l(i), !.ran = r(i)]
<1>2. /\ stack' = [i \in 1 .. Len(stack) |-> g(i)]
      /\ UNCHANGED <<thread, runner, state, result, requests, ops, maps, mine, kept, cause>>
  BY <1>1, Zenon DEF Tick
<1>3. ASSUME NEW i \in 1 .. Len(stack)
      PROVE  SameWork(stack[i], g(i))
  <2>1. /\ stack[i] \in Instances /\ Timed(stack[i])
        /\ i < Len(stack) => stack[i].todo # None
    BY <1>1 DEF Nested
  <2>2. stack[i].elapsed \in Nat /\ stack[i].ran \in Nat /\ stack[i].left \in Nat \cup {None}
    BY <2>1 DEF Instances
  <2>3. e(i) \in Nat /\ r(i) \in Nat
    BY <2>2
  <2>4. l(i) \in Nat \cup {None}
    BY <2>2
  <2>5. r(i) >= Timeout \/ r(i) = e(i)
    <3>1. stack[i].on <=> stack[i].todo = None
      BY <2>1 DEF Timed
    <3>2. stack[i].ran >= Timeout \/ stack[i].ran = stack[i].elapsed
      BY <2>1 DEF Timed
    <3>3. CASE stack[i].todo = None
      <4>1. i = Len(stack) /\ e(i) = stack[i].elapsed + 1
        <5>0. ~ (i < Len(stack))
          BY <3>3, <2>1, Zenon
        <5>1. i = Len(stack)
          <6>1. Len(stack) \in Nat
            BY <1>1
          <6> QED
            BY <5>0, <6>1
        <5>2. stack[i].on
          BY <3>1, <3>3
        <5> QED
          BY <5>1, <5>2
      <4>2. CASE stack[i].ran < Timeout
        <5>1. r(i) = stack[i].ran + 1
          BY <4>1, <4>2, <3>3, Zenon
        <5>2. stack[i].ran = stack[i].elapsed
          <6> HIDE DEF r, e, l, g
          <6> QED
            BY <4>2, <3>2, <2>2, WasmAssumption
        <5> QED
          BY <4>1, <5>1, <5>2
      <4>3. CASE ~ (stack[i].ran < Timeout)
        <5>1. r(i) = stack[i].ran
          BY <4>3
        <5> HIDE DEF r, e
        <5> QED
          BY <4>3, <5>1, <2>2, WasmAssumption
      <4> QED
        BY <4>2, <4>3
    <3>4. CASE stack[i].todo # None
      BY <3>1, <3>2, <3>4
    <3> QED
      BY <3>3, <3>4
  <2>6. stack[i].stopped => r(i) >= Timeout - MinWait
    BY <2>1, <2>2, WasmAssumption DEF Timed
  <2> HIDE DEF e, l, r
  <2>7. g(i) \in Instances
    BY <2>1, <2>3, <2>4, Zenon DEF Instances
  <2>8. /\ g(i).state = stack[i].state /\ g(i).todo = stack[i].todo
        /\ g(i).outs = stack[i].outs /\ g(i).err = stack[i].err
        /\ g(i).on = stack[i].on /\ g(i).stopped = stack[i].stopped
        /\ g(i).elapsed = e(i) /\ g(i).ran = r(i)
    BY <2>1 DEF Instances
  <2>9. Timed(g(i))
    BY <2>1, <2>5, <2>6, <2>8 DEF Timed
  <2> QED
    BY <2>7, <2>8, <2>9 DEF SameWork
<1> HIDE DEF g
<1>4. stack' \in Seq(Instances) /\ Len(stack') = Len(stack)
  <2>1. \A i \in 1 .. Len(stack) : g(i) \in Instances
    BY <1>3, Zenon DEF SameWork
  <2> QED
    BY <2>1, <1>1, <1>2
<1>5. \A i \in 1 .. Len(stack) : SameWork(stack[i], stack'[i])
  BY <1>2, <1>3
<1> QED
  BY <1>2, <1>4, <1>5, ClockStep

-----------------------------------------------------------------------------
\* The thread sends the result, and the runner has the block state again, or
\* has failed (handle_trigger, send_mapping_request).
LEMMA ReplyStep ==
    ASSUME Inv, Reply
    PROVE  Inv'
<1>1. Typed /\ Nested /\ Contained /\ thread = "replying"
  BY DEF Inv, Reply
<1>2. runner # "idle" /\ thread' \in {"waiting", "ended"} /\ thread' # "replying"
      /\ UNCHANGED <<stack, ops, mine, cause>>
  BY <1>1 DEF Contained, Reply
<1>3. \/ runner' = "idle" /\ runner = "awaiting" /\ result.kind = "ok" /\ state' = result.state
      \/ runner' \in {"dropped", "failed", "reorg"}
  BY <1>1, <1>2 DEF Reply, Typed
<1>4. kept' = IF cause = None THEN kept \cup mine ELSE kept
  BY DEF Reply
<1>5. kept' \in SUBSET Nat
  BY <1>1, <1>4 DEF Typed
<1>6. Typed'
  BY <1>1, <1>2, <1>3, <1>5 DEF Typed
<1>7. Nested'
  BY <1>1, <1>2 DEF Nested, Timed, Mapped
<1>8. Contained'
  <2>1. runner' = "idle" => Outside(state') /\ state'.done = kept'
    BY <1>1, <1>3, <1>4 DEF Contained, Outside
  <2> QED
    BY <2>1, <1>2 DEF Contained, Outside
<1> QED
  BY <1>6, <1>7, <1>8 DEF Inv

\* The invariant holds at the start, every step keeps it.
LEMMA Inductive ==
    ASSUME Inv, [WasmNext]_wasmVars
    PROVE  Inv'
<1>1. ASSUME NEW c \in Traps \cup {None}, Ends(c), invoke_handler(c) \/ handle_json_callback(c)
      PROVE  Inv'
  BY <1>1, InvokeStep, CallbackStep
<1>2. CASE Returns
  BY <1>1, <1>2 DEF Returns, Ends
<1>3. ASSUME NEW c \in Traps, Trapped(c)
      PROVE  Inv'
  BY <1>1, <1>3 DEF Trapped, Ends
<1>4. CASE MapFails
  <2>1. "unknown" \in Traps
    BY DEF Traps
  <2> QED
    BY <2>1, <1>1, <1>4 DEF MapFails, Ends
<1>5. CASE UNCHANGED wasmVars
  <2>1. Typed'
    BY <1>5 DEF Inv, Typed, wasmVars
  <2>2. Nested'
    BY <1>5 DEF Inv, Nested, Timed, Mapped, wasmVars
  <2>3. Contained'
    <3>1. /\ thread' = thread /\ runner' = runner /\ state' = state /\ stack' = stack
          /\ result' = result /\ mine' = mine /\ kept' = kept /\ cause' = cause
      BY <1>5 DEF wasmVars
    <3>2. Issued' = Issued /\ Top' = Top
      BY <3>1 DEF Issued, Top
    <3> QED
      BY <3>1, <3>2 DEF Inv, Contained, Outside, OnlyDeterministicIsRecorded
  <2> QED
    BY <2>1, <2>2, <2>3 DEF Inv
<1> QED
  BY <1>2, <1>3, <1>4, <1>5, SendStep, CancelStep, EndStep, HandleStep, StoreStep, MapStep,
     NextValueStep, MapReturnsStep, WatchdogStep, TickStep, ReplyStep DEF WasmNext

\* What a handler does stays with it, however it ends: the runner gets all or
\* nothing of its operations, its callbacks' included; only a deterministic
\* trap of its own instance becomes an error of the indexer; and the watchdog
\* never takes from it the time that ipfs.map spent in callbacks.
THEOREM Containment == WasmSpec => []HandlersAreContained
<1>1. WasmInit => Inv
  <2> SUFFICES ASSUME WasmInit PROVE Inv
    OBVIOUS
  <2>1. stack \in Seq(Instances) /\ Len(stack) = 0
    BY DEF WasmInit
  <2>2. NewState \in BlockStates
    BY DEF NewState, BlockStates
  <2>3. Typed
    BY <2>1, <2>2 DEF WasmInit, Typed
  <2>4. Nested
    BY <2>1 DEF WasmInit, Nested
  <2>5. Contained
    BY DEF WasmInit, Contained, Outside, NewState
  <2> QED
    BY <2>3, <2>4, <2>5 DEF Inv
<1>2. Inv /\ [WasmNext]_wasmVars => Inv'
  BY Inductive
<1>3. Inv => HandlersAreContained
  <2> SUFFICES ASSUME Inv PROVE HandlersAreContained
    OBVIOUS
  <2>1. HandlerIsAllOrNothing
    BY DEF Inv, Contained, Outside, HandlerIsAllOrNothing
  <2>2. OnlyDeterministicIsRecorded
    BY DEF Inv, Contained, OnlyDeterministicIsRecorded
  <2>3. NotInterruptedEarly
    <3>1. DOMAIN stack = 1 .. Len(stack)
      BY DEF Inv, Typed
    <3>2. \A i \in 1 .. Len(stack) : Timed(stack[i])
      BY DEF Inv, Nested
    <3> QED
      BY <3>1, <3>2, Zenon DEF Timed, NotInterruptedEarly
  <2> QED
    BY <2>1, <2>2, <2>3 DEF HandlersAreContained
<1> QED
  BY <1>1, <1>2, <1>3, PTL DEF WasmSpec
=============================================================================
