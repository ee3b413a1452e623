---------------------------- MODULE MCRunIndexer ----------------------------
(***************************************************************************)
(* The indexer, the two machines its handlers run on, and the reader that  *)
(* sends indexers their blocks.                                            *)
(*                                                                         *)
(* indexer: one manifest data source whose handlers create two dynamic     *)
(*   ones, one of them through the other in the same block, and again      *)
(*   later.                                                                *)
(* wasm: two triggers for a mapping thread; a handler makes two host calls *)
(*   and an ipfs.map over two values, whose callbacks may map again.       *)
(* heap: two objects and one of the guest's own in a memory of small       *)
(*   arenas, with numbers of two significant digits and words of two bytes.*)
(* reader: three slots, one of them skipped by the chain and one that a    *)
(*   task may panic on, for an indexer that connects twice.                *)
(*                                                                         *)
(* Each runs by itself: `part` says which.                                 *)
(***************************************************************************)
EXTENDS RunIndexer, WasmRuntime, ChainReader, TLC

CONSTANTS Parts, factory, pair, token, Failed, c1, c2, h1, h2

VARIABLES part, heap, objects, guest, calls

ThreeSources == {factory, pair, token}
OnlyFactory == {factory}

\* Block 2 is the factory's, block 3 has triggers for all three, block 4 has
\* none, and block 5 has them for the dynamic ones only.
TriggersOf ==
    (0 :> {factory}) @@ (1 :> {}) @@ (2 :> {factory}) @@ (3 :> {factory, pair, token})
    @@ (4 :> {}) @@ (5 :> {pair, token})

\* pair is created by the factory in block 3 and token by pair, in the same
\* block; from then on pair and token create each other, as duplicates.
CreatesOf ==
    [b \in 0..5 |-> [d \in ThreeSources |->
        CASE b >= 3 /\ d = factory -> {pair}
          [] b >= 3 /\ d = pair    -> {token}
          [] b >= 3 /\ d = token   -> {pair}
          [] OTHER                 -> {}]]

\* A slot whose block two indexers want, and one that only the first of them does.
Blocks == {1, 2}
MatchOf == (0 :> {}) @@ (1 :> {h1, h2}) @@ (2 :> {h1}) @@ (3 :> {})
Reconnected == (c1 :> h1) @@ (c2 :> h1)

Value(kind, data) == [kind |-> kind, data |-> data]
Input(ty, v) == [ty |-> ty, v |-> v]
Decimal(int_val, scale) == [int_val |-> int_val, scale |-> scale]

\* Numbers at the borders of their bytes and of their digits, a string with a
\* zero in it, bytes that fill an arena, and an entity with a list.
HeapInputs ==
    << Input("bigint", 0), Input("bigint", 127), Input("bigint", -7), Input("bigint", 128),
       Input("decimal", Decimal(1250, 3)), Input("decimal", Decimal(-995, 1)),
       Input("decimal", Decimal(3, -1)), Input("string", <<65, 0, 300>>),
       Input("bytes", [i \in 1..80 |-> i]),
       Input("entity",
             << [key   |-> <<65>>,
                 value |-> Value("Array", << Value("Int", -16777217), Value("Null", 0),
                                             Value("Bool", TRUE) >>)],
                [key   |-> <<>>, value |-> Value("BigDecimal", Decimal(-50, 0))] >>) >>

Heap == INSTANCE AscHeap WITH
    Inputs <- HeapInputs, GuestSizes <- {24}, MIN_ARENA_SIZE <- 96, Page <- 64,
    MaxObjects <- 2, MaxGuest <- 1, MAX_SIGNFICANT_DIGITS <- 2, MIN_EXP <- -3, MAX_EXP <- 2,
    DivisionDigits <- 4, WordBytes <- 2

heapVars == <<heap, objects, guest, calls>>

PartsInit ==
    /\ part \in Parts /\ Init /\ WasmInit /\ Heap!AscInit /\ ReaderInit
    /\ part = "wasm" \/ watched

PartsNext ==
    \/ part = "indexer" /\ Next /\ UNCHANGED <<part, wasmVars, heapVars, readerVars>>
    \/ part = "wasm" /\ WasmNext /\ UNCHANGED <<part, vars, heapVars, readerVars>>
    \/ part = "heap" /\ Heap!AscNext /\ UNCHANGED <<part, vars, wasmVars, readerVars>>
    \/ part = "reader" /\ ReaderNext /\ UNCHANGED <<part, vars, wasmVars, heapVars>>

PartsSpec ==
    /\ PartsInit
    /\ [][PartsNext]_<<part, vars, wasmVars, heapVars, readerVars>>
    /\ WF_vars(part = "indexer" /\ BlockStep)
    /\ WF_wasmVars(part = "wasm" /\ handle_trigger)
    /\ WF_wasmVars(part = "wasm" /\ Reply)
    /\ WF_wasmVars(part = "wasm" /\ Tick)
    /\ WF_wasmVars(part = "wasm" /\ Trapped("interrupt"))
    /\ WF_wasmVars(part = "wasm" /\ (NextValue \/ MapReturns \/ MapFails))
    /\ WF_wasmVars(part = "wasm" /\ \E i \in DOMAIN stack : Watchdog(i))
    /\ WF_readerVars(part = "reader" /\ AdapterStep)
    /\ WF_readerVars(part = "reader" /\ TaskStep)
    /\ WF_readerVars(part = "reader" /\ BroadcastStep)
    /\ \A c \in Conn : WF_readerVars(part = "reader" /\ Read(c))

\* Objects, decimals, integers and 256-bit words that cross between the host and
\* the mapping read back as they were written, and neither side's objects reach
\* into the other's (AscHeap, to_from, scalar.rs).
ValuesCrossIntact == part = "heap" => Heap!ValuesCrossIntact
=============================================================================
