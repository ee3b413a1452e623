--------------------------- MODULE MCEntityCache ---------------------------
(***************************************************************************)
(* Between the handlers and the database, each piece on its own.           *)
(*                                                                         *)
(* cache: the EntityCache of an indexer on one key with two attributes.    *)
(* layout: schemas turned into tables: two types that refer to each other   *)
(*   with every kind of id, reference and import, and one type with each   *)
(*   of the oddities a schema may have.                                    *)
(* layouts: three threads that share the cache of layouts, while the flags *)
(*   of the tables change twice and two refreshes fail.                    *)
(* pool: two processes that start, one of them with two futures on a pool  *)
(*   of one connection, two migrations and two faults.                     *)
(* pairs: the mappings of Quickswap on two pairs with a token in common,   *)
(*   one of which prices Ether; six calls in blocks of at most two, by one *)
(*   who deposits and one who has the fees.                                *)
(*                                                                         *)
(* The two kinds of layouts share the variables x1 to x6: they never run    *)
(* together.                                                               *)
(***************************************************************************)
EXTENDS EntityCache, ConnectionPool

CONSTANTS Parts, Malformed, th1, th2, th3

VARIABLES part, x1, x2, x3, x4, x5, x6, x7, x8, x9, chain, block, store, failed, happened

-----------------------------------------------------------------------------
F(ref, list, nonnull, derived) ==
    [base |-> ref, list |-> list, nonnull |-> nonnull, derived |-> derived]

Ids == {F(b, FALSE, TRUE, None) : b \in {"ID", "Bytes", "BigInt"}}

Plain == [fields |-> FALSE, directives |-> FALSE]

Schema(objects, interfaces, enums, imports, schemaType) ==
    [objects |-> objects, interfaces |-> interfaces, enums |-> enums, imports |-> imports,
     schemaType |-> schemaType]

Type(fields) == [fields |-> fields, implements |-> {}, entity |-> TRUE]

Import(id, name, types) ==
    [id |-> id, name |-> name, types |-> {[name |-> t, alias |-> t] : t \in types}]

Imports ==
    { <<>>,
      << Import("d1", None, {"Ext"}) >>,
      << Import("d3", None, {"Ext", "quoted"}), Import("gone", None, {}) >>,
      << Import(None, "n", {"Ext"}) >>,
      << [id |-> "d1", name |-> "n", types |-> {Malformed}] >>,
      << Import("bad", None, {}) >> }

\* Token and Pool, with the ids, the reference of Pool and the derived field
\* of Token varied.
TokenAndPool(tid, pid, derived, implements, ref, list, imports) ==
    Schema(
        ("Token" :> [fields     |-> ("id" :> tid) @@ ("pools" :> F("Pool", TRUE, TRUE, derived)),
                     implements |-> implements, entity |-> TRUE]) @@
        ("Pool"  :> [fields     |-> ("id" :> pid) @@ ("token" :> F(ref, list, TRUE, None)) @@
                                    ("token1" :> F("Token", FALSE, FALSE, None)),
                     implements |-> {"Asset"}, entity |-> TRUE]),
        "Asset" :> <<>>, {"Kind"}, imports, Plain)

Main ==
    {TokenAndPool(tid, pid, derived, implements, ref, list, imports) :
        tid \in Ids, pid \in Ids, derived \in {"token", "id"}, implements \in {{}, {"Asset"}},
        ref \in {"Token", "Asset", "Kind", "String", "Ext", "Nope"}, list \in BOOLEAN,
        imports \in {<<>>, << Import("d1", None, {"Ext"}) >>}}

IdOnly == "id" :> F("ID", FALSE, TRUE, None)

Node ==
    "Node" :> Type(IdOnly @@ ("parent" :> F("Node", FALSE, FALSE, None)) @@
                     ("kind" :> F("Kind", FALSE, TRUE, None)) @@
                     ("tags" :> F("String", TRUE, TRUE, None)))

\* No id, no entity, an interface it lacks or that nobody declares, two columns
\* of one name, and references to an interface and by a broken derived field.
Leaves ==
    { Type("name" :> F("String", FALSE, TRUE, None)),
      [Type(IdOnly) EXCEPT !.entity = FALSE],
      [Type(IdOnly) EXCEPT !.implements = {"Named"}],
      [Type(IdOnly) EXCEPT !.implements = {"Nothing"}],
      Type(IdOnly @@ ("tokenA" :> F("Int", FALSE, TRUE, None)) @@
             ("token_a" :> F("Int", FALSE, TRUE, None))),
      Type(IdOnly @@ ("up" :> F("Named", FALSE, TRUE, None))),
      Type(IdOnly @@ ("up" :> F("Node", FALSE, TRUE, Malformed))) }

Special ==
    {Schema(Node, <<>>, {"Kind"}, imports, Plain) : imports \in Imports} \cup
    {Schema(Node, <<>>, enums, <<>>, schemaType) :
        enums \in {{"Kind"}, {"Kind", "node"}, {"Kind", "Node_filter"}, {"Kind", "9x"}, {}},
        schemaType \in {Plain, [Plain EXCEPT !.fields = TRUE], [Plain EXCEPT !.directives = TRUE]}} \cup
    {Schema(Node @@ ("Leaf" :> leaf), "Named" :> named, {"Kind"}, <<>>, Plain) :
        named \in {IdOnly, "name" :> F("String", FALSE, TRUE, None)}, leaf \in Leaves}

AllDocuments == Main \cup Special

\* Deployments that import each other.
Deployed ==
    ("d1" :> Schema("Ext" :> Type(IdOnly), <<>>, {}, << Import("d2", None, {"Far"}) >>, Plain)) @@
    ("d2" :> Schema("Far" :> Type(IdOnly), <<>>, {},
                    << Import("d1", None, {}), Import("lost", None, {}) >>, Plain)) @@
    ("d3" :> Schema("Near" :> Type(IdOnly), <<>>, {}, << Import("d1", None, {"Ext"}) >>, Plain))

IsValid(deployment) == deployment # "bad"

ReservedOf(type) == IF type = "Node" THEN {"Node_filter", "Node_orderBy"} ELSE {}

SnakeCase(name) ==
    CASE name = "Token" -> <<"token">> [] name = "Pool" -> <<"pool">>
      [] name = "Node" -> <<"node">> [] name = "Asset" -> <<"asset">>
      [] name = "Kind" -> <<"kind">> [] name = "Leaf" -> <<"leaf">>
      [] name = "Named" -> <<"named">> [] name \in {"tokenA", "token_a"} -> <<"token", "a">>
      [] name = "Node_filter" -> <<"node", "filter">>
      [] OTHER -> <<name>>

Written(name) == IF name = "token_a" THEN <<"token", "a">> ELSE <<name>>

IsIdentifier(name) == name # "9x"

-----------------------------------------------------------------------------
Tables == INSTANCE Layout WITH
    Documents <- AllDocuments, Store <- Deployed, DataSources <- {{}, {"NoDataSources"}},
    Valid <- IsValid, Suffixed <- ReservedOf, to_snake_case <- SnakeCase,
    Verbatim <- Written, ValidIdentifier <- IsIdentifier,
    path <- x1, doc <- x2, sources <- x3, phase <- x4, resolved <- x5, errors <- x6,
    layout <- x7, db <- x8, tracked <- x9,
    Thread <- {th1, th2, th3}, MaxChanges <- 2, MaxFaults <- 2,
    flags <- x1, entry <- x2, pc <- x3, value <- x4, refresh <- x5, faults <- x6

Quickswap == INSTANCE PairMappings WITH
    Zero <- "zero", Users <- {"u1", "u2"}, FeeTo <- "u2", Depositors <- {"u1"},
    Pairs <- {"usdc-weth", "weth-x"},
    TokensOf <- [p \in {"usdc-weth", "weth-x"} |->
                    IF p = "weth-x" THEN <<"weth", "x">> ELSE <<"usdc", "weth">>],
    Decimals <- [token \in {"weth", "usdc", "x"} |-> IF token = "usdc" THEN 0 ELSE 1],
    Weth <- "weth", UsdcPair <- "usdc-weth", WHITELIST <- {"weth", "usdc"},
    Base <- 2, Scale <- 4, LpDecimals <- 1, MinimumLiquidity <- 1, Threshold <- 4,
    HoursPerDay <- 2, Deposits <- {<<<<4, 2>>, 2>>}, Values <- {1, 2},
    MaxCalls <- 6, MaxPerBlock <- 2, MaxFees <- 1, history <- happened

mappings == <<chain, block, store, failed, happened>>
layoutsVars == <<x1, x2, x3, x4, x5, x6>>
otherVars == <<layoutsVars, x7, x8, x9>>

First == x1 = None /\ x2 = None /\ x3 = None /\ x4 = None /\ x5 = None /\ x6 = None

PartsInit ==
    /\ part \in Parts
    /\ Init
    /\ PoolInit /\ (part # "pool" => up)
    /\ Quickswap!Init
    /\ \/ part \in {"cache", "pool", "pairs"} /\ First /\ x7 = None /\ x8 = None /\ x9 = None
       \/ part = "layout" /\ Tables!Init
       \/ part = "layouts" /\ Tables!CacheInit /\ x7 = None /\ x8 = None /\ x9 = None

PartsNext ==
    \/ part = "cache" /\ Next /\ UNCHANGED <<part, otherVars, poolVars, mappings>>
    \/ part = "layout" /\ Tables!Next /\ UNCHANGED <<part, vars, poolVars, mappings>>
    \/ part = "layouts" /\ Tables!CacheNext /\ UNCHANGED <<part, vars, x7, x8, x9, poolVars, mappings>>
    \/ part = "pool" /\ PoolNext /\ UNCHANGED <<part, vars, otherVars, mappings>>
    \/ part = "pairs" /\ Quickswap!Next /\ UNCHANGED <<part, vars, otherVars, poolVars>>

PartsSpec ==
    /\ PartsInit
    /\ [][PartsNext]_<<part, vars, otherVars, poolVars, mappings>>
    /\ WF_layoutsVars(part = "layouts" /\ Tables!Expire)
    /\ \A t \in {th1, th2, th3} :
          WF_layoutsVars(part = "layouts"
                         /\ (Tables!get(t) \/ Tables!try_lock(t) \/ Tables!ReadFlags(t)
                             \/ Tables!cache(t)))
    /\ \A p \in Server, t \in Task : WF_poolVars(part = "pool" /\ ThreadStep(p, t))

\* The tables are what the schema and its imports say, also when the layout is
\* loaded again (resolve_import_graph, Layout::new, Catalog).
LayoutsAreFaithful == part = "layout" => Tables!LayoutsAreFaithful

\* The entities of Quickswap add up over its pairs and agree with the contracts,
\* whatever the order of the events (the handlers of core.ts).
EntitiesAddUp == part = "pairs" => Quickswap!EntitiesAddUp

\* At most one thread refreshes a layout; once things are quiet the cache comes to
\* hold the current flags and keeps them; a dropped future gives its connection
\* back (LayoutCache::get and cache, with_conn).
StoreRecovers ==
    /\ [](part = "layouts" => Tables!OneRefreshAtATime)
    /\ <>[](part = "layouts" => x2 # None /\ x2.value = x1)
    /\ ConnectionsComeBack
=============================================================================
