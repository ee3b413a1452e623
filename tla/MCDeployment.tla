---------------------------- MODULE MCDeployment ----------------------------
(* Four requests, three of them for one hash: all at once; or, in a second    *)
(* copy of the system, one after the other, the last one for that hash when   *)
(* nothing fails any more.  And the start of the node that serves them, from  *)
(* every pair of arguments and from configuration files; and the stream over  *)
(* a Firehose endpoint it is given, of four blocks, two of them with triggers *)
(* and with two faults.  A manifest whose files two IPFS nodes lose or cannot *)
(* serve, with two faults, and manifests of every kind that meet none; and    *)
(* every file of up to five bytes for ipfs.map.  Two requests to the API of   *)
(* the Solana side, of forms of every kind, with two failures.                *)
EXTENDS Deployment, IndexerService, FirehoseBlockStream, TLC

CONSTANTS r1, r2, r3, r4, h1, h2, Modes, NoFile, NoSize, None

VARIABLES
    mode, sites2, deployed2, running2, starting2, indexing2, pc2, site2,
    opt, phase, config, pools, ipfs, networks, endpoints, status, chains,
    manifest, step, tasks, cache, has, up, chain, upsets,
    file, received, buf, count, values, ended

HashOf == (r1 :> h1) @@ (r2 :> h1) @@ (r3 :> h1) @@ (r4 :> h2)

InTurn == INSTANCE Deployment WITH
    Serial <- TRUE, Again <- {r3}, sites <- sites2, deployed <- deployed2,
    indexers_running <- running2, starting <- starting2, indexing <- indexing2,
    pc <- pc2, site <- site2

vars2 == <<sites2, deployed2, running2, starting2, indexing2, pc2, site2>>

-----------------------------------------------------------------------------
\* Two networks with a plain URL, one with capabilities and one with none between
\* its colons; an address without a network, and a path.
Arguments ==
    {<<<<"mainnet">>, <<"http">>, <<"//h">>, <<"8545">>>>,
     <<<<"mainnet">>, <<"archive", "no_eip1898">>, <<"http">>, <<"//g">>>>,
     <<<<"bsc">>, <<"">>, <<"ws">>, <<"//h">>>>,
     <<<<"http">>, <<"//h">>, <<"8545">>>>,
     <<<<"mainnet">>, <<"/geth">>>>}

CommandLines ==
    {[config |-> NoFile, postgres_url |-> url, pool_size |-> size, secondary_hosts |-> hosts,
      weights |-> <<0>>, transport |-> transport, args |-> args, ipfs |-> hosts = 1] :
        url \in {"url", "typo"}, size \in {1, 2}, hosts \in {0, 1},
        transport \in {"rpc", "ipc"},
        args \in {<<a>> : a \in Arguments} \union {<<a, b>> : a, b \in Arguments}}

\* One shard of every shape, and chains whose providers share a label, mix their
\* kinds, or break a rule.
Shards ==
    {[connection |-> "url", weight |-> w, pool_size |-> size,
      replicas |-> [r \in names |-> [connection |-> "url", weight |-> 0, pool_size |-> own]]] :
        w \in {0, 1}, size \in {NoSize, 1, 2}, own \in {NoSize, 1, 2},
        names \in {{}, {"a"}, {"A"}}} \union
    {[connection |-> url, weight |-> 1, pool_size |-> 2,
      replicas |-> [r \in {"a"} |-> [connection |-> own, weight |-> 0, pool_size |-> 2]]] :
        url, own \in {"host=db", "$unset"}}

Web3(l) == [label |-> l, url |-> "url", features |-> {"archive"}]
FirehoseAt(scheme) ==
    [label |-> "f", details |-> [type |-> "firehose", scheme |-> scheme]]

FileChains ==
    {<<Web3("a"), Web3("a")>>, <<Web3("a"), FirehoseAt("https"), Web3("b")>>,
     <<FirehoseAt("none")>>, <<FirehoseAt("illegal")>>, <<[label |-> "a", url |-> "url"]>>,
     <<[Web3("a") EXCEPT !.url = "typo"]>>, <<[Web3("a") EXCEPT !.features = {"full"}]>>}

Files ==
    {[stores |-> [s \in {store} |-> shard], chains |-> [n \in {"mainnet"} |-> providers]] :
        store \in {"primary", "other"}, shard \in Shards, providers \in FileChains}

Startup == INSTANCE ManagerStartup WITH
    Options <- CommandLines \union {[config |-> f, ipfs |-> TRUE] : f \in Files},
    LegalShards <- {"primary", "other"}, LegalNames <- {"a", "b", "f"},
    Expandable <- {"url", "host=db", "typo"}, LegalUrls <- {"url"}, Slashed <- {"//h", "//g"}

vars3 == <<opt, phase, config, pools, ipfs, networks, endpoints, status, chains>>

-----------------------------------------------------------------------------
Contract == <<"ethereum", "contract">>

Source(kind, network, abi, code) ==
    [kind |-> kind, network |-> network, abi |-> abi, abis |-> <<"abi">>, file |-> code]

Sources ==
    {Source(Contract, n, "abi", "large") : n \in {"mainnet", "bsc", None}} \union
    {Source(<<"ethereum", "events">>, "bsc", "abi", "large"),
     Source(<<"solana">>, "mainnet", "abi", "large"),
     Source(Contract, "mainnet", "other", "large"),
     Source(Contract, "mainnet", "abi", "too large")}

Manifest(schema, sources, templates) ==
    [spec_version |-> 3, schema |-> schema, valid |-> schema # "invalid",
     sources |-> sources, templates |-> templates]

Plain == <<Source(Contract, "mainnet", "abi", "code")>>

Starts ==
    {[manifest |-> Manifest("schema", Plain, <<[abis |-> <<>>, file |-> "code"]>>),
      cache |-> <<"schema", "manifest">>, faults |-> 0]} \union
    {[manifest |-> m, cache |-> <<m.schema, "abi", "manifest">>, faults |-> 2] :
        m \in {Manifest("schema", <<>>, <<>>)}
              \union {Manifest("schema", <<s>>, <<>>) : s \in Sources}
              \union {Manifest("schema", <<s, t>>, <<>>) : s, t \in Sources}
              \union {Manifest(schema, Plain, <<>>) : schema \in {"invalid", "no schema"}}
              \union {[Manifest("schema", Plain, <<>>) EXCEPT !.spec_version = 4]}}

Small == {"manifest", "schema", "invalid", "no schema", "abi", "code"}

Resolver == INSTANCE LinkResolver WITH
    Client <- {"local", "remote"}, Path <- {"abi", "code", "large", "too large"},
    ManifestPath <- "manifest", Loadable <- (Small \ {"no schema"}) \union {"large"},
    Allowed <- Small \union {"large"}, Cacheable <- Small, MAX_IPFS_CACHE_SIZE <- 3,
    Networks <- {"mainnet"}, MaxFaults <- 2, faults <- upsets,
    MaxLength <- 5, Newline <- "newline", Good <- {"1"}, Bad <- {"?"}

vars5 == <<manifest, step, tasks, cache, has, up, chain, upsets>>

vars6 == <<file, received, buf, count, values, ended>>

-----------------------------------------------------------------------------
Form(kind, names, yaml, n) == [kind |-> kind, parts |-> names, yaml |-> yaml, sources |-> n]

AllParts == <<"schema", "manifest", "mapping">>

SomeForms ==
    {Form("cli", AllParts, "good", 1), Form("cli", <<"schema", "manifest">>, "good", 2),
     Form("cli", <<"readme", "manifest">>, "no map", 1),
     Form("cli", <<"manifest", "nameless">>, "good", 1),
     Form("git", <<"mapping", "manifest">>, "good", 1),
     Form("git", <<"manifest">>, "unresolved", 1)}

-----------------------------------------------------------------------------
\* One system takes steps.  The initial state of the others is one of theirs.
DeployInit ==
    /\ mode \in Modes
    /\ Init
    /\ InTurn!Init
    /\ FirehoseInit
    /\ IF mode = "startup" THEN Startup!Init
       ELSE /\ opt = 0 /\ phase = "" /\ config = 0 /\ pools = {} /\ ipfs = ""
            /\ networks = <<>> /\ endpoints = <<>> /\ status = <<>> /\ chains = <<>>
    /\ IF mode = "files" THEN Resolver!Init
       ELSE /\ manifest = 0 /\ step = "" /\ tasks = <<>> /\ cache = <<>>
            /\ has = <<>> /\ up = {} /\ chain = None /\ upsets = 0
    /\ IF mode = "json" THEN Resolver!StreamInit
       ELSE /\ file = <<>> /\ received = 0 /\ buf = <<>> /\ count = 0
            /\ values = <<>> /\ ended = ""
    /\ IF mode = "service" THEN ServiceInit
       ELSE /\ form = [r \in Submission |-> Form("", <<>>, "", 0)]
            /\ stage = [r \in Submission |-> ""] /\ parts = <<>> /\ files = <<>>
            /\ parsed = <<>> /\ rows = {} /\ sequence = 0
            /\ runtimes = {} /\ server = "" /\ unread = FALSE /\ failures = 0

DeployNext ==
    \/ mode = "at once" /\ Next /\ UNCHANGED <<mode, vars2, vars3, firehoseVars, vars5, vars6, serviceVars>>
    \/ mode = "in turn" /\ InTurn!Next /\ UNCHANGED <<mode, vars, vars3, firehoseVars, vars5, vars6, serviceVars>>
    \/ mode = "startup" /\ Startup!Next /\ UNCHANGED <<mode, vars, vars2, firehoseVars, vars5, vars6, serviceVars>>
    \/ mode = "firehose" /\ FirehoseNext /\ UNCHANGED <<mode, vars, vars2, vars3, vars5, vars6, serviceVars>>
    \/ mode = "files" /\ Resolver!Next /\ UNCHANGED <<mode, vars, vars2, vars3, firehoseVars, vars6, serviceVars>>
    \/ mode = "json" /\ Resolver!StreamNext /\ UNCHANGED <<mode, vars, vars2, vars3, firehoseVars, vars5, serviceVars>>
    \/ mode = "service" /\ ServiceNext /\ UNCHANGED <<mode, vars, vars2, vars3, firehoseVars, vars5, vars6>>

\* The runtime schedules every request and every thread, the start and the stream.
DeploySpec ==
    /\ DeployInit
    /\ [][DeployNext]_<<mode, vars, vars2, vars3, firehoseVars, vars5, vars6, serviceVars>>
    /\ \A r \in Request : WF_vars2(mode = "in turn" /\ InTurn!RequestStep(r))
    /\ WF_vars2(mode = "in turn" /\ \E i \in InTurn!Id : InTurn!start_indexer_inner(i))
    /\ WF_vars3(mode = "startup" /\ Startup!Proceeds)
    /\ WF_firehoseVars(mode = "firehose" /\ Disconnected)
    /\ WF_firehoseVars(mode = "firehose" /\ Resolve)
    /\ WF_firehoseVars(mode = "firehose" /\ Connecting)
    /\ WF_firehoseVars(mode = "firehose" /\ Connected)
    /\ WF_firehoseVars(mode = "firehose" /\ wake)
    /\ WF_vars5(mode = "files" /\ Resolver!cat)
    /\ WF_vars5(mode = "files" /\ Resolver!Proceed)
    /\ WF_serviceVars(mode = "service" /\ start_indexers)
    /\ \A r \in Submission : WF_serviceVars(mode = "service" /\ SubmissionStep(r))
    /\ WF_serviceVars(mode = "service" /\ \E t \in runtimes : new(t))

\* indexer_store.rs 233-237: a failed creation is fixed by deploying again.  Requests
\* one after the other leave one site per hash, whatever failed in each of them, and
\* the request issued again, when nothing goes wrong any more, is not refused,
AgainSucceeds ==
    /\ []InTurn!OneSitePerHash
    /\ mode = "in turn" => InTurn!DeployingAgainSucceeds

\* and when it has been answered the deployment runs.
AgainRuns == mode = "in turn" => InTurn!DeployingAgainRuns

\* What the configuration's validation accepts, the stores can be built from; a
\* chain has the providers that answered, each once; and the node serves or is
\* gone, whatever its providers do (Config::load, store_builder.rs).
StartupIsSound ==
    /\ [](mode = "startup" => Startup!StartsAsConfigured)
    /\ mode = "startup" => Startup!StartupEnds

\* What was accepted comes about: the tasks of stored indexers start, and the
\* Firehose stream recovers from errors, but for the one that makes it panic
\* (indexer_service.rs, schedule_error_retry).
DeploymentsArrive ==
    /\ DeploymentsRun
    /\ mode = "firehose" => Arrives

\* The cache of files is bounded and holds none twice; the thread finds the manifest
\* as the request validated it; ipfs.map gets the values of the file's lines, however
\* it was cut; and reading ends, but for a client that is gone, or in the thread one
\* that has lost the file (LinkResolver::cat, json_stream, retry_policy).
FilesAreRead ==
    /\ [](mode = "files" => Resolver!CacheFits /\ Resolver!ThreadRunsAsValidated)
    /\ [](mode = "json" => Resolver!ValuesAsInTheFile)
    /\ mode = "files" => Resolver!ReadingEnds
=============================================================================
