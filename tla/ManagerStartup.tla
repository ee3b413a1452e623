--------------------------- MODULE ManagerStartup ---------------------------
(***************************************************************************)
(* The index manager from its options to its admin server: Config::load    *)
(* (manager/src/config.rs), StoreBuilder::new (manager/src/                *)
(* store_builder.rs) and main (manager/src/main.rs) with the Ethereum and  *)
(* Firehose networks it builds.                                            *)
(*                                                                         *)
(* A name or a URL of a configuration file is a value of which only its    *)
(* legality matters.  An --ethereum-rpc, -ws or -ipc argument is the       *)
(* string cut at its colons, each piece cut at its commas.  The three      *)
(* options exclude each other (manager/src/opt.rs).                        *)
(***************************************************************************)
EXTENDS Naturals, Sequences, SequencesExt

CONSTANTS
    Options,     \* the option values the program may be started with
    NoFile,      \* no configuration file is given
    NoSize,      \* PoolSize::None
    LegalShards, \* the names Shard::new accepts
    LegalNames,  \* the names validate_name accepts
    Expandable,  \* the strings whose variables are all set
    LegalUrls,   \* the strings that parse as a URL
    Slashed      \* the pieces that begin with two slashes

VARIABLES
    opt,        \* the options of this run
    phase,      \* how far main and launch_services are
    config,     \* the configuration loaded
    pools,      \* the sizes of the connection pools created
    ipfs,       \* whether the test of the IPFS clients is still running
    networks,   \* network -> its Ethereum adapters, in order
    endpoints,  \* network -> its Firehose endpoints, in order
    status,     \* network -> what connecting to each adapter gave
    chains      \* the blockchain map

vars == <<opt, phase, config, pools, ipfs, networks, endpoints, status, chains>>

PROVIDER_FEATURES == {"traces", "archive", "no_eip1898"}
DEFAULT_PROVIDER_FEATURES == {"traces", "archive"}

PoolSize_validate(size) == size # NoSize /\ size >= 2

\* A replica without a size of its own has the size of its shard.
Replica_validate(replica, size) ==
    IF replica.pool_size = NoSize THEN [replica EXCEPT !.pool_size = size] ELSE replica

\* The shard as validate leaves it,
Shard_validated(shard) ==
    [shard EXCEPT !.replicas =
        [r \in DOMAIN @ |-> Replica_validate(@[r], shard.pool_size)]]

\* and whether it accepts it.
Shard_validate(name, shard) ==
    LET replicas == Shard_validated(shard).replicas
    IN  /\ name \in LegalShards
        /\ shard.connection \in Expandable
        /\ PoolSize_validate(shard.pool_size)
        /\ \A r \in DOMAIN replicas :
             /\ r \in LegalNames
             /\ replicas[r].connection \in Expandable
             /\ PoolSize_validate(replicas[r].pool_size)
        /\ shard.weight # 0 \/ \E r \in DOMAIN replicas : replicas[r].weight # 0

\* Deserializing a provider: either details, or the deprecated fields.
visit_map_accepts(raw) ==
    /\ "label" \in DOMAIN raw
    /\ IF "details" \in DOMAIN raw
       THEN DOMAIN raw \subseteq {"label", "details"}
       ELSE {"url", "features"} \subseteq DOMAIN raw

visit_map(raw) ==
    [label |-> raw.label,
     details |->
        IF "details" \in DOMAIN raw THEN raw.details
        ELSE [type |-> "web3", url |-> raw.url, features |-> raw.features,
              transport |-> IF "transport" \in DOMAIN raw THEN raw.transport ELSE "rpc"]]

\* Any URI is accepted for Firehose, one without a scheme too.
Provider_validate(provider) ==
    /\ provider.label \in LegalNames
    /\ provider.details.type = "firehose" => provider.details.scheme # "illegal"
    /\ provider.details.type = "web3" =>
         /\ provider.details.features \subseteq PROVIDER_FEATURES
         /\ provider.details.url \in Expandable \intersect LegalUrls

\* A configuration file: deserialized, then validated.
FromFile(file) ==
    [stores |-> [s \in DOMAIN file.stores |-> Shard_validated(file.stores[s])],
     chains |-> [n \in DOMAIN file.chains |->
                    [i \in DOMAIN file.chains[n] |-> visit_map(file.chains[n][i])]]]

FileAccepted(file) ==
    /\ \A n \in DOMAIN file.chains : \A i \in DOMAIN file.chains[n] :
         /\ visit_map_accepts(file.chains[n][i])
         /\ Provider_validate(visit_map(file.chains[n][i]))
    /\ "primary" \in DOMAIN file.stores
    /\ \A s \in DOMAIN file.stores : Shard_validate(s, file.stores[s])

\* An argument of parse_networks: an address without a network, a missing name
\* or URL and a URL without a colon, a path for --ethereum-ipc say, are refused.
parse_accepts(arg) ==
    /\ Len(arg) > 2
    /\ ~(arg[1] \in {<<"wss">>, <<"http">>, <<"https">>} /\ arg[2][1] \in Slashed)
    /\ arg[1] # <<"">>

\* Without capabilities between the name and the URL, the default ones; "::"
\* leaves the one capability that is the empty string.
parse(arg, transport, nr) ==
    LET rest == Tail(arg)
        plain == rest[1] \in {<<"http">>, <<"https">>, <<"ws">>, <<"wss">>}
    IN  [label |-> <<arg[1], transport, nr>>,
         details |-> [type |-> "web3", transport |-> transport,
                      url |-> IF plain THEN rest ELSE Tail(rest),
                      features |-> IF plain THEN DEFAULT_PROVIDER_FEATURES
                                   ELSE ToSet(rest[1])]]

parse_networks(transport, args) ==
    [n \in {args[i][1] : i \in DOMAIN args} |->
        LET ofNetwork == SetToSortSeq({i \in DOMAIN args : args[i][1] = n}, <)
        IN  [k \in DOMAIN ofNetwork |->
                parse(args[ofNetwork[k]], transport, ofNetwork[k] - 1)]]

\* Config::from_opt, which Config::validate never sees.
Shard_from_opt(o) ==
    LET Weight(i) == IF i <= Len(o.weights) THEN o.weights[i] ELSE 1
    IN  [connection |-> o.postgres_url, weight |-> Weight(1), pool_size |-> o.pool_size,
         replicas |-> [i \in 1..o.secondary_hosts |->
            [connection |-> i, weight |-> Weight(i + 1), pool_size |-> o.pool_size]]]

from_opt(o) ==
    [stores |-> [s \in {"primary"} |-> Shard_from_opt(o)],
     chains |-> parse_networks(o.transport, o.args)]

OptAccepted(o) ==
    /\ \A i \in DOMAIN o.args : parse_accepts(o.args[i])
    /\ PoolSize_validate(o.pool_size)

-----------------------------------------------------------------------------
Empty == [n \in {} |-> <<>>]

Init ==
    /\ opt \in Options
    /\ phase = "load"
    /\ config = [stores |-> Empty, chains |-> Empty]
    /\ pools = {}
    /\ ipfs = "idle"
    /\ networks = Empty /\ endpoints = Empty /\ status = Empty /\ chains = Empty

Accepted == IF opt.config = NoFile THEN OptAccepted(opt) ELSE FileAccepted(opt.config)

\* replace_host panics where the URL of the database does not parse.
Config_load ==
    /\ phase = "load"
    /\ phase' = IF ~Accepted THEN "exited"
                ELSE IF opt.config = NoFile /\ opt.secondary_hosts > 0
                        /\ opt.postgres_url \notin LegalUrls
                     THEN "panicked" ELSE "stores"
    /\ config' = IF ~Accepted THEN config
                 ELSE IF opt.config = NoFile THEN from_opt(opt) ELSE FromFile(opt.config)
    /\ UNCHANGED <<opt, pools, ipfs, networks, endpoints, status, chains>>

\* One pool per store and one per replica.  size() must not meet PoolSize::None.
PoolSizes(shard) ==
    {shard.pool_size} \union {shard.replicas[r].pool_size : r \in DOMAIN shard.replicas}

StoreBuilder_new ==
    /\ phase = "stores"
    /\ pools' = UNION {PoolSizes(config.stores[s]) : s \in DOMAIN config.stores}
    /\ phase' = IF NoSize \in pools' \/ "primary" \notin DOMAIN config.stores
                THEN "unreachable" ELSE "ipfs"
    /\ UNCHANGED <<opt, config, ipfs, networks, endpoints, status, chains>>

\* The clients are tested in tasks of their own; a panic there aborts.
create_ipfs_clients ==
    /\ phase = "ipfs"
    /\ phase' \in IF opt.ipfs THEN {"ethereum", "panicked"} ELSE {"ethereum"}
    /\ ipfs' = IF opt.ipfs THEN "testing" ELSE ipfs
    /\ UNCHANGED <<opt, config, pools, networks, endpoints, status, chains>>

Up == phase \notin {"exited", "panicked", "unreachable"}

ipfs_test ==
    /\ ipfs = "testing" /\ Up
    /\ ipfs' = "tested"
    /\ phase' \in {phase, "panicked"}
    /\ UNCHANGED <<opt, config, pools, networks, endpoints, status, chains>>

\* The networks with a provider of a type, and those providers in order.
Providers(type) ==
    LET Of(n) == SelectSeq(config.chains[n], LAMBDA p : p.details.type = type)
    IN  [n \in {m \in DOMAIN config.chains : Of(m) # <<>>} |-> Of(n)]

\* A transport that cannot be made panics.
create_ethereum_networks ==
    /\ phase = "ethereum"
    /\ \/ /\ networks' = [n \in DOMAIN Providers("web3") |->
                [i \in DOMAIN Providers("web3")[n] |->
                    LET p == Providers("web3")[n][i]
                    IN  [provider |-> p.label,
                         supports_eip_1898 |-> "no_eip1898" \notin p.details.features]]]
          /\ phase' = "firehose"
       \/ networks' = networks /\ phase' = "panicked"
    /\ UNCHANGED <<opt, config, pools, ipfs, endpoints, status, chains>>

\* An endpoint that is not HTTP panics,
FirehoseEndpoint_new(provider) == provider.details.scheme \in {"http", "https"}

\* and one that cannot be connected to is an error main does not expect.
create_firehose_networks ==
    LET found == Providers("firehose")
    IN  /\ phase = "firehose"
        /\ \/ /\ \A n \in DOMAIN found : \A i \in DOMAIN found[n] :
                   FirehoseEndpoint_new(found[n][i])
              /\ endpoints' = found
              /\ status' = [n \in DOMAIN networks |-> [i \in DOMAIN networks[n] |-> "asked"]]
              /\ phase' = "connect"
           \/ /\ DOMAIN found # {}
              /\ phase' = "panicked" /\ UNCHANGED <<endpoints, status>>
        /\ UNCHANGED <<opt, config, pools, ipfs, networks, chains>>

Learned(n, i, what) ==
    /\ phase = "connect"
    /\ n \in DOMAIN status /\ i \in DOMAIN status[n]
    /\ status[n][i] = "asked"
    /\ status' = [status EXCEPT ![n][i] = what]
    /\ UNCHANGED <<opt, phase, config, pools, ipfs, networks, endpoints, chains>>

\* net_identifiers retries until both answers are there,
net_identifiers(n, i) == Learned(n, i, "version")

\* and is given up after ETH_NET_VERSION_WAIT_TIME.
wait_over(n, i) == Learned(n, i, "broken")

Broken(n) ==
    {networks[n][i].provider : i \in {j \in DOMAIN status[n] : status[n][j] = "broken"}}

\* A plausible bug: retain keeps the providers it is given.
Networks_remove_Inverted(n) ==
    SelectSeq(networks[n], LAMBDA a : a.provider \in Broken(n))

\* Removing the broken providers goes by their label.
Networks_remove(n) ==
    SelectSeq(networks[n], LAMBDA a : a.provider \notin Broken(n))

\* A chain per Ethereum network, the ones left without an adapter included; a
\* network with Firehose providers only has none.
ethereum_networks_as_chains(adapters) ==
    [n \in DOMAIN adapters |->
        [eth_adapters |-> adapters[n],
         firehose_endpoints |-> IF n \in DOMAIN endpoints THEN endpoints[n] ELSE <<>>]]

\* The rest of launch_services: the chains, and the server on its port.
connect_networks ==
    /\ phase = "connect"
    /\ \A n \in DOMAIN status : \A i \in DOMAIN status[n] : status[n][i] # "asked"
    /\ networks' = [n \in DOMAIN networks |-> Networks_remove(n)]
    /\ chains' = ethereum_networks_as_chains(networks')
    /\ phase' \in {"serving", "panicked"}
    /\ UNCHANGED <<opt, config, pools, ipfs, endpoints, status>>

Providing == UNION {{<<n, i>> : i \in DOMAIN status[n]} : n \in DOMAIN status}

Next ==
    \/ Config_load
    \/ StoreBuilder_new
    \/ create_ipfs_clients
    \/ ipfs_test
    \/ create_ethereum_networks
    \/ create_firehose_networks
    \/ \E p \in Providing : net_identifiers(p[1], p[2])
    \/ \E p \in Providing : wait_over(p[1], p[2])
    \/ connect_networks

\* What main and launch_services do next; the timers fire.
Proceeds ==
    \/ Config_load
    \/ StoreBuilder_new
    \/ create_ipfs_clients
    \/ create_ethereum_networks
    \/ create_firehose_networks
    \/ \E p \in Providing : wait_over(p[1], p[2])
    \/ connect_networks

Spec == Init /\ [][Next]_vars /\ WF_vars(Proceeds)

-----------------------------------------------------------------------------
\* What Config::load accepts is enough for store_builder.rs: its "we can
\* determine the pool size" and "we always have a primary shard" never fail, and
\* no pool has fewer than two connections.
PoolsAreSized ==
    /\ phase # "unreachable"
    /\ \A size \in pools : size >= 2

\* No provider that answered is lost on the way, and none is used twice or for
\* another network: where the labels of a network differ, as those of the command
\* line do, each that answered is exactly one adapter of its chain, and every
\* adapter is a provider of that network.  What becomes of a provider that did not
\* answer in time, and the order of the adapters, are left open: connect_networks
\* removes it where its comment says "keep the provider", and the adapters have
\* the order of the configuration where EthereumNetworkAdapters::cheapest says they
\* "are sorted by their NodeCapabilities".
AnsweredAreUsed ==
    phase = "serving" =>
        \A n \in DOMAIN Providers("web3") :
            LET configured == Providers("web3")[n]
                labels == [i \in DOMAIN configured |-> configured[i].label]
                used == [k \in DOMAIN chains[n].eth_adapters |->
                            chains[n].eth_adapters[k].provider]
            IN  (opt.config = NoFile \/ IsInjective(labels)) =>
                    /\ IsInjective(used)
                    /\ ToSet(used) \subseteq ToSet(labels)
                    /\ {labels[i] : i \in {j \in DOMAIN status[n] : status[n][j] = "version"}}
                         \subseteq ToSet(used)

\* The node comes up whatever its providers do: it serves, or it is gone.
StartupEnds == <>(phase = "serving" \/ ~Up)

\* What was validated can be built, and a chain has the adapters that answered
\* (Config::load, store_builder.rs, the wait for the providers).
StartsAsConfigured == PoolsAreSized /\ AnsweredAreUsed
=============================================================================
