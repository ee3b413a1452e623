----------------------------- MODULE Deployment -----------------------------
(***************************************************************************)
(* From a deploy request to the deployment's thread:                       *)
(* IndexerRegistrar::create_indexer (manager/src/indexer/registrar.rs),    *)
(* IndexerStore::create_deployment_internal and DeploymentStore::          *)
(* create_deployment (store/postgres/src), IndexerProvider::start and      *)
(* IndexerInstanceManager::start_indexer (manager/src/indexer).            *)
(*                                                                         *)
(* Requests run concurrently, every store operation is a step of its own,  *)
(* and each may fail.  deployment_schemas has no unique constraint on the  *)
(* deployment hash; indexer_deployment has one.                            *)
(***************************************************************************)
EXTENDS Naturals, Sequences, FiniteSets

CONSTANTS
    Hash,     \* deployment hashes
    Request,  \* calls of create_indexer
    hash,     \* request -> the hash it deploys
    Serial,   \* TRUE: a request is issued only when no other is in flight
    Again     \* requests issued after all the others, during which nothing fails

ASSUME DeployAssumption ==
    /\ hash \in [Request -> Hash]
    /\ Serial \in BOOLEAN
    /\ Again \subseteq Request

VARIABLES
    sites,             \* deployment_schemas: the hash of every site, by id
    deployed,          \* ids in indexer_deployment, with their schema
    indexers_running,  \* ids the provider has been asked to start
    starting,          \* ids whose start_indexer_inner has been spawned
    indexing,          \* ids whose thread is in run_indexer's loop
    pc,                \* request -> its next step
    site               \* request -> the id it found, created or located

vars == <<sites, deployed, indexers_running, starting, indexing, pc, site>>
memory == <<indexers_running, starting, indexing>>

Id == DOMAIN sites
SitesOf(h) == {i \in Id : sites[i] = h}
Ended(r) == pc[r] \in {"answered", "refused"}
InFlight(r) == pc[r] # "issue" /\ ~Ended(r)
Goto(r, step) == pc' = [pc EXCEPT ![r] = step]

\* Whether something may go wrong now.
Faulty == \A r \in Again : pc[r] = "issue"

Init ==
    /\ sites = <<>>
    /\ deployed = {}
    /\ indexers_running = {}
    /\ starting = {}
    /\ indexing = {}
    /\ pc = [r \in Request |-> "issue"]
    /\ site = [r \in Request |-> 0]

\* create_indexer up to the store: the name's row, the manifest from IPFS, its
\* validation and the start block.  The row is kept if one is there already.
create_indexer(r) ==
    /\ pc[r] = "issue"
    /\ Serial \/ r \in Again => \A q \in Request : ~InFlight(q)
    /\ r \in Again => \A q \in Request \ Again : Ended(q)
    /\ Goto(r, "find_site")
    /\ UNCHANGED <<sites, deployed, memory, site>>

\* allocate_site: any site of the hash, or a new one in a second statement.
find_site(r) ==
    /\ pc[r] = "find_site"
    /\ \/ /\ SitesOf(hash[r]) = {}
          /\ Goto(r, "create_site")
          /\ UNCHANGED site
       \/ \E i \in SitesOf(hash[r]) :
            /\ site' = [site EXCEPT ![r] = i]
            /\ Goto(r, "create_deployment")
    /\ UNCHANGED <<sites, deployed, memory>>

create_site(r) ==
    /\ pc[r] = "create_site"
    /\ sites' = Append(sites, hash[r])
    /\ site' = [site EXCEPT ![r] = Len(sites) + 1]
    /\ Goto(r, "create_deployment")
    /\ UNCHANGED <<deployed, memory>>

\* A plausible bug: a deployment that exists is an error.
create_deployment_NotIdempotent(r) ==
    /\ pc[r] = "create_deployment"
    /\ \/ /\ \A i \in deployed : sites[i] # hash[r]
          /\ deployed' = deployed \cup {site[r]}
          /\ Goto(r, "locators")
       \/ /\ \E i \in deployed : sites[i] = hash[r]
          /\ Goto(r, "refused")
          /\ UNCHANGED deployed
    /\ UNCHANGED <<sites, memory, site>>

\* create_deployment: one transaction, which the unique hash or any other error
\* rolls back.  The error is dropped, and the request goes on.
create_deployment(r) ==
    /\ pc[r] = "create_deployment"
    /\ \/ /\ \A i \in deployed : sites[i] # hash[r] \/ i = site[r]
          /\ deployed' = deployed \cup {site[r]}
       \/ /\ Faulty \/ \E i \in deployed : sites[i] = hash[r] /\ i # site[r]
          /\ UNCHANGED deployed
    /\ Goto(r, "locators")
    /\ UNCHANGED <<sites, memory, site>>

\* A plausible bug: the first of several sites is taken.
locators_TakesAny(r) ==
    /\ pc[r] = "locators"
    /\ \E i \in SitesOf(hash[r]) :
         /\ site' = [site EXCEPT ![r] = i]
         /\ Goto(r, "start")
    /\ UNCHANGED <<sites, deployed, memory>>

\* The request is refused unless the hash has exactly one site.
locators(r) ==
    /\ pc[r] = "locators"
    /\ \/ \E i \in Id :
            /\ SitesOf(hash[r]) = {i}
            /\ site' = [site EXCEPT ![r] = i]
            /\ Goto(r, "start")
       \/ /\ Cardinality(SitesOf(hash[r])) # 1
          /\ Goto(r, "refused")
          /\ UNCHANGED site
    /\ UNCHANGED <<sites, deployed, memory>>

\* IndexerProvider::start: a thread for an id that is not in indexers_running.
\* The result is dropped, so the request succeeds either way.
start(r) ==
    /\ pc[r] = "start"
    /\ indexers_running' = indexers_running \cup {site[r]}
    /\ starting' = starting \cup ({site[r]} \ indexers_running)
    /\ Goto(r, "answered")
    /\ UNCHANGED <<sites, deployed, indexing, site>>

\* A step of create_indexer fails and the request with it.
Refuse(r) ==
    /\ Faulty
    /\ InFlight(r)
    /\ Goto(r, "refused")
    /\ UNCHANGED <<sites, deployed, memory, site>>

\* start_indexer_inner and run_indexer's first read: block_ptr finds the row by
\* its hash, or the thread ends.
start_indexer_inner(i) ==
    /\ i \in starting
    /\ starting' = starting \ {i}
    /\ indexing' = indexing \cup {k \in {i} : \E j \in deployed : sites[j] = sites[k]}
    /\ UNCHANGED <<sites, deployed, indexers_running, pc, site>>

\* The start or the thread of a deployment fails; its id stays in
\* indexers_running.
ThreadEnds(i) ==
    /\ Faulty
    /\ i \in starting \cup indexing
    /\ starting' = starting \ {i}
    /\ indexing' = indexing \ {i}
    /\ UNCHANGED <<sites, deployed, indexers_running, pc, site>>

\* The process dies with its requests and threads; the store remains.
Crash ==
    /\ Faulty
    /\ indexers_running' = {}
    /\ starting' = {}
    /\ indexing' = {}
    /\ pc' = [r \in Request |-> IF InFlight(r) THEN "refused" ELSE pc[r]]
    /\ UNCHANGED <<sites, deployed, site>>

RequestStep(r) ==
    \/ create_indexer(r)
    \/ find_site(r)
    \/ create_site(r)
    \/ create_deployment(r)
    \/ locators(r)
    \/ start(r)

Next ==
    \/ \E r \in Request : RequestStep(r) \/ Refuse(r)
    \/ \E i \in Id : start_indexer_inner(i) \/ ThreadEnds(i)
    \/ Crash

\* The runtime schedules every request and every thread.
Spec ==
    /\ Init
    /\ [][Next]_vars
    /\ \A r \in Request : WF_vars(RequestStep(r))
    /\ WF_vars(\E i \in Id : start_indexer_inner(i))
-----------------------------------------------------------------------------
TypeOK ==
    /\ sites \in Seq(Hash)
    /\ deployed \subseteq Id
    /\ indexers_running \subseteq Id
    /\ starting \subseteq indexers_running
    /\ indexing \subseteq indexers_running
    /\ pc \in [Request -> {"issue", "find_site", "create_site", "create_deployment", "locators",
                           "start", "answered", "refused"}]
    /\ site \in [Request -> Id \cup {0}]

\* However deploy requests for one hash interleave, fail and are repeated, in
\* one process at most one thread writes the deployment's entities.
OneThreadPerHash ==
    \A i, j \in starting \cup indexing : sites[i] = sites[j] => i = j

\* Requests one after the other leave one site per hash, whatever failed in each
\* of them: a hash with two sites could never be deployed again.
OneSitePerHash == \A h \in Hash : Cardinality(SitesOf(h)) <= 1

\* indexer_store.rs 233-237: a failed creation is fixed by deploying again.  The
\* requests issued again, when nothing goes wrong any more, are not refused,
DeployingAgainSucceeds == <>(\A r \in Again : pc[r] = "answered")

\* and when they have been answered the deployment runs.
DeployingAgainRuns ==
    <>(\A r \in Again : \E i \in indexing : sites[i] = hash[r])
=============================================================================
