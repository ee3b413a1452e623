--------------------------- MODULE IndexerService ---------------------------
(* The API to which the indexers of the Solana side are deployed              *)
(* (indexer_service.rs, server_builder.rs, git_helper.rs, indexer_manager.rs).*)
(* A request hands in the files of an indexer as a form or names a repository *)
(* that has them; every file is added to IPFS, a row is stored and a task is  *)
(* spawned, which gets the files back and runs.  The process may end at any   *)
(* point; the next one starts an indexer for every row before it serves.      *)
(*                                                                            *)
(* An IPFS hash is the pair of the request and the part: the content is the   *)
(* address.  A form is [kind, parts, yaml, sources]: "cli" with its parts in  *)
(* order or "git" with the files of its release, what the manifest's bytes    *)
(* are ("good", "unresolved", "no map"), and how many data sources it names.  *)
(* Failures, of which there are MaxFailures, are an IPFS node, a repository or*)
(* a database that does not answer, and the end of the process.               *)
EXTENDS Naturals, Sequences, FiniteSets

CONSTANTS
    Submission,     \* requests to deploy
    Forms,          \* what they may hand in
    NoHash,         \* the empty string, which is no hash
    MaxFailures

VARIABLES
    form,       \* what each request hands in
    stage,      \* where each request is,
    parts,      \* the parts it has still to handle,
    files,      \* the hashes in its row so far,
    parsed,     \* and whether a manifest was parsed
    rows,       \* the table "indexers"
    sequence,   \* the serial of its column v_id
    runtimes,   \* the tasks of this process: [row, state]
    server,     \* "starting" or "serving"
    unread,     \* history: this process could not read the table when it started
    failures

request == <<form, stage, parts, files, parsed>>
serviceVars == <<request, rows, sequence, runtimes, server, unread, failures>>

Parts == {"mapping", "schema", "manifest"}

NoFiles == [p \in Parts |-> NoHash]

Fails == failures < MaxFailures /\ failures' = failures + 1

\* A step that may go wrong: each of its outcomes, and whether it is the failure.
May(failed) == IF failed THEN Fails ELSE UNCHANGED failures

ServiceInit ==
    /\ form \in [Submission -> Forms]
    /\ stage = [r \in Submission |-> "new"]
    /\ parts = [r \in Submission |-> <<>>]
    /\ files = [r \in Submission |-> NoFiles]
    /\ parsed = [r \in Submission |-> FALSE]
    /\ rows = {} /\ sequence = 1 /\ runtimes = {}
    /\ server = "starting" /\ unread = FALSE /\ failures = 0

-----------------------------------------------------------------------------
(* The server.                                                                *)

\* Every row that is not deleted; nothing here deletes one.
get_indexers == rows

\* A plausible bug: requests are served while the stored indexers are being started.
serving_Early == server \in {"starting", "serving"}

serving == server = "serving"

\* IndexerManager::start_indexer spawns a task.
start_indexer(row) == [row |-> row, state |-> "new"]

\* IndexerServer::start_indexers.  A table that cannot be read starts none.
start_indexers ==
    /\ server = "starting"
    /\ \E failed \in BOOLEAN :
        /\ May(failed)
        /\ unread' = failed
        /\ runtimes' = IF failed THEN runtimes
                       ELSE runtimes \union {start_indexer(row) : row \in get_indexers}
    /\ server' = "serving"
    /\ UNCHANGED <<request, rows, sequence>>

\* The process ends with its tasks and requests, and is started again.
ProcessEnds ==
    /\ Fails
    /\ server' = "starting" /\ runtimes' = {} /\ unread' = FALSE
    /\ stage' = [r \in Submission |-> IF stage[r] \in {"parts", "start"} THEN "lost" ELSE stage[r]]
    /\ UNCHANGED <<form, parts, files, parsed, rows, sequence>>

-----------------------------------------------------------------------------
(* A request.                                                                 *)

Names(s) == {s[i] : i \in DOMAIN s}
Orders(S) == {s \in [1 .. Cardinality(S) -> S] : Names(s) = S}

\* GitHelper::load_indexer: the files of the release, without those that could not
\* be downloaded, in the order of a hash map.
load_indexer(release, failed) ==
    UNION {Orders(S) : S \in IF failed THEN SUBSET release \ {release} ELSE {release}}

\* deploy_indexer collects the form; deploy_git_indexer loads the repository.
Receive(r) ==
    /\ serving /\ stage[r] = "new"
    /\ \E failed \in BOOLEAN :
        /\ May(failed)
        /\ \/ /\ form[r].kind = "cli"
              /\ stage' = [stage EXCEPT ![r] = IF failed THEN "rejected" ELSE "parts"]
              /\ parts' = [parts EXCEPT ![r] = form[r].parts]
           \/ /\ form[r].kind = "git"
              /\ stage' = [stage EXCEPT ![r] = "parts"]
              /\ \E loaded \in load_indexer(Names(form[r].parts), failed) :
                    parts' = [parts EXCEPT ![r] = loaded]
    /\ UNCHANGED <<form, files, parsed, rows, sequence, runtimes, server, unread>>

\* The manifest is parsed, or its task panics; then the file is added to IPFS.  A
\* failed addition is logged, and leaves the hash as it was.
Part(r) ==
    LET p == Head(parts[r])
        panics == p = "nameless" \/ (p = "manifest" /\ form[r].yaml = "no map")
    IN  /\ serving /\ stage[r] = "parts" /\ parts[r] # <<>>
        /\ parts' = [parts EXCEPT ![r] = Tail(@)]
        /\ \/ /\ panics
              /\ stage' = [stage EXCEPT ![r] = "panicked"]
              /\ UNCHANGED <<files, parsed, failures>>
           \/ /\ ~panics /\ p \notin Parts
              /\ UNCHANGED <<stage, files, parsed, failures>>
           \/ /\ ~panics /\ p \in Parts
              /\ parsed' = IF p = "manifest"
                             THEN [parsed EXCEPT ![r] = form[r].yaml = "good"] ELSE parsed
              /\ \E failed \in BOOLEAN :
                    /\ May(failed)
                    /\ files' = IF failed THEN files ELSE [files EXCEPT ![r][p] = <<r, p>>]
              /\ UNCHANGED stage
        /\ UNCHANGED <<form, rows, sequence, runtimes, server, unread>>

verify_manifest(r) == form[r].sources = 1

\* nextval, or the default of an i64.
get_next_sequence(failed) == IF failed THEN 0 ELSE sequence

\* The row the request stores under an identifier, which names its schema.
Row(r, v_id) ==
    [v_id |-> v_id, namespace |-> <<"sgd", v_id>>, of |-> r, files |-> files[r],
     status |-> IF verify_manifest(r) THEN "Deploying" ELSE "Invalid"]

\* The table's primary key refuses a second row with one v_id.
store_indexer(r) ==
    /\ serving /\ stage[r] = "parts" /\ parts[r] = <<>>
    /\ \/ /\ ~parsed[r]
          /\ stage' = [stage EXCEPT ![r] = "done"]
          /\ UNCHANGED <<rows, sequence, failures>>
       \/ /\ parsed[r] /\ Fails    \* no connection, or a failed insert
          /\ stage' = [stage EXCEPT ![r] = "done"]
          /\ sequence' \in {sequence, sequence + 1}
          /\ UNCHANGED rows
       \/ /\ parsed[r]
          /\ \E failed \in BOOLEAN :
                LET v_id == get_next_sequence(failed)
                    taken == \E row \in rows : row.v_id = v_id
                IN  /\ May(failed)
                    /\ sequence' = IF failed THEN sequence ELSE sequence + 1
                    /\ rows' = IF taken THEN rows ELSE rows \union {Row(r, v_id)}
                    /\ stage' = [stage EXCEPT ![r] = IF taken THEN "done" ELSE "start"]
    /\ UNCHANGED <<form, parts, files, parsed, runtimes, server, unread>>

\* The row is started under the manager's lock, and the answer is "success".
Start(r) ==
    /\ serving /\ stage[r] = "start"
    /\ runtimes' = runtimes \union {start_indexer(row) : row \in {x \in rows : x.of = r}}
    /\ stage' = [stage EXCEPT ![r] = "done"]
    /\ UNCHANGED <<form, parts, files, parsed, rows, sequence, server, unread, failures>>

-----------------------------------------------------------------------------
(* A task.                                                                    *)

\* IPFS has nothing under the empty hash.
get_ipfs_file(h) == h # NoHash

\* IndexerRuntime::new: the files are read back, without a second try, and the
\* manifest is parsed and verified again.
new(t) ==
    /\ t.state = "new"
    /\ \E failed \in BOOLEAN :
        /\ May(failed)
        /\ runtimes' = (runtimes \ {t}) \union
             {[row |-> t.row, state |->
                 IF ~failed /\ verify_manifest(t.row.of)
                    /\ \A p \in Parts : get_ipfs_file(t.row.files[p])
                 THEN "running" ELSE IF failed THEN "failed" ELSE "invalid"]}
    /\ UNCHANGED <<request, rows, sequence, server, unread>>

SubmissionStep(r) == Receive(r) \/ Part(r) \/ store_indexer(r) \/ Start(r)

ServiceNext ==
    \/ start_indexers
    \/ ProcessEnds
    \/ \E r \in Submission : SubmissionStep(r)
    \/ \E t \in runtimes : new(t)

ServiceSpec == ServiceInit /\ [][ServiceNext]_serviceVars

-----------------------------------------------------------------------------
\* No two tasks index into one schema: a row has one task, and two rows have two
\* schemas, through restarts and through a sequence that cannot be read.
OneRuntimePerNamespace ==
    \A t, u \in runtimes : t.row.namespace = u.row.namespace => t = u

\* A stored indexer has its task as soon as the process serves, unless the request
\* that stored it is about to start it: a crash between the two is made up for by
\* the next start, but for one that could not read the table.
StoredIsStarted ==
    server = "serving" /\ ~unread =>
        \A row \in rows : \/ \E t \in runtimes : t.row = row
                          \/ stage[row.of] = "start"

\* A task runs with the three files of the request that stored its row, and with a
\* manifest of one data source: requests do not mix their files, and a failed
\* addition, though it is only logged, does not get an indexer to run without one.
RunsItsOwnFiles ==
    \A t \in runtimes : t.state = "running" =>
        /\ t.row.files = [p \in Parts |-> <<t.row.of, p>>]
        /\ t.row.status = "Deploying"

\* Every request that was received whole ends with its indexer's task having run or
\* refused to, unless something failed or its manifest could not be read.
DeploymentsRun ==
    \A r \in Submission :
        (stage[r] = "parts") ~>
            (\/ \E t \in runtimes : t.row.of = r /\ t.state \in {"running", "invalid"}
             \/ failures > 0 \/ stage[r] = "panicked" \/ form[r].yaml = "unresolved"
             \/ "manifest" \notin Names(form[r].parts))

\* Every stored indexer has its task, one in its schema, that runs with the files
\* of its own request (store_indexer, start_indexers, IndexerRuntime::new).
StoredIndexersRunOnce ==
    OneRuntimePerNamespace /\ StoredIsStarted /\ RunsItsOwnFiles
=============================================================================
