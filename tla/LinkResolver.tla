---------------------------- MODULE LinkResolver ----------------------------
(***************************************************************************)
(* The files of an indexer (manager/src/indexer/link_resolver.rs): a       *)
(* request reads the manifest and what it links to from IPFS, all files at *)
(* once, and validates it; then the deployment's thread reads them again,  *)
(* with retries, through the same cache.  IPFS nodes come to have files,   *)
(* lose them, and go away.                                                 *)
(*                                                                         *)
(* json_stream, apart from this: a file of JSON values, one in a line,     *)
(* that arrives in pieces of any size.  ipfs.map stops at the first error. *)
(***************************************************************************)
EXTENDS Naturals, FiniteSets, SequencesExt

CONSTANTS
    Client,               \* the IPFS nodes
    Path,                 \* the files the nodes have at first
    ManifestPath,         \* the deployment's hash
    Loadable,             \* the files Schema::parse and Contract::load accept
    Allowed,              \* the files of at most MAX_IPFS_FILE_BYTES
    Cacheable,            \* the files of at most MAX_IPFS_CACHE_FILE_SIZE
    MAX_IPFS_CACHE_SIZE,
    Networks,             \* the networks with a chain
    Starts,               \* manifests, each with what is cached and the faults before
    MaxFaults,            \* bound: timeouts and changes of the nodes
    MaxLength,            \* bound: the bytes of a file of JSON values
    Newline,
    Good,                 \* bytes of which every non-empty sequence is a JSON value
    Bad,                  \* bytes that no JSON value holds
    None

VARIABLES
    manifest,
    step,    \* where the request, then the thread, is
    tasks,   \* the files being read, a future each, in the order they are polled
    cache,   \* LruCache, the least recently used file first
    has,     \* client -> the files it can serve
    up,      \* the clients that accept connections
    chain,   \* the network the request found a chain for
    faults,
    \* json_stream:
    file,      \* the whole file
    received,  \* how much of it has come
    buf,
    count,     \* lines taken from buf
    values,    \* the values sent, with their lines
    ended      \* "", "end", "error" at a line, or "lost" connection

vars == <<manifest, step, tasks, cache, has, up, chain, faults>>

MIN_SPEC_VERSION == 2
MAX_SPEC_VERSION == 3

Final == {"refused", "panicked", "running"}
Reading == {"manifest", "resolving", "thread"}

\* The thread resolves with_retries; the request does not.
retry == step = "thread"

-----------------------------------------------------------------------------
(* cat                                                                     *)

\* LruCache: a file that is read becomes the most recently used.
Touch(c, p) == IF Contains(c, p) THEN Append(Remove(c, p), p) ELSE c

\* Files that are not too large are cached, unless another task was faster.
cache_insert(c, p) ==
    IF p \notin Cacheable \/ Contains(c, p) THEN c
    ELSE IF Len(c) < MAX_IPFS_CACHE_SIZE THEN Append(c, p) ELSE Append(Tail(c), p)

Loaded(p) == IF p \in Loadable THEN "done" ELSE "failed"

\* A future looks into the cache, then asks every client for the file's size.
Begin(p) ==
    [path |-> p, client |-> None,
     at |-> IF Contains(cache, p) THEN Loaded(p) ELSE "stat",
     asked |-> IF Contains(cache, p) THEN {} ELSE Client]

StartReading(s, paths) ==
    /\ step' = s
    /\ tasks' = [i \in DOMAIN paths |-> Begin(paths[i])]
    /\ cache' = FoldLeft(Touch, cache, paths)

Fault ==
    /\ faults < MaxFaults
    /\ faults' = faults + 1

Set(i, at, client, asked) ==
    tasks' = [tasks EXCEPT ![i] = [@ EXCEPT !.at = at, !.client = client, !.asked = asked]]

\* The first client to answer is asked for the file, if its size is allowed.
stat_answers(i, c) ==
    /\ tasks[i].at = "stat" /\ c \in tasks[i].asked
    /\ c \in up /\ tasks[i].path \in has[c]
    /\ Set(i, IF tasks[i].path \in Allowed THEN "cat" ELSE "failed", c, {})
    /\ UNCHANGED <<cache, faults>>

\* What ends with an error: one of HTTP or a timeout, without retries.  Errors of
\* the connection are always retried.
is_final(c) == c \in up /\ ~retry

\* A client that does not have the file lets the request time out.
TimesOut(c, p) ==
    /\ is_final(c)
    /\ \/ p \notin has[c] /\ UNCHANGED faults
       \/ p \in has[c] /\ Fault

stat_fails(i, c) ==
    /\ tasks[i].at = "stat" /\ c \in tasks[i].asked
    /\ TimesOut(c, tasks[i].path)
    /\ LET left == tasks[i].asked \ {c} IN
       Set(i, IF left = {} THEN "failed" ELSE "stat", None, left)
    /\ UNCHANGED cache

cat_answers(i) ==
    /\ tasks[i].at = "cat"
    /\ tasks[i].client \in up /\ tasks[i].path \in has[tasks[i].client]
    /\ Set(i, Loaded(tasks[i].path), None, {})
    /\ cache' = cache_insert(cache, tasks[i].path)
    /\ UNCHANGED faults

\* A client that failed is not exchanged for another.
cat_fails(i) ==
    /\ tasks[i].at = "cat"
    /\ TimesOut(tasks[i].client, tasks[i].path)
    /\ Set(i, "failed", None, {})
    /\ UNCHANGED cache

cat ==
    /\ step \in Reading
    /\ \E i \in DOMAIN tasks :
           \/ \E c \in Client : stat_answers(i, c) \/ stat_fails(i, c)
           \/ cat_answers(i)
           \/ cat_fails(i)
    /\ UNCHANGED <<manifest, step, has, up, chain>>

-----------------------------------------------------------------------------
(* The manifest                                                            *)

AllDone == \A i \in DOMAIN tasks : tasks[i].at = "done"

\* BlockchainKind::from_manifest, and what YAML accepts.
Parses(m) == m.sources # <<>> /\ m.sources[1].kind[1] = "ethereum"

\* try_join3 and FuturesOrdered poll the schema, the data sources, the templates.
Files(m) ==
    LET OfMapping(d) == Append(d.abis, d.file)
    IN  <<m.schema>> \o FlattenSeq([i \in DOMAIN m.sources |-> OfMapping(m.sources[i])])
                     \o FlattenSeq([i \in DOMAIN m.templates |-> OfMapping(m.templates[i])])

\* The networks validate compares and network_name chooses from.
ContractNetworks(m) ==
    LET named == SelectSeq(m.sources, LAMBDA d : d.kind = <<"ethereum", "contract">>
                                                 /\ d.network # None)
    IN  [i \in DOMAIN named |-> named[i].network]

\* A plausible bug: the networks are not compared.
validate_AnyNetworks(m) == m.valid

validate(m) ==
    /\ m.valid
    /\ m.sources # <<>>
    /\ Cardinality(Range(ContractNetworks(m))) = 1

\* from_manifest: a data source's own ABI is among its mapping's.
AbisFound(m) == \A i \in DOMAIN m.sources : Contains(m.sources[i].abis, m.sources[i].abi)

Refuse ==
    /\ step' = "refused"
    /\ UNCHANGED <<tasks, cache, chain>>

create_indexer ==
    /\ step = "new"
    /\ StartReading("manifest", <<ManifestPath>>)
    /\ UNCHANGED chain

\* One file that fails drops the futures of the others.
TaskFailed ==
    /\ step \in Reading
    /\ \E i \in DOMAIN tasks : tasks[i].at = "failed"
    /\ Refuse

\* The specification's version is checked before any file is read.
resolve ==
    /\ step = "manifest" /\ AllDone
    /\ IF Parses(manifest) /\ manifest.spec_version \in MIN_SPEC_VERSION..MAX_SPEC_VERSION
       THEN StartReading("resolving", Files(manifest)) /\ UNCHANGED chain
       ELSE Refuse

create_indexer_deployment ==
    /\ step = "resolving" /\ AllDone
    /\ LET names == ContractNetworks(manifest) IN
       IF ~AbisFound(manifest) \/ ~validate(manifest) THEN Refuse
       ELSE IF names = <<>> THEN step' = "panicked" /\ UNCHANGED <<tasks, cache, chain>>
       ELSE IF names[1] \notin Networks THEN Refuse
       ELSE step' = "deployed" /\ chain' = names[1] /\ UNCHANGED <<tasks, cache>>

\* start_indexer_inner resolves again and does not validate.
start_indexer_inner ==
    \/ /\ step = "deployed"
       /\ StartReading("thread", Files(manifest))
       /\ UNCHANGED chain
    \/ /\ step = "thread" /\ AllDone
       /\ step' = IF ContractNetworks(manifest) = <<>> THEN "panicked"
                  ELSE IF ContractNetworks(manifest)[1] \in Networks THEN "running"
                  ELSE "refused"
       /\ UNCHANGED <<tasks, cache, chain>>

Proceed ==
    /\ create_indexer \/ TaskFailed \/ resolve \/ create_indexer_deployment
       \/ start_indexer_inner
    /\ UNCHANGED <<manifest, has, up, faults>>

\* A node receives a file or loses it, or stops or accepts connections again.
NodeChanges ==
    /\ Fault
    /\ step \notin Final
    /\ \E c \in Client :
           \/ \E p \in Path : has' = [has EXCEPT ![c] = SymDiff(@, {p})] /\ UNCHANGED up
           \/ up' = SymDiff(up, {c}) /\ UNCHANGED has
    /\ UNCHANGED <<manifest, step, tasks, cache, chain>>

Init ==
    /\ \E s \in Starts : manifest = s.manifest /\ cache = s.cache /\ faults = s.faults
    /\ step = "new" /\ tasks = <<>> /\ chain = None
    /\ has = [c \in Client |-> Path] /\ up = Client

Next == cat \/ Proceed \/ NodeChanges

-----------------------------------------------------------------------------
\* The cache is of bounded size, and holds each file once and none that is too
\* large, however many tasks read one file at the same time.
CacheFits ==
    /\ Len(cache) <= MAX_IPFS_CACHE_SIZE
    /\ IsInjective(cache)
    /\ Range(cache) \subseteq Cacheable \cap Allowed

\* What the request validated does not fail in the thread, which reads the files
\* again and does not validate: network_name finds a network, the one the request
\* chose, and all contracts that name a network name that one.
ThreadRunsAsValidated ==
    /\ step # "panicked"
    /\ chain # None =>
           /\ step # "refused"
           /\ Range(ContractNetworks(manifest)) = {chain}

\* Neither the request nor the thread reads for ever, unless it waits for a client
\* that refuses connections or, in the thread, for one without the file: the client
\* that was first with the size is never given up for another.
WaitsForever(i) ==
    LET waits(c) == c \notin up \/ (retry /\ tasks[i].path \notin has[c]) IN
    \/ tasks[i].at = "stat" /\ \A c \in tasks[i].asked : waits(c)
    \/ tasks[i].at = "cat" /\ waits(tasks[i].client)

ReadingEnds ==
    <>(step \in Final) \/ <>[](step \in Reading /\ \E i \in DOMAIN tasks : WaitsForever(i))

-----------------------------------------------------------------------------
(* json_stream                                                             *)

Byte == {Newline} \cup Good \cup Bad

StreamInit ==
    /\ file \in BoundedSeq(Byte, MaxLength)
    /\ received = 0 /\ buf = <<>> /\ count = 0 /\ values = <<>> /\ ended = ""

HasLine == Contains(buf, Newline)

line_number == count + 1

\* The first line of buf; one that is empty is only counted.
TakeLine ==
    /\ ended = "" /\ HasLine
    /\ LET offset == SelectInSeq(buf, LAMBDA b : b = Newline)
           line == SubSeq(buf, 1, offset - 1)
       IN  /\ buf' = SubSeq(buf, offset + 1, Len(buf))
           /\ count' = count + 1
           /\ IF line = <<>> THEN UNCHANGED <<values, ended>>
              ELSE IF Range(line) \subseteq Good
              THEN /\ values' = Append(values, [value |-> line, line |-> line_number])
                   /\ UNCHANGED ended
              ELSE ended' = "error" /\ UNCHANGED values
    /\ UNCHANGED <<file, received>>

\* A last line without its newline is given one.
Poll ==
    /\ ended = "" /\ ~HasLine
    /\ \/ /\ received < Len(file)
          /\ \E n \in (received + 1)..Len(file) :
                 received' = n /\ buf' = buf \o SubSeq(file, received + 1, n)
          /\ UNCHANGED ended
       \/ /\ received = Len(file)
          /\ IF buf # <<>> THEN buf' = Append(buf, Newline) /\ UNCHANGED ended
             ELSE ended' = "end" /\ UNCHANGED buf
          /\ UNCHANGED received
    /\ UNCHANGED <<file, count, values>>

\* The connection fails.
Lose ==
    /\ ended = "" /\ ~HasLine /\ received < Len(file)
    /\ ended' = "lost"
    /\ UNCHANGED <<file, received, buf, count, values>>

StreamNext == TakeLine \/ Poll \/ Lose

-----------------------------------------------------------------------------
\* However the file was cut, the values sent are those of its non-empty lines, in
\* order and with the numbers the lines have in the file; all of them when it ends,
\* also when no newline ends it, and those before the first bad line after an error.
LineOf(i) == Cardinality({j \in 1..(i - 1) : file[j] = Newline}) + 1

TextOf(k) ==
    LET inLine == {i \in DOMAIN file : LineOf(i) = k /\ file[i] # Newline}
    IN  [value |-> [n \in 1..Cardinality(inLine) |->
                        file[CHOOSE i \in inLine : Cardinality({j \in inLine : j <= i}) = n]],
         line |-> k]

Lines == {k \in {LineOf(i) : i \in DOMAIN file} : TextOf(k).value # <<>>}

IsBad(k) == ~(Range(TextOf(k).value) \subseteq Good)

ValuesAsInTheFile ==
    /\ \A n \in DOMAIN values :
           LET k == values[n].line
           IN  /\ k \in Lines /\ ~IsBad(k) /\ values[n] = TextOf(k)
               /\ Cardinality({j \in Lines : j <= k}) = n
    /\ ended = "end" => Len(values) = Cardinality(Lines)
    /\ ended = "error" => \E k \in Lines :
           IsBad(k) /\ k = count /\ Cardinality({j \in Lines : j < k}) = Len(values)
=============================================================================
