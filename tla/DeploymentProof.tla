-------------------------- MODULE DeploymentProof --------------------------
(***************************************************************************)
(* Proofs about Deployment.  OneThreadPerHash is not inductive: it needs   *)
(* that every id the provider was ever given is the first site of its      *)
(* hash, which locators establishes and later rows, having larger ids,     *)
(* cannot undo.  OneSitePerHash, for requests issued one at a time, needs  *)
(* that the hash of a request about to create a site has none.  After them *)
(* the proofs about IndexerService, and about FirehoseBlockStream.         *)
(***************************************************************************)
EXTENDS Deployment, IndexerService, FirehoseBlockStream, FiniteSetTheorems, TLAPS

IsFirst(i) == \A j \in Id : sites[j] = sites[i] => i <= j

AllIdsAreFirst == \A i \in indexers_running : IsFirst(i)

RequestsHoldSites ==
    \A r \in Request :
        /\ pc[r] = "create_deployment" => site[r] \in Id
        /\ pc[r] = "start" => site[r] \in Id /\ IsFirst(site[r])

Inv ==
    /\ TypeOK
    /\ AllIdsAreFirst
    /\ RequestsHoldSites

OneInFlight == \A q, r \in Request : InFlight(q) /\ InFlight(r) => q = r

CreatesOnlyIfNone == \A r \in Request : pc[r] = "create_site" => SitesOf(hash[r]) = {}

AtMostOne == \A i, j \in Id : sites[i] = sites[j] => i = j

SerialInv ==
    /\ OneInFlight
    /\ CreatesOnlyIfNone
    /\ AtMostOne
-----------------------------------------------------------------------------
\* The new row of create_site comes after all the others.
LEMMA AppendRow ==
    ASSUME NEW S, NEW s \in Seq(S), NEW e \in S
    PROVE  /\ Append(s, e) \in Seq(S)
           /\ DOMAIN Append(s, e) = DOMAIN s \cup {Len(s) + 1}
           /\ \A i \in DOMAIN s : Append(s, e)[i] = s[i] /\ i \in Nat /\ i < Len(s) + 1
           /\ Append(s, e)[Len(s) + 1] = e
           /\ Len(s) + 1 \in Nat
  OBVIOUS

\* Before any request nothing is stored or running.
LEMMA InitInv == Init => Inv
<1> SUFFICES ASSUME Init PROVE Inv
  OBVIOUS
<1>1. sites \in Seq(Hash) /\ Id = {}
  BY DEF Init, Id
<1>2. TypeOK
  BY <1>1 DEF Init, TypeOK
<1> QED BY <1>1, <1>2 DEF Init, Inv, AllIdsAreFirst, RequestsHoldSites

\* Steps that leave the sites alone: what remains is per action.
LEMMA NextInv == Inv /\ [Next]_vars => Inv'
<1> SUFFICES ASSUME Inv, [Next]_vars PROVE Inv'
  OBVIOUS
<1> USE DEF Inv, memory
<1>1. ASSUME NEW r \in Request, create_indexer(r) PROVE Inv'
  BY <1>1 DEF create_indexer, Goto, TypeOK, Id, AllIdsAreFirst, RequestsHoldSites, IsFirst
<1>2. ASSUME NEW r \in Request, find_site(r) PROVE Inv'
  <2>1. TypeOK'
    BY <1>2 DEF find_site, Goto, TypeOK, Id, SitesOf
  <2>2. AllIdsAreFirst'
    BY <1>2 DEF find_site, AllIdsAreFirst, IsFirst, Id
  <2>3. RequestsHoldSites'
    BY <1>2 DEF find_site, Goto, TypeOK, Id, SitesOf, RequestsHoldSites, IsFirst
  <2> QED BY <2>1, <2>2, <2>3
<1>3. ASSUME NEW r \in Request, create_site(r) PROVE Inv'
  <2>1. sites \in Seq(Hash) /\ hash[r] \in Hash
    BY DeployAssumption DEF TypeOK
  <2>2. /\ sites' \in Seq(Hash)
        /\ Id' = Id \cup {Len(sites) + 1}
        /\ \A i \in Id : sites'[i] = sites[i] /\ i \in Nat /\ i < Len(sites) + 1
        /\ Len(sites) + 1 \in Nat
    BY <1>3, <2>1, AppendRow DEF create_site, Id
  <2>3. \A i \in Id : IsFirst(i) => IsFirst(i)'
    BY <2>2 DEF IsFirst
  <2>4. TypeOK'
    BY <1>3, <2>2 DEF create_site, Goto, TypeOK
  <2>5. AllIdsAreFirst'
    BY <1>3, <2>3 DEF create_site, AllIdsAreFirst, TypeOK
  <2>6. RequestsHoldSites'
    BY <1>3, <2>2, <2>3 DEF create_site, Goto, TypeOK, RequestsHoldSites
  <2> QED BY <2>4, <2>5, <2>6
<1>4. ASSUME NEW r \in Request, create_deployment(r) PROVE Inv'
  <2>1. site[r] \in Id
    BY <1>4 DEF create_deployment, RequestsHoldSites
  <2>2. TypeOK'
    BY <1>4, <2>1 DEF create_deployment, Goto, TypeOK, Id
  <2>3. AllIdsAreFirst' /\ RequestsHoldSites'
    BY <1>4 DEF create_deployment, Goto, TypeOK, Id, AllIdsAreFirst, RequestsHoldSites, IsFirst
  <2> QED BY <2>2, <2>3
<1>5. ASSUME NEW r \in Request, locators(r) PROVE Inv'
  <2>1. \A i \in Id : SitesOf(hash[r]) = {i} => IsFirst(i)
    <3> SUFFICES ASSUME NEW i \in Id, SitesOf(hash[r]) = {i}, NEW j \in Id, sites[j] = sites[i]
                 PROVE  i <= j
      BY DEF IsFirst
    <3>1. i = j
      BY DEF SitesOf
    <3> QED BY <3>1 DEF Id, TypeOK
  <2>2. TypeOK'
    BY <1>5 DEF locators, Goto, TypeOK, Id
  <2>3. AllIdsAreFirst'
    BY <1>5 DEF locators, AllIdsAreFirst, IsFirst, Id
  <2>4. RequestsHoldSites'
    BY <1>5, <2>1 DEF locators, Goto, TypeOK, Id, RequestsHoldSites, IsFirst
  <2> QED BY <2>2, <2>3, <2>4
<1>6. ASSUME NEW r \in Request, start(r) PROVE Inv'
  <2>1. site[r] \in Id /\ IsFirst(site[r])
    BY <1>6 DEF start, RequestsHoldSites
  <2>2. TypeOK'
    BY <1>6, <2>1 DEF start, Goto, TypeOK, Id
  <2>3. AllIdsAreFirst'
    BY <1>6, <2>1 DEF start, AllIdsAreFirst, IsFirst, Id
  <2>4. RequestsHoldSites'
    BY <1>6 DEF start, Goto, TypeOK, Id, RequestsHoldSites, IsFirst
  <2> QED BY <2>2, <2>3, <2>4
<1>7. ASSUME NEW r \in Request, Refuse(r) PROVE Inv'
  BY <1>7 DEF Refuse, Goto, TypeOK, Id, AllIdsAreFirst, RequestsHoldSites, IsFirst
<1>8. ASSUME NEW i \in Id, start_indexer_inner(i) PROVE Inv'
  BY <1>8 DEF start_indexer_inner, TypeOK, Id, AllIdsAreFirst, RequestsHoldSites, IsFirst
<1>9. ASSUME NEW i \in Id, ThreadEnds(i) PROVE Inv'
  BY <1>9 DEF ThreadEnds, TypeOK, Id, AllIdsAreFirst, RequestsHoldSites, IsFirst
<1>10. CASE Crash
  <2>1. TypeOK'
    BY <1>10 DEF Crash, TypeOK, Id
  <2>2. AllIdsAreFirst'
    BY <1>10 DEF Crash, AllIdsAreFirst
  <2>3. RequestsHoldSites'
    BY <1>10 DEF Crash, InFlight, Ended, TypeOK, Id, RequestsHoldSites, IsFirst
  <2> QED BY <2>1, <2>2, <2>3
<1>11. CASE UNCHANGED vars
  BY <1>11 DEF vars, TypeOK, Id, AllIdsAreFirst, RequestsHoldSites, IsFirst
<1> QED
  BY <1>1, <1>2, <1>3, <1>4, <1>5, <1>6, <1>7, <1>8, <1>9, <1>10, <1>11 DEF Next, RequestStep

\* The inductive invariant holds of every behaviour.
THEOREM Invariance == Spec => []Inv
  BY InitInv, NextInv, PTL DEF Spec

\* The stored ids, the provider's set and the requests' sites keep their types.
THEOREM TypeCorrect == Spec => []TypeOK
<1>1. Inv => TypeOK
  BY DEF Inv
<1> QED BY <1>1, Invariance, PTL

\* However many requests deploy a hash, at once, failing or again, the process
\* never has two threads for it: locators refuses what allocate_site lets pass.
THEOREM OneThread == Spec => []OneThreadPerHash
<1>1. Inv => OneThreadPerHash
  <2> SUFFICES ASSUME Inv, NEW i \in starting \cup indexing, NEW j \in starting \cup indexing,
                      sites[i] = sites[j]
               PROVE  i = j
    BY DEF OneThreadPerHash
  <2>1. i \in Id /\ j \in Id /\ IsFirst(i) /\ IsFirst(j)
    BY DEF Inv, TypeOK, AllIdsAreFirst
  <2>2. i \in Nat /\ j \in Nat
    BY <2>1 DEF Inv, TypeOK, Id
  <2>3. i <= j /\ j <= i
    BY <2>1 DEF IsFirst
  <2> QED BY <2>2, <2>3
<1> QED BY <1>1, Invariance, PTL

\* The invariant of requests issued one at a time.
LEMMA SerialInvariance == ASSUME Serial PROVE Spec => []SerialInv
<1>1. Init => SerialInv
  BY DEF Init, SerialInv, OneInFlight, CreatesOnlyIfNone, AtMostOne, InFlight, Id
<1>2. Inv /\ SerialInv /\ [Next]_vars => SerialInv'
  <2> SUFFICES ASSUME Inv, SerialInv, [Next]_vars PROVE SerialInv'
    OBVIOUS
  <2> USE DEF memory
  <2>1. TypeOK /\ OneInFlight /\ CreatesOnlyIfNone /\ AtMostOne
    BY DEF Inv, SerialInv
  <2>2. ASSUME NEW r \in Request, pc'[r] = "create_site" => SitesOf(hash[r]) = {},
               \A q \in Request \ {r} : pc'[q] = pc[q], UNCHANGED sites,
               InFlight(r) \/ \A q \in Request : ~InFlight(q)
        PROVE  SerialInv'
    <3>2. OneInFlight'
      BY <2>1, <2>2 DEF OneInFlight, InFlight, Ended
    <3>3. CreatesOnlyIfNone'
      BY <2>1, <2>2 DEF CreatesOnlyIfNone, SitesOf, Id
    <3>4. AtMostOne'
      BY <2>1, <2>2 DEF AtMostOne, Id
    <3> QED BY <3>2, <3>3, <3>4 DEF SerialInv
  <2>3. ASSUME NEW r \in Request, create_indexer(r) PROVE SerialInv'
    BY <2>1, <2>2, <2>3 DEF create_indexer, Goto, TypeOK
  <2>4. ASSUME NEW r \in Request, find_site(r) PROVE SerialInv'
    <3>1. /\ pc'[r] = "create_site" => SitesOf(hash[r]) = {}
          /\ \A q \in Request \ {r} : pc'[q] = pc[q]
      BY <2>1, <2>4 DEF find_site, Goto, TypeOK
    <3> QED BY <2>2, <2>4, <3>1 DEF find_site, Goto, InFlight, Ended
  <2>5. ASSUME NEW r \in Request, create_site(r) PROVE SerialInv'
    <3>1. sites \in Seq(Hash) /\ hash[r] \in Hash
      BY <2>1, DeployAssumption DEF TypeOK
    <3>2. /\ Id' = Id \cup {Len(sites) + 1}
          /\ \A i \in Id : sites'[i] = sites[i]
          /\ sites'[Len(sites) + 1] = hash[r]
      BY <2>5, <3>1, AppendRow DEF create_site, Id
    <3>3. \A i \in Id : sites[i] # hash[r]
      BY <2>1, <2>5 DEF create_site, CreatesOnlyIfNone, SitesOf
    <3>4. AtMostOne'
      BY <2>1, <3>2, <3>3 DEF AtMostOne
    <3>5. /\ InFlight(r) /\ pc'[r] = "create_deployment"
          /\ \A q \in Request \ {r} : pc'[q] = pc[q]
      BY <2>1, <2>5 DEF create_site, Goto, InFlight, Ended, TypeOK
    <3>6. OneInFlight'
      BY <2>1, <3>5 DEF OneInFlight, InFlight, Ended
    <3>7. \A q \in Request \ {r} : pc[q] # "create_site"
      BY <2>1, <3>5 DEF OneInFlight, InFlight, Ended
    <3>8. CreatesOnlyIfNone'
      BY <3>5, <3>7 DEF CreatesOnlyIfNone
    <3> QED BY <3>4, <3>6, <3>8 DEF SerialInv
  <2>6. ASSUME NEW r \in Request, create_deployment(r) PROVE SerialInv'
    BY <2>1, <2>2, <2>6 DEF create_deployment, Goto, InFlight, Ended, TypeOK
  <2>7. ASSUME NEW r \in Request, locators(r) PROVE SerialInv'
    <3>1. pc'[r] # "create_site" /\ \A q \in Request \ {r} : pc'[q] = pc[q]
      BY <2>1, <2>7 DEF locators, Goto, TypeOK
    <3> QED BY <2>2, <2>7, <3>1 DEF locators, Goto, InFlight, Ended
  <2>8. ASSUME NEW r \in Request, start(r) PROVE SerialInv'
    BY <2>1, <2>2, <2>8 DEF start, Goto, InFlight, Ended, TypeOK
  <2>9. ASSUME NEW r \in Request, Refuse(r) PROVE SerialInv'
    BY <2>1, <2>2, <2>9 DEF Refuse, Goto, TypeOK
  <2>10. ASSUME pc' = pc, sites' = sites PROVE SerialInv'
    BY <2>1, <2>10 DEF SerialInv, OneInFlight, CreatesOnlyIfNone, AtMostOne, InFlight, Ended,
                       SitesOf, Id
  <2>11. CASE Crash
    <3>1. \A r \in Request : ~InFlight(r)' /\ pc'[r] # "create_site"
      BY <2>1, <2>11 DEF Crash, InFlight, Ended, TypeOK
    <3> QED BY <2>1, <2>11, <3>1 DEF Crash, SerialInv, OneInFlight, CreatesOnlyIfNone, AtMostOne, Id
  <2> QED
    BY <2>3, <2>4, <2>5, <2>6, <2>7, <2>8, <2>9, <2>10, <2>11
    DEF Next, RequestStep, start_indexer_inner, ThreadEnds, vars
<1> QED BY <1>1, <1>2, Invariance, PTL DEF Spec

\* Requests issued one at a time, each possibly failing or cut off by a crash
\* at any step, leave at most one site for a hash.
THEOREM OneSite == ASSUME Serial PROVE Spec => []OneSitePerHash
<1>1. Inv /\ SerialInv => OneSitePerHash
  <2> SUFFICES ASSUME Inv, SerialInv, NEW h \in Hash PROVE Cardinality(SitesOf(h)) <= 1
    BY DEF OneSitePerHash
  <2>1. SitesOf(h) = {} \/ \E i \in Id : SitesOf(h) = {i}
    BY DEF SerialInv, AtMostOne, SitesOf
  <2>2. Cardinality({}) = 0 /\ \A i : Cardinality({i}) = 1
    BY FS_EmptySet, FS_Singleton, Zenon
  <2> QED BY <2>1, <2>2
<1> QED BY <1>1, Invariance, SerialInvariance, PTL

-----------------------------------------------------------------------------
(* IndexerService: a stored indexer is started once in a process, and runs *)
(* with the files of its own request.  A row needs its own identifier and  *)
(* its request's own hashes; a task, a row and a request that is past      *)
(* starting it.                                                            *)

Stages == {"new", "rejected", "parts", "panicked", "start", "done", "lost"}
TaskState == {"new", "running", "failed", "invalid"}
FileHash == {NoHash} \union (Submission \X Parts)

\* Requests add files under their own hashes only.
Submissions ==
    /\ stage \in [Submission -> Stages]
    /\ files \in [Submission -> [Parts -> FileHash]]
    /\ \A r \in Submission, p \in Parts : files[r][p] \in {NoHash, <<r, p>>}

\* What is stored of a request, which stores no more than that.
RowOf(row) ==
    /\ row.of \in Submission
    /\ row.namespace = <<"sgd", row.v_id>>
    /\ row.files \in [Parts -> FileHash]
    /\ \A p \in Parts : row.files[p] \in {NoHash, <<row.of, p>>}
    /\ verify_manifest(row.of) => row.status = "Deploying"
    /\ stage[row.of] \notin {"new", "parts"}

Rows ==
    /\ \A row \in rows : RowOf(row)
    /\ \A x, y \in rows : x.v_id = y.v_id \/ x.of = y.of => x = y

\* A row has one task, and none before its request starts it; a task that runs has
\* found its files.
Tasks ==
    /\ runtimes \subseteq [row : rows, state : TaskState]
    /\ \A t, u \in runtimes : t.row = u.row => t = u
    /\ \A t \in runtimes : stage[t.row.of] # "start"
    /\ \A t \in runtimes : t.state = "running" =>
         /\ verify_manifest(t.row.of)
         /\ \A p \in Parts : t.row.files[p] # NoHash

\* A process that does not serve yet has no tasks and no requests under way.
BeforeServing ==
    server = "starting" =>
        /\ runtimes = {}
        /\ \A r \in Submission : stage[r] \notin {"parts", "start"}

ServiceInv == Submissions /\ Rows /\ Tasks /\ BeforeServing /\ StoredIsStarted

\* An empty table and a process that starts satisfy the invariant.
LEMMA ServiceInitInv == ServiceInit => ServiceInv
<1> SUFFICES ASSUME ServiceInit PROVE ServiceInv
  OBVIOUS
<1>1. Submissions
  BY DEF ServiceInit, Submissions, Stages, FileHash, NoFiles
<1>2. Rows /\ Tasks /\ StoredIsStarted
  BY DEF ServiceInit, Rows, Tasks, StoredIsStarted
<1>3. BeforeServing
  BY DEF ServiceInit, BeforeServing
<1>4. QED
  BY <1>1, <1>2, <1>3 DEF ServiceInv

\* A step that only moves requests on, none of which becomes one to be started.
LEMMA MovesInv ==
    ASSUME ServiceInv, UNCHANGED <<form, rows, runtimes, server, unread>>, server = "serving",
           Submissions', NEW r \in Submission, stage[r] \in {"new", "parts"},
           stage' = stage \/ \E s \in Stages \ {"start"} : stage' = [stage EXCEPT ![r] = s]
    PROVE  ServiceInv'
<1>1. \A q \in Submission : q # r => stage'[q] = stage[q]
  BY DEF ServiceInv, Submissions
<1>2. stage'[r] # "start"
  BY DEF ServiceInv, Submissions
<1>3. \A row \in rows : row.of # r /\ row.of \in Submission
  BY DEF ServiceInv, Rows, RowOf
<1>4. Rows'
  BY <1>1, <1>3 DEF ServiceInv, Rows, RowOf, verify_manifest
<1>5. \A t \in runtimes : t.row \in rows
  BY DEF ServiceInv, Tasks
<1>6. Tasks'
  BY <1>1, <1>3, <1>5 DEF ServiceInv, Tasks, verify_manifest
<1>7. BeforeServing' /\ StoredIsStarted'
  BY <1>1, <1>3 DEF ServiceInv, BeforeServing, StoredIsStarted
<1>8. QED
  BY <1>4, <1>6, <1>7 DEF ServiceInv

\* start_indexers gives every row its first task in this process.
LEMMA StartIndexersInv == ASSUME ServiceInv, start_indexers PROVE ServiceInv'
<1>1. runtimes = {} /\ \A r \in Submission : stage[r] \notin {"parts", "start"}
  BY DEF ServiceInv, BeforeServing, start_indexers
<1>2. /\ UNCHANGED <<form, stage, files, rows>>
      /\ server' = "serving"
  BY DEF start_indexers, request
<1>3. \/ unread' /\ runtimes' = {}
      \/ ~unread' /\ runtimes' = {start_indexer(row) : row \in rows}
  BY <1>1 DEF start_indexers, get_indexers
<1>4. Submissions' /\ Rows'
  BY <1>2 DEF ServiceInv, Submissions, Rows, RowOf, verify_manifest
<1>5. \A t \in runtimes' : t \in [row : rows, state : {"new"}]
  BY <1>3 DEF start_indexer
<1>6. \A t \in runtimes' : stage[t.row.of] # "start"
  BY <1>1, <1>5 DEF ServiceInv, Rows, RowOf
<1>7. \A t, u \in runtimes' : t.row = u.row => t = u
  BY <1>5
<1>8. runtimes' \subseteq [row : rows', state : TaskState] /\ \A t \in runtimes' : t.state # "running"
  BY <1>2, <1>5 DEF TaskState
<1>13. Tasks'
  BY <1>2, <1>6, <1>7, <1>8 DEF Tasks
<1>9. BeforeServing'
  BY <1>2 DEF BeforeServing
<1>10. ASSUME ~unread', NEW row \in rows PROVE \E t \in runtimes' : t.row = row
  <2>1. start_indexer(row) \in runtimes'
    BY <1>3, <1>10
  <2>2. start_indexer(row).row = row
    BY DEF start_indexer
  <2>3. QED
    BY <2>1, <2>2
<1>11. StoredIsStarted'
  BY <1>2, <1>10 DEF StoredIsStarted
<1>12. QED
  BY <1>4, <1>13, <1>9, <1>11 DEF ServiceInv

\* The end of the process takes its tasks and requests with it.
LEMMA CrashInv == ASSUME ServiceInv, ProcessEnds PROVE ServiceInv'
<1>1. /\ UNCHANGED <<form, files, rows>>
      /\ server' = "starting" /\ runtimes' = {}
      /\ stage' = [r \in Submission |-> IF stage[r] \in {"parts", "start"} THEN "lost" ELSE stage[r]]
  BY DEF ProcessEnds
<1>2. Submissions'
  BY <1>1 DEF ServiceInv, Submissions, FileHash, Stages
<1>3. Rows'
  BY <1>1 DEF ServiceInv, Rows, RowOf, verify_manifest, Submissions
<1>4. Tasks' /\ BeforeServing' /\ StoredIsStarted'
  BY <1>1 DEF Tasks, BeforeServing, StoredIsStarted
<1>5. QED
  BY <1>2, <1>3, <1>4 DEF ServiceInv

\* Receiving a form or a repository.
LEMMA ReceiveInv == ASSUME ServiceInv, NEW r \in Submission, Receive(r) PROVE ServiceInv'
<1>1. /\ UNCHANGED <<form, files, rows, runtimes, server, unread>>
      /\ server = "serving" /\ stage[r] = "new"
      /\ \E s \in Stages \ {"start"} : stage' = [stage EXCEPT ![r] = s]
  BY DEF Receive, serving, Stages
<1>2. Submissions'
  BY <1>1 DEF ServiceInv, Submissions, FileHash, Stages
<1>3. QED
  BY <1>1, <1>2, MovesInv, Zenon

\* Handling a part adds a file under the request's own hash, or none.
LEMMA PartInv == ASSUME ServiceInv, NEW r \in Submission, Part(r) PROVE ServiceInv'
<1>1. /\ UNCHANGED <<form, rows, runtimes, server, unread>>
      /\ server = "serving" /\ stage[r] = "parts"
      /\ stage' = stage \/ \E s \in Stages \ {"start"} : stage' = [stage EXCEPT ![r] = s]
  BY Zenon DEF Part, serving, Stages
<1>2. files' = files \/ \E p \in Parts : files' = [files EXCEPT ![r][p] = <<r, p>>]
  BY Zenon DEF Part
<1>3. stage' \in [Submission -> Stages]
  BY <1>1 DEF ServiceInv, Submissions, Stages
<1>4. ASSUME files' = files PROVE Submissions'
  BY <1>3, <1>4 DEF ServiceInv, Submissions, FileHash
<1>5. ASSUME NEW p \in Parts, files' = [files EXCEPT ![r][p] = <<r, p>>]
      PROVE  Submissions'
  <2>1. files \in [Submission -> [Parts -> FileHash]] /\ <<r, p>> \in FileHash
    BY DEF ServiceInv, Submissions, FileHash
  <2>2. files' \in [Submission -> [Parts -> FileHash]]
    BY <1>5, <2>1
  <2>3. \A q \in Submission, o \in Parts :
           files'[q][o] = IF q = r /\ o = p THEN <<r, p>> ELSE files[q][o]
    BY <1>5, <2>1
  <2>4. QED
    BY <1>3, <2>2, <2>3 DEF ServiceInv, Submissions
<1>6. Submissions'
  BY <1>2, <1>4, <1>5
<1>7. QED
  BY <1>1, <1>6, MovesInv

\* A request stores its one row, under an identifier that no row has.
LEMMA StoreInv == ASSUME ServiceInv, NEW r \in Submission, store_indexer(r) PROVE ServiceInv'
<1>1. /\ UNCHANGED <<form, files, runtimes, server, unread>>
      /\ server = "serving" /\ stage[r] = "parts"
  BY DEF store_indexer, serving
<1>2. CASE rows' = rows /\ stage' = [stage EXCEPT ![r] = "done"]
  <2>1. Submissions'
    BY <1>1, <1>2 DEF ServiceInv, Submissions, FileHash, Stages
  <2>2. QED
    BY <1>1, <1>2, <2>1, MovesInv, Zenon DEF Stages
<1>3. ASSUME NEW v_id, ~\E row \in rows : row.v_id = v_id,
             rows' = rows \union {Row(r, v_id)}, stage' = [stage EXCEPT ![r] = "start"]
      PROVE  ServiceInv'
  <2>1. Submissions'
    BY <1>1, <1>3 DEF ServiceInv, Submissions, FileHash, Stages
  <2>2. PICK added : added = Row(r, v_id)
    OBVIOUS
  <2>3. /\ added.of = r /\ added.v_id = v_id
        /\ added.namespace = <<"sgd", added.v_id>>
        /\ added.files \in [Parts -> FileHash]
        /\ \A p \in Parts : added.files[p] \in {NoHash, <<added.of, p>>}
        /\ verify_manifest(added.of) => added.status = "Deploying"
    BY <2>2 DEF Row, ServiceInv, Submissions
  <2>4. rows' = rows \union {added}
    BY <1>3, <2>2
  <2>5. \A q \in Submission : stage'[q] = IF q = r THEN "start" ELSE stage[q]
    BY <1>3 DEF ServiceInv, Submissions
  <2>6. \A row \in rows : row.of \in Submission /\ row.of # r
    BY <1>1 DEF ServiceInv, Rows, RowOf
  <2>7. ASSUME NEW row \in rows' PROVE RowOf(row)'
    <3>1. CASE row \in rows
      BY <1>1, <2>5, <2>6, <3>1 DEF ServiceInv, Rows, RowOf, verify_manifest
    <3>2. CASE row = added
      BY <1>1, <2>3, <2>5, <3>2 DEF RowOf, verify_manifest
    <3>3. QED
      BY <2>4, <3>1, <3>2
  <2>8. \A x, y \in rows' : x.v_id = y.v_id \/ x.of = y.of => x = y
    BY <1>3, <2>3, <2>4, <2>6 DEF ServiceInv, Rows
  <2>9. Rows'
    BY <2>7, <2>8 DEF Rows
  <2>10. \A t \in runtimes : t.row \in rows
    BY DEF ServiceInv, Tasks
  <2>11. runtimes' \subseteq [row : rows', state : TaskState]
    BY <1>1, <2>4 DEF ServiceInv, Tasks
  <2>12. Tasks'
    BY <1>1, <2>5, <2>6, <2>10, <2>11 DEF ServiceInv, Tasks, verify_manifest
  <2>13. BeforeServing'
    BY <1>1 DEF BeforeServing
  <2>14. StoredIsStarted'
    BY <1>1, <2>3, <2>4, <2>5, <2>6 DEF ServiceInv, StoredIsStarted
  <2>15. QED
    BY <2>1, <2>9, <2>12, <2>13, <2>14 DEF ServiceInv
<1>4. QED
  BY <1>2, <1>3 DEF store_indexer

\* A request gives the row it stored its task.
LEMMA StartInv == ASSUME ServiceInv, NEW r \in Submission, Start(r) PROVE ServiceInv'
<1>1. /\ UNCHANGED <<form, files, rows, server, unread>>
      /\ server = "serving" /\ stage[r] = "start"
      /\ stage' = [stage EXCEPT ![r] = "done"]
      /\ runtimes' = runtimes \union {start_indexer(row) : row \in {x \in rows : x.of = r}}
  BY DEF Start, serving
<1>2. \A q \in Submission : stage'[q] = IF q = r THEN "done" ELSE stage[q]
  BY <1>1 DEF ServiceInv, Submissions
<1>3. Submissions'
  BY <1>1 DEF ServiceInv, Submissions, FileHash, Stages
<1>4. \A row \in rows : row.of \in Submission
  BY DEF ServiceInv, Rows, RowOf
<1>5. Rows'
  <2>1. ASSUME NEW row \in rows PROVE RowOf(row)'
    <3>1. RowOf(row)
      BY DEF ServiceInv, Rows
    <3>2. stage'[row.of] \notin {"new", "parts"}
      BY <3>1, <1>2, <1>4 DEF RowOf
    <3> QED
      BY <3>1, <3>2, <1>1 DEF RowOf, verify_manifest
  <2>2. QED
    BY <2>1, <1>1 DEF ServiceInv, Rows
<1>6. \A t \in runtimes : t.row \in rows /\ t.row.of # r
  BY <1>1 DEF ServiceInv, Tasks
<1>7. \A t \in runtimes' :
         \/ t \in runtimes
         \/ t \in [row : rows, state : {"new"}] /\ t.row.of = r
  <2>1. ASSUME NEW row \in rows, row.of = r
        PROVE  /\ start_indexer(row) \in [row : rows, state : {"new"}]
               /\ start_indexer(row).row.of = r
    BY <2>1 DEF start_indexer
  <2>2. QED
    BY <2>1, <1>1
<1>8. runtimes' \subseteq [row : rows, state : TaskState]
  BY <1>7 DEF ServiceInv, Tasks, TaskState
<1>9. \A t, u \in runtimes' : t.row = u.row => t = u
  BY <1>6, <1>7 DEF ServiceInv, Tasks
<1>10. \A t \in runtimes' : stage'[t.row.of] # "start"
  BY <1>2, <1>4, <1>6, <1>7 DEF ServiceInv, Tasks
<1>11. \A t \in runtimes' : t.state = "running" => t \in runtimes
  BY <1>7
<1>12. Tasks'
  BY <1>1, <1>8, <1>9, <1>10, <1>11 DEF ServiceInv, Tasks, verify_manifest
<1>13. BeforeServing'
  BY <1>1 DEF BeforeServing
<1>14. ASSUME NEW row \in rows, row.of = r PROVE \E t \in runtimes' : t.row = row
  <2>1. start_indexer(row) \in runtimes'
    BY <1>1, <1>14
  <2>2. start_indexer(row).row = row
    BY DEF start_indexer
  <2>3. QED
    BY <2>1, <2>2
<1>15. StoredIsStarted'
  BY <1>1, <1>2, <1>4, <1>14 DEF ServiceInv, StoredIsStarted
<1>16. QED
  BY <1>3, <1>5, <1>12, <1>13, <1>15 DEF ServiceInv

\* A task that has read its files back still belongs to its row.
LEMMA NewInv == ASSUME ServiceInv, NEW t \in runtimes, new(t) PROVE ServiceInv'
<1>1. UNCHANGED <<form, stage, files, rows, server, unread>>
  BY DEF new, request
<1>2. PICK s \in TaskState :
         /\ runtimes' = (runtimes \ {t}) \union {[row |-> t.row, state |-> s]}
         /\ s = "running" => /\ verify_manifest(t.row.of)
                             /\ \A p \in Parts : t.row.files[p] # NoHash
  BY DEF new, get_ipfs_file, TaskState
<1>3. PICK ended : ended = [row |-> t.row, state |-> s]
  BY Zenon
<1>4. ended.row = t.row /\ ended.state = s /\ runtimes' = (runtimes \ {t}) \union {ended}
  BY <1>2, <1>3
<1>5. ended \in [row : rows, state : TaskState]
  BY <1>3 DEF ServiceInv, Tasks
<1>6. Submissions' /\ Rows'
  BY <1>1 DEF ServiceInv, Submissions, Rows, RowOf, verify_manifest
<1>7. runtimes' \subseteq [row : rows, state : TaskState]
  BY <1>4, <1>5 DEF ServiceInv, Tasks
<1>8. \A u, v \in runtimes' : u.row = v.row => u = v
  BY <1>4 DEF ServiceInv, Tasks
<1>9. \A u \in runtimes' : stage[u.row.of] # "start"
  BY <1>4 DEF ServiceInv, Tasks
<1>10. \A u \in runtimes' : u.state = "running" =>
          /\ verify_manifest(u.row.of)
          /\ \A p \in Parts : u.row.files[p] # NoHash
  BY <1>2, <1>4 DEF ServiceInv, Tasks
<1>11. Tasks'
  BY <1>1, <1>7, <1>8, <1>9, <1>10 DEF Tasks, verify_manifest
<1>12. BeforeServing'
  BY <1>1 DEF ServiceInv, BeforeServing
<1>13. StoredIsStarted'
  BY <1>1, <1>4 DEF ServiceInv, StoredIsStarted
<1>14. QED
  BY <1>6, <1>11, <1>12, <1>13 DEF ServiceInv

\* Every step of the service keeps the invariant.
LEMMA ServiceNextInv == ASSUME ServiceInv, [ServiceNext]_serviceVars PROVE ServiceInv'
<1>1. CASE UNCHANGED serviceVars
  BY <1>1 DEF serviceVars, request, ServiceInv, Submissions, Rows, RowOf, Tasks, BeforeServing, StoredIsStarted,
              verify_manifest
<1>2. QED
  BY <1>1, StartIndexersInv, CrashInv, ReceiveInv, PartInv, StoreInv, StartInv, NewInv
     DEF ServiceNext, SubmissionStep

\* The service of indexer_service.rs keeps the invariant in every behaviour.
THEOREM ServiceInvariance == ServiceSpec => []ServiceInv
BY ServiceInitInv, ServiceNextInv, PTL DEF ServiceSpec

\* No two tasks index into one schema, however requests, failures and restarts
\* follow one another (store_indexer, start_indexers).
THEOREM OneRuntime == ServiceSpec => []OneRuntimePerNamespace
<1>1. ServiceInv => OneRuntimePerNamespace
  <2> SUFFICES ASSUME ServiceInv, NEW t \in runtimes, NEW u \in runtimes,
                      t.row.namespace = u.row.namespace
               PROVE  t = u
    BY DEF OneRuntimePerNamespace
  <2>1. t.row \in rows /\ u.row \in rows
    BY DEF ServiceInv, Tasks
  <2>2. <<"sgd", t.row.v_id>> = <<"sgd", u.row.v_id>>
    BY <2>1 DEF ServiceInv, Rows, RowOf
  <2>3. t.row = u.row
    BY <2>1, <2>2 DEF ServiceInv, Rows
  <2>4. QED
    BY <2>3 DEF ServiceInv, Tasks
<1>2. QED
  BY <1>1, ServiceInvariance, PTL

\* A stored indexer has a task in a process that serves and could read the table,
\* or its request is about to start it (deploy_indexer, start_indexers).
THEOREM EveryRowStarted == ServiceSpec => []StoredIsStarted
<1>1. ServiceInv => StoredIsStarted
  BY DEF ServiceInv
<1>2. QED
  BY <1>1, ServiceInvariance, PTL

\* A task runs with the three files of the request that stored its row and with a
\* manifest that was verified (IndexerRuntime::new).
THEOREM OwnFiles == ServiceSpec => []RunsItsOwnFiles
<1>1. ServiceInv => RunsItsOwnFiles
  <2> SUFFICES ASSUME ServiceInv, NEW t \in runtimes, t.state = "running"
               PROVE  /\ t.row.files = [p \in Parts |-> <<t.row.of, p>>]
                      /\ t.row.status = "Deploying"
    BY DEF RunsItsOwnFiles
  <2>1. t.row \in rows /\ verify_manifest(t.row.of) /\ \A p \in Parts : t.row.files[p] # NoHash
    BY DEF ServiceInv, Tasks
  <2>2. RowOf(t.row)
    BY <2>1 DEF ServiceInv, Rows
  <2>3. \A p \in Parts : t.row.files[p] = <<t.row.of, p>>
    BY <2>1, <2>2 DEF RowOf
  <2>4. t.row.files = [p \in Parts |-> <<t.row.of, p>>]
    BY <2>2, <2>3, Zenon DEF RowOf
  <2>5. QED
    BY <2>1, <2>2, <2>4 DEF RowOf
<1>2. QED
  BY <1>1, ServiceInvariance, PTL

\* Together: every stored indexer has its one task, with the files of its own
\* request, in every behaviour of the service (indexer_service.rs).
THEOREM StoredIndexersRunOnceHolds == ServiceSpec => []StoredIndexersRunOnce
<1>1. OneRuntimePerNamespace /\ StoredIsStarted /\ RunsItsOwnFiles => StoredIndexersRunOnce
  BY DEF StoredIndexersRunOnce
<1>2. QED
  BY <1>1, OneRuntime, EveryRowStarted, OwnFiles, PTL
-----------------------------------------------------------------------------
(***************************************************************************)
(* Proofs about FirehoseBlockStream: whatever fails and however often it   *)
(* is connected again, the stream steps over no block with triggers, and   *)
(* repeats a block at most once per connection.                            *)
(***************************************************************************)
StreamTyped ==
    /\ pos \in Nat /\ StartBlock <= pos
    /\ at \in Nat
    /\ connections \in Nat
    /\ times \in [StartBlock..MaxBlock -> Nat]

\* A connection never runs ahead of what was delivered by more than a block, and
\* has not yet delivered what is before it.  The second conjunct is what lets a
\* delivery keep OncePerConnection.
StreamInv ==
    /\ StreamTyped
    /\ pos <= at + 1
    /\ OncePerConnection
    /\ state = "Connected" =>
         \A b \in StartBlock..MaxBlock : pos <= b => times[b] < connections

\* A stream that was not polled yet satisfies the invariant.
LEMMA StreamInitInv == FirehoseInit => StreamInv
<1> SUFFICES ASSUME FirehoseInit PROVE StreamInv
  OBVIOUS
<1>1. StreamTyped /\ pos <= at + 1
  BY ChainAssumption DEF FirehoseInit, StreamTyped
<1>2. OncePerConnection
  BY DEF FirehoseInit, OncePerConnection
<1>3. QED
  BY <1>1, <1>2 DEF FirehoseInit, StreamInv

\* Asking the endpoint for blocks again begins a connection in which none was
\* delivered yet (stream_blocks).
LEMMA ConnectionInv ==
    ASSUME StreamInv, stream_blocks, UNCHANGED delivered
    PROVE  StreamInv'
<1>1. pos' = StartBlock /\ connections' = connections + 1 /\ at' = at /\ times' = times
  BY DEF stream_blocks, delivered
<1>2. pos \in Nat /\ at \in Nat /\ connections \in Nat /\ StartBlock \in Nat /\ MaxBlock \in Nat
      /\ StartBlock <= pos /\ pos <= at + 1 /\ times \in [StartBlock..MaxBlock -> Nat]
  BY ChainAssumption DEF StreamInv, StreamTyped
<1>3. StreamTyped' /\ (pos <= at + 1)'
  BY <1>1, <1>2 DEF StreamTyped
<1>4. \A b \in StartBlock..MaxBlock : times[b] \in Nat /\ times[b] <= connections
  BY <1>2 DEF StreamInv, OncePerConnection
<1>5. \A b \in StartBlock..MaxBlock : times'[b] < connections'
  BY <1>1, <1>2, <1>4
<1>6. OncePerConnection'
  BY <1>1, <1>2, <1>4 DEF OncePerConnection
<1>7. QED
  BY <1>1, <1>3, <1>5, <1>6 DEF StreamInv

\* A step that leaves the connection alone, or ends it.
LEMMA QuietInv ==
    ASSUME StreamInv, UNCHANGED <<pos, at, times, connections>>,
           state' = state \/ state' # "Connected"
    PROVE  StreamInv'
BY DEF StreamInv, StreamTyped, OncePerConnection

\* A delivered block is one the connection had not delivered.
LEMMA DeliverInv ==
    ASSUME StreamInv, state = "Connected", NEW b \in pos..MaxBlock, Deliver(b),
           connections' = connections
    PROVE  StreamInv'
<1>1. pos \in Nat /\ at \in Nat /\ connections \in Nat /\ StartBlock \in Nat /\ MaxBlock \in Nat
      /\ StartBlock <= pos /\ pos <= at + 1 /\ times \in [StartBlock..MaxBlock -> Nat]
  BY ChainAssumption DEF StreamInv, StreamTyped
<1>2. b \in Nat /\ b \in StartBlock..MaxBlock /\ pos <= b
  BY <1>1
<1>3. at' = (IF b > at THEN b ELSE at) /\ pos' = b + 1 /\ times' = [times EXCEPT ![b] = @ + 1]
  BY DEF Deliver
<1>4. times' \in [StartBlock..MaxBlock -> Nat]
  BY <1>1, <1>2, <1>3
<1>5. StreamTyped' /\ (pos <= at + 1)'
  BY <1>1, <1>2, <1>3, <1>4 DEF StreamTyped
<1>6. \A c \in StartBlock..MaxBlock :
         /\ times[c] \in Nat /\ times[c] <= connections
         /\ pos <= c => times[c] < connections
  BY <1>1 DEF StreamInv, OncePerConnection
<1>7. \A c \in StartBlock..MaxBlock : times'[c] = IF c = b THEN times[c] + 1 ELSE times[c]
  BY <1>1, <1>2, <1>3
<1>8. \A c \in StartBlock..MaxBlock : times'[c] <= connections
  BY <1>1, <1>2, <1>6, <1>7
<1>9. OncePerConnection'
  BY <1>4, <1>8 DEF OncePerConnection
<1>10. \A c \in StartBlock..MaxBlock : pos' <= c => times'[c] < connections
  BY <1>1, <1>2, <1>3, <1>6, <1>7
<1>11. QED
  BY <1>5, <1>9, <1>10 DEF StreamInv

\* Every step of the stream and of its tasks keeps the invariant.
LEMMA StreamNextInv == ASSUME StreamInv, [FirehoseNext]_firehoseVars PROVE StreamInv'
<1>1. CASE Disconnected
  <2>1. CASE stream_blocks
    BY <1>1, <2>1, ConnectionInv DEF Disconnected
  <2>2. CASE UNCHANGED <<pos, connections>> /\ (state' = state \/ state' = "Connecting")
    BY <1>1, <2>2, QuietInv DEF Disconnected, delivered
  <2>3. QED
    BY <1>1, <2>1, <2>2 DEF Disconnected
<1>2. CASE Resolve
  BY <1>2, QuietInv DEF Resolve, delivered
<1>3. CASE Connecting
  <2>1. CASE stream_blocks
    BY <1>3, <2>1, ConnectionInv DEF Connecting
  <2>2. CASE UNCHANGED <<pos, connections, state>>
    BY <1>3, <2>2, QuietInv DEF Connecting, delivered
  <2>3. QED
    BY <1>3, <2>1, <2>2 DEF Connecting
<1>4. CASE Connected
  <2>1. CASE \E b \in pos..MaxBlock : Deliver(b)
    BY <1>4, <2>1, DeliverInv DEF Connected
  <2>2. CASE state' = "Disconnected" /\ UNCHANGED <<pos, delivered>>
    BY <1>4, <2>2, QuietInv DEF Connected, delivered
  <2>3. QED
    BY <1>4, <2>1, <2>2 DEF Connected
<1>5. CASE wake
  BY <1>5, QuietInv DEF wake, delivered
<1>6. CASE UNCHANGED firehoseVars
  BY <1>6, QuietInv DEF firehoseVars
<1>7. QED
  BY <1>1, <1>2, <1>3, <1>4, <1>5, <1>6 DEF FirehoseNext

\* The stream of firehose_block_stream.rs keeps the invariant in every behaviour.
THEOREM StreamInvariance == FirehoseSpec => []StreamInv
<1>1. FirehoseInit => StreamInv
  BY StreamInitInv
<1>2. StreamInv /\ [FirehoseNext]_firehoseVars => StreamInv'
  BY StreamNextInv
<1>3. QED
  BY <1>1, <1>2, PTL DEF FirehoseSpec

\* However often the stream of firehose_block_stream.rs is connected again, it
\* delivers a block at most once per connection.
THEOREM RepeatsAreReconnections == FirehoseSpec => []OncePerConnection
<1>1. StreamInv => OncePerConnection
  BY DEF StreamInv
<1>2. QED
  BY <1>1, StreamInvariance, PTL

\* Its furthest block moves as BlockStream allows: a reconnection that begins at
\* start_block repeats blocks, but no block with triggers is stepped over.
THEOREM NothingSteppedOver == FirehoseSpec => SkipsNothing
<1>1. FirehoseInit => Furthest!Init
  BY ChainAssumption DEF FirehoseInit, Furthest!Init
<1>2. StreamInv /\ [FirehoseNext]_firehoseVars => [Furthest!Next]_<<MaxBlock, at, last, {}>>
  <2> SUFFICES ASSUME StreamInv, [FirehoseNext]_firehoseVars PROVE Furthest!Next \/ UNCHANGED <<at, last>>
    OBVIOUS
  <2>1. ASSUME NEW b \in pos..MaxBlock, \A c \in Triggered : pos <= c => b <= c, Deliver(b)
        PROVE  Furthest!Next \/ UNCHANGED <<at, last>>
    <3>1. pos \in Nat /\ at \in Nat /\ MaxBlock \in Nat /\ pos <= at + 1 /\ b \in 0..MaxBlock
      BY ChainAssumption DEF StreamInv, StreamTyped
    <3>2. CASE b > at
      <4>1. \A c \in Triggered : at < c => b <= c
        <5> SUFFICES ASSUME NEW c \in Triggered, at < c PROVE b <= c
          OBVIOUS
        <5>1. c \in Nat
          BY ChainAssumption
        <5>2. pos <= c
          BY <3>1, <5>1
        <5>3. QED
          BY <2>1, <5>2
      <4>2. at' = b /\ last' = (b \in Triggered)
        BY <2>1, <3>2 DEF Deliver
      <4>3. Furthest!Deliver(b)
        BY <3>1, <3>2, <4>1, <4>2 DEF Furthest!Deliver
      <4>4. QED
        BY <3>1, <4>3 DEF Furthest!Next
    <3>3. CASE ~(b > at)
      BY <2>1, <3>3 DEF Deliver
    <3>4. QED
      BY <3>2, <3>3
  <2>2. CASE Connected
    BY <2>1, <2>2 DEF Connected, delivered
  <2>3. CASE ~Connected
    BY <2>3 DEF FirehoseNext, Disconnected, Resolve, Connecting, wake, firehoseVars, delivered
  <2>4. QED
    BY <2>2, <2>3
<1>3. QED
  BY <1>1, <1>2, StreamInvariance, PTL DEF FirehoseSpec, SkipsNothing, Furthest!Spec

\* Together, what the stream of firehose_block_stream.rs promises whoever polls it:
\* repeats are reconnections, and nothing is left out.
THEOREM StepsOverNothingHolds == FirehoseSpec => StepsOverNothing
<1>1. (FirehoseSpec => []OncePerConnection) /\ (FirehoseSpec => SkipsNothing)
  BY RepeatsAreReconnections, NothingSteppedOver
<1>2. QED
  BY <1>1 DEF StepsOverNothing
=============================================================================
