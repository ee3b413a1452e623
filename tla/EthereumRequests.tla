-------------------------- MODULE EthereumRequests --------------------------
(***************************************************************************)
(* One request of the Ethereum adapter to its node, with the retry helper  *)
(* that runs it: attempts that may time out, back-off between them, a      *)
(* limit on their number or none, and the rule that says which failures    *)
(* are final.  The contract calls of the mappings are followed up to the   *)
(* error their handler sees.  The node may be on another fork than the     *)
(* block the call is about, and may move to it between two attempts.       *)
(***************************************************************************)
EXTENDS Integers, Sequences, FiniteSets, SequencesExt

CONSTANTS
    REQUEST_RETRIES,  \* the limits tried for the requests that have one
    CallRetries,      \* the limit of eth_call
    MaxAttempts,      \* bound on the attempts of a request without a limit
    MaxReorgs,        \* bound on the moves of the node to another fork
    None

VARIABLES
    op,         \* the request
    limit,      \* the limit of its attempts, or None
    checked,    \* the build checks integer overflow
    eip_1898,   \* the node can be asked for a block by its hash
    phase,      \* "new", "trying", "sleeping", "done", "panicked"
    attempts,   \* the attempts made
    fork,       \* the fork the node is on; the call is about fork 0
    outcome,    \* what the caller gets
    replies,    \* history: what came back from each attempt
    reorgs

reqVars == <<op, limit, checked, eip_1898, phase, attempts, fork, outcome, replies, reorgs>>

ByHash == {"load_blocks"}
ByNumber == {"block_ptrs", "block_hash", "genesis"}
Ops == ByHash \cup ByNumber \cup {"traces", "logs", "net_version", "call"}

\* The requests without a limit are the ones that say no_limit().
LimitsOf(o) ==
    CASE o = "call" -> {CallRetries}
      [] o \in {"traces", "logs", "load_blocks"} -> REQUEST_RETRIES
      [] OTHER -> {None}

-----------------------------------------------------------------------------
(* What the node sends.                                                    *)

Reverts == {"geth_revert", "parity_revert", "ganache_revert"}

\* How a request names its block.
block_id(o) == IF o \in ByHash \/ (o = "call" /\ eip_1898) THEN "hash" ELSE "number"

\* A node on another fork knows no block by the hash of this one, but answers
\* for the block of the same number.
Sent(o) ==
    {"rpc"} \cup
    CASE o = "call" ->
            IF block_id(o) = "hash" /\ fork # 0 THEN {}
            ELSE {"bytes", "empty", "undecodable", "parity_other"} \cup Reverts
      [] o = "load_blocks" -> IF fork # 0 THEN {"none"} ELSE {"some", "none"}
      [] o \in ByNumber    -> {"some", "none"}
      [] o = "logs"        -> {"some", "too_many"}
      [] OTHER             -> {"some"}

\* What the closure of the request makes of it: a value or an error.
Result(o, sent) ==
    CASE sent = "rpc" /\ o = "call" -> [err |-> TRUE, value |-> "Web3Error"]
      [] sent \in Reverts           -> [err |-> TRUE, value |-> "Revert"]
      [] sent = "parity_other"      -> [err |-> TRUE, value |-> "Web3Error"]
      [] sent = "none"              -> [err |-> o # "block_hash", value |-> "none"]
      [] sent \in {"rpc", "too_many"} -> [err |-> TRUE, value |-> sent]
      [] OTHER                      -> [err |-> FALSE, value |-> sent]

\* RetryIf::check, with the predicates of the requests.
condition_check(o, r) ==
    r.err /\ r.value # (CASE o = "call" -> "Revert" [] o = "logs" -> "too_many" [] OTHER -> None)

-----------------------------------------------------------------------------
(* run_retry.                                                              *)

\* retry_strategy takes limit - 1 delays; for a limit of 0 an unchecked build
\* takes 2^64 - 1 of them.
delays_left == limit = None \/ limit = 0 \/ attempts < limit

\* What the caller of contract_call and eth_call gets from the last result.
eth_call_outcome(r) ==
    CASE r.value \in {"Revert", "empty", "undecodable"} -> "null"
      [] r.value \in {"Web3Error", "Elapsed"}           -> "PossibleReorg"
      [] OTHER                                          -> "tokens"

Outcome(r) == IF op = "call" THEN eth_call_outcome(r)
              ELSE IF r.err THEN "error" ELSE r.value

Init ==
    /\ op \in Ops
    /\ limit \in LimitsOf(op)
    /\ checked \in BOOLEAN
    /\ eip_1898 \in BOOLEAN
    /\ phase = "new"
    /\ attempts = 0
    /\ fork = 0
    /\ outcome = None
    /\ replies = <<>>
    /\ reorgs = 0

\* eth_call looks the contract and the function up, contract_call checks the
\* arguments against it: without them there is no request.
CallRejected ==
    /\ phase = "new" /\ op = "call"
    /\ phase' = "done"
    /\ outcome' = "Unknown"
    /\ UNCHANGED <<op, limit, checked, eip_1898, attempts, fork, replies, reorgs>>

Start ==
    /\ phase = "new"
    /\ IF limit = 0 /\ checked
       THEN phase' = "panicked" /\ UNCHANGED attempts
       ELSE phase' = "trying" /\ attempts' = 1
    /\ UNCHANGED <<op, limit, checked, eip_1898, fork, outcome, replies, reorgs>>

\* The end of an attempt: retry says whether the result asks for another one.
Ended(r, sent, retry) ==
    /\ replies' = Append(replies, [sent |-> sent, fork |-> fork])
    /\ IF retry /\ delays_left
       THEN phase' = "sleeping" /\ UNCHANGED outcome
       ELSE phase' = "done" /\ outcome' = Outcome(r)
    /\ UNCHANGED <<op, limit, checked, eip_1898, attempts, fork, reorgs>>

Answer ==
    /\ phase = "trying"
    /\ \E sent \in Sent(op) :
          Ended(Result(op, sent), sent, condition_check(op, Result(op, sent)))

\* No answer in time: the attempt is dropped, and with it a late answer.
Timeout ==
    /\ phase = "trying"
    /\ Ended([err |-> TRUE, value |-> "Elapsed"], "timeout", TRUE)

\* A plausible bug: an attempt that timed out does not count.
Again_TimeoutsFree ==
    /\ phase = "sleeping"
    /\ phase' = "trying"
    /\ attempts' = IF Last(replies).sent = "timeout" THEN attempts ELSE attempts + 1
    /\ replies' = <<Last(replies)>>
    /\ UNCHANGED <<op, limit, checked, eip_1898, fork, outcome, reorgs>>

\* The delay is over.  Without a limit the count stops at the bound, where
\* the history is forgotten.
Again ==
    /\ phase = "sleeping"
    /\ phase' = "trying"
    /\ attempts' = IF attempts < MaxAttempts THEN attempts + 1 ELSE attempts
    /\ replies' = IF attempts < MaxAttempts THEN replies ELSE <<>>
    /\ UNCHANGED <<op, limit, checked, eip_1898, fork, outcome, reorgs>>

Reorg ==
    /\ reorgs < MaxReorgs
    /\ phase \in {"trying", "sleeping"}
    /\ reorgs' = reorgs + 1
    /\ fork' = 1 - fork
    /\ UNCHANGED <<op, limit, checked, eip_1898, phase, attempts, outcome, replies>>

Next == CallRejected \/ Start \/ Answer \/ Timeout \/ Again \/ Reorg

\* The runtime polls the request, and its timers for the timeout and the delay
\* fire; that the node answers is not assumed.
Fairness == WF_reqVars(Start) /\ WF_reqVars(Timeout) /\ WF_reqVars(Again)

Spec == Init /\ [][Next]_reqVars /\ Fairness

-----------------------------------------------------------------------------
(* Properties.                                                             *)

\* A contract call sends its handler back to the block stream (PossibleReorg)
\* only after every one of its attempts got an error of the node or none at
\* all, and its null is the answer of the node to the last attempt: a revert
\* is final and never asked again (call and eth_call).
ReorgOnlyAfterEveryAttempt ==
    op = "call" =>
        /\ outcome = "PossibleReorg" =>
              /\ Len(replies) = CallRetries
              /\ \A i \in DOMAIN replies :
                    replies[i].sent \in {"rpc", "parity_other", "timeout"}
        /\ \A i \in DOMAIN replies : replies[i].sent \in Reverts =>
              i = Len(replies) /\ outcome = "null"

\* Where the node takes block hashes, a call that returns a value or null was
\* answered for the very block the handler runs on, whatever reorganizations
\* happened between its attempts (supports_eip_1898 in call).
AnsweredForTheBlock ==
    op = "call" /\ eip_1898 /\ outcome \in {"tokens", "null"} => Last(replies).fork = 0

\* A request with a limit makes no more attempts than it says, the ones that
\* timed out included (retry_strategy); a limit of 0 is no limit.
AttemptsAreLimited == limit \notin {None, 0} => attempts <= limit

Bounded == limit # None /\ ~ (limit = 0 /\ ~ checked)

\* A request with a limit ends even if the node never answers, because each
\* attempt is cut off by its timeout (RetryConfigWithTimeout::run).
LimitedRequestsEnd == Bounded ~> phase \in {"done", "panicked"}

\* The attempts of a request are limited, its answer is for its block, and it
\* gives up with a possible reorg only after the last of them (call, eth_call,
\* retry_strategy).
RequestsAreSound ==
    ReorgOnlyAfterEveryAttempt /\ AnsweredForTheBlock /\ AttemptsAreLimited
=============================================================================
