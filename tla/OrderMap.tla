------------------------------ MODULE OrderMap ------------------------------
(***************************************************************************)
(* What one side of the order book promises the matching engine            *)
(* (serum_dex/matching.rs): a map from order ids to orders, of which the   *)
(* first and the last can be found and removed.  An id that is stored      *)
(* again replaces its order.  A new id is refused only when the map holds  *)
(* MaxLeaves of them.  Market is written against this.                     *)
(***************************************************************************)
EXTENDS Integers, FiniteSets

CONSTANTS
    Keys,       \* order ids
    Values,     \* what is stored with them
    Limits,     \* how many nodes a search may visit
    MaxLeaves,  \* the number of orders there is always room for
    None        \* no order

VARIABLES
    orders,  \* order id -> order, for the ids stored
    op,      \* the last operation,
    answer   \* and what it returned

Init ==
    /\ orders = [k \in {} |-> None]
    /\ op = "new"
    /\ answer = None

Get(m, k) == IF k \in DOMAIN m THEN m[k] ELSE None
Put(m, k, v) == [j \in DOMAIN m \cup {k} |-> IF j = k THEN v ELSE m[j]]
Without(m, k) == [j \in DOMAIN m \ {k} |-> m[j]]
First(S) == CHOOSE k \in S : \A j \in S : k <= j
Last(S) == CHOOSE k \in S : \A j \in S : j <= k

\* Whether a map has no room for k.
Refuses(S, k) == k \notin S /\ Cardinality(S) >= MaxLeaves

InsertLeaf(k, v) ==
    /\ op' = "insert"
    /\ ~Refuses(DOMAIN orders, k)
    /\ answer' = [ok |-> TRUE, old |-> Get(orders, k)]
    /\ orders' = Put(orders, k, v)

Refuse(k) ==
    /\ op' = "insert"
    /\ Refuses(DOMAIN orders, k)
    /\ answer' = [ok |-> FALSE, old |-> None]
    /\ UNCHANGED orders

RemoveByKey(remove, k) ==
    /\ op' = remove
    /\ answer' = [key |-> k, value |-> Get(orders, k)]
    /\ orders' = Without(orders, k)

RemoveExtreme(remove, Which(_)) ==
    /\ op' = remove
    /\ IF DOMAIN orders = {}
       THEN answer' = None /\ UNCHANGED orders
       ELSE RemoveByKey(remove, Which(DOMAIN orders))

\* A search visits at most limit nodes, of which there are fewer than two for
\* every order: given as many, it finds every order that matches.
FindBy(m, v, limit) ==
    LET matching == {k \in DOMAIN m : m[k] = v} IN
    /\ op' = "find_by"
    /\ answer' \in SUBSET matching
    /\ limit >= 2 * Cardinality(DOMAIN m) - 1 => answer' = matching
    /\ Cardinality(answer') <= limit
    /\ UNCHANGED orders

Next ==
    \/ \E k \in Keys, v \in Values : InsertLeaf(k, v)
    \/ \E k \in Keys : Refuse(k) \/ RemoveByKey("remove", k)
    \/ RemoveExtreme("remove_min", First)
    \/ RemoveExtreme("remove_max", Last)
    \/ \E v \in Values, limit \in Limits : FindBy(orders, v, limit)

Spec == Init /\ [][Next]_<<orders, op, answer>>
=============================================================================
