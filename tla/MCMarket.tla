------------------------------ MODULE MCMarket ------------------------------
(* Two traders. *)
EXTENDS Market

CONSTANTS a1, a2

Order(side, type, price, qty, pc_qty, self_trade, limit, client_id) ==
    [side |-> side, order_type |-> type, price |-> price, qty |-> qty, pc_qty |-> pc_qty,
     self_trade |-> self_trade, limit |-> limit, client |-> client_id]

SomeInstructions ==
    (a1 :> {Order("Bid", "Limit", 2, 2, 45000, "DecrementTake", 1, 1),
            Order("Bid", "ImmediateOrCancel", 2, 2, 45000, "AbortTransaction", 1, 1),
            Order("Ask", "PostOnly", 2, 1, 1, "DecrementTake", 2, 1)}) @@
    (a2 :> {Order("Ask", "Limit", 1, 2, 1, "CancelProvide", 2, 1),
            Order("Bid", "PostOnly", 1, 1, 10022, "CancelProvide", 1, 0)})

SomeKinds == {[flags |-> "market", prune |-> FALSE], [flags |-> "permissioned", prune |-> TRUE]}

Tiers == (a1 :> "Base") @@ (a2 :> "MSRM")
=============================================================================
