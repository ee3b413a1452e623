------------------------------- MODULE Market -------------------------------
(***************************************************************************)
(* The exchange program in user-example/.../serum_dex: the instructions of *)
(* state.rs and the matching engine of matching.rs, over one market.       *)
(*                                                                         *)
(* A transaction is atomic: an instruction that returns an error or panics *)
(* changes nothing, and is not a step.  The exception are the assertions   *)
(* of the program about its own data, whose failure is recorded.           *)
(*                                                                         *)
(* The sides of the book are the ordered maps that Critbit implements, the *)
(* event queue is the bounded queue that RingQueue implements.  An         *)
(* OpenOrders account is named by its owner.                               *)
(***************************************************************************)
EXTENDS Integers, FiniteSetsExt, SequencesExt

CONSTANTS
    Accounts,       \* OpenOrders accounts, and the wallets of their owners
    Slots,          \* 1..n: an account's slots (the code: 128)
    Instructions,   \* bound: account -> the NewOrderV3 instructions that it sends
    Kinds,          \* the markets set up: flags, and whether one may prune
    SeqSpan,        \* bound: how many sequence numbers there are (2^64)
    BookCapacity,   \* leaves that one side of the book has room for
    QueueCapacity,  \* events that event_q has room for
    PruneLimits,    \* limits that Prune is called with
    coin_lot_size, pc_lot_size,
    Tier,           \* account -> the fee tier of its owner
    Balance,        \* what each wallet holds at first, of each token
    One,            \* 1 in fixed point (the code: 2^64, with products in 128 bits)
    None

FeeTier == {"Base", "SRM2", "SRM3", "SRM4", "SRM5", "SRM6", "MSRM"}

ASSUME MarketAssumption ==
    /\ One \in Nat /\ One >= 10000
    /\ SeqSpan \in Nat \ {0}
    /\ BookCapacity \in Nat \ {0}
    /\ coin_lot_size \in Nat \ {0} /\ pc_lot_size \in Nat \ {0}
    /\ Tier \in [Accounts -> FeeTier]
    /\ \A k \in Kinds : /\ k.flags \in {"market", "permissioned"}
                        /\ k.prune => k.flags = "permissioned"
    /\ \A o \in UNION {Instructions[a] : a \in Accounts} :
           /\ o.side \in {"Bid", "Ask"}
           /\ o.order_type \in {"Limit", "ImmediateOrCancel", "PostOnly"}
           /\ o.self_trade \in {"DecrementTake", "CancelProvide", "AbortTransaction"}
           /\ o.price \in Nat \ {0} /\ o.qty \in Nat \ {0} /\ o.pc_qty \in Nat \ {0}
           /\ o.limit \in Nat /\ o.client \in Nat

VARIABLES
    mkt,           \* MarketState: "flags" and what it has in its vaults
    book,          \* side -> order id -> leaf
    event_q,       \* the events not yet consumed
    next_seq_num,  \* of the request queue, which is otherwise empty
    oo,            \* account -> OpenOrders
    tokens,        \* "coin" and "pc" -> holder -> amount (SPL token, external)
    failed         \* history: an assertion of the program has failed

vars == <<mkt, book, event_q, next_seq_num, oo, tokens, failed>>

-----------------------------------------------------------------------------
(* fees.rs: the fees of a trade, in fixed point. *)

\* Rates, rounded down for a fee and up for a rebate.
FeeBps(bps) == (bps * One) \div 10000
RebateBps(bps) == FeeBps(bps) + 1

MakerRate(tier) == RebateBps(IF tier = "MSRM" THEN 5 ELSE 3)

TakerBps ==
    [Base |-> 22, SRM2 |-> 20, SRM3 |-> 18, SRM4 |-> 16, SRM5 |-> 14, SRM6 |-> 12,
     MSRM |-> 10]

TakerRate(tier) == FeeBps(TakerBps[tier])

MakerRebate(tier, pc_qty) == (MakerRate(tier) * pc_qty) \div One

\* A plausible bug: the fraction is dropped.
TakerFee_Floor(tier, pc_qty) == (TakerRate(tier) * pc_qty) \div One

TakerFee(tier, pc_qty) ==
    LET exact == TakerRate(tier) * pc_qty
    IN  (exact \div One) + (IF exact % One = 0 THEN 0 ELSE 1)

RemoveTakerFee(tier, pc_qty_incl_fee) ==
    (pc_qty_incl_fee * One) \div (One + TakerRate(tier))

ReferrerRebate(amount) == amount \div 5

-----------------------------------------------------------------------------
Holders == Accounts \cup {"vault", "fee_receiver", "referrer"}

NewOpenOrders ==
    [flags |-> "none", free |-> [coin |-> 0, pc |-> 0], total |-> [coin |-> 0, pc |-> 0],
     rebates |-> 0, orders |-> [s \in Slots |-> None]]

Init ==
    /\ mkt = [flags |-> "none", prune |-> FALSE, deposits_total |-> [coin |-> 0, pc |-> 0],
              pc_fees_accrued |-> 0, referrer_rebates_accrued |-> 0]
    /\ book = [s \in {"Bid", "Ask"} |-> [id \in {} |-> None]]
    /\ event_q = <<>>
    /\ next_seq_num = 0
    /\ oo = [a \in Accounts |-> NewOpenOrders]
    /\ tokens = [t \in {"coin", "pc"} |->
                    [h \in Holders |-> IF h \in Accounts THEN Balance ELSE 0]]
    /\ failed = FALSE

(***************************************************************************)
(* The market account and the OpenOrders accounts.                         *)
(***************************************************************************)
\* Market::load: the flags must be exactly those of an enabled market, with or
\* without an authority over its OpenOrders accounts.
Enabled == mkt.flags \in {"market", "permissioned"}

\* load_orders_mut for an account that must exist.
Loaded(a) == Enabled /\ oo[a].flags = "open"

\* load_orders_mut with rent: a new account is initialised, with the authority
\* that the market asks for.  init does not touch the rebates.
InitOrders(a, authority) ==
    IF oo[a].flags = "none" /\ authority = (mkt.flags = "permissioned")
    THEN [NewOpenOrders EXCEPT !.flags = "open", !.rebates = oo[a].rebates]
    ELSE oo[a]

Transfer(t, from, to, n) ==
    [tokens EXCEPT ![t][from] = @ - n, ![t][to] = @ + n]

UsedSlots(acc) == {s \in Slots : acc.orders[s] # None}

\* A plausible bug: the sequence number of a bid is not inverted.
GenOrderId_NotInverted(price, side, seq) == price * SeqSpan + seq

\* gen_order_id: the price in the upper half, the sequence number in the lower,
\* inverted for bids.
GenOrderId(price, side, seq) ==
    price * SeqSpan + (IF side = "Bid" THEN SeqSpan - 1 - seq ELSE seq)

Price(id) == id \div SeqSpan

(***************************************************************************)
(* The matching engine.  The record s holds what a request changes: the    *)
(* book, the queue, the market, the proceeds of the request, what remains  *)
(* of the order (coin_rest, pc_rest, 0 when nothing does) and the error.   *)
(***************************************************************************)
Push(s, e) ==
    IF Len(s.event_q) = QueueCapacity THEN [s EXCEPT !.error = "EventQueueFull"]
    ELSE [s EXCEPT !.event_q = Append(@, e)]

Fill(side, maker, paid, received, fee_or_rebate, id, leaf) ==
    [kind |-> "Fill", side |-> side, maker |-> maker, paid |-> paid,
     received |-> received, fee_or_rebate |-> fee_or_rebate,
     id |-> id, owner |-> leaf.owner, slot |-> leaf.slot, client |-> leaf.client]

Out(side, release_funds, unlocked, still_locked, id, leaf) ==
    [kind |-> "Out", side |-> side, release_funds |-> release_funds,
     unlocked |-> unlocked, still_locked |-> still_locked,
     id |-> id, owner |-> leaf.owner, slot |-> leaf.slot, client |-> leaf.client]

\* find_bbo
Best(s, side) ==
    IF side = "Bid" THEN Max(DOMAIN s.book["Bid"]) ELSE Min(DOMAIN s.book["Ask"])

\* The token that an order of a side pays in, and what it has locked per lot.
Pays(side) == IF side = "Bid" THEN "pc" ELSE "coin"
Worth(side, id) == IF side = "Bid" THEN Price(id) * pc_lot_size ELSE coin_lot_size

Opposite(side) == IF side = "Bid" THEN "Ask" ELSE "Bid"

WithoutOrder(m, id) == [j \in DOMAIN m \ {id} |-> m[j]]

\* A resting order is left with qty, or removed.
Reduce(s, side, id, qty) ==
    [s EXCEPT !.book[side] = IF qty = 0 THEN WithoutOrder(@, id)
                             ELSE [@ EXCEPT ![id].qty = qty]]

\* insert_leaf; when the side is full its least aggressive order is booted
\* out first, even if the new one is less aggressive still.
Post(s, side, id, leaf) ==
    LET m == s.book[side]
        worst == IF side = "Bid" THEN Min(DOMAIN m) ELSE Max(DOMAIN m)
        booted == Push(Reduce(s, side, worst, 0),
                       Out(side, TRUE, m[worst].qty * Worth(side, worst), 0, worst, m[worst]))
        room == IF Cardinality(DOMAIN m) < BookCapacity THEN s ELSE booted
    IN  [room EXCEPT !.book[side] =
            [j \in DOMAIN @ \cup {id} |-> IF j = id THEN leaf ELSE @[j]]]

Crossed(s, o) ==
    LET trade_price == Price(Best(s, Opposite(o.side))) IN
    /\ DOMAIN s.book[Opposite(o.side)] # {}
    /\ IF o.side = "Bid" THEN o.price >= trade_price ELSE o.price <= trade_price

\* The end of new_ask and of new_bid: what remains is posted, or released.
Finish(s, o, crossed, post_allowed) ==
    LET may_post == post_allowed /\ ~crossed
        bid_lots == Min({s.coin_rest, (s.pc_rest \div pc_lot_size) \div o.price})
        lots == IF ~may_post THEN 0 ELSE IF o.side = "Bid" THEN bid_lots ELSE s.coin_rest
        locked == lots * Worth(o.side, o.id)
        released == (IF o.side = "Bid" THEN s.pc_rest ELSE s.coin_rest * coin_lot_size) - locked
        leaf == [owner |-> o.owner, slot |-> o.slot, qty |-> lots, tier |-> o.tier,
                 client |-> o.client, seq |-> o.seq]
        done == [s EXCEPT !.unlocked[Pays(o.side)] = @ + released,
                          !.coin_rest = 0, !.pc_rest = 0]
        out == IF o.side = "Ask" /\ lots > 0 THEN done
               ELSE Push(done, Out(o.side, FALSE, released, locked, o.id, o))
    IN  IF lots > 0 THEN Post(out, o.side, o.id, leaf) ELSE out

\* The best opposite order is the taker's own.
SelfTrade(s, o, best, trade_qty) ==
    LET side == Opposite(o.side)
        leaf == s.book[side][best]
        provide == IF o.self_trade = "CancelProvide" THEN leaf.qty ELSE trade_qty
        take == IF o.self_trade = "CancelProvide" THEN 0 ELSE trade_qty
        left == leaf.qty - provide
        worth == Worth(side, best)
        provided == Push(Reduce(s, side, best, left),
                         Out(side, TRUE, provide * worth, left * worth, best, leaf))
        coin_rest == s.coin_rest - take
        pc_rest == s.pc_rest - take * Price(best) * pc_lot_size
        over == coin_rest = 0 \/ (o.side = "Bid" /\ pc_rest = 0)
        unlocked == IF o.side = "Ask" THEN take * coin_lot_size
                    ELSE IF over THEN s.pc_rest ELSE s.pc_rest - pc_rest
        still_locked == IF over THEN 0 ELSE IF o.side = "Ask" THEN coin_rest ELSE pc_rest
    IN  Push([provided EXCEPT !.unlocked[Pays(o.side)] = @ + unlocked,
                              !.coin_rest = IF over THEN 0 ELSE coin_rest,
                              !.pc_rest = IF over \/ o.side = "Ask" THEN 0 ELSE pc_rest],
             Out(o.side, FALSE, unlocked, still_locked, o.id, o))

\* A trade with the best opposite order, up to where its fees are booked.
Trade(s, o, best, qty) ==
    LET side == Opposite(o.side)
        leaf == s.book[side][best]
        coin == qty * coin_lot_size
        pc == qty * Price(best) * pc_lot_size
        rebate == MakerRebate(leaf.tier, pc)
        fee == TakerFee(o.tier, pc)
        maker_fill == IF side = "Bid"
                      THEN Fill("Bid", TRUE, pc - rebate, coin, rebate, best, leaf)
                      ELSE Fill("Ask", TRUE, coin, pc + rebate, rebate, best, leaf)
        filled == Push(Reduce(s, side, best, leaf.qty - qty), maker_fill)
        made == IF leaf.qty > qty THEN filled
                ELSE Push(filled, Out(side, TRUE, 0, 0, best, leaf))
        taker_fill == IF o.side = "Ask"
                      THEN Fill("Ask", FALSE, coin, pc - fee, fee, o.id, o)
                      ELSE Fill("Bid", FALSE, pc + fee, coin, fee, o.id, o)
    IN  [Push(made, taker_fill) EXCEPT
            !.credit = IF o.side = "Ask" THEN [@ EXCEPT !.pc = @ + pc - fee]
                                         ELSE [@ EXCEPT !.coin = @ + coin],
            !.debit = IF o.side = "Ask" THEN [@ EXCEPT !.coin = @ + coin]
                                        ELSE [@ EXCEPT !.pc = @ + pc + fee],
            !.coin_rest = @ - qty,
            !.pc_rest = IF o.side = "Ask" THEN 0 ELSE @ - pc - fee,
            !.mkt.referrer_rebates_accrued = @ + ReferrerRebate(fee),
            !.mkt.pc_fees_accrued = @ + fee - rebate - ReferrerRebate(fee),
            !.mkt.deposits_total.pc = @ - (fee - rebate)]

\* new_ask and new_bid.
MatchOnce(s, o, post_only, post_allowed) ==
    LET crossed == Crossed(s, o)
        best == Best(s, Opposite(o.side))
        leaf == s.book[Opposite(o.side)][best]
        affordable == (RemoveTakerFee(o.tier, s.pc_rest) \div pc_lot_size) \div Price(best)
        trade_qty == Min({leaf.qty, s.coin_rest} \cup
                         (IF o.side = "Bid" THEN {affordable} ELSE {}))
        traded == Trade(s, o, best, trade_qty)
    IN  IF ~crossed \/ post_only \/ trade_qty = 0
        THEN Finish(s, o, crossed, post_allowed)
        ELSE IF leaf.owner = o.owner
        THEN IF o.self_trade = "AbortTransaction" THEN [s EXCEPT !.error = "WouldSelfTrade"]
             ELSE SelfTrade(s, o, best, trade_qty)
        ELSE IF traded.coin_rest > 0 /\ (o.side = "Ask" \/ traded.pc_rest > 0)
        THEN traded
        ELSE Finish(traded, o, TRUE, post_allowed)

\* A plausible bug: the loop ends with the limit, without the last turn.
NewOrder_NoLastTurn(s, o) ==
    LET Turn(t, left) ==
            IF t.error # None \/ t.coin_rest = 0 THEN t
            ELSE MatchOnce(t, o, o.order_type = "PostOnly", o.order_type # "ImmediateOrCancel")
    IN  FoldLeft(Turn, s, [i \in 1 .. o.limit |-> i])

\* new_order: one match for each unit of the limit, and a last turn that only
\* posts or releases.
NewOrder(s, o) ==
    LET Turn(t, left) ==
            IF t.error # None \/ t.coin_rest = 0 THEN t
            ELSE MatchOnce(t, o, o.order_type = "PostOnly" \/ left = 0,
                           o.order_type # "ImmediateOrCancel" \/ left = 0)
    IN  FoldLeft(Turn, s, [i \in 1 .. o.limit + 1 |-> o.limit + 1 - i])

(***************************************************************************)
(* The instructions.                                                       *)
(***************************************************************************)
\* Whether an account's balances pass the program's assertions.
Sound(acc) ==
    \A t \in {"coin", "pc"} : 0 <= acc.free[t] /\ acc.free[t] <= acc.total[t]

InitializeMarket(flags, prune) ==
    /\ mkt.flags = "none"
    /\ mkt' = [mkt EXCEPT !.flags = flags, !.prune = prune]
    /\ UNCHANGED <<book, event_q, next_seq_num, oo, tokens, failed>>

InitOpenOrders(a, authority) ==
    /\ Enabled
    /\ oo[a].flags = "none"
    /\ InitOrders(a, authority).flags = "open"
    /\ oo' = [oo EXCEPT ![a] = InitOrders(a, authority)]
    /\ UNCHANGED <<mkt, book, event_q, next_seq_num, tokens, failed>>

\* add_order: the lowest free slot.
FreeSlot(acc) == Min(Slots \ UsedSlots(acc))

NewOrderV3(a, i) ==
    LET t == Pays(i.side)
        acc == InitOrders(a, FALSE)
        lock == IF i.side = "Bid" THEN i.pc_qty ELSE i.qty * coin_lot_size
        from_free == Min({lock, acc.free[t]})
        deposit == lock - from_free
        id == GenOrderId(i.price, i.side, next_seq_num)
        slot == FreeSlot(acc)
        order == [side |-> i.side, order_type |-> i.order_type, price |-> i.price,
                  self_trade |-> i.self_trade, limit |-> i.limit, client |-> i.client,
                  id |-> id, owner |-> a, slot |-> slot, tier |-> Tier[a],
                  seq |-> next_seq_num]
        zero == [coin |-> 0, pc |-> 0]
        s == [book |-> book, event_q |-> event_q,
              mkt |-> [mkt EXCEPT !.deposits_total[t] = @ + deposit],
              unlocked |-> zero, credit |-> zero, debit |-> zero, error |-> None,
              coin_rest |-> i.qty, pc_rest |-> IF i.side = "Bid" THEN i.pc_qty ELSE 0]
        r == NewOrder(s, order)
        locked == [acc EXCEPT !.free[t] = @ - from_free, !.total[t] = @ + deposit,
                              !.orders[slot] = [id |-> id, side |-> i.side, client |-> i.client]]
        settled == [locked EXCEPT
                      !.free = [u \in {"coin", "pc"} |-> @[u] + r.credit[u] + r.unlocked[u]],
                      !.total = [u \in {"coin", "pc"} |-> @[u] + r.credit[u] - r.debit[u]]]
    IN  /\ Enabled /\ acc.flags = "open"
        /\ next_seq_num < SeqSpan
        /\ tokens[t][a] >= deposit
        /\ UsedSlots(acc) # Slots
        /\ r.error = None
        /\ next_seq_num' = next_seq_num + 1
        /\ book' = r.book
        /\ event_q' = r.event_q
        /\ mkt' = r.mkt
        /\ oo' = [oo EXCEPT ![a] = settled]
        /\ tokens' = Transfer(t, a, "vault", deposit)
        /\ failed' = (failed \/ r.coin_rest # 0 \/ ~Sound(settled))

\* A plausible bug: the funds are released here and once more by the
\* event; the slot is freed here, while the event is still to come.
CancelLeaf_ReleasesTwice(s, side, id) ==
    LET leaf == s.book[side][id]
        worth == leaf.qty * Worth(side, id)
    IN  [Push(Reduce(s, side, id, 0), Out(side, TRUE, worth, 0, id, leaf)) EXCEPT
            !.acc.free[Pays(side)] = @ + worth]

\* cancel_leaf_node, on the record of a request with the account acc.
CancelLeaf(s, side, id) ==
    LET leaf == s.book[side][id]
        worth == leaf.qty * Worth(side, id)
        entry == s.acc.orders[leaf.slot]
        matches == entry # None /\ entry.id = id /\ entry.side = side
        acc == [s.acc EXCEPT !.free[Pays(side)] = @ + worth]
    IN  [Push(Reduce(s, side, id, 0), Out(side, FALSE, worth, 0, id, leaf)) EXCEPT
            !.acc = acc, !.sound = @ /\ matches /\ Sound(acc)]

\* The orders ids, pairs of a side and an id, are cancelled in turn.
CancelAll(a, ids) ==
    LET start == [book |-> book, event_q |-> event_q, acc |-> oo[a], error |-> None,
                  sound |-> TRUE]
        r == FoldLeft(LAMBDA s, p : CancelLeaf(s, p[1], p[2]), start, ids)
    IN  /\ r.error = None
        /\ book' = r.book
        /\ event_q' = r.event_q
        /\ oo' = [oo EXCEPT ![a] = r.acc]
        /\ failed' = (failed \/ ~r.sound)
        /\ UNCHANGED <<mkt, next_seq_num, tokens>>

CancelOrderV2(a, side, id) ==
    /\ Loaded(a)
    /\ id \in DOMAIN book[side]
    /\ book[side][id].owner = a
    /\ CancelAll(a, <<<<side, id>>>>)

\* The first slot with the client's id, whether or not its order still rests.
CancelOrderByClientIdV2(a, client) ==
    LET named == {s \in UsedSlots(oo[a]) : oo[a].orders[s].client = client}
        entry == oo[a].orders[Min(named)]
    IN  /\ client # 0
        /\ named # {}
        /\ CancelOrderV2(a, entry.side, entry.id)

Descending(S) == SetToSortSeq(S, >)

\* remove_all: the orders of the account that the two searches, which share the
\* limit, come to.  A search visits fewer than two nodes for each order.
Prune(a, limit) ==
    LET mine == [side \in {"Bid", "Ask"} |->
                    {id \in DOMAIN book[side] : book[side][id].owner = a}]
        nodes == 2 * (Cardinality(DOMAIN book["Bid"]) + Cardinality(DOMAIN book["Ask"]))
        pairs(side, S) == [n \in 1 .. Cardinality(S) |-> <<side, Descending(S)[n]>>]
    IN  /\ Loaded(a)
        /\ mkt.prune
        /\ \E bids \in SUBSET mine["Bid"], asks \in SUBSET mine["Ask"] :
              /\ bids \cup asks # {}
              /\ Cardinality(bids) + Cardinality(asks) <= limit
              /\ limit >= nodes => bids = mine["Bid"] /\ asks = mine["Ask"]
              /\ CancelAll(a, pairs("Bid", bids) \o pairs("Ask", asks))

\* The account after a maker's fill, and after an order's last event.
AfterFill(acc, e) ==
    IF e.side = "Bid"
    THEN [acc EXCEPT !.total.pc = @ - e.paid, !.total.coin = @ + e.received,
                     !.free.coin = @ + e.received, !.free.pc = @ + e.fee_or_rebate]
    ELSE [acc EXCEPT !.total.coin = @ - e.paid, !.total.pc = @ + e.received,
                     !.free.pc = @ + e.received]

AfterOut(acc, e) ==
    [acc EXCEPT !.free[Pays(e.side)] = @ + (IF e.release_funds THEN e.unlocked ELSE 0),
                !.orders[e.slot] = IF e.still_locked = 0 THEN None ELSE @]

\* The account after one event, by the body of process_consume_events's loop.
Apply(acc, e) ==
    LET entry == acc.orders[e.slot]
        sound == /\ acc.flags = "open"
                 /\ entry # None /\ entry.side = e.side /\ entry.id = e.id
        after == IF e.kind = "Out" THEN AfterOut(acc, e)
                 ELSE IF e.maker THEN AfterFill(acc, e)
                 ELSE [acc EXCEPT !.rebates = @ + ReferrerRebate(e.fee_or_rebate)]
        t == Pays(e.side)
    IN  [acc |-> after,
         sound |-> sound /\ (e.kind = "Out" => after.free[t] <= after.total[t])]

\* The events up to the first whose account was not passed, at most limit.
ConsumeEvents(given, limit) ==
    LET n == Max({m \in 0 .. Min({limit, Len(event_q)}) :
                    \A j \in 1..m : event_q[j].owner \in given})
        ApplyNext(s, e) ==
            LET r == Apply(s.oo[e.owner], e)
            IN  [oo |-> [s.oo EXCEPT ![e.owner] = r.acc], sound |-> s.sound /\ r.sound]
        r == FoldLeft(ApplyNext, [oo |-> oo, sound |-> TRUE], SubSeq(event_q, 1, n))
    IN  /\ Enabled
        /\ n > 0
        /\ event_q' = SubSeq(event_q, n + 1, Len(event_q))
        /\ oo' = r.oo
        /\ failed' = (failed \/ ~r.sound)
        /\ UNCHANGED <<mkt, book, next_seq_num, tokens>>

SettleFunds(a, referrer) ==
    LET acc == oo[a]
        paid == IF referrer THEN acc.rebates ELSE 0
    IN  /\ Loaded(a)
        /\ tokens["coin"]["vault"] >= acc.free.coin
        /\ tokens["pc"]["vault"] >= acc.free.pc + paid
        /\ mkt' = [mkt EXCEPT
                     !.deposits_total = [t \in {"coin", "pc"} |-> @[t] - acc.free[t]],
                     !.pc_fees_accrued = @ + acc.rebates - paid,
                     !.referrer_rebates_accrued = @ - acc.rebates]
        /\ oo' = [oo EXCEPT ![a].total = [t \in {"coin", "pc"} |-> @[t] - acc.free[t]],
                            ![a].free = [coin |-> 0, pc |-> 0],
                            ![a].rebates = 0]
        /\ tokens' = [coin |-> [tokens["coin"] EXCEPT !["vault"] = @ - acc.free.coin,
                                                      ![a] = @ + acc.free.coin],
                      pc |-> [tokens["pc"] EXCEPT !["vault"] = @ - acc.free.pc - paid,
                                                  ![a] = @ + acc.free.pc,
                                                  !["referrer"] = @ + paid]]
        /\ UNCHANGED <<book, event_q, next_seq_num, failed>>

SweepFees ==
    /\ Enabled
    /\ mkt.pc_fees_accrued > 0
    /\ tokens["pc"]["vault"] >= mkt.pc_fees_accrued
    /\ mkt' = [mkt EXCEPT !.pc_fees_accrued = 0]
    /\ tokens' = Transfer("pc", "vault", "fee_receiver", mkt.pc_fees_accrued)
    /\ UNCHANGED <<book, event_q, next_seq_num, oo, failed>>

\* The flag makes every later Market::load fail.
DisableMarket ==
    /\ Enabled
    /\ mkt' = [mkt EXCEPT !.flags = "disabled"]
    /\ UNCHANGED <<book, event_q, next_seq_num, oo, tokens, failed>>

CloseOpenOrders(a) ==
    /\ Loaded(a)
    /\ UsedSlots(oo[a]) = {}
    /\ oo[a].total = [coin |-> 0, pc |-> 0]
    /\ oo' = [oo EXCEPT ![a].flags = "closed"]
    /\ UNCHANGED <<mkt, book, event_q, next_seq_num, tokens, failed>>

\* External: an account without lamports is removed; its address may be used
\* again for a new one.
Purge(a) ==
    /\ oo[a].flags = "closed"
    /\ oo' = [oo EXCEPT ![a] = NewOpenOrders]
    /\ UNCHANGED <<mkt, book, event_q, next_seq_num, tokens, failed>>

Next ==
    \/ \E kind \in Kinds : InitializeMarket(kind.flags, kind.prune)
    \/ DisableMarket
    \/ SweepFees
    \/ \E given \in SUBSET Accounts, limit \in 1..2 : ConsumeEvents(given, limit)
    \/ \E a \in Accounts :
          \/ \E authority \in BOOLEAN : InitOpenOrders(a, authority)
          \/ \E i \in Instructions[a] : NewOrderV3(a, i)
          \/ \E side \in {"Bid", "Ask"} : \E id \in DOMAIN book[side] : CancelOrderV2(a, side, id)
          \/ \E i \in Instructions[a] : CancelOrderByClientIdV2(a, i.client)
          \/ \E limit \in PruneLimits : Prune(a, limit)
          \/ \E referrer \in BOOLEAN : SettleFunds(a, referrer)
          \/ CloseOpenOrders(a)
          \/ Purge(a)

\* ConsumeEvents with every account and a limit of 1.
Crank ==
    LET e == Head(event_q)
        r == Apply(oo[e.owner], e)
    IN  /\ Enabled
        /\ event_q # <<>>
        /\ event_q' = Tail(event_q)
        /\ oo' = [oo EXCEPT ![e.owner] = r.acc]
        /\ failed' = (failed \/ ~r.sound)
        /\ UNCHANGED <<mkt, book, next_seq_num, tokens>>

Spec == Init /\ [][Next]_vars /\ WF_vars(Crank)
-----------------------------------------------------------------------------
Tokens == {"coin", "pc"}
Pending == DOMAIN event_q
SumOver(S, F(_)) == MapThenSumSet(F, S)

\* No amount that the program keeps ever wraps below zero: the subtractions of
\* matching and of consuming events are not checked.
TypeOK ==
    /\ mkt.flags \in {"none", "market", "permissioned", "disabled"}
    /\ mkt.deposits_total \in [Tokens -> Nat]
    /\ mkt.pc_fees_accrued \in Nat /\ mkt.referrer_rebates_accrued \in Nat
    /\ next_seq_num \in 0..SeqSpan
    /\ Len(event_q) <= QueueCapacity
    /\ \A side \in {"Bid", "Ask"} :
           /\ Cardinality(DOMAIN book[side]) <= BookCapacity
           /\ \A id \in DOMAIN book[side] : book[side][id].qty \in Nat \ {0}
    /\ \A a \in Accounts : /\ oo[a].flags \in {"none", "open", "closed"}
                           /\ oo[a].free \in [Tokens -> Nat]
                           /\ oo[a].total \in [Tokens -> Nat]
                           /\ oo[a].rebates \in Nat
    /\ tokens \in [Tokens -> [Holders -> Nat]]

\* No assertion of the program about its own data fails: an order is always
\* matched to its end, an account never has more free than in total, and every
\* event finds the order that it is about.
NoAssertionFails == ~failed

\* The vaults hold exactly what the market has booked: the deposits, the fees,
\* and the referrers' shares.
VaultsMatchTheMarket ==
    /\ tokens["coin"]["vault"] = mkt.deposits_total.coin
    /\ tokens["pc"]["vault"] =
           mkt.deposits_total.pc + mkt.pc_fees_accrued + mkt.referrer_rebates_accrued

\* What the pending fills of makers will add to the accounts' totals of t.
PendingTotal(t) ==
    LET fills == {j \in Pending : event_q[j].kind = "Fill" /\ event_q[j].maker}
        Change(j) == IF Pays(event_q[j].side) = t THEN -event_q[j].paid
                                                  ELSE event_q[j].received
    IN  SumOver(fills, Change)

\* The market's deposits are the accounts' totals, once the fills in the queue
\* are taken into account: matching books a trade in the market at once, and
\* in the maker's account only when its event is consumed.
DepositsAreTheAccounts ==
    \A t \in Tokens :
        mkt.deposits_total[t] = SumOver(Accounts, LAMBDA a : oo[a].total[t]) + PendingTotal(t)

\* What pending events will release to a of t: from an order that is out, or
\* for what a maker's fill pays.
PendingRelease(a, t) ==
    LET mine == {j \in Pending : event_q[j].owner = a /\ Pays(event_q[j].side) = t}
        outs == {j \in mine : event_q[j].kind = "Out" /\ event_q[j].release_funds}
        fills == {j \in mine : event_q[j].kind = "Fill" /\ event_q[j].maker}
        Spent(j) == event_q[j].paid +
                    (IF event_q[j].side = "Bid" THEN event_q[j].fee_or_rebate ELSE 0)
    IN  SumOver(outs, LAMBDA j : event_q[j].unlocked) + SumOver(fills, Spent)

\* What the resting orders of a have locked of t.
Resting(a, t) ==
    LET side == IF t = "pc" THEN "Bid" ELSE "Ask"
        mine == {id \in DOMAIN book[side] : book[side][id].owner = a}
    IN  SumOver(mine, LAMBDA id : book[side][id].qty * Worth(side, id))

\* An account has locked exactly what its resting orders and its pending events
\* account for: nothing is free while an order needs it, and nothing stays
\* locked when no order does.
LockedBacksOrders ==
    \A a \in Accounts, t \in Tokens :
        oo[a].total[t] - oo[a].free[t] = Resting(a, t) + PendingRelease(a, t)

\* Every event in the queue, when its turn comes, passes the checks of
\* process_consume_events: its account is still open, and its slot still holds
\* its order.  Otherwise no event behind it could ever be consumed.
EventsCanBeConsumed ==
    LET ApplyNext(s, e) ==
            LET r == Apply(s.oo[e.owner], e)
            IN  [oo |-> [s.oo EXCEPT ![e.owner] = r.acc], sound |-> s.sound /\ r.sound]
    IN  FoldLeft(ApplyNext, [oo |-> oo, sound |-> TRUE], event_q).sound

\* The book is never crossed, and every resting order is the one in its
\* owner's slot.
BookIsConsistent ==
    /\ \A b \in DOMAIN book["Bid"], k \in DOMAIN book["Ask"] : Price(b) < Price(k)
    /\ \A side \in {"Bid", "Ask"} : \A id \in DOMAIN book[side] :
           LET leaf == book[side][id] IN
           oo[leaf.owner].orders[leaf.slot] = [id |-> id, side |-> side, client |-> leaf.client]

\* Price-time priority: when a resting order is filled, no order of its side
\* that has a better price, or the same price and came earlier, is left.
BestAndOldestFirst ==
    [][ \A j \in Len(event_q) + 1 .. Len(event_q') :
          LET e == event_q'[j] IN
          (e.kind = "Fill" /\ e.maker) =>
              \A id \in DOMAIN book[e.side] \cap DOMAIN book'[e.side] :
                  id # e.id =>
                      IF Price(id) = Price(e.id)
                      THEN book[e.side][id].seq > book[e.side][e.id].seq
                      ELSE (e.side = "Bid") = (Price(id) < Price(e.id)) ]_vars

\* While someone runs the crank, the slot of an order that no longer rests is
\* given back, unless the market is disabled.
SlotsAreFreed ==
    \A a \in Accounts, s \in Slots :
        (oo[a].orders[s] # None /\ oo[a].orders[s].id \notin DOMAIN book["Bid"] \cup DOMAIN book["Ask"])
            ~> (oo[a].orders[s] = None \/ mkt.flags = "disabled")

\* The program never fails over its own data: no assertion, no subtraction below
\* zero, and no event that could not be consumed (process_consume_events).
AssertionsHold == TypeOK /\ NoAssertionFails /\ EventsCanBeConsumed

\* What is in the vaults is what the market owes, what the market owes is what the
\* accounts have, and what they have locked is what their orders need (matching.rs,
\* process_consume_events, process_settle_funds).
FundsAreBacked == VaultsMatchTheMarket /\ DepositsAreTheAccounts /\ LockedBacksOrders

\* The book is uncrossed and filled best and oldest first, and while the crank runs
\* the slots of orders that are gone are given back (match_orders, AfterOut).
BookIsInOrder == []BookIsConsistent /\ BestAndOldestFirst /\ SlotsAreFreed
=============================================================================
