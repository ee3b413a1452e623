----------------------------- MODULE DexClient -----------------------------
(***************************************************************************)
(* The instructions of the exchange on their way from a client to the      *)
(* program: the functions of serum_dex/instruction.rs that build them,     *)
(* pack, unpack (which the indexer's plugin uses as well), and the parsers *)
(* of the account lists in state.rs.  What the instructions do is in       *)
(* Market.                                                                 *)
(*                                                                         *)
(* A byte is named by the field it belongs to and its place in it, with    *)
(* its top bit where that is the field's top bit; an account by its role.  *)
(***************************************************************************)
EXTENDS Integers, FiniteSetsExt, SequencesExt

CONSTANTS
    MaxOrders,  \* bound: OpenOrders accounts that events are consumed for
    None

VARIABLES
    call,     \* what the client calls
    sent,     \* the instruction that is sent: its bytes and its accounts
    outcome   \* what the program makes of it

vars == <<call, sent, outcome>>

(***************************************************************************)
(* MarketInstruction: its variants, in the order of their discriminants,   *)
(* with the fields and their widths in the order in which they are         *)
(* serialised.                                                             *)
(***************************************************************************)
Field(name, width) == [name |-> name, width |-> width]

OrderFields == <<Field("side", 4), Field("limit_price", 8), Field("max_qty", 8),
                 Field("order_type", 4), Field("client_id", 8)>>

Variants == <<
    [name |-> "InitializeMarket",
     fields |-> <<Field("coin_lot_size", 8), Field("pc_lot_size", 8), Field("fee_rate_bps", 2),
                  Field("vault_signer_nonce", 8), Field("pc_dust_threshold", 8)>>],
    [name |-> "NewOrder", fields |-> OrderFields],
    [name |-> "MatchOrders", fields |-> <<Field("limit", 2)>>],
    [name |-> "ConsumeEvents", fields |-> <<Field("limit", 2)>>],
    [name |-> "CancelOrder",
     fields |-> <<Field("side", 4), Field("order_id", 16), Field("owner", 32),
                  Field("owner_slot", 1)>>],
    [name |-> "SettleFunds", fields |-> <<>>],
    [name |-> "CancelOrderByClientId", fields |-> <<Field("client_id", 8)>>],
    [name |-> "DisableMarket", fields |-> <<>>],
    [name |-> "SweepFees", fields |-> <<>>],
    [name |-> "NewOrderV2", fields |-> Append(OrderFields, Field("self_trade_behavior", 4))],
    [name |-> "NewOrderV3",
     fields |-> <<Field("side", 4), Field("limit_price", 8), Field("max_coin_qty", 8),
                  Field("max_native_pc_qty_including_fees", 8), Field("self_trade_behavior", 4),
                  Field("order_type", 4), Field("client_order_id", 8), Field("limit", 2)>>],
    [name |-> "CancelOrderV2", fields |-> <<Field("side", 4), Field("order_id", 16)>>],
    [name |-> "CancelOrderByClientIdV2", fields |-> <<Field("client_id", 8)>>],
    [name |-> "SendTake",
     fields |-> <<Field("side", 4), Field("limit_price", 8), Field("max_coin_qty", 8),
                  Field("max_native_pc_qty_including_fees", 8), Field("min_coin_qty", 8),
                  Field("min_native_pc_qty", 8), Field("limit", 2)>>],
    [name |-> "CloseOpenOrders", fields |-> <<>>],
    [name |-> "InitOpenOrders", fields |-> <<>>],
    [name |-> "Prune", fields |-> <<Field("limit", 2)>>],
    [name |-> "ConsumeEventsPermissioned", fields |-> <<Field("limit", 2)>>] >>

\* The fields in high have a value whose top bit is set.
Bytes(f, high) ==
    [i \in 1 .. f.width |-> <<f.name, i, i = f.width /\ f.name \in high>>]

\* pack: a version, the variant's number, and the bytes of the fields.
Pack(name, high) ==
    LET d == CHOOSE i \in DOMAIN Variants : Variants[i].name = name
    IN  [version |-> 0, discrim |-> d - 1,
         data |-> FoldLeft(LAMBDA acc, f : acc \o Bytes(f, high), <<>>, Variants[d].fields)]

(***************************************************************************)
(* unpack: by discriminant and length, the fields that are read, with      *)
(* their widths.                                                           *)
(***************************************************************************)
\* NewOrderInstructionV1::unpack
UnpackV1 == <<Field("side", 4), Field("limit_price", 8), Field("max_qty", 8),
              Field("order_type", 4), Field("client_id", 8)>>

\* A plausible bug: the two enumerations are read in the other order.
UnpackV3_Swapped ==
    <<Field("side", 4), Field("limit_price", 8), Field("max_coin_qty", 8),
      Field("max_native_pc_qty_including_fees", 8), Field("order_type", 4),
      Field("self_trade_behavior", 4), Field("client_order_id", 8), Field("limit", 2)>>

\* NewOrderInstructionV3::unpack
UnpackV3 ==
    <<Field("side", 4), Field("limit_price", 8), Field("max_coin_qty", 8),
      Field("max_native_pc_qty_including_fees", 8), Field("self_trade_behavior", 4),
      Field("order_type", 4), Field("client_order_id", 8), Field("limit", 2)>>

\* SendTakeInstruction::unpack
UnpackTake ==
    <<Field("side", 4), Field("limit_price", 8), Field("max_coin_qty", 8),
      Field("max_native_pc_qty_including_fees", 8), Field("min_coin_qty", 8),
      Field("min_native_pc_qty", 8), Field("limit", 2)>>

\* The match in unpack.
Table ==
    LET Row(d, len, name, fields) ==
            [discrim |-> d, len |-> len, name |-> name, fields |-> fields]
        Limit == <<Field("limit", 2)>>
    IN  { Row(0, 34, "InitializeMarket",
              <<Field("coin_lot_size", 8), Field("pc_lot_size", 8), Field("fee_rate_bps", 2),
                Field("vault_signer_nonce", 8), Field("pc_dust_threshold", 8)>>),
          Row(1, 32, "NewOrder", UnpackV1),
          Row(2, 2, "MatchOrders", Limit),
          Row(3, 2, "ConsumeEvents", Limit),
          Row(4, 53, "CancelOrder", <<Field("side", 4), Field("order_id", 16),
                                      Field("owner", 32), Field("owner_slot", 1)>>),
          Row(5, 0, "SettleFunds", <<>>),
          Row(6, 8, "CancelOrderByClientId", <<Field("client_id", 8)>>),
          Row(7, 0, "DisableMarket", <<>>),
          Row(8, 0, "SweepFees", <<>>),
          Row(9, 36, "NewOrderV2", Append(UnpackV1, Field("self_trade_behavior", 4))),
          Row(10, 46, "NewOrderV3", UnpackV3),
          Row(11, 20, "CancelOrderV2", <<Field("side", 4), Field("order_id", 16)>>),
          Row(12, 8, "CancelOrderByClientIdV2", <<Field("client_id", 8)>>),
          Row(13, 46, "SendTake", UnpackTake),
          Row(14, 0, "CloseOpenOrders", <<>>),
          Row(15, 0, "InitOpenOrders", <<>>),
          Row(16, 2, "Prune", Limit),
          Row(17, 2, "ConsumeEventsPermissioned", Limit) }

\* The instruction that the bytes are taken for, each field with its bytes.
Unpack(bytes) ==
    LET rows == {r \in Table : r.discrim = bytes.discrim /\ r.len = Len(bytes.data)}
        row == CHOOSE r \in rows : TRUE
        Start(n) == FoldLeft(LAMBDA acc, f : acc + f.width, 0, SubSeq(row.fields, 1, n - 1))
    IN  IF bytes.version # 0 \/ Len(bytes.data) > 53 \/ rows = {} THEN None
        ELSE [name |-> row.name,
              args |-> [f \in {row.fields[n].name : n \in DOMAIN row.fields} |->
                  LET n == CHOOSE m \in DOMAIN row.fields : row.fields[m].name = f
                  IN  SubSeq(bytes.data, Start(n) + 1, Start(n) + row.fields[n].width)]]

(***************************************************************************)
(* The functions that build instructions.                                  *)
(***************************************************************************)
Metas(roles, writable, signer) ==
    [i \in DOMAIN roles |-> [role |-> roles[i], writable |-> writable, signer |-> signer]]

Writes(roles) == Metas(roles, TRUE, FALSE)    \* AccountMeta::new(_, false)
Reads(roles) == Metas(roles, FALSE, FALSE)    \* AccountMeta::new_readonly(_, false)
Signs(role) == Metas(<<role>>, FALSE, TRUE)   \* AccountMeta::new_readonly(_, true)

Built(name, accounts) == [bytes |-> Pack(name, {}), accounts |-> accounts]

\* Each authority is passed only along with the one before it.
initialize_market(authorities) ==
    Built("InitializeMarket",
          Writes(<<"market", "req_q", "event_q", "bids", "asks", "coin_vault", "pc_vault">>)
          \o Reads(<<"coin_mint", "pc_mint", "rent">>)
          \o Reads(SubSeq(<<"market_authority", "prune_authority", "consume_events_authority">>,
                          1, authorities)))

new_order(srm, high) ==
    [bytes |-> Pack("NewOrderV3", high),
     accounts |->
        Writes(<<"market", "open_orders", "req_q", "event_q", "bids", "asks", "payer">>)
        \o Signs("owner") \o Writes(<<"coin_vault", "pc_vault">>)
        \o Reads(<<"spl_token_program", "rent">>)
        \o (IF srm THEN Writes(<<"fee_discount">>) ELSE <<>>)]

match_orders ==
    Built("MatchOrders",
          Writes(<<"market", "req_q", "event_q", "bids", "asks", "coin_fee", "pc_fee">>))

consume_events(n) ==
    Built("ConsumeEvents",
          Writes([i \in 1..n |-> "open_orders"])
          \o Writes(<<"market", "event_q", "coin_fee", "pc_fee">>))

\* The variant that is packed is not the permissioned one.
consume_events_permissioned(n) ==
    Built("ConsumeEvents",
          Writes([i \in 1..n |-> "open_orders"])
          \o Writes(<<"market", "event_q">>) \o Signs("consume_events_authority"))

cancel_order ==
    Built("CancelOrderV2",
          Writes(<<"market", "bids", "asks", "open_orders">>) \o Signs("owner")
          \o Writes(<<"event_q">>))

cancel_order_by_client_order_id ==
    Built("CancelOrderByClientIdV2",
          Writes(<<"market", "bids", "asks", "open_orders">>) \o Signs("owner")
          \o Writes(<<"event_q">>))

settle_funds(referrer) ==
    Built("SettleFunds",
          Writes(<<"market", "open_orders">>) \o Signs("owner")
          \o Writes(<<"coin_vault", "pc_vault", "coin_wallet", "pc_wallet">>)
          \o Reads(<<"vault_signer", "spl_token_program">>)
          \o (IF referrer THEN Writes(<<"referrer">>) ELSE <<>>))

disable_market == Built("DisableMarket", Writes(<<"market">>) \o Signs("disable_authority"))

sweep_fees ==
    Built("SweepFees",
          Writes(<<"market", "pc_vault">>) \o Signs("fee_sweeper") \o Writes(<<"fee_receiver">>)
          \o Reads(<<"vault_signer", "spl_token_program">>))

close_open_orders ==
    Built("CloseOpenOrders",
          Writes(<<"open_orders">>) \o Signs("owner") \o Writes(<<"destination">>)
          \o Reads(<<"market">>))

init_open_orders(authority) ==
    Built("InitOpenOrders",
          Writes(<<"open_orders">>) \o Signs("owner") \o Reads(<<"market", "rent">>)
          \o (IF authority THEN Signs("market_authority") ELSE <<>>))

prune ==
    Built("Prune",
          Writes(<<"market", "bids", "asks">>) \o Signs("prune_authority")
          \o Writes(<<"open_orders">>) \o Reads(<<"owner">>) \o Writes(<<"event_q">>))

(***************************************************************************)
(* The parsers.  Each gives the numbers of accounts it takes, the role of  *)
(* each account, those that must have signed, and the roles whose account  *)
(* the instruction changes.                                                *)
(***************************************************************************)
Parser(counts, roles, signers, changes) ==
    [counts |-> counts, roles |-> roles, signers |-> signers, changes |-> changes]

InitializeMarketArgs(n) ==
    Parser(10..12,
           SubSeq(<<"market", "req_q", "event_q", "bids", "asks", "coin_vault", "pc_vault",
                    "coin_mint", "pc_mint", "rent", "market_authority", "prune_authority">>,
                  1, Min({n, 12})),
           {}, {"market", "req_q", "event_q", "bids", "asks"})

SendTakeArgs(n) ==
    Parser({11, 12},
           <<"market", "req_q", "event_q", "bids", "asks", "coin_wallet", "pc_wallet", "owner",
             "coin_vault", "pc_vault", "spl_token_program">>
           \o (IF n = 12 THEN <<"fee_discount">> ELSE <<>>),
           {"owner"}, {})

\* A fourteenth account passes the first check and fails the next.
NewOrderV3Args(n) ==
    Parser({12, 13},
           <<"market", "open_orders", "req_q", "event_q", "bids", "asks", "payer", "owner",
             "coin_vault", "pc_vault", "spl_token_program", "rent">>
           \o (IF n = 13 THEN <<"fee_discount">> ELSE <<>>),
           {"owner"},
           {"market", "open_orders", "req_q", "event_q", "bids", "asks", "payer", "coin_vault",
            "pc_vault"})

\* The last two accounts are not looked at.
ConsumeEventsArgs(n) ==
    Parser(5..n, [i \in 1 .. n - 4 |-> "open_orders"]
                 \o <<"market", "event_q", "coin_fee", "pc_fee">>,
           {}, {"open_orders", "event_q"})

ConsumeEventsPermissionedArgs(n) ==
    Parser(4..n, [i \in 1 .. n - 3 |-> "open_orders"]
                 \o <<"market", "event_q", "consume_events_authority">>,
           {"consume_events_authority"}, {"open_orders", "event_q"})

CancelOrderV2Args(n) ==
    Parser(6..n, <<"market", "bids", "asks", "open_orders", "owner", "event_q">>,
           {"owner"}, {"bids", "asks", "open_orders", "event_q"})

CancelOrderByClientIdV2Args(n) ==
    Parser(6..n, <<"market", "bids", "asks", "open_orders", "owner", "event_q">>,
           {"owner"}, {"bids", "asks", "open_orders", "event_q"})

SettleFundsArgs(n) ==
    Parser({9, 10},
           <<"market", "open_orders", "owner", "coin_vault", "pc_vault", "coin_wallet",
             "pc_wallet", "vault_signer", "spl_token_program">>
           \o (IF n = 10 THEN <<"referrer">> ELSE <<>>),
           {"owner"},
           {"market", "open_orders", "coin_vault", "pc_vault", "coin_wallet", "pc_wallet",
            "referrer"})

DisableMarketArgs(n) ==
    Parser({2}, <<"market", "disable_authority">>, {"disable_authority"}, {"market"})

SweepFeesArgs(n) ==
    Parser({6}, <<"market", "pc_vault", "fee_sweeper", "fee_receiver", "vault_signer",
                  "spl_token_program">>,
           {"fee_sweeper"}, {"market", "pc_vault", "fee_receiver"})

CloseOpenOrdersArgs(n) ==
    Parser({4}, <<"open_orders", "owner", "destination", "market">>,
           {"owner"}, {"open_orders", "destination"})

InitOpenOrdersArgs(n) ==
    Parser({4, 5},
           <<"open_orders", "owner", "market", "rent">>
           \o (IF n = 5 THEN <<"market_authority">> ELSE <<>>),
           {"owner", "market_authority"}, {"open_orders"})

PruneArgs(n) ==
    Parser({7}, <<"market", "bids", "asks", "prune_authority", "open_orders", "owner", "event_q">>,
           {"prune_authority"}, {"bids", "asks", "open_orders", "event_q"})

\* The accounts that are compared with what the market or the chain says they
\* are, or that only this role makes sense of.
Unchecked == {"rent", "coin_fee", "pc_fee", "destination"}

Fits(parser, accounts) ==
    /\ Len(accounts) \in parser.counts
    /\ \A i \in DOMAIN parser.roles :
           LET role == parser.roles[i] IN
           /\ role \in Unchecked \/ accounts[i].role = role
           /\ role \in parser.signers => accounts[i].signer
           /\ role \in parser.changes => accounts[i].writable

\* State::process: what becomes of an instruction.
Processed(ix) ==
    LET inst == Unpack(ix.bytes)
        n == Len(ix.accounts)
        By(parser) == IF Fits(parser, ix.accounts) THEN "accepted" ELSE "rejected"
    IN  CASE inst = None -> "rejected"
          [] inst.name = "InitializeMarket" -> By(InitializeMarketArgs(n))
          [] inst.name = "NewOrderV3" -> By(NewOrderV3Args(n))
          [] inst.name = "ConsumeEvents" -> By(ConsumeEventsArgs(n))
          [] inst.name = "ConsumeEventsPermissioned" -> By(ConsumeEventsPermissionedArgs(n))
          [] inst.name = "CancelOrderV2" -> By(CancelOrderV2Args(n))
          [] inst.name = "SettleFunds" -> By(SettleFundsArgs(n))
          [] inst.name = "CancelOrderByClientIdV2" -> By(CancelOrderByClientIdV2Args(n))
          [] inst.name = "DisableMarket" -> By(DisableMarketArgs(n))
          [] inst.name = "SweepFees" -> By(SweepFeesArgs(n))
          [] inst.name = "CloseOpenOrders" -> By(CloseOpenOrdersArgs(n))
          [] inst.name = "InitOpenOrders" -> By(InitOpenOrdersArgs(n))
          [] inst.name = "Prune" -> By(PruneArgs(n))
          [] inst.name = "SendTake" /\ ~Fits(SendTakeArgs(n), ix.accounts) -> "rejected"
          [] inst.name = "MatchOrders" -> "nothing"
          [] OTHER -> "unimplemented"

\* The plugin has a copy of unpack of its own.
PluginUnpack(bytes) == Unpack(bytes)

Wide == {"limit_price", "max_coin_qty", "max_native_pc_qty_including_fees", "client_order_id"}

\* `as i64`: the bits of a u64 are taken for those of a signed number, so one of
\* 2^63 and more turns negative; the u16 never does.
AsI64(field, bytes) == [bits |-> bytes, negative |-> field \in Wide /\ Last(bytes)[3]]

\* An enumeration is written as a text, a different one for each of its values.
AsText(bytes) == [text |-> bytes]

\* SerumHandler::process of the plugin, which has no accounts: of the
\* instructions that it can unpack it keeps the orders of the third version.
Indexed(ix) ==
    LET inst == PluginUnpack(ix.bytes)
        kept == inst # None /\ inst.name = "NewOrderV3"
    IN  [inst |-> inst,
         entity |-> IF ~kept THEN None
                    ELSE [f \in DOMAIN inst.args |->
                            IF f \in Wide \union {"limit"} THEN AsI64(f, inst.args[f])
                            ELSE AsText(inst.args[f])]]

(***************************************************************************)
(* A client calls a function and sends what it returns, or packs an        *)
(* instruction that no function builds.                                    *)
(***************************************************************************)
Init == call = None /\ sent = None /\ outcome = None

CallWith(name, variant, n, high, ix) ==
    /\ call = None
    /\ call' = [name |-> name, variant |-> variant, n |-> n, high |-> high]
    /\ sent' = ix
    /\ UNCHANGED outcome

Call(name, variant, n, ix) == CallWith(name, variant, n, {}, ix)

Client ==
    \/ \E n \in 0..3 : Call("initialize_market", "InitializeMarket", n, initialize_market(n))
    \/ \E srm \in BOOLEAN : \E high \in SUBSET Wide :
          CallWith("new_order", "NewOrderV3", 0, high, new_order(srm, high))
    \/ Call("match_orders", "MatchOrders", 0, match_orders)
    \/ \E n \in 0..MaxOrders : Call("consume_events", "ConsumeEvents", n, consume_events(n))
    \/ \E n \in 0..MaxOrders : Call("consume_events_permissioned", "ConsumeEventsPermissioned",
                                    n, consume_events_permissioned(n))
    \/ Call("cancel_order", "CancelOrderV2", 0, cancel_order)
    \/ Call("cancel_order_by_client_order_id", "CancelOrderByClientIdV2", 0,
            cancel_order_by_client_order_id)
    \/ \E referrer \in BOOLEAN : Call("settle_funds", "SettleFunds", 0, settle_funds(referrer))
    \/ Call("disable_market", "DisableMarket", 0, disable_market)
    \/ Call("sweep_fees", "SweepFees", 0, sweep_fees)
    \/ Call("close_open_orders", "CloseOpenOrders", 0, close_open_orders)
    \/ \E authority \in BOOLEAN :
          Call("init_open_orders", "InitOpenOrders", 0, init_open_orders(authority))
    \/ Call("prune", "Prune", 0, prune)
    \/ \E i \in DOMAIN Variants :
          Call("pack", Variants[i].name, 0, Built(Variants[i].name, <<>>))

Process ==
    /\ call # None
    /\ outcome = None
    /\ outcome' = [program |-> Processed(sent), plugin |-> Indexed(sent)]
    /\ UNCHANGED <<call, sent>>

Answered ==
    /\ outcome # None
    /\ call' = None /\ sent' = None /\ outcome' = None

Next == Client \/ Process \/ Answered

Spec == Init /\ [][Next]_vars
-----------------------------------------------------------------------------
\* An instruction as the client meant it.
Meant(name, high) ==
    LET v == Variants[CHOOSE i \in DOMAIN Variants : Variants[i].name = name]
    IN  [name |-> name,
         args |-> [f \in {v.fields[n].name : n \in DOMAIN v.fields} |->
                     Bytes(CHOOSE g \in ToSet(v.fields) : g.name = f, high)]]

\* unpack, written by hand, takes apart what serde put together: whoever reads
\* an instruction, the program or the plugin, finds the variant that was packed
\* and in every field the bytes of that field.  The entity that the plugin keeps
\* of an order has the numbers the client asked for, but for those of 2^63 and
\* more (a market order's price, say), which no i64 can hold.
UnpackInvertsPack ==
    (outcome # None /\ call.name # "consume_events_permissioned") =>
        LET meant == Meant(call.variant, call.high) IN
        /\ outcome.plugin.inst = meant
        /\ call.variant = "NewOrderV3" =>
             \A f \in Wide \ call.high :
                 outcome.plugin.entity[f] = [bits |-> meant.args[f], negative |-> FALSE]

\* The program takes the accounts in the order in which the functions list them,
\* finds the signatures it asks for, and may write what it writes.  Three calls
\* are left open: a market with an authority for consuming events, whose list is
\* one longer than InitializeMarketArgs takes though the comment at
\* MarketInstruction has it as account 12; consuming events with that authority,
\* which no function packs (consume_events_permissioned packs ConsumeEvents); and
\* consuming events for no account.
BuiltAsParsed ==
    LET open == \/ call.name \in {"pack", "consume_events_permissioned"}
                \/ call.name = "initialize_market" /\ call.n = 3
                \/ call.name = "consume_events" /\ call.n = 0
    IN  outcome # None /\ ~open => outcome.program # "rejected"

\* An instruction arrives with the fields and the accounts the client gave it
\* (pack, unpack, the parsers of state.rs).
InstructionsSurvive == UnpackInvertsPack /\ BuiltAsParsed
=============================================================================
