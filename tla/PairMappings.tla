---------------------------- MODULE PairMappings ----------------------------
(***************************************************************************)
(* The mappings of the Quickswap example: the handlers that keep pairs,    *)
(* tokens, liquidity positions, and the figures of a day and of an hour,   *)
(* from the events of the exchange's contracts.                            *)
(*                                                                         *)
(* The contracts are external.  Their calls fill a block with events; the  *)
(* handlers then run over the block in order, and a contract they call     *)
(* (balanceOf) answers for the end of the block.                           *)
(*                                                                         *)
(* A decimal is an integer count of 1/Scale, so a quotient is cut at that  *)
(* precision as the code's is at 34 digits; Base stands for ten.           *)
(***************************************************************************)
EXTENDS Integers, Sequences, SequencesExt, FiniteSetsExt, TLC

CONSTANTS
    None, Zero, Users, FeeTo,
    Pairs, TokensOf, Decimals, Weth, UsdcPair, WHITELIST,
    Base, Scale, LpDecimals,
    MinimumLiquidity,     \* 1000 in the contracts and in handleTransfer
    Threshold,            \* MINIMUM_LIQUIDITY_THRESHOLD_ETH
    HoursPerDay,
    Depositors, Deposits, \* who may deposit, and what for which liquidity
    Values,               \* what a holder may transfer
    MaxCalls, MaxPerBlock, MaxFees

VARIABLES
    chain,      \* the contracts: reserves, supply and balances of each pair
    block,      \* the block being filled and then handled
    store,      \* the entities
    failed,     \* a handler trapped
    history     \* the calls that moved liquidity to or from a pair or gave it up

vars == <<chain, block, store, failed, history>>

Tokens == UNION {{TokensOf[p][1], TokensOf[p][2]} : p \in Pairs}
Empty == <<>>
Load(f, k, fresh) == IF k \in DOMAIN f THEN f[k] ELSE fresh
Save(f, k, v) == (k :> v) @@ f
Plus(a, b) == <<a[1] + b[1], a[2] + b[2]>>

-----------------------------------------------------------------------------
(* Decimals *)

exponentToBigDecimal(decimals) == Base^decimals
convertTokenToDecimal(amount, decimals) ==
    IF decimals = 0 THEN amount * Scale ELSE (amount * Scale) \div exponentToBigDecimal(decimals)
Times(a, b) == (a * b) \div Scale
Div(a, b) == (a * Scale) \div b

-----------------------------------------------------------------------------
(* Prices *)

isOnWhitelist(t) == t \in WHITELIST

\* The price of the stored pair: handleSync has not saved its own yet.
getEthPriceInUSD == IF UsdcPair \in DOMAIN store.pair THEN store.pair[UsdcPair].price[1] ELSE 0

\* The first listed pair that holds enough prices the token by its other one.
findEthPerToken(t) ==
    LET listed == store.token[t].whitelist
        enough == {i \in DOMAIN listed : store.pair[listed[i]].reserveETH > Threshold}
        p == listed[Min(enough)]
    IN  IF t = Weth THEN Scale
        ELSE IF enough = {} THEN 0
        ELSE IF TokensOf[p][1] = t
             THEN Times(store.pair[p].price[2], store.token[TokensOf[p][2]].derivedETH)
             ELSE Times(store.pair[p].price[1], store.token[TokensOf[p][1]].derivedETH)

\* zero: the ZERO_BD object itself, which handleSwap compares by identity.
getTrackedVolumeUSD(p, amount, derived, ethPrice) ==
    LET on(i) == isOnWhitelist(TokensOf[p][i])
        worth(i) == Times(amount[i], Times(derived[i], ethPrice))
    IN  [zero |-> ~on(1) /\ ~on(2),
         usd |-> CASE on(1) /\ on(2) -> (worth(1) + worth(2)) \div 2
                   [] on(1) /\ ~on(2) -> worth(1)
                   [] ~on(1) /\ on(2) -> worth(2)
                   [] OTHER -> 0]

getTrackedLiquidityUSD(p, amount, derived, ethPrice) ==
    LET on(i) == isOnWhitelist(TokensOf[p][i])
        worth(i) == Times(amount[i], Times(derived[i], ethPrice))
    IN  CASE on(1) /\ on(2) -> worth(1) + worth(2)
          [] on(1) /\ ~on(2) -> 2 * worth(1)
          [] ~on(1) /\ on(2) -> 2 * worth(2)
          [] OTHER -> 0

-----------------------------------------------------------------------------
(* The figures of a day and of an hour.  Each is a function of the entities  *)
(* and returns them with the figure created, if new, and counted once more.  *)

Figures == [volume |-> <<0, 0>>, volumeUSD |-> 0, volumeETH |-> 0, untracked |-> 0, txns |-> 0]
dayID == block.time \div HoursPerDay

updateUniswapDayData(s) ==
    [s EXCEPT !.uniswapDay =
        Save(@, dayID, [Load(@, dayID, Figures) EXCEPT !.txns = s.factory.txCount])]

updatePairDayData(s, p) ==
    LET day == Load(s.pairDay, <<p, dayID>>, Figures)
    IN  [s EXCEPT !.pairDay = Save(@, <<p, dayID>>, [day EXCEPT !.txns = @ + 1])]
updatePairHourData(s, p) ==
    LET hour == Load(s.pairHour, <<p, block.time>>, Figures)
    IN  [s EXCEPT !.pairHour = Save(@, <<p, block.time>>, [hour EXCEPT !.txns = @ + 1])]
updateTokenDayData(s, t) ==
    LET day == Load(s.tokenDay, <<t, dayID>>, Figures)
    IN  [s EXCEPT !.tokenDay = Save(@, <<t, dayID>>, [day EXCEPT !.txns = @ + 1])]

updateDays(s, p) ==
    updateTokenDayData(updateTokenDayData(updateUniswapDayData(updatePairHourData(
        updatePairDayData(s, p), p)), TokensOf[p][1]), TokensOf[p][2])

\* One transaction more, of a pair and of its tokens.
CountTx(s, p) ==
    [s EXCEPT !.token[TokensOf[p][1]].txCount = @ + 1, !.token[TokensOf[p][2]].txCount = @ + 1,
              !.pair[p].txCount = @ + 1, !.factory.txCount = @ + 1]

-----------------------------------------------------------------------------
(* The handlers *)

FreshFactory ==
    [pairCount |-> 0, volumeUSD |-> 0, volumeETH |-> 0, untracked |-> 0,
     liquidityETH |-> 0, liquidityUSD |-> 0, txCount |-> 0]

FreshToken ==
    [derivedETH |-> 0, tradeVolume |-> 0, tradeVolumeUSD |-> 0, untracked |-> 0,
     totalLiquidity |-> 0, whitelist |-> <<>>, txCount |-> 0]

FreshPair ==
    [providers |-> 0, txCount |-> 0, reserve |-> <<0, 0>>, trackedReserveETH |-> 0,
     reserveETH |-> 0, reserveUSD |-> 0, totalSupply |-> 0, volume |-> <<0, 0>>,
     volumeUSD |-> 0, untracked |-> 0, price |-> <<0, 0>>]

\* A token whose decimals cannot be read gets none: the test for null never
\* holds, as fetchTokenDecimals returns a number.
handleNewPair(e) ==
    LET t0 == TokensOf[e.pair][1]
        t1 == TokensOf[e.pair][2]
        token(t, other) ==
            LET old == Load(store.token, t, FreshToken)
            IN  IF isOnWhitelist(other) THEN [old EXCEPT !.whitelist = Append(@, e.pair)] ELSE old
        factory == IF store.factory = None THEN FreshFactory ELSE store.factory
    IN  store' = [store EXCEPT
            !.factory = [factory EXCEPT !.pairCount = @ + 1],
            !.token = Save(Save(@, t0, token(t0, t1)), t1, token(t1, t0)),
            !.pair = Save(@, e.pair, FreshPair)]

FreshTransaction == [mints |-> <<>>, burns |-> <<>>, swaps |-> <<>>]
isCompleteMint(s, id) == s.mint[id].sender # None

\* A plausible bug: every transfer from the zero address opens a mint.
RecordMint_Always(s, e, value) ==
    LET id == <<e.tx, Len(s.transaction[e.tx].mints)>>
        mint == [pair |-> e.pair, to |-> e.to, liquidity |-> value, sender |-> None]
    IN  IF e.from # Zero THEN s
        ELSE [s EXCEPT !.pair[e.pair].totalSupply = @ + value, !.mint = Save(@, id, mint),
                       !.transaction[e.tx].mints = Append(@, id)]

\* handleTransfer: a mint of the pair's liquidity, unless one is open.
RecordMint(s, e, value) ==
    LET mints == s.transaction[e.tx].mints
        id == <<e.tx, Len(mints)>>
        supplied == [s EXCEPT !.pair[e.pair].totalSupply = @ + value]
        mint == [pair |-> e.pair, to |-> e.to, liquidity |-> value, sender |-> None]
    IN  IF e.from # Zero THEN s
        ELSE IF mints # <<>> /\ ~isCompleteMint(s, Last(mints)) THEN supplied
        ELSE [supplied EXCEPT !.mint = Save(@, id, mint),
                              !.transaction[e.tx].mints = Append(@, id)]

\* handleTransfer: liquidity sent to the pair opens a burn,
OpenBurn(s, e, value) ==
    LET id == <<e.tx, Len(s.transaction[e.tx].burns)>>
        burn == [pair |-> e.pair, liquidity |-> value, needsComplete |-> TRUE,
                 fee |-> 0, amount |-> None]
    IN  IF e.to # e.pair THEN s
        ELSE [s EXCEPT !.burn = Save(@, id, burn), !.transaction[e.tx].burns = Append(@, id)]

\* which the burning goes on with, as with every burn the last one was opened
\* by: needsComplete is never reset.  An open mint is the fee's, and goes.
CloseBurn(s, e, value) ==
    LET burns == s.transaction[e.tx].burns
        mints == s.transaction[e.tx].mints
        opened == burns # <<>> /\ s.burn[Last(burns)].needsComplete
        id == IF opened THEN Last(burns) ELSE <<e.tx, Len(burns)>>
        burn == IF opened THEN s.burn[id]
                ELSE [pair |-> e.pair, liquidity |-> value, needsComplete |-> FALSE,
                      fee |-> 0, amount |-> None]
        fee == mints # <<>> /\ ~isCompleteMint(s, Last(mints))
        kept == IF fee THEN [k \in DOMAIN s.mint \ {Last(mints)} |-> s.mint[k]] ELSE s.mint
    IN  IF e.to # Zero \/ e.from # e.pair THEN s
        ELSE [s EXCEPT
            !.pair[e.pair].totalSupply = @ - value,
            !.burn = Save(@, id, IF fee THEN [burn EXCEPT !.fee = s.mint[Last(mints)].liquidity]
                                 ELSE burn),
            !.mint = kept,
            !.transaction[e.tx] =
                [@ EXCEPT !.burns = IF opened THEN @ ELSE Append(@, id),
                          !.mints = IF fee THEN Front(@) ELSE @]]

createLiquidityPosition(s, p, u) ==
    IF <<p, u>> \in DOMAIN s.position THEN s
    ELSE [s EXCEPT !.pair[p].providers = @ + 1, !.position = Save(@, <<p, u>>, 0)]

\* The balance is the contract's, at the end of the block; the rest of a
\* snapshot is what the handlers know so far.
createLiquiditySnapshot(s, p, u) ==
    [s EXCEPT !.snapshot = Save(@, <<p, u, block.time>>,
        [balance |-> s.position[<<p, u>>], supply |-> s.pair[p].totalSupply])]

UpdatePosition(s, p, u) ==
    IF u = Zero \/ u = p THEN s
    ELSE LET found == createLiquidityPosition(s, p, u)
             balance == convertTokenToDecimal(chain[p].balance[u], LpDecimals)
         IN  createLiquiditySnapshot(
                 [found EXCEPT !.position[<<p, u>>] = balance], p, u)

handleTransfer(e) ==
    LET value == convertTokenToDecimal(e.value, LpDecimals)
        begun == [store EXCEPT !.transaction =
                      Save(@, e.tx, Load(@, e.tx, FreshTransaction))]
        entered == CloseBurn(OpenBurn(RecordMint(begun, e, value), e, value), e, value)
    IN  store' = IF e.to = Zero /\ e.value = MinimumLiquidity THEN store
                 ELSE UpdatePosition(UpdatePosition(entered, e.pair, e.from), e.pair, e.to)

\* The pair is saved last: the prices above are those of the stored reserves.
handleSync(e) ==
    LET p == e.pair
        t0 == TokensOf[p][1]
        t1 == TokensOf[p][2]
        old == store.pair[p]
        reserve == <<convertTokenToDecimal(e.amount[1], Decimals[t0]),
                     convertTokenToDecimal(e.amount[2], Decimals[t1])>>
        price == <<IF reserve[2] # 0 THEN Div(reserve[1], reserve[2]) ELSE 0,
                   IF reserve[1] # 0 THEN Div(reserve[2], reserve[1]) ELSE 0>>
        ethPrice == getEthPriceInUSD
        derived == <<findEthPerToken(t0), findEthPerToken(t1)>>
        tracked == IF ethPrice = 0 THEN 0
                   ELSE Div(getTrackedLiquidityUSD(p, reserve, derived, ethPrice), ethPrice)
        reserveETH == Times(reserve[1], derived[1]) + Times(reserve[2], derived[2])
        liquidityETH == store.factory.liquidityETH - old.trackedReserveETH + tracked
    IN  store' = [store EXCEPT
            !.ethPrice = ethPrice,
            !.pair[p] = [@ EXCEPT !.reserve = reserve, !.price = price,
                                  !.trackedReserveETH = tracked, !.reserveETH = reserveETH,
                                  !.reserveUSD = Times(reserveETH, ethPrice)],
            !.factory = [@ EXCEPT !.liquidityETH = liquidityETH,
                                  !.liquidityUSD = Times(liquidityETH, ethPrice)],
            !.token[t0] = [@ EXCEPT !.derivedETH = derived[1],
                                    !.totalLiquidity = @ - old.reserve[1] + reserve[1]],
            !.token[t1] = [@ EXCEPT !.derivedETH = derived[2],
                                    !.totalLiquidity = @ - old.reserve[2] + reserve[2]]]

Converted(p, amount) ==
    <<convertTokenToDecimal(amount[1], Decimals[TokensOf[p][1]]),
      convertTokenToDecimal(amount[2], Decimals[TokensOf[p][2]])>>

\* The last mint of the transaction is the one this event completes.
handleMint(e) ==
    LET mints == store.transaction[e.tx].mints
    IN  IF e.tx \notin DOMAIN store.transaction \/ mints = <<>>
        THEN failed' = TRUE /\ store' = store
        ELSE /\ failed' = failed
             /\ store' = updateDays([CountTx(store, e.pair)
                    EXCEPT !.mint[Last(mints)].sender = e.from], e.pair)

handleBurn(e) ==
    LET burns == store.transaction[e.tx].burns
    IN  IF e.tx \notin DOMAIN store.transaction
        THEN failed' = failed /\ store' = store
        ELSE IF burns = <<>>
        THEN failed' = TRUE /\ store' = store
        ELSE /\ failed' = failed
             /\ store' = updateDays([CountTx(store, e.pair)
                    EXCEPT !.burn[Last(burns)].amount = Converted(e.pair, e.amount)], e.pair)

\* The volume of a swap, in the pair, its tokens and the exchange,
AddVolume(s, p, total, tracked, trackedETH, derivedUSD) ==
    [CountTx(s, p) EXCEPT
        !.token[TokensOf[p][1]] = [@ EXCEPT !.tradeVolume = @ + total[1],
            !.tradeVolumeUSD = @ + tracked.usd, !.untracked = @ + derivedUSD],
        !.token[TokensOf[p][2]] = [@ EXCEPT !.tradeVolume = @ + total[2],
            !.tradeVolumeUSD = @ + tracked.usd, !.untracked = @ + derivedUSD],
        !.pair[p] = [@ EXCEPT !.volume = Plus(@, total), !.volumeUSD = @ + tracked.usd,
                              !.untracked = @ + derivedUSD],
        !.factory = [@ EXCEPT !.volumeUSD = @ + tracked.usd, !.volumeETH = @ + trackedETH,
                              !.untracked = @ + derivedUSD]]

\* the entity of the swap, with an amount derived only if neither token tracks,
RecordSwap(s, e, tracked, derivedUSD) ==
    LET txn == Load(s.transaction, e.tx, FreshTransaction)
        id == <<e.tx, Len(txn.swaps)>>
    IN  [s EXCEPT
        !.swap = Save(@, id, [pair |-> e.pair,
                              usd |-> IF tracked.zero THEN derivedUSD ELSE tracked.usd]),
        !.transaction = Save(@, e.tx, [txn EXCEPT !.swaps = Append(@, id)])]

\* and the figures.  Those of both tokens' volume in ETH use the second price.
AddDailyVolume(s, p, total, tracked, trackedETH, derivedUSD) ==
    LET derived(i) == s.token[TokensOf[p][i]].derivedETH
        ofToken(day, i) ==
            [day EXCEPT !.volume = Plus(@, <<total[i], 0>>),
                        !.volumeETH = @ + Times(total[i], derived(2)),
                        !.volumeUSD = @ + Times(Times(total[i], derived(i)), s.ethPrice)]
    IN  [s EXCEPT
        !.uniswapDay[dayID] = [@ EXCEPT !.volumeUSD = @ + tracked.usd,
            !.volumeETH = @ + trackedETH, !.untracked = @ + derivedUSD],
        !.pairDay[<<p, dayID>>] = [@ EXCEPT !.volume = Plus(@, total),
                                            !.volumeUSD = @ + tracked.usd],
        !.pairHour[<<p, block.time>>] = [@ EXCEPT !.volume = Plus(@, total),
                                                  !.volumeUSD = @ + tracked.usd],
        !.tokenDay = [@ EXCEPT ![<<TokensOf[p][1], dayID>>] = ofToken(@, 1),
                               ![<<TokensOf[p][2], dayID>>] = ofToken(@, 2)]]

handleSwap(e) ==
    LET p == e.pair
        total == Plus(Converted(p, e.amount), Converted(p, e.out))
        derived == <<store.token[TokensOf[p][1]].derivedETH, store.token[TokensOf[p][2]].derivedETH>>
        derivedUSD == Times((Times(derived[2], total[2]) + Times(derived[1], total[1])) \div 2,
                            store.ethPrice)
        tracked == getTrackedVolumeUSD(p, total, derived, store.ethPrice)
        trackedETH == IF store.ethPrice = 0 THEN 0 ELSE Div(tracked.usd, store.ethPrice)
    IN  store' = AddDailyVolume(
            updateDays(RecordSwap(AddVolume(store, p, total, tracked, trackedETH, derivedUSD),
                                  e, tracked, derivedUSD), p),
            p, total, tracked, trackedETH, derivedUSD)

-----------------------------------------------------------------------------
(* The contracts.  A call adds its events to the block, in the transaction   *)
(* of the call before it or in the next one.                                 *)

Event(kind, p, from, to, value, amount, out) ==
    [kind |-> kind, pair |-> p, from |-> from, to |-> to, value |-> value,
     amount |-> amount, out |-> out, tx |-> None]
TransferOf(p, from, to, value) == Event("Transfer", p, from, to, value, None, None)

Emit(events, alone) ==
    /\ ~block.sealed
    /\ alone => block.logs = <<>>
    /\ block.calls < MaxCalls
    /\ block.size < MaxPerBlock
    /\ \E n \in IF block.logs = <<>> THEN {block.tx} ELSE {block.tx, block.tx + 1} :
         block' = [block EXCEPT
             !.logs = @ \o [i \in DOMAIN events |-> [events[i] EXCEPT !.tx = n]],
             !.tx = n, !.calls = @ + 1, !.size = @ + 1, !.sealed = alone]
    /\ UNCHANGED <<store, failed>>

Record(kind, p, u, value, amount, fee) ==
    history' = Append(history, [kind |-> kind, pair |-> p, user |-> u, value |-> value,
                                amount |-> amount, fee |-> fee, tx |-> block'.tx])

createPair(p) ==
    /\ p \notin DOMAIN chain
    /\ chain' = Save(chain, p, [reserve |-> <<0, 0>>, supply |-> 0,
                                balance |-> [a \in Users \cup {p, Zero} |-> 0]])
    /\ Emit(<<Event("PairCreated", p, None, None, 0, None, None)>>, TRUE)
    /\ UNCHANGED history

\* The exchange's own share, minted before a deposit or a withdrawal.
Fees(p) == IF chain[p].supply = 0 THEN {0} ELSE 0..MaxFees
FeeEvents(p, fee) == IF fee = 0 THEN <<>> ELSE <<TransferOf(p, Zero, FeeTo, fee)>>

mint(p, u, amount, liquidity, fee) ==
    LET first == chain[p].supply = 0
        reserve == Plus(chain[p].reserve, amount)
        locked == IF first THEN MinimumLiquidity ELSE 0
    IN  /\ chain' = [chain EXCEPT ![p] = [@ EXCEPT
               !.reserve = reserve, !.supply = @ + locked + fee + liquidity,
               !.balance = [@ EXCEPT ![Zero] = @ + locked, ![FeeTo] = @ + fee,
                                     ![u] = @ + liquidity]]]
        /\ Emit((IF first THEN <<TransferOf(p, Zero, Zero, MinimumLiquidity)>>
                 ELSE FeeEvents(p, fee))
                \o <<TransferOf(p, Zero, u, liquidity),
                     Event("Sync", p, None, None, 0, reserve, None),
                     Event("Mint", p, u, None, 0, amount, None)>>, FALSE)
        /\ Record("deposit", p, u, liquidity, amount, fee)

transfer(p, u, to, value) ==
    /\ value <= chain[p].balance[u]
    /\ chain' = [chain EXCEPT ![p].balance = [@ EXCEPT ![u] = @ - value, ![to] = @ + value]]
    /\ Emit(<<TransferOf(p, u, to, value)>>, FALSE)
    /\ CASE to = p    -> Record("sent", p, u, value, None, 0)
         [] to = Zero -> Record("given up", p, u, value, None, 0)
         [] OTHER     -> UNCHANGED history

burn(p, fee) ==
    LET value == chain[p].balance[p]
        supply == chain[p].supply + fee
        amount == <<(chain[p].reserve[1] * value) \div supply, (chain[p].reserve[2] * value) \div supply>>
        reserve == <<chain[p].reserve[1] - amount[1], chain[p].reserve[2] - amount[2]>>
    IN  /\ amount[1] > 0 /\ amount[2] > 0
        /\ chain' = [chain EXCEPT ![p] = [@ EXCEPT
               !.reserve = reserve, !.supply = supply - value,
               !.balance = [@ EXCEPT ![p] = 0, ![FeeTo] = @ + fee]]]
        /\ Emit(FeeEvents(p, fee)
                \o <<TransferOf(p, p, Zero, value),
                     Event("Sync", p, None, None, 0, reserve, None),
                     Event("Burn", p, None, None, 0, amount, None)>>, FALSE)
        /\ Record("withdrawal", p, None, value, amount, fee)

\* One in, as many out of the other token as the product of the reserves allows.
swap(p, i) ==
    LET r == chain[p].reserve
        o == 3 - i
        fits == {y \in 1..(r[o] - 1) : (r[i] + 1) * (r[o] - y) >= r[1] * r[2]}
        one(k, v) == IF k = 1 THEN <<v, 0>> ELSE <<0, v>>
        reserve == [k \in {1, 2} |-> IF k = i THEN r[i] + 1 ELSE r[o] - Max(fits)]
    IN  /\ fits # {}
        /\ chain' = [chain EXCEPT ![p].reserve = reserve]
        /\ Emit(<<Event("Sync", p, None, None, 0, reserve, None),
                  Event("Swap", p, None, None, 0, one(i, 1), one(o, Max(fits)))>>, FALSE)
        /\ UNCHANGED history

\* The pairs are created first, each in a block of its own.
Call ==
    \/ \E p \in Pairs : createPair(p)
    \/ \E p \in {p \in Pairs : DOMAIN chain = Pairs} :
        \/ \E u \in Depositors, d \in Deposits, fee \in Fees(p) : mint(p, u, d[1], d[2], fee)
        \/ \E u \in Users, value \in Values :
             \E to \in (Users \cup {p, Zero}) \ {u} : transfer(p, u, to, value)
        \/ chain[p].balance[p] > 0 /\ \E fee \in Fees(p) : burn(p, fee)
        \/ \E i \in {1, 2} : swap(p, i)

-----------------------------------------------------------------------------
Init ==
    /\ chain = Empty
    /\ block = [logs |-> <<>>, sealed |-> FALSE, time |-> 0, tx |-> 1, calls |-> 0, size |-> 0]
    /\ store = [factory |-> None, ethPrice |-> 0, pair |-> Empty, token |-> Empty,
                position |-> Empty, snapshot |-> Empty, transaction |-> Empty, mint |-> Empty,
                burn |-> Empty, swap |-> Empty, uniswapDay |-> Empty, pairDay |-> Empty,
                pairHour |-> Empty, tokenDay |-> Empty]
    /\ failed = FALSE
    /\ history = <<>>

Seal ==
    /\ ~block.sealed /\ block.logs # <<>>
    /\ block' = [block EXCEPT !.sealed = TRUE]
    /\ UNCHANGED <<chain, store, failed, history>>

\* One handler per event, in the order of the block.
Handle ==
    /\ block.sealed /\ block.logs # <<>> /\ ~failed
    /\ block' = [block EXCEPT !.logs = Tail(@)]
    /\ UNCHANGED <<chain, history>>
    /\ LET e == Head(block.logs)
       IN  \/ e.kind = "PairCreated" /\ handleNewPair(e) /\ UNCHANGED failed
           \/ e.kind = "Transfer" /\ handleTransfer(e) /\ UNCHANGED failed
           \/ e.kind = "Sync" /\ handleSync(e) /\ UNCHANGED failed
           \/ e.kind = "Mint" /\ handleMint(e)
           \/ e.kind = "Burn" /\ handleBurn(e)
           \/ e.kind = "Swap" /\ handleSwap(e) /\ UNCHANGED failed

NextBlock ==
    /\ block.sealed /\ block.logs = <<>> /\ ~failed
    /\ block' = [block EXCEPT !.sealed = FALSE, !.time = @ + 1, !.tx = @ + 1, !.size = 0]
    /\ UNCHANGED <<chain, store, failed, history>>

Next == Call \/ Seal \/ Handle \/ NextBlock

Spec == Init /\ [][Next]_vars

-----------------------------------------------------------------------------
BlockDone == block.sealed /\ block.logs = <<>> /\ ~failed
SumOver(Value(_), S) == MapThenSumSet(Value, S)
Holds(p, t) == TokensOf[p][1] = t \/ TokensOf[p][2] = t
Side(p, t) == IF TokensOf[p][1] = t THEN 1 ELSE 2
StoredPairs(t) == {p \in DOMAIN store.pair : Holds(p, t)}

\* handleSync takes a pair's old reserves out of its tokens' and the exchange's
\* liquidity and puts the new ones in.  Whatever the order of the events of
\* different pairs, what a token and the exchange have is the sum over the pairs.
LiquidityAddsUp ==
    /\ \A t \in DOMAIN store.token :
         store.token[t].totalLiquidity
           = SumOver(LAMBDA p : store.pair[p].reserve[Side(p, t)], StoredPairs(t))
    /\ store.factory # None =>
         store.factory.liquidityETH
           = SumOver(LAMBDA p : store.pair[p].trackedReserveETH, DOMAIN store.pair)
    /\ BlockDone => \A p \in DOMAIN chain : store.pair[p].reserve = Converted(p, chain[p].reserve)

\* handleMint, handleBurn and handleSwap count in six entities each, loaded and
\* saved one by one: the counts and volumes of the exchange, of the tokens, of the
\* days and of the hours are those of the pairs.
FiguresAddUp ==
    LET of(f, p) == {k \in DOMAIN f : k[1] = p}
        txns(f, p) == SumOver(LAMBDA k : f[k].txns, of(f, p))
        volume(f, p, i) == SumOver(LAMBDA k : f[k].volume[i], of(f, p))
        usd(f) == SumOver(LAMBDA k : f[k].volumeUSD, DOMAIN f)
    IN  /\ store.factory # None =>
             /\ store.factory.txCount = SumOver(LAMBDA p : store.pair[p].txCount, DOMAIN store.pair)
             /\ store.factory.volumeUSD
                  = SumOver(LAMBDA p : store.pair[p].volumeUSD, DOMAIN store.pair)
             /\ store.factory.volumeUSD = usd(store.uniswapDay)
             /\ store.factory.volumeUSD = usd(store.pairDay)
        /\ \A p \in DOMAIN store.pair :
             /\ store.pair[p].txCount = txns(store.pairDay, p)
             /\ store.pair[p].txCount = txns(store.pairHour, p)
             /\ \A i \in {1, 2} : store.pair[p].volume[i] = volume(store.pairDay, p, i)
        /\ \A t \in DOMAIN store.token :
             /\ store.token[t].txCount = SumOver(LAMBDA p : store.pair[p].txCount, StoredPairs(t))
             /\ store.token[t].txCount = txns(store.tokenDay, t)
             /\ store.token[t].tradeVolume = volume(store.tokenDay, t, 1)

\* createLiquidityPosition loads and saves the pair while handleTransfer holds a
\* copy of it: no position is missing from the pair's count.
ProvidersCounted ==
    \A p \in DOMAIN store.pair :
        store.pair[p].providers = Cardinality({k \in DOMAIN store.position : k[1] = p})

\* handleTransfer ignores what a first deposit locks by its amount alone ("ignore
\* initial transfers for first adds"), and so everything else of that amount that
\* goes to the zero address: withdrawals, and what a holder gives up.  The
\* properties below say nothing of what such a transfer changes.
Ignored(kind) == {c \in ToSet(history) : c.kind = kind /\ c.value = MinimumLiquidity}
Calls(kinds, tx) == SelectSeq(history, LAMBDA c : c.kind \in kinds /\ c.tx = tx)
Lp(value) == convertTokenToDecimal(value, LpDecimals)

\* A pair's supply is the contract's without what its first deposit locked
\* (handleTransfer adds and takes away as liquidity comes and goes).
SupplyIsTheContracts ==
    BlockDone => \A p \in DOMAIN chain \ {c.pair : c \in Ignored("withdrawal")} :
        store.pair[p].totalSupply = Lp(IF chain[p].supply = 0 THEN 0
                                       ELSE chain[p].supply - MinimumLiquidity)

\* balanceOf answers for the end of the block, so while a block is handled its
\* positions and snapshots are ahead of its events; afterwards every position is
\* the holder's balance, and those without one hold nothing.
PositionsAreBalances ==
    LET balance(p, u) == Lp(chain[p].balance[u])
    IN  /\ block.sealed => \A k \in DOMAIN store.snapshot :
              k[3] = block.time => store.snapshot[k].balance = balance(k[1], k[2])
        /\ BlockDone => \A p \in DOMAIN chain, u \in Users :
              \/ \E c \in Ignored("given up") : c.pair = p /\ c.user = u
              \/ balance(p, u) = Load(store.position, <<p, u>>, 0)

\* handleTransfer cannot tell a fee from a deposit: it opens a mint for the first
\* and goes on with it for the second, or drops it when a burn follows.  After a
\* block the mints of a transaction are its deposits, in order, each of its pair
\* and complete, and no fee is left as one.  A mint has the holder and the
\* liquidity of its deposit, but for a deposit after a fee: it keeps the fee's,
\* where the schema says they are "populated from the primary Transfer event".
MintsAreDeposits ==
    BlockDone /\ Ignored("withdrawal") = {} =>
        \A tx \in DOMAIN store.transaction :
            LET ids == store.transaction[tx].mints
                deposits == Calls({"deposit"}, tx)
            IN  /\ Len(ids) = Len(deposits)
                /\ {k \in DOMAIN store.mint : k[1] = tx} = ToSet(ids)
                /\ \A i \in DOMAIN ids :
                     LET m == store.mint[ids[i]]
                         d == deposits[i]
                     IN  /\ m.pair = d.pair /\ m.sender = d.user
                         /\ d.fee = 0 => m.to = d.user /\ m.liquidity = Lp(d.value)

\* Liquidity that is sent to its pair and withdrawn in one transaction, the way the
\* exchange's router does it, or withdrawn by itself, is one burn with the pair,
\* the amounts and the fee of the withdrawal.  Of other transactions nothing is
\* said: a burn goes on with the last one that was opened, whichever its pair, and
\* needsComplete is never reset.
BurnsAreWithdrawals ==
    BlockDone /\ Ignored("withdrawal") = {} =>
        \A tx \in DOMAIN store.transaction :
            LET calls == Calls({"sent", "withdrawal"}, tx)
                w == Last(calls)
                b == store.burn[<<tx, 0>>]
                routed == /\ Len(calls) \in {1, 2}
                          /\ w.kind = "withdrawal"
                          /\ calls[1] # w => calls[1].kind = "sent" /\ calls[1].pair = w.pair
            IN  routed => /\ store.transaction[tx].burns = <<<<tx, 0>>>>
                          /\ b.pair = w.pair /\ b.fee = Lp(w.fee)
                          /\ b.amount = Converted(w.pair, w.amount)
                          /\ calls[1].value = w.value => b.liquidity = Lp(w.value)

\* handleMint and handleBurn take the last mint or burn of their transaction.  They
\* find one, unless the withdrawal's transfer was ignored.
FoundWhatTheyComplete == failed => Ignored("withdrawal") # {}

\* The entities of the exchange add up, whatever the order of events and blocks:
\* liquidity, counts and volumes over the pairs, positions and supply as in the
\* contracts, and one mint or burn for each deposit or withdrawal (core.ts).
EntitiesAddUp ==
    /\ LiquidityAddsUp /\ FiguresAddUp /\ ProvidersCounted
    /\ SupplyIsTheContracts /\ PositionsAreBalances
    /\ MintsAreDeposits /\ BurnsAreWithdrawals /\ FoundWhatTheyComplete
=============================================================================
