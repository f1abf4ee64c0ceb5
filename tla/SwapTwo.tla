------------------------------ MODULE SwapTwo ------------------------------
(***************************************************************************)
(* Several pools of one AMM and the transaction that trades through two of *)
(* them (swap_2_internal_erc20 of lib.rs): pool `from' sells for fUSDC and *)
(* pool `to', which may be the same one, buys with it.  The storage of a   *)
(* pool is a record of the variables of module Pool, whose operators are   *)
(* used as they are; here are the writes to several pools, the tokens the  *)
(* AMM holds for all of them, and the transaction, dropped as a whole when *)
(* a leg or a check after it fails.                                        *)
(***************************************************************************)
EXTENDS PoolMath, Functions

CONSTANTS
    PoolAddr,       \* the pools, named by the address of their token 0
    fUSDC,          \* the address of token 1, which all pools share
    MaxPositions,   \* bound: the number of position ids
    PoolParams,     \* pool -> arguments of init: <<price, fee, spacing, max liquidity>>
    Ranges,         \* arguments of mint_position: <<low, up>>
    Deltas,         \* arguments of update_position
    Amounts,        \* arguments of swap_2: what the swapper offers
    MinOuts         \* arguments of swap_2: the least it accepts

ASSUME SwapTwoAssumption ==
    /\ fUSDC \notin PoolAddr
    /\ MaxPositions \in Nat
    /\ PoolParams \in [PoolAddr -> Nat \X (0 .. ONE_FEE - 1) \X (Nat \ {0}) \X (0 .. U128 - 1)]
    /\ Ranges \subseteq Int \X Int
    /\ Deltas \subseteq Int
    /\ Amounts \subseteq Nat /\ MinOuts \subseteq Nat

VARIABLES
    pools,              \* pool address -> its storage
    next_position_id,   \* the id of the next minted position, of any pool
    balance,            \* token address -> what the AMM's address holds
    trade               \* the running swap_2 transaction, or NoTrade

vars == <<pools, next_position_id, balance, trade>>

\* Module Pool over the storage r.
P(r) == INSTANCE Pool WITH
    InitParams <- {}, Desired <- {}, SwapAmounts <- {}, PriceLimits <- {}, AdminPrices <- {},
    enabled <- r.enabled, fee <- r.fee, tick_spacing <- r.tick_spacing,
    max_liquidity_per_tick <- r.max_liquidity_per_tick,
    fee_growth_global <- r.fee_growth_global, liquidity <- r.liquidity,
    cur_tick <- r.cur_tick, sqrt_price <- r.sqrt_price, positions <- r.positions,
    ticks <- r.ticks, tick_bitmap <- r.tick_bitmap, reserve <- r.reserve,
    next_position_id <- next_position_id, swap <- r.swap

Id      == 0 .. MaxPositions - 1
NoFees  == [k \in Token |-> 0]
NoTrade == [leg |-> 0]
Idle    == trade = NoTrade

EmptyTick == [liquidity_gross |-> 0, liquidity_net |-> 0, fee_growth_outside |-> NoFees]

EmptyPosition == [lower |-> 0, upper |-> 0, liquidity |-> 0,
                  fee_growth_inside |-> NoFees, token_owed |-> NoFees]

NotSwapping == [active |-> FALSE]

\* A pool that create_pool has made and enable_pool has enabled.
Created(a) ==
    [enabled |-> TRUE, fee |-> a[2], tick_spacing |-> a[3], max_liquidity_per_tick |-> a[4],
     fee_growth_global |-> NoFees, liquidity |-> 0, cur_tick |-> get_tick_at_sqrt_ratio(a[1]),
     sqrt_price |-> a[1], positions |-> [id \in Id |-> EmptyPosition],
     ticks |-> [t \in Tick |-> EmptyTick], tick_bitmap |-> {}, reserve |-> NoFees,
     swap |-> NotSwapping]

Init ==
    /\ pools = [a \in PoolAddr |-> Created(PoolParams[a])]
    /\ next_position_id = 0
    /\ balance = [t \in PoolAddr \union {fUSDC} |-> 0]
    /\ trade = NoTrade

-----------------------------------------------------------------------------
(* Liquidity *)

\* enable_pool
SetEnabled(a, e) ==
    /\ Idle
    /\ pools[a].enabled # e
    /\ pools' = [pools EXCEPT ![a].enabled = e]
    /\ UNCHANGED <<next_position_id, balance, trade>>

\* mint_position
MintPosition(a, low, up) ==
    /\ Idle
    /\ pools[a].enabled
    /\ P(pools[a])!valid_tick(low) /\ P(pools[a])!valid_tick(up)
    /\ next_position_id \in Id
    /\ pools' = [pools EXCEPT ![a].positions[next_position_id].lower = low,
                              ![a].positions[next_position_id].upper = up]
    /\ next_position_id' = next_position_id + 1
    /\ UNCHANGED <<balance, trade>>

\* The AMM receives (or, below 0, pays) these amounts of tokens 0 and 1 of pool
\* a.  A payment it cannot make fails in the token's contract.
Settle(a, amount) ==
    /\ balance' = [balance EXCEPT ![a] = @ + amount[1], ![fUSDC] = @ + amount[2]]
    /\ balance'[a] >= 0 /\ balance'[fUSDC] >= 0

\* The writes of StoragePool::update_position.
position_updated(r, id, delta) ==
    LET p      == r.positions[id]
        inside == P(r)!get_fee_growth_inside(P(r)!ticks_updated(p, delta), p.lower, p.upper)
    IN  [r EXCEPT
         !.ticks = P(r)!ticks_cleared(p, delta),
         !.tick_bitmap = P(r)!bitmap_flipped(p, delta),
         !.positions[id] = P(r)!position_update(p, delta, inside),
         !.liquidity = IF P(r)!in_range(p, r.cur_tick) THEN @ + delta ELSE @,
         !.reserve = [k \in Token |-> @[k] + P(r)!amounts_for(p, delta)[k + 1]]]

\* update_position_internal
UpdatePosition(a, id, delta) ==
    /\ Idle
    /\ id < next_position_id
    /\ P(pools[a])!update_position_ok(id, delta)
    /\ Settle(a, P(pools[a])!amounts_for(pools[a].positions[id], delta))
    /\ pools' = [pools EXCEPT ![a] = position_updated(@, id, delta)]
    /\ UNCHANGED <<next_position_id, trade>>

\* collect_single_to
Collect(a, id) ==
    LET owed == pools[a].positions[id].token_owed
    IN  /\ Idle
        /\ id < next_position_id
        /\ pools[a].enabled
        /\ Settle(a, <<-owed[0], -owed[1]>>)
        /\ pools' = [pools EXCEPT ![a].positions[id].token_owed = NoFees,
                                  ![a].reserve = [k \in Token |-> @[k] - owed[k]]]
        /\ UNCHANGED <<next_position_id, trade>>

-----------------------------------------------------------------------------
(* swap_2: two runs of StoragePool::swap in one transaction.  trade.pools   *)
(* is the storage as the transaction sees it.                               *)

\* swap_2 passes swap() no price limit but the ends of the price range.
leg_limit(zero_for_one) == IF zero_for_one THEN MIN_SQRT_RATIO + 1 ELSE MAX_SQRT_RATIO - 1

leg_ok(r, zero_for_one) == P(r)!swap_start_ok(zero_for_one, leg_limit(zero_for_one))

leg_started(r, zero_for_one, amount) ==
    [r EXCEPT !.swap = P(r)!swap_start(zero_for_one, amount, leg_limit(zero_for_one))]

\* Mutant of leg_written: the ticks the leg crossed keep their old fee growth.
leg_written_but_ticks(r) ==
    [r EXCEPT
     !.sqrt_price = r.swap.price, !.cur_tick = r.swap.tick, !.liquidity = r.swap.liquidity,
     !.fee_growth_global = [@ EXCEPT ![IF r.swap.zero_for_one THEN 0 ELSE 1] = r.swap.fee_growth],
     !.reserve = [k \in Token |-> @[k] + P(r)!swap_amounts(r.swap)[k + 1]],
     !.swap = NotSwapping]

\* The writes of StoragePool::swap after its loop.
leg_written(r) ==
    [r EXCEPT
     !.sqrt_price = r.swap.price, !.cur_tick = r.swap.tick,
     !.liquidity = r.swap.liquidity, !.ticks = r.swap.ticks,
     !.fee_growth_global = IF r.fee = 0 THEN @
                           ELSE [@ EXCEPT ![IF r.swap.zero_for_one THEN 0 ELSE 1] = r.swap.fee_growth],
     !.reserve = [k \in Token |-> @[k] + P(r)!swap_amounts(r.swap)[k + 1]],
     !.swap = NotSwapping]

\* The pool of the running leg.
LegPool == IF trade.leg = 1 THEN trade.from ELSE trade.to
Leg     == trade.pools[LegPool]

LegContinues == P(Leg)!SwapContinues
LegAmounts   == P(Leg)!swap_amounts(Leg.swap)

\* The storage after a leg.
AfterLeg == [trade.pools EXCEPT ![LegPool] = leg_written(@)]

\* swap_2_internal up to its first loop: sell `amount' of token `from'.
TradeBegin(from, to, amount, min_out) ==
    /\ Idle
    /\ leg_ok(pools[from], TRUE)
    /\ trade' = [leg |-> 1, from |-> from, to |-> to, amount |-> amount, min_out |-> min_out,
                 sold |-> 0, interim |-> 0,
                 pools |-> [pools EXCEPT ![from] = leg_started(@, TRUE, amount)]]
    /\ UNCHANGED <<pools, next_position_id, balance>>

\* An iteration of either loop.
LegStep ==
    /\ ~Idle /\ LegContinues
    /\ \E step \in {P(Leg)!SwapStepResult(Leg.swap)} :
           /\ ~P(Leg)!StepFails(Leg.swap, step)
           /\ trade' = [trade EXCEPT !.pools[LegPool].swap = P(Leg)!AfterStep(@, step)]
    /\ UNCHANGED <<pools, next_position_id, balance>>

\* The first loop is done: the fUSDC it brought is the input of the second.
SecondLegBegin ==
    /\ trade.leg = 1 /\ ~LegContinues
    /\ leg_ok(AfterLeg[trade.to], FALSE)
    /\ trade' = [trade EXCEPT !.leg = 2, !.sold = LegAmounts[1], !.interim = -LegAmounts[2],
                 !.pools = [AfterLeg EXCEPT ![trade.to] = leg_started(@, FALSE, -LegAmounts[2])]]
    /\ UNCHANGED <<pools, next_position_id, balance>>

\* Mutant of swap_2_ok: the fUSDC of the two legs is not compared.
swap_2_min_out_ok ==
    /\ trade.sold >= 0 /\ LegAmounts[1] <= 0
    /\ -LegAmounts[1] >= trade.min_out

\* The checks of swap_2_internal after the second loop.
swap_2_ok ==
    /\ trade.sold >= 0 /\ LegAmounts[1] <= 0
    /\ LegAmounts[2] = trade.interim
    /\ -LegAmounts[1] >= trade.min_out

\* swap_2_internal_erc20: take all that was offered, used or not, and pay.
TradeCommit ==
    /\ trade.leg = 2 /\ ~LegContinues
    /\ swap_2_ok
    /\ LET taken == [balance EXCEPT ![trade.from] = @ + trade.amount]
       IN  balance' = [taken EXCEPT ![trade.to] = @ + LegAmounts[1]]
    /\ balance'[trade.to] >= 0
    /\ pools' = AfterLeg
    /\ trade' = NoTrade
    /\ UNCHANGED next_position_id

\* A failed step or check reverts the transaction; so does, at the end, a quote.
TradeReverts ==
    /\ ~Idle
    /\ \/ /\ LegContinues
          /\ P(Leg)!StepFails(Leg.swap, P(Leg)!SwapStepResult(Leg.swap))
       \/ ~LegContinues /\ trade.leg = 1 /\ ~leg_ok(AfterLeg[trade.to], FALSE)
       \/ ~LegContinues /\ trade.leg = 2
    /\ trade' = NoTrade
    /\ UNCHANGED <<pools, next_position_id, balance>>

-----------------------------------------------------------------------------
Provide ==
    \/ \E a \in PoolAddr, e \in BOOLEAN : SetEnabled(a, e)
    \/ \E a \in PoolAddr, r \in Ranges : MintPosition(a, r[1], r[2])
    \/ \E a \in PoolAddr, id \in Id, delta \in Deltas : UpdatePosition(a, id, delta)
    \/ \E a \in PoolAddr, id \in Id : Collect(a, id)

Request ==
    \E from, to \in PoolAddr, amount \in Amounts, min_out \in MinOuts :
        TradeBegin(from, to, amount, min_out)

Transact == LegStep \/ SecondLegBegin \/ TradeCommit \/ TradeReverts

Next == Provide \/ Request \/ Transact

Spec == Init /\ [][Next]_vars

-----------------------------------------------------------------------------
(* Properties *)

\* A trade through two pools, or twice through one, leaves each of them able to
\* pay out its positions and their fees from what its own operations brought in,
\* and the AMM holds those tokens.
PoolsSolvent ==
    Idle => \A a \in PoolAddr : P(pools[a])!Solvent /\ balance[a] >= pools[a].reserve[0]

SumOfReserves == SumFunctionOnSet([a \in PoolAddr |-> pools[a].reserve[1]], PoolAddr)

\* The AMM holds the fUSDC of all its pools and no more: no fUSDC between two legs
\* is lost or left over, whichever of them stopped short.
BalanceIsReserves == balance[fUSDC] = SumOfReserves

\* "return amount - amount_in to the user" (at the end of swap_2_internal_erc20):
\* what the first pool could not use of an offer goes back, so that the AMM holds
\* of a pool's token what the pool's operations brought in.
OffersAreReturned == \A a \in PoolAddr : balance[a] = pools[a].reserve[0]

\* Selling and buying back in one trade through a single pool never pays out
\* more than was sold, whatever ticks were crossed on the way and back.
RoundTripLoses ==
    [][(trade.leg = 2 /\ trade.from = trade.to /\ pools' # pools) =>
           -LegAmounts[1] <= trade.sold]_vars

=============================================================================
