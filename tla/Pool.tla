-------------------------------- MODULE Pool --------------------------------
(***************************************************************************)
(* One concentrated-liquidity pool of the Seawater AMM: the storage of     *)
(* pool.rs, tick.rs and position.rs, the operations of StoragePool, and    *)
(* the token movements that the entry points of lib.rs attach to them.     *)
(*                                                                         *)
(* Every entry point runs in one EVM transaction: it either commits all of *)
(* its writes or, on an error, none.  An operation whose checks fail is    *)
(* therefore no step at all.  A swap is the exception in form: its loop    *)
(* is one action per iteration, with the writes of the running transaction *)
(* kept in `swap' until SwapCommit applies or SwapDiscard/SwapReverts      *)
(* drops them.  No other operation runs while a swap is active (Stylus     *)
(* denies reentrancy).                                                     *)
(***************************************************************************)
EXTENDS PoolMath, Functions

CONSTANTS
    MaxPositions,   \* bound: the number of position ids
    InitParams,     \* arguments of init: <<price, fee, spacing, max liquidity>>
    Ranges,         \* arguments of create_position: <<low, up>>
    Deltas,         \* arguments of update_position: liquidity deltas
    Desired,        \* arguments of adjust_position: <<amount_0, amount_1>>
    SwapAmounts,    \* arguments of swap: > 0 exact input, < 0 exact output
    PriceLimits,    \* arguments of swap: price limits, NoLimit included
    AdminPrices     \* arguments of set_sqrt_price

Id == 0 .. MaxPositions - 1

\* That the fee is less than the whole amount and the spacing positive is
\* assumed of the admin who creates a pool: create_pool checks neither.
ASSUME PoolAssumption ==
    /\ MaxPositions \in Nat
    /\ InitParams \subseteq Nat \X (0 .. ONE_FEE - 1) \X (Nat \ {0}) \X (0 .. U128 - 1)
    /\ Ranges \subseteq Int \X Int
    /\ Deltas \subseteq Int
    /\ Desired \subseteq Nat \X Nat
    /\ SwapAmounts \subseteq -(U256 \div 2) .. (U256 \div 2) - 1       \* I256
    /\ PriceLimits \subseteq Nat
    /\ AdminPrices \subseteq Nat

VARIABLES
    enabled, fee, tick_spacing, max_liquidity_per_tick,
    fee_growth_global,  \* fee_growth_global_0 and _1
    liquidity, cur_tick, sqrt_price,
    positions,          \* id -> StoragePositionInfo
    ticks,              \* tick -> StorageTickInfo
    tick_bitmap,        \* the compressed ticks whose bit is set
    next_position_id,   \* of Pools: the id of the next minted position
    reserve,            \* token -> what this pool's operations brought into
                        \* the AMM less what they paid out
    swap                \* the running swap transaction, or NoSwap

config == <<fee, tick_spacing, max_liquidity_per_tick>>
market == <<fee_growth_global, liquidity, cur_tick>>
vars   == <<enabled, config, market, sqrt_price, positions, ticks, tick_bitmap,
            next_position_id, reserve, swap>>

-----------------------------------------------------------------------------
(* Storage.  The oracle fields of StorageTickInfo are never written and its *)
(* `initialised' is never read; fee_protocol and protocol_fee_0/1 have no   *)
(* writer that changes them from 0.  They are left out.                     *)

NoFees == [k \in Token |-> 0]

EmptyTick == [liquidity_gross |-> 0, liquidity_net |-> 0, fee_growth_outside |-> NoFees]

EmptyPosition == [lower |-> 0, upper |-> 0, liquidity |-> 0,
                  fee_growth_inside |-> NoFees, token_owed |-> NoFees]

\* swap()'s arguments and its SwapState, with the ticks it has crossed.
NoSwap == [active |-> FALSE, zero_for_one |-> FALSE, amount |-> 0, price_limit |-> 0,
           amount_remaining |-> 0, amount_calculated |-> 0, price |-> 0, tick |-> 0,
           fee_growth |-> 0, liquidity |-> 0, ticks |-> [t \in Tick |-> EmptyTick]]

Init ==
    /\ enabled = FALSE
    /\ fee = 0 /\ tick_spacing = 0 /\ max_liquidity_per_tick = 0
    /\ fee_growth_global = NoFees
    /\ liquidity = 0 /\ cur_tick = 0 /\ sqrt_price = 0
    /\ positions = [id \in Id |-> EmptyPosition]
    /\ ticks = [t \in Tick |-> EmptyTick]
    /\ tick_bitmap = {}
    /\ next_position_id = 0
    /\ reserve = NoFees
    /\ swap = NoSwap

-----------------------------------------------------------------------------
(* Administration *)

\* StoragePool::init, called by create_pool.  A second call fails.
InitPool(price, f, spacing, max_liquidity) ==
    /\ ~swap.active
    /\ sqrt_price = 0
    /\ MIN_SQRT_RATIO <= price /\ price < MAX_SQRT_RATIO
    /\ sqrt_price' = price
    /\ cur_tick' = get_tick_at_sqrt_ratio(price)
    /\ fee' = f
    /\ tick_spacing' = spacing
    /\ max_liquidity_per_tick' = max_liquidity
    /\ UNCHANGED <<enabled, fee_growth_global, liquidity, positions, ticks, tick_bitmap,
                   next_position_id, reserve, swap>>

\* enable_pool: the council, an enabler or the admin flips the switch.
SetEnabled(e) ==
    /\ ~swap.active
    /\ enabled # e
    /\ enabled' = e
    /\ UNCHANGED <<config, market, sqrt_price, positions, ticks, tick_bitmap,
                   next_position_id, reserve, swap>>

\* set_sqrt_price: the admin overwrites the price, and only the price.
SetSqrtPrice(price) ==
    /\ ~swap.active
    /\ sqrt_price' = price
    /\ UNCHANGED <<enabled, config, market, positions, ticks, tick_bitmap,
                   next_position_id, reserve, swap>>

-----------------------------------------------------------------------------
(* Positions *)

valid_tick(t) ==
    /\ t % tick_spacing = 0
    /\ get_min_tick(tick_spacing) <= t /\ t <= get_max_tick(tick_spacing)

\* mint_position: create_position under the next free id.
CreatePosition(low, up) ==
    /\ ~swap.active
    /\ enabled
    /\ tick_spacing # 0
    /\ valid_tick(low) /\ valid_tick(up)
    /\ next_position_id \in Id
    /\ positions' = [positions EXCEPT ![next_position_id].lower = low,
                                      ![next_position_id].upper = up]
    /\ next_position_id' = next_position_id + 1
    /\ UNCHANGED <<enabled, config, market, sqrt_price, ticks, tick_bitmap, reserve, swap>>

\* mint_position on another pool takes an id from the same counter.
MintElsewhere ==
    /\ ~swap.active
    /\ next_position_id \in Id
    /\ next_position_id' = next_position_id + 1
    /\ UNCHANGED <<enabled, config, market, sqrt_price, positions, ticks, tick_bitmap,
                   reserve, swap>>

-----------------------------------------------------------------------------
(* update_position, in the order of its steps *)

\* Mutant of tick_update: the upper tick's net liquidity grows like the lower's.
tick_update_same_sign(info, tick, delta, upper) ==
    [liquidity_gross    |-> info.liquidity_gross + delta,
     liquidity_net      |-> info.liquidity_net + delta,
     fee_growth_outside |-> IF info.liquidity_gross = 0 /\ tick <= cur_tick
                            THEN fee_growth_global ELSE info.fee_growth_outside]

\* StorageTicks::update
tick_update(info, tick, delta, upper) ==
    [liquidity_gross    |-> info.liquidity_gross + delta,
     liquidity_net      |-> IF upper THEN info.liquidity_net - delta
                                     ELSE info.liquidity_net + delta,
     fee_growth_outside |-> IF info.liquidity_gross = 0 /\ tick <= cur_tick
                            THEN fee_growth_global ELSE info.fee_growth_outside]

tick_update_ok(info, delta) ==
    /\ add_delta_ok(info.liquidity_gross, delta)
    /\ info.liquidity_gross + delta <= max_liquidity_per_tick

\* Mutant of tick_flipped: a tick that loses its last liquidity is not flipped back.
tick_flipped_on(info, delta) == info.liquidity_gross = 0

tick_flipped(info, delta) ==
    (info.liquidity_gross + delta = 0) # (info.liquidity_gross = 0)

\* StorageTickBitmap::flip.  The bit index is the truncated remainder of the
\* compressed tick; a negative one, cast to usize, shifts the mask out of the word.
flip(bitmap, tick) ==
    LET spaced == tick \div tick_spacing
    IN  IF spaced < 0 /\ spaced % WORD # 0 THEN bitmap
        ELSE SymDiff(bitmap, {spaced})

ticks_lower_updated(p, delta) ==
    IF delta = 0 THEN ticks
    ELSE [ticks EXCEPT ![p.lower] = tick_update(@, p.lower, delta, FALSE)]

ticks_updated(p, delta) ==
    IF delta = 0 THEN ticks
    ELSE [ticks_lower_updated(p, delta) EXCEPT ![p.upper] = tick_update(@, p.upper, delta, TRUE)]

flipped_lower(p, delta) == delta # 0 /\ tick_flipped(ticks[p.lower], delta)
flipped_upper(p, delta) ==
    delta # 0 /\ tick_flipped(ticks_lower_updated(p, delta)[p.upper], delta)

bitmap_flipped(p, delta) ==
    LET low == IF flipped_lower(p, delta) THEN flip(tick_bitmap, p.lower) ELSE tick_bitmap
    IN  IF flipped_upper(p, delta) THEN flip(low, p.upper) ELSE low

\* StorageTicks::clear on the ticks that lost their last liquidity
ticks_cleared(p, delta) ==
    [t \in Tick |-> IF /\ delta < 0
                       /\ \/ t = p.lower /\ flipped_lower(p, delta)
                          \/ t = p.upper /\ flipped_upper(p, delta)
                    THEN EmptyTick ELSE ticks_updated(p, delta)[t]]

fee_growth_below(tks, lower, k) ==
    IF cur_tick >= lower THEN tks[lower].fee_growth_outside[k]
    ELSE fee_growth_global[k] - tks[lower].fee_growth_outside[k]

\* Mutant of fee_growth_above: the upper tick counted as part of the range.
fee_growth_above_closed(tks, upper, k) ==
    IF cur_tick <= upper THEN tks[upper].fee_growth_outside[k]
    ELSE fee_growth_global[k] - tks[upper].fee_growth_outside[k]

fee_growth_above(tks, upper, k) ==
    IF cur_tick < upper THEN tks[upper].fee_growth_outside[k]
    ELSE fee_growth_global[k] - tks[upper].fee_growth_outside[k]

\* get_fee_growth_inside; every subtraction is checked, so each of the partial
\* results of get_fee_growth_inside_ok must be a natural.
get_fee_growth_inside(tks, lower, upper) ==
    [k \in Token |-> fee_growth_global[k] - fee_growth_below(tks, lower, k)
                                          - fee_growth_above(tks, upper, k)]

get_fee_growth_inside_ok(tks, lower, upper) ==
    \A k \in Token :
        /\ fee_growth_below(tks, lower, k) >= 0
        /\ fee_growth_above(tks, upper, k) >= 0
        /\ get_fee_growth_inside(tks, lower, upper)[k] >= 0

\* StoragePositions::update; the credited fees wrap at 128 bits.
position_update(p, delta, inside) ==
    [p EXCEPT !.liquidity = @ + delta,
              !.fee_growth_inside = inside,
              !.token_owed = [k \in Token |->
                  (@[k] + mul_div(inside[k] - p.fee_growth_inside[k], p.liquidity, Q128)) % U128]]

\* Mutant of position_update_ok: the position's own liquidity is not checked.
position_update_growth_ok(p, delta, inside) ==
    \A k \in Token : inside[k] >= p.fee_growth_inside[k]

position_update_ok(p, delta, inside) ==
    /\ \A k \in Token : inside[k] >= p.fee_growth_inside[k]
    /\ add_delta_ok(p.liquidity, delta)

\* The pool's tokens 0 and 1 that `delta` liquidity of the range is worth;
\* positive amounts are owed to the pool.
in_range(p, tick) == p.lower <= tick /\ tick < p.upper

amounts_for(p, delta) ==
    LET low == SqrtRatio[p.lower]
        up  == SqrtRatio[p.upper]
    IN  IF delta = 0 THEN <<0, 0>>
        ELSE IF cur_tick < p.lower THEN <<get_amount_0_delta(low, up, delta), 0>>
        ELSE IF cur_tick < p.upper
        THEN <<get_amount_0_delta(sqrt_price, up, delta),
               get_amount_1_delta(low, sqrt_price, delta)>>
        ELSE <<0, get_amount_1_delta(low, up, delta)>>

update_position_ok(id, delta) ==
    LET p      == positions[id]
        tks    == ticks_updated(p, delta)
        inside == get_fee_growth_inside(tks, p.lower, p.upper)
    IN  /\ enabled
        /\ delta # 0 => /\ tick_update_ok(ticks[p.lower], delta)
                        /\ tick_update_ok(ticks_lower_updated(p, delta)[p.upper], delta)
        /\ get_fee_growth_inside_ok(tks, p.lower, p.upper)
        /\ position_update_ok(p, delta, inside)
        /\ (delta # 0 /\ in_range(p, cur_tick)) =>
               /\ add_delta_ok(liquidity, delta)
               /\ sqrt_price # 0

\* The writes of update_position and the transfers its caller makes.
update_position(id, delta) ==
    LET p == positions[id]
    IN  /\ ticks' = ticks_cleared(p, delta)
        /\ tick_bitmap' = bitmap_flipped(p, delta)
        /\ positions' = [positions EXCEPT ![id] =
               position_update(p, delta,
                   get_fee_growth_inside(ticks_updated(p, delta), p.lower, p.upper))]
        /\ liquidity' = IF in_range(p, cur_tick) THEN liquidity + delta ELSE liquidity
        /\ reserve' = [k \in Token |-> reserve[k] + amounts_for(p, delta)[k + 1]]
        /\ UNCHANGED <<enabled, config, fee_growth_global, cur_tick, sqrt_price,
                       next_position_id, swap>>

\* update_position_internal.  The owner of an id may name any pool: a position
\* that was never created here is the empty range at tick 0.
UpdatePosition(id, delta) ==
    /\ ~swap.active
    /\ id < next_position_id
    /\ update_position_ok(id, delta)
    /\ update_position(id, delta)

\* adjust_position: the delta comes from the desired amounts, at the price of
\* the current tick; `giving' withdraws.
adjust_delta(id, desired, giving) ==
    LET p     == positions[id]
        delta == get_liquidity_for_amounts(SqrtRatio[cur_tick], SqrtRatio[p.lower],
                                           SqrtRatio[p.upper], desired[1], desired[2])
    IN  IF giving THEN -delta ELSE delta

\* adjust_position_internal, with the minimum amounts the caller accepts.
AdjustPosition(id, desired, minimum, giving) ==
    /\ ~swap.active
    /\ id < next_position_id
    /\ cur_tick \in Tick
    /\ positions[id].lower # positions[id].upper
    /\ LET delta  == adjust_delta(id, desired, giving)
           amount == amounts_for(positions[id], delta)
       IN  /\ update_position_ok(id, delta)
           /\ \A k \in Token : minimum[k + 1] <= IF giving THEN -amount[k + 1] ELSE amount[k + 1]
           /\ update_position(id, delta)

\* Mutant of Collect: the check of `enabled' is missing.
CollectAnytime(id) ==
    /\ ~swap.active
    /\ id < next_position_id
    /\ positions' = [positions EXCEPT ![id].token_owed = NoFees]
    /\ reserve' = [k \in Token |-> reserve[k] - positions[id].token_owed[k]]
    /\ UNCHANGED <<enabled, config, market, sqrt_price, ticks, tick_bitmap,
                   next_position_id, swap>>

\* collect_single_to: pays what earlier updates credited to the position.
Collect(id) ==
    /\ ~swap.active
    /\ id < next_position_id
    /\ enabled
    /\ positions' = [positions EXCEPT ![id].token_owed = NoFees]
    /\ reserve' = [k \in Token |-> reserve[k] - positions[id].token_owed[k]]
    /\ UNCHANGED <<enabled, config, market, sqrt_price, ticks, tick_bitmap,
                   next_position_id, swap>>

-----------------------------------------------------------------------------
(* swap *)

effective_limit(zero_for_one, limit) ==
    IF limit # NoLimit THEN limit
    ELSE IF zero_for_one THEN MIN_SQRT_RATIO + 1 ELSE MAX_SQRT_RATIO - 1

\* swap()'s checks of the pool and of the price limit
swap_start_ok(zero_for_one, limit) ==
    /\ enabled
    /\ tick_spacing # 0             \* the loop divides by it
    /\ IF zero_for_one THEN MIN_SQRT_RATIO < limit /\ limit < sqrt_price
                       ELSE sqrt_price < limit /\ limit < MAX_SQRT_RATIO

\* the SwapState the loop starts from
swap_start(zero_for_one, amount, limit) ==
    [active |-> TRUE, zero_for_one |-> zero_for_one, amount |-> amount,
     price_limit |-> limit, amount_remaining |-> amount,
     amount_calculated |-> 0, price |-> sqrt_price, tick |-> cur_tick,
     fee_growth |-> fee_growth_global[IF zero_for_one THEN 0 ELSE 1],
     liquidity |-> liquidity, ticks |-> ticks]

\* swap() up to its loop
SwapBegin(zero_for_one, amount, price_limit) ==
    LET limit == effective_limit(zero_for_one, price_limit)
    IN  /\ ~swap.active
        /\ swap_start_ok(zero_for_one, limit)
        /\ swap' = swap_start(zero_for_one, amount, limit)
        /\ UNCHANGED <<enabled, config, market, sqrt_price, positions, ticks, tick_bitmap,
                       next_position_id, reserve>>

\* Mutant of SwapContinues: the loop ignores the price limit.
SwapContinuesPastLimit == swap.amount_remaining # 0

\* the condition of the loop
SwapContinues == swap.amount_remaining # 0 /\ swap.price # swap.price_limit

FoundTick(s) ==
    next_initialized_tick_within_one_word(tick_bitmap, s.tick, tick_spacing, s.zero_for_one)

step_next_tick(s) == Lo(Hi(FoundTick(s).tick, MIN_TICK), MAX_TICK)
step_next_price(s) == SqrtRatio[step_next_tick(s)]

\* Mutant of step_clamped_price: a step always aims at the next tick.
step_price_unclamped(s) == step_next_price(s)

step_clamped_price(s) ==
    IF s.zero_for_one THEN Hi(step_next_price(s), s.price_limit)
                      ELSE Lo(step_next_price(s), s.price_limit)

SwapStepResult(s) ==
    compute_swap_step(s.price, step_clamped_price(s), s.liquidity, s.amount_remaining, fee)

step_fee_growth(s, step) ==
    IF s.liquidity > 0
    THEN (s.fee_growth + mul_div(step.fee_amount, Q128, s.liquidity)) % U256
    ELSE s.fee_growth

\* Mutant of ReachedTick: stopping at the caller's limit counts as reaching the tick.
ReachedTarget(s, step) == step.price = step_clamped_price(s)

ReachedTick(s, step) == step.price = step_next_price(s)
CrossesTick(s, step) == ReachedTick(s, step) /\ FoundTick(s).initialised

\* Mutant of cross: the growth outside is added instead of subtracted.
cross_adding(info, growth) ==
    [info EXCEPT !.fee_growth_outside =
        [k \in Token |-> growth[k] + info.fee_growth_outside[k]]]

\* StorageTicks::cross: the growth outside becomes the growth on the other side.
cross(info, growth) ==
    [info EXCEPT !.fee_growth_outside =
        [k \in Token |-> wrapping_sub(growth[k], info.fee_growth_outside[k])]]

\* Mutant of growth_at_cross: the stored growths, without the running swap's.
growth_at_cross_stale(s, step) == fee_growth_global

\* The global growths the crossing sees: the running one and the stored one.
growth_at_cross(s, step) ==
    [fee_growth_global EXCEPT ![IF s.zero_for_one THEN 0 ELSE 1] = step_fee_growth(s, step)]

\* Mutant of crossing_delta: the sign is not flipped when moving left.
crossing_delta_unflipped(s) == s.ticks[step_next_tick(s)].liquidity_net

crossing_delta(s) ==
    IF s.zero_for_one THEN -s.ticks[step_next_tick(s)].liquidity_net
                      ELSE s.ticks[step_next_tick(s)].liquidity_net

\* The ways an iteration returns an Err.
StepFails(s, step) ==
    \/ step.price = ErrPrice
    \/ CrossesTick(s, step) /\ ~add_delta_ok(s.liquidity, crossing_delta(s))
    \/ /\ ~ReachedTick(s, step) /\ step.price # s.price
       /\ ~(MIN_SQRT_RATIO <= step.price /\ step.price < MAX_SQRT_RATIO)

\* The ticks, the liquidity and the current tick after the step.
ticks_after(s, step) ==
    IF CrossesTick(s, step)
    THEN [s.ticks EXCEPT ![step_next_tick(s)] = cross(@, growth_at_cross(s, step))]
    ELSE s.ticks

liquidity_after(s, step) ==
    IF CrossesTick(s, step) THEN s.liquidity + crossing_delta(s) ELSE s.liquidity

tick_after(s, step) ==
    IF ReachedTick(s, step)
    THEN IF s.zero_for_one THEN step_next_tick(s) - 1 ELSE step_next_tick(s)
    ELSE IF step.price # s.price THEN get_tick_at_sqrt_ratio(step.price) ELSE s.tick

AfterStep(s, step) ==
    LET exact_in == s.amount > 0
        paid     == step.amount_in + step.fee_amount
    IN  [s EXCEPT
         !.price = step.price,
         !.amount_remaining  = IF exact_in THEN @ - paid ELSE @ + step.amount_out,
         !.amount_calculated = IF exact_in THEN @ - step.amount_out ELSE @ + paid,
         !.fee_growth = step_fee_growth(s, step),
         !.ticks = ticks_after(s, step),
         !.liquidity = liquidity_after(s, step),
         !.tick = tick_after(s, step)]

\* one iteration of the loop
SwapStep ==
    /\ swap.active /\ SwapContinues
    /\ \E step \in {SwapStepResult(swap)} :
           /\ ~StepFails(swap, step)
           /\ swap' = AfterStep(swap, step)
    /\ UNCHANGED <<enabled, config, market, sqrt_price, positions, ticks, tick_bitmap,
                   next_position_id, reserve>>

\* an iteration that fails reverts the transaction
SwapReverts ==
    /\ swap.active /\ SwapContinues
    /\ \E step \in {SwapStepResult(swap)} : StepFails(swap, step)
    /\ swap' = NoSwap
    /\ UNCHANGED <<enabled, config, market, sqrt_price, positions, ticks, tick_bitmap,
                   next_position_id, reserve>>

\* The signed amounts swap() returns: positive ones are paid by the swapper.
swap_amounts(s) ==
    LET exact_in == s.amount > 0
        used     == s.amount - s.amount_remaining
    IN  IF s.zero_for_one = exact_in THEN <<used, s.amount_calculated>>
                                     ELSE <<s.amount_calculated, used>>

\* The checks of swap_internal on them: take the input, pay the output, and
\* something must have been swapped.
swap_internal_ok(s) ==
    LET amount == swap_amounts(s)
    IN  /\ IF s.zero_for_one THEN amount[1] >= 0 /\ amount[2] <= 0
                             ELSE amount[1] <= 0 /\ amount[2] >= 0
        /\ amount # <<0, 0>>

\* swap() after its loop, and the transfers of swap_internal
SwapCommit ==
    /\ swap.active /\ ~SwapContinues
    /\ swap_internal_ok(swap)
    /\ sqrt_price' = swap.price
    /\ cur_tick' = swap.tick
    /\ liquidity' = swap.liquidity
    /\ ticks' = swap.ticks
    /\ fee_growth_global' = IF fee = 0 THEN fee_growth_global
                            ELSE [fee_growth_global EXCEPT
                                  ![IF swap.zero_for_one THEN 0 ELSE 1] = swap.fee_growth]
    /\ reserve' = [k \in Token |-> reserve[k] + swap_amounts(swap)[k + 1]]
    /\ swap' = NoSwap
    /\ UNCHANGED <<enabled, config, positions, tick_bitmap, next_position_id>>

\* swap_internal refuses the result, or the call was a quote, which always
\* reverts with the result as its message.
SwapDiscard ==
    /\ swap.active /\ ~SwapContinues
    /\ swap' = NoSwap
    /\ UNCHANGED <<enabled, config, market, sqrt_price, positions, ticks, tick_bitmap,
                   next_position_id, reserve>>

-----------------------------------------------------------------------------
Admin ==
    \/ \E a \in InitParams : InitPool(a[1], a[2], a[3], a[4])
    \/ \E e \in BOOLEAN : SetEnabled(e)
    \/ \E price \in AdminPrices : SetSqrtPrice(price)

Mint ==
    \/ \E r \in Ranges : CreatePosition(r[1], r[2])
    \/ MintElsewhere

Operate ==
    \/ \E id \in Id, delta \in Deltas : UpdatePosition(id, delta)
    \/ \E id \in Id, desired, minimum \in Desired, giving \in BOOLEAN :
           AdjustPosition(id, desired, minimum, giving)
    \/ \E id \in Id : Collect(id)
    \/ \E zero_for_one \in BOOLEAN, amount \in SwapAmounts, limit \in PriceLimits :
           SwapBegin(zero_for_one, amount, limit)

SwapLoop == SwapStep \/ SwapReverts \/ SwapCommit \/ SwapDiscard

Next == Admin \/ Mint \/ Operate \/ SwapLoop

Spec == Init /\ [][Next]_vars

-----------------------------------------------------------------------------
(* Properties *)

TickInfo ==
    [liquidity_gross : Nat, liquidity_net : Int, fee_growth_outside : [Token -> Nat]]

PositionInfo ==
    [lower : Tick, upper : Tick, liquidity : Nat,
     fee_growth_inside : [Token -> Nat], token_owed : [Token -> Nat]]

SwapInfo ==
    [active : BOOLEAN, zero_for_one : BOOLEAN, amount : Int, price_limit : Nat,
     amount_remaining : Int, amount_calculated : Int, price : Nat, tick : Int,
     fee_growth : Nat, liquidity : Nat, ticks : [Tick -> TickInfo]]

\* The storage of pool.rs, tick.rs and position.rs keeps its types: no liquidity,
\* fee growth or credited fee ever becomes negative.
TypeOK ==
    /\ enabled \in BOOLEAN
    /\ fee \in 0 .. ONE_FEE - 1
    /\ tick_spacing \in Nat
    /\ max_liquidity_per_tick \in Nat
    /\ fee_growth_global \in [Token -> Nat]
    /\ liquidity \in Nat
    /\ cur_tick \in Int
    /\ sqrt_price \in Nat
    /\ positions \in [Id -> PositionInfo]
    /\ ticks \in [Tick -> TickInfo]
    /\ tick_bitmap \subseteq Int
    /\ next_position_id \in Nat
    /\ reserve \in [Token -> Int]
    /\ swap \in SwapInfo

\* The state the running swap works on, or the stored one.
RunningTick      == IF swap.active THEN swap.tick ELSE cur_tick
RunningPrice     == IF swap.active THEN swap.price ELSE sqrt_price
RunningLiquidity == IF swap.active THEN swap.liquidity ELSE liquidity
RunningTicks     == IF swap.active THEN swap.ticks ELSE ticks

SumOf(f(_), S) == SumFunctionOnSet([id \in Id |-> f(id)], S)
LiquidityOf(id) == positions[id].liquidity

\* The pool's liquidity, at rest and after every iteration of a swap, is the
\* sum of the liquidity of the positions whose range holds the current tick.
LiquidityIsInRange ==
    RunningLiquidity =
        SumOf(LiquidityOf, {id \in Id : in_range(positions[id], RunningTick)})

\* Each tick's gross and net liquidity is what the positions that start or end
\* there put in: nothing is lost when ticks are updated, crossed and cleared.
TicksMatchPositions ==
    \A t \in Tick :
        LET starting == SumOf(LiquidityOf, {id \in Id : positions[id].lower = t})
            ending   == SumOf(LiquidityOf, {id \in Id : positions[id].upper = t})
        IN  /\ RunningTicks[t].liquidity_gross = starting + ending
            /\ RunningTicks[t].liquidity_net = starting - ending

\* A tick from 0 upwards has its bit in the bitmap exactly when it carries
\* liquidity, so that a swap crosses it.
BitmapMatchesTicks ==
    \A t \in Tick :
        (tick_spacing # 0 /\ t >= 0 /\ t % tick_spacing = 0) =>
            ((t \div tick_spacing) \in tick_bitmap <=> ticks[t].liquidity_gross # 0)

\* The price stays inside the interval of the current tick (at its upper end
\* after a swap that crossed the tick leftwards).
PriceInCurrentTick ==
    sqrt_price # 0 =>
        /\ RunningTick \in MIN_TICK .. MAX_TICK - 1
        /\ SqrtRatio[RunningTick] <= RunningPrice
        /\ RunningPrice <= SqrtRatio[RunningTick + 1]

\* What a position could still take out of the pool: its liquidity at the
\* current price, the fees credited to it and the fees it has earned since.
EarnedFees(p, k) ==
    mul_div(get_fee_growth_inside(ticks, p.lower, p.upper)[k] - p.fee_growth_inside[k],
            p.liquidity, Q128)

Claim(id, k) ==
    LET p == positions[id]
    IN  p.token_owed[k] + EarnedFees(p, k) - amounts_for(p, -p.liquidity)[k + 1]

Claims(k) == SumOf(LAMBDA id : Claim(id, k), Id)

\* What came in covers what all positions together can take out, of either
\* token: all rounding of swaps, deposits, withdrawals and fees favours the pool.
Solvent == ~swap.active => \A k \in Token : reserve[k] >= Claims(k)

\* A swap never moves the price past the caller's limit or against its
\* direction, and never takes more input, or pays more output, than asked.
SwapWithinLimits ==
    swap.active =>
        /\ IF swap.zero_for_one
           THEN swap.price_limit <= swap.price /\ swap.price <= sqrt_price
           ELSE sqrt_price <= swap.price /\ swap.price <= swap.price_limit
        /\ IF swap.amount > 0
           THEN swap.amount_remaining \in 0 .. swap.amount
           ELSE swap.amount_remaining \in swap.amount .. 0

\* A tick never records more growth outside it than there was in total, so the
\* subtraction in cross never wraps.
OutsideWithinGlobal ==
    \A t \in Tick, k \in Token :
        RunningTicks[t].fee_growth_outside[k] <=
            IF swap.active /\ k = (IF swap.zero_for_one THEN 0 ELSE 1)
            THEN swap.fee_growth ELSE fee_growth_global[k]

\* A position that holds liquidity in an enabled pool can always withdraw it,
\* and add to it within the liquidity limits: no fee-growth subtraction fails
\* once both its ticks are in use.  (The first deposit of a range may fail.)
CanWithdraw ==
    (enabled /\ ~swap.active) =>
        \A id \in Id : positions[id].liquidity > 0 =>
            /\ update_position_ok(id, -positions[id].liquidity)
            /\ \A delta \in Deltas :
                (/\ delta > 0 /\ add_delta_ok(liquidity, delta)
                 /\ tick_update_ok(ticks[positions[id].lower], delta)
                 /\ tick_update_ok(ticks_lower_updated(positions[id], delta)[positions[id].upper],
                                   delta)) => update_position_ok(id, delta)

\* Some position gives up liquidity.
RemovesLiquidity == \E id \in Id : positions'[id].liquidity < positions[id].liquidity

\* While the pool is disabled nothing its providers or traders own moves, except
\* where a position gives up liquidity, of which nothing is said here: no deposit,
\* no payment of credited fees, and no swap, not even one begun before.
DisabledIsFrozen ==
    [][(sqrt_price # 0 /\ ~enabled /\ ~enabled') =>
           \/ RemovesLiquidity
           \/ UNCHANGED <<market, positions, ticks, tick_bitmap, reserve>>]_vars

\* "Requires the pool to be enabled unless removing liquidity" (of
\* update_position_internal): a position can remove its liquidity from a pool
\* that is disabled.
DisabledAllowsRemoval ==
    (sqrt_price # 0 /\ ~enabled /\ ~swap.active) =>
        \A id \in Id : positions[id].liquidity > 0 =>
            update_position_ok(id, -positions[id].liquidity)

\* An increase by amounts of a position whose range has its ends in order takes
\* at most the desired amount of each token.
AdjustTakesAtMostDesired ==
    (reserve' # reserve /\ positions' # positions) =>
        \A id \in Id, desired, minimum \in Desired :
            (AdjustPosition(id, desired, minimum, FALSE)
             /\ positions[id].lower <= positions[id].upper) =>
                \A k \in Token : reserve'[k] - reserve[k] <= desired[k + 1]

\* incr_position takes at most the desired amount of each token when the price
\* is that of the current tick and the range has its ends in order: the
\* liquidity is rounded down, the amounts up.  (Inside a range with swapped ends
\* the liquidity is computed for two tokens and the amounts for one.)
AdjustsWithinDesired ==
    [][sqrt_price = SqrtRatio[cur_tick] => AdjustTakesAtMostDesired]_vars

\* incr_position transfers tokens "with a restriction on the amount taken": at
\* whatever price it takes at most the desired amounts, the price between two
\* ticks included, where a swap usually leaves it.
AdjustsRestricted == [][AdjustTakesAtMostDesired]_vars

\* Every tick that carries liquidity, negative ones included, is toggled on in
\* the bitmap.
EveryTickOnBitmap ==
    \A t \in Tick :
        ticks[t].liquidity_gross # 0 => (t \div tick_spacing) \in tick_bitmap

Magnitude(n) == IF n < 0 THEN -n ELSE n

\* Every iteration of a swap gets on: the amount left never grows, price and
\* tick never turn back, and one of the three moves.  As all three are bounded
\* the loop ends (its debug assertion allows 500 iterations).
SwapProgress ==
    (swap.active /\ SwapContinues) =>
        \A step \in {SwapStepResult(swap)} : ~StepFails(swap, step) =>
            LET next == AfterStep(swap, step)
                onward(x, y) == IF swap.zero_for_one THEN y <= x ELSE x <= y
            IN  /\ Magnitude(next.amount_remaining) <= Magnitude(swap.amount_remaining)
                /\ onward(swap.price, next.price) /\ onward(swap.tick, next.tick)
                /\ <<next.amount_remaining, next.price, next.tick>>
                      # <<swap.amount_remaining, swap.price, swap.tick>>

=============================================================================
