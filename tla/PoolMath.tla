------------------------------ MODULE PoolMath ------------------------------
(***************************************************************************)
(* The arithmetic of a Seawater pool (pkg/seawater/src/maths), at a small  *)
(* scale: the fixed-point units, the fee denominator and the width of a    *)
(* bitmap word are parameters, every rounding direction, clamp and early   *)
(* return is the code's.                                                   *)
(*                                                                         *)
(* Prices are the naturals of a 256-bit word.  The 512-bit intermediate    *)
(* products of full_math never overflow here, so the overflow branches of  *)
(* mul_div and of get_next_sqrt_price_from_amount_0_rounding_up are left   *)
(* out; subtraction on U256 wraps (wrapping_sub below).                    *)
(***************************************************************************)
EXTENDS Integers, FiniteSetsExt

CONSTANTS
    MAX_TICK,       \* the highest tick (887272 in the code)
    SqrtRatio,      \* get_sqrt_ratio_at_tick as a table: tick -> X96 price
    Q96, Q128,      \* the fixed-point units of prices and of fee growth
    ONE_FEE,        \* the fee denominator (1e6 in the code)
    WORD,           \* ticks per word of the tick bitmap (256 in the code)
    U128, U256      \* the number of values of the two word sizes

MIN_TICK == -MAX_TICK
Tick     == MIN_TICK .. MAX_TICK
Token    == {0, 1}          \* token 0 is the pool's asset, token 1 is fUSDC

ASSUME MathAssumption ==
    /\ MAX_TICK \in Nat \ {0}
    /\ SqrtRatio \in [Tick -> Nat \ {0}]
    /\ Q96 \in Nat \ {0} /\ Q128 \in Nat \ {0}
    /\ ONE_FEE \in Nat \ {0}
    /\ WORD \in Nat \ {0}
    /\ U128 \in Nat \ {0} /\ U256 \in Nat \ {0}

\* The price grows with the tick: what tick_math's ratios and its search rest on.
ASSUME RatioAssumption ==
    \A s, t \in Tick : s < t => SqrtRatio[s] < SqrtRatio[t]

MIN_SQRT_RATIO == SqrtRatio[MIN_TICK]
MAX_SQRT_RATIO == SqrtRatio[MAX_TICK]

\* U256::MAX, which a caller passes to swap without a price limit.
NoLimit == U256 - 1

\* A price that stands for the Err of a function that returns a price.
ErrPrice == 0

-----------------------------------------------------------------------------
(* full_math, unsafe_math, liquidity_math *)

mul_div(a, b, c) == (a * b) \div c

mul_div_rounding_up(a, b, c) ==
    mul_div(a, b, c) + (IF (a * b) % c = 0 THEN 0 ELSE 1)

div_rounding_up(a, b) == mul_div_rounding_up(a, 1, b)

\* The - of two U256 values.
wrapping_sub(a, b) == (a - b) % U256

\* add_delta(x, y) is Ok: x + y neither underflows nor leaves the 128 bits.
add_delta_ok(x, y) == x + y \in 0 .. U128 - 1

-----------------------------------------------------------------------------
(* tick_math *)

\* The tick whose price interval holds `price`: what the binary search finds.
get_tick_at_sqrt_ratio(price) == Max({t \in Tick : SqrtRatio[t] <= price})

get_max_tick(spacing) == (MAX_TICK \div spacing) * spacing
get_min_tick(spacing) == -get_max_tick(spacing)

-----------------------------------------------------------------------------
(* sqrt_price_math *)

Lo(a, b) == IF a <= b THEN a ELSE b
Hi(a, b) == IF a <= b THEN b ELSE a

\* Mutant of unsigned_amount_0_delta: always rounded up.
amount_0_delta_always_up(a, b, liquidity, round_up) ==
    div_rounding_up(
        mul_div_rounding_up(liquidity * Q96, Hi(a, b) - Lo(a, b), Hi(a, b)), Lo(a, b))

\* _get_amount_0_delta
unsigned_amount_0_delta(a, b, liquidity, round_up) ==
    IF round_up
    THEN div_rounding_up(
           mul_div_rounding_up(liquidity * Q96, Hi(a, b) - Lo(a, b), Hi(a, b)),
           Lo(a, b))
    ELSE mul_div(liquidity * Q96, Hi(a, b) - Lo(a, b), Hi(a, b)) \div Lo(a, b)

\* _get_amount_1_delta
unsigned_amount_1_delta(a, b, liquidity, round_up) ==
    IF round_up
    THEN mul_div_rounding_up(liquidity, Hi(a, b) - Lo(a, b), Q96)
    ELSE mul_div(liquidity, Hi(a, b) - Lo(a, b), Q96)

\* Mutant of get_amount_0_delta: deposits round down too.
amount_0_delta_always_down(a, b, liquidity) ==
    IF liquidity < 0 THEN -unsigned_amount_0_delta(a, b, -liquidity, FALSE)
                     ELSE unsigned_amount_0_delta(a, b, liquidity, FALSE)

\* Amounts owed to the pool round up, amounts the pool owes round down.
get_amount_0_delta(a, b, liquidity) ==
    IF liquidity < 0 THEN -unsigned_amount_0_delta(a, b, -liquidity, FALSE)
                     ELSE unsigned_amount_0_delta(a, b, liquidity, TRUE)

get_amount_1_delta(a, b, liquidity) ==
    IF liquidity < 0 THEN -unsigned_amount_1_delta(a, b, -liquidity, FALSE)
                     ELSE unsigned_amount_1_delta(a, b, liquidity, TRUE)

get_next_sqrt_price_from_amount_0_rounding_up(price, liquidity, amount, add) ==
    LET numerator == liquidity * Q96
    IN  IF amount = 0 THEN price
        ELSE IF add
             THEN mul_div_rounding_up(numerator, price, numerator + amount * price)
        ELSE IF numerator > amount * price
             THEN mul_div_rounding_up(numerator, price, numerator - amount * price)
        ELSE ErrPrice

get_next_sqrt_price_from_amount_1_rounding_down(price, liquidity, amount, add) ==
    IF add
    THEN price + mul_div(amount, Q96, liquidity)
    ELSE Hi(price - mul_div_rounding_up(amount, Q96, liquidity), ErrPrice)

get_next_sqrt_price_from_input(price, liquidity, amount_in, zero_for_one) ==
    IF price = 0 \/ liquidity = 0 THEN ErrPrice
    ELSE IF zero_for_one
    THEN get_next_sqrt_price_from_amount_0_rounding_up(price, liquidity, amount_in, TRUE)
    ELSE get_next_sqrt_price_from_amount_1_rounding_down(price, liquidity, amount_in, TRUE)

get_next_sqrt_price_from_output(price, liquidity, amount_out, zero_for_one) ==
    IF price = 0 \/ liquidity = 0 THEN ErrPrice
    ELSE IF zero_for_one
    THEN get_next_sqrt_price_from_amount_1_rounding_down(price, liquidity, amount_out, FALSE)
    ELSE get_next_sqrt_price_from_amount_0_rounding_up(price, liquidity, amount_out, FALSE)

get_liquidity_for_amount_0(a, b, amount) ==
    mul_div(amount, mul_div(a, b, Q96), b - a)

get_liquidity_for_amount_1(a, b, amount) == mul_div(amount, Q96, b - a)

\* Mutant of get_liquidity_for_amounts: the larger of the two is taken.
liquidity_for_either_amount(p, a, b, amount_0, amount_1) ==
    LET lo == Lo(a, b)
        hi == Hi(a, b)
    IN  IF p <= lo THEN get_liquidity_for_amount_0(lo, hi, amount_0)
        ELSE IF p < hi
        THEN Hi(get_liquidity_for_amount_0(p, hi, amount_0),
                get_liquidity_for_amount_1(lo, p, amount_1))
        ELSE get_liquidity_for_amount_1(lo, hi, amount_1)

\* The liquidity that amount_0 and amount_1 buy between prices a and b, at price p.
get_liquidity_for_amounts(p, a, b, amount_0, amount_1) ==
    LET lo == Lo(a, b)
        hi == Hi(a, b)
    IN  IF p <= lo THEN get_liquidity_for_amount_0(lo, hi, amount_0)
        ELSE IF p < hi
        THEN Lo(get_liquidity_for_amount_0(p, hi, amount_0),
                get_liquidity_for_amount_1(lo, p, amount_1))
        ELSE get_liquidity_for_amount_1(lo, hi, amount_1)

-----------------------------------------------------------------------------
(* swap_math *)

\* One step of a swap from price `current` towards `target`: `remaining` is
\* positive for an exact input and negative for an exact output.  From price 0
\* every branch fails in _get_amount_0_delta or in get_next_sqrt_price_from_input.
compute_swap_step(current, target, liquidity, remaining, fee_pips) ==
    LET zero_for_one == current >= target
        exact_in     == remaining >= 0
        amount_in(p)  == IF zero_for_one
                         THEN unsigned_amount_0_delta(p, current, liquidity, TRUE)
                         ELSE unsigned_amount_1_delta(current, p, liquidity, TRUE)
        amount_out(p) == IF zero_for_one
                         THEN unsigned_amount_1_delta(p, current, liquidity, FALSE)
                         ELSE unsigned_amount_0_delta(current, p, liquidity, FALSE)
        less_fee == mul_div(remaining, ONE_FEE - fee_pips, ONE_FEE)
        next ==
            IF exact_in
            THEN IF less_fee >= amount_in(target) THEN target
                 ELSE get_next_sqrt_price_from_input(current, liquidity, less_fee, zero_for_one)
            ELSE IF -remaining >= amount_out(target) THEN target
                 ELSE get_next_sqrt_price_from_output(current, liquidity, -remaining, zero_for_one)
    IN  IF current = 0 \/ next = ErrPrice
        THEN [price |-> ErrPrice, amount_in |-> 0, amount_out |-> 0, fee_amount |-> 0]
        ELSE [price      |-> next,
              amount_in  |-> amount_in(next),
              amount_out |-> IF exact_in THEN amount_out(next)
                                         ELSE Lo(amount_out(next), -remaining),
              fee_amount |-> IF exact_in /\ next # target
                             THEN wrapping_sub(remaining, amount_in(next))
                             ELSE mul_div_rounding_up(amount_in(next), fee_pips,
                                                      ONE_FEE - fee_pips)]

-----------------------------------------------------------------------------
(* tick_bitmap: the bitmap is the set of the compressed ticks whose bit is 1 *)

WordOf(compressed) == compressed \div WORD

\* The next tick to visit and whether it is initialised; the search stays in
\* the word of the current tick (or, going up, of the tick above it).
next_initialized_tick_within_one_word(bitmap, tick, spacing, lte) ==
    LET compressed == tick \div spacing
        from  == IF lte THEN compressed ELSE compressed + 1
        found == {i \in bitmap : /\ WordOf(i) = WordOf(from)
                                 /\ IF lte THEN i <= from ELSE i >= from}
        edge  == IF lte THEN WordOf(from) * WORD
                        ELSE WordOf(from) * WORD + WORD - 1
        next  == IF found = {} THEN edge
                 ELSE IF lte THEN Max(found) ELSE Min(found)
    IN  [tick |-> next * spacing, initialised |-> found # {}]

=============================================================================
