----------------------------- MODULE PoolProofs -----------------------------
(***************************************************************************)
(* Proofs about Pool for every price table, every number of positions and  *)
(* every set of arguments.  First what the arithmetic of PoolMath returns: *)
(* amounts and prices are naturals and ticks are ticks, because every      *)
(* divisor is positive where it is used and every search looks at a        *)
(* bounded set; and how its roundings compare.  Then the pool: its types,  *)
(* price and tick, fee growth, and what an adjustment takes.  Last its     *)
(* ledger: what the ticks, the bitmap and the pool's own liquidity say of  *)
(* the positions, and that the reserve covers what is due to them.  Those  *)
(* statements are sums over the positions, for any number of them.         *)
(***************************************************************************)
EXTENDS Pool, FiniteSetTheorems, WellFoundedInduction, TLAPS

-----------------------------------------------------------------------------
(* Bounded sets of integers have a greatest and a least element *)

\* A non-empty set of naturals has a least element.
LEMMA LeastNatural ==
    ASSUME NEW S \in SUBSET Nat, S # {}
    PROVE  \E x \in S : \A y \in S : x <= y
<1> DEFINE R == OpToRel(<, Nat)
<1>1. IsWellFoundedOn(R, Nat)
  BY NatLessThanWellFounded
<1>2. \E x \in S : \A y \in S : ~(<<y, x>> \in R)
  <2> HIDE DEF R
  <2> QED  BY <1>1, WFMin
<1>3. \A x, y \in Nat : <<y, x>> \in R <=> y < x
  BY DEF OpToRel
<1>4. PICK x \in S : \A y \in S : ~(<<y, x>> \in R)
  BY <1>2
<1>5. ASSUME NEW y \in S PROVE x <= y
  <2>1. ~(<<y, x>> \in R) /\ x \in Nat /\ y \in Nat
    BY <1>4, Zenon
  <2> HIDE DEF R
  <2>2. ~(y < x)
    BY <1>3, <2>1
  <2> QED  BY <2>1, <2>2
<1> QED  BY <1>5

\* Max, by which the tick of a price is defined, is the maximum of a set of
\* integers that is bounded above.
LEMMA MaxOfBounded ==
    ASSUME NEW S \in SUBSET Int, S # {}, NEW b \in Int, \A x \in S : x <= b
    PROVE  Max(S) \in S /\ \A y \in S : Max(S) >= y
<1> DEFINE D == {b - x : x \in S}
<1>0. \A x \in S : x \in Int /\ b - x \in Nat
  OBVIOUS
<1>1. D \in SUBSET Nat /\ D # {}
  <2>1. \A d \in D : d \in Nat
    BY <1>0
  <2>2. PICK x \in S : TRUE
    OBVIOUS
  <2>3. b - x \in D
    BY <2>2
  <2> QED  BY <2>1, <2>3
<1>2. PICK d \in D : \A e \in D : d <= e
  <2> HIDE DEF D
  <2> QED  BY <1>1, LeastNatural
<1>3. PICK x \in S : d = b - x
  BY <1>2
<1>4. \A y \in S : x >= y
  <2> TAKE y \in S
  <2>1. b - y \in D
    OBVIOUS
  <2>2. d <= b - y /\ x \in Int /\ y \in Int
    BY <1>0, <1>2, <2>1, Zenon
  <2> HIDE DEF D
  <2> QED  BY <1>3, <2>2
<1>5. \E m \in S : \A y \in S : m >= y
  BY <1>4
<1> QED  BY <1>5 DEF Max

\* Min, which picks the next bit of a bitmap word, is the minimum of a set of
\* integers that is bounded below.
LEMMA MinOfBounded ==
    ASSUME NEW S \in SUBSET Int, S # {}, NEW b \in Int, \A x \in S : x >= b
    PROVE  Min(S) \in S /\ \A y \in S : Min(S) <= y
<1> DEFINE D == {x - b : x \in S}
<1>0. \A x \in S : x \in Int /\ x - b \in Nat
  OBVIOUS
<1>1. D \in SUBSET Nat /\ D # {}
  <2>1. \A d \in D : d \in Nat
    BY <1>0
  <2>2. PICK x \in S : TRUE
    OBVIOUS
  <2>3. x - b \in D
    BY <2>2
  <2> QED  BY <2>1, <2>3
<1>2. PICK d \in D : \A e \in D : d <= e
  <2> HIDE DEF D
  <2> QED  BY <1>1, LeastNatural
<1>3. PICK x \in S : d = x - b
  BY <1>2
<1>4. \A y \in S : x <= y
  <2> TAKE y \in S
  <2>1. y - b \in D
    OBVIOUS
  <2>2. d <= y - b /\ x \in Int /\ y \in Int
    BY <1>0, <1>2, <2>1, Zenon
  <2> HIDE DEF D
  <2> QED  BY <1>3, <2>2
<1>5. \E m \in S : \A y \in S : m <= y
  BY <1>4
<1> QED  BY <1>5 DEF Min

\* get_tick_at_sqrt_ratio is a tick whenever the price is one it accepts.
LEMMA TickAtRatioType ==
    ASSUME NEW p \in Int, MIN_SQRT_RATIO <= p
    PROVE  get_tick_at_sqrt_ratio(p) \in Tick
<1> DEFINE S == {t \in Tick : SqrtRatio[t] <= p}
<1>1. S \in SUBSET Int /\ \A t \in S : t <= MAX_TICK
  BY MathAssumption DEF Tick, MIN_TICK
<1>2. MIN_TICK \in S
  BY MathAssumption DEF Tick, MIN_TICK, MIN_SQRT_RATIO
<1>3. Max(S) \in S
  <2> HIDE DEF S
  <2>1. MAX_TICK \in Int /\ S # {}
    BY <1>2, MathAssumption
  <2> QED  BY <1>1, <2>1, MaxOfBounded
<1> QED  BY <1>3 DEF get_tick_at_sqrt_ratio

\* The search of one bitmap word yields an integer tick.
LEMMA NextTickType ==
    ASSUME NEW bitmap \in SUBSET Int, NEW tick \in Int, NEW spacing \in Nat \ {0},
           NEW lte \in BOOLEAN
    PROVE  /\ next_initialized_tick_within_one_word(bitmap, tick, spacing, lte).tick \in Int
           /\ next_initialized_tick_within_one_word(bitmap, tick, spacing, lte).initialised
                  \in BOOLEAN
<1> DEFINE compressed == tick \div spacing
           from  == IF lte THEN compressed ELSE compressed + 1
           found == {i \in bitmap : /\ WordOf(i) = WordOf(from)
                                    /\ IF lte THEN i <= from ELSE i >= from}
           edge  == IF lte THEN WordOf(from) * WORD ELSE WordOf(from) * WORD + WORD - 1
           next  == IF found = {} THEN edge ELSE IF lte THEN Max(found) ELSE Min(found)
<1>1. compressed \in Int /\ from \in Int
  OBVIOUS
<1>2. WordOf(from) \in Int /\ WORD \in Int
  <2> HIDE DEF from
  <2> QED  BY <1>1, MathAssumption DEF WordOf
<1>3. edge \in Int
  <2> HIDE DEF from
  <2> QED  BY <1>2
<1>4. found \in SUBSET Int
  OBVIOUS
<1>5. CASE lte
  <2>1. \A i \in found : i <= from
    BY <1>5
  <2>2. found # {} => Max(found) \in Int
    <3> HIDE DEF found, from
    <3> QED  BY <1>1, <1>4, <2>1, MaxOfBounded
  <2>3. next \in Int
    <3> HIDE DEF found, edge
    <3> QED  BY <1>3, <1>5, <2>2
  <2> QED
    <3> HIDE DEF next
    <3>1. next * spacing \in Int
      BY <2>3
    <3> QED  BY <3>1 DEF next_initialized_tick_within_one_word, next
<1>6. CASE ~lte
  <2>1. \A i \in found : i >= from
    BY <1>6
  <2>2. found # {} => Min(found) \in Int
    <3> HIDE DEF found, from
    <3> QED  BY <1>1, <1>4, <2>1, MinOfBounded
  <2>3. next \in Int
    <3> HIDE DEF found, edge
    <3> QED  BY <1>3, <1>6, <2>2
  <2> QED
    <3> HIDE DEF next
    <3>1. next * spacing \in Int
      BY <2>3
    <3> QED  BY <3>1 DEF next_initialized_tick_within_one_word, next
<1> QED  BY <1>5, <1>6

-----------------------------------------------------------------------------
(* Amounts and prices are naturals *)

\* The product of two unsigned words is a natural.
LEMMA MulType ==
    ASSUME NEW a \in Nat, NEW b \in Nat
    PROVE  a * b \in Nat
OBVIOUS

\* The quotient of two unsigned words is a natural.
LEMMA DivType ==
    ASSUME NEW a \in Nat, NEW c \in Nat \ {0}
    PROVE  a \div c \in Nat
OBVIOUS

\* mul_div and mul_div_rounding_up return naturals.
LEMMA MulDivType ==
    ASSUME NEW a \in Nat, NEW b \in Nat, NEW c \in Nat \ {0}
    PROVE  mul_div(a, b, c) \in Nat /\ mul_div_rounding_up(a, b, c) \in Nat
<1>1. a * b \in Nat
  BY MulType
<1>2. (a * b) \div c \in Nat
  <2> DEFINE ab == a * b
  <2>1. ab \in Nat
    BY <1>1
  <2> HIDE DEF ab
  <2>2. ab \div c \in Nat
    BY <2>1, DivType
  <2> QED  BY <2>2 DEF ab
<1> QED  BY <1>2 DEF mul_div, mul_div_rounding_up

\* The wrapping subtraction of U256 returns a word.
LEMMA WrappingSubType ==
    ASSUME NEW a \in Int, NEW b \in Int
    PROVE  wrapping_sub(a, b) \in Nat
<1>1. U256 \in Nat \ {0} /\ a - b \in Int
  BY MathAssumption
<1> QED  BY <1>1 DEF wrapping_sub

\* _get_amount_0_delta returns a natural: neither of its divisors is zero.
LEMMA Amount0Type ==
    ASSUME NEW a \in Nat \ {0}, NEW b \in Nat \ {0}, NEW l \in Nat, NEW up
    PROVE  unsigned_amount_0_delta(a, b, l, up) \in Nat
<1>1. Lo(a, b) \in Nat \ {0} /\ Hi(a, b) \in Nat \ {0} /\ Hi(a, b) - Lo(a, b) \in Nat
  BY DEF Lo, Hi
<1>2. l * Q96 \in Nat
  BY MulType, MathAssumption
<1>3. /\ mul_div(l * Q96, Hi(a, b) - Lo(a, b), Hi(a, b)) \in Nat
      /\ mul_div_rounding_up(l * Q96, Hi(a, b) - Lo(a, b), Hi(a, b)) \in Nat
  BY <1>1, <1>2, MulDivType
<1>4. /\ mul_div(l * Q96, Hi(a, b) - Lo(a, b), Hi(a, b)) \div Lo(a, b) \in Nat
      /\ div_rounding_up(mul_div_rounding_up(l * Q96, Hi(a, b) - Lo(a, b), Hi(a, b)), Lo(a, b))
             \in Nat
  BY <1>1, <1>3, DivType, MulDivType DEF div_rounding_up
<1> QED  BY <1>4 DEF unsigned_amount_0_delta

\* _get_amount_1_delta returns a natural.
LEMMA Amount1Type ==
    ASSUME NEW a \in Nat, NEW b \in Nat, NEW l \in Nat, NEW up
    PROVE  unsigned_amount_1_delta(a, b, l, up) \in Nat
<1>1. Hi(a, b) - Lo(a, b) \in Nat
  BY DEF Lo, Hi
<1> QED  BY <1>1, MulDivType, MathAssumption DEF unsigned_amount_1_delta

\* The signed get_amount_0_delta and get_amount_1_delta return integers.
LEMMA AmountDeltaTypes ==
    ASSUME NEW a \in Nat \ {0}, NEW b \in Nat \ {0}, NEW l \in Int
    PROVE  get_amount_0_delta(a, b, l) \in Int /\ get_amount_1_delta(a, b, l) \in Int
<1> DEFINE down0 == unsigned_amount_0_delta(a, b, -l, FALSE)
           down1 == unsigned_amount_1_delta(a, b, -l, FALSE)
           up0 == unsigned_amount_0_delta(a, b, l, TRUE)
           up1 == unsigned_amount_1_delta(a, b, l, TRUE)
<1>1. get_amount_0_delta(a, b, l) = IF l < 0 THEN -down0 ELSE up0
  BY Zenon DEF get_amount_0_delta
<1>2. get_amount_1_delta(a, b, l) = IF l < 0 THEN -down1 ELSE up1
  BY Zenon DEF get_amount_1_delta
<1>3. l < 0 => -l \in Nat
  OBVIOUS
<1>4. ~(l < 0) => l \in Nat
  OBVIOUS
<1>5. l < 0 => down0 \in Nat /\ down1 \in Nat
  BY <1>3, Amount0Type, Amount1Type, Zenon
<1>6. ~(l < 0) => up0 \in Nat /\ up1 \in Nat
  BY <1>4, Amount0Type, Amount1Type, Zenon
<1> HIDE DEF down0, down1, up0, up1
<1> QED  BY <1>1, <1>2, <1>5, <1>6

\* The price after an exact input or output is a natural, ErrPrice included.
LEMMA NextPriceTypes ==
    ASSUME NEW price \in Nat, NEW l \in Nat, NEW amount \in Nat, NEW zero_for_one \in BOOLEAN
    PROVE  /\ get_next_sqrt_price_from_input(price, l, amount, zero_for_one) \in Nat
           /\ get_next_sqrt_price_from_output(price, l, amount, zero_for_one) \in Nat
<1>1. CASE price = 0 \/ l = 0
  BY <1>1 DEF get_next_sqrt_price_from_input, get_next_sqrt_price_from_output, ErrPrice
<1>2. CASE price # 0 /\ l # 0
  <2> DEFINE n == l * Q96
             q == amount * price
  <2>1. n \in Nat \ {0} /\ q \in Nat
    BY <1>2, MathAssumption, MulType
  <2>2. ASSUME NEW add \in BOOLEAN
        PROVE  get_next_sqrt_price_from_amount_0_rounding_up(price, l, amount, add) \in Nat
    <3> HIDE DEF n, q
    <3>1. n + q \in Nat \ {0} /\ (n > q => n - q \in Nat \ {0})
      BY <2>1
    <3>2. /\ mul_div_rounding_up(n, price, n + q) \in Nat
          /\ n > q => mul_div_rounding_up(n, price, n - q) \in Nat
      BY <2>1, <3>1, MulDivType
    <3> QED
      BY <3>2 DEF get_next_sqrt_price_from_amount_0_rounding_up, ErrPrice, n, q
  <2>3. ASSUME NEW add \in BOOLEAN
        PROVE  get_next_sqrt_price_from_amount_1_rounding_down(price, l, amount, add) \in Nat
    <3>1. mul_div(amount, Q96, l) \in Nat /\ mul_div_rounding_up(amount, Q96, l) \in Nat
      BY <1>2, MulDivType, MathAssumption
    <3>2. /\ price + mul_div(amount, Q96, l) \in Nat
          /\ Hi(price - mul_div_rounding_up(amount, Q96, l), ErrPrice) \in Nat
      BY <3>1 DEF Hi, ErrPrice
    <3> QED  BY <3>2 DEF get_next_sqrt_price_from_amount_1_rounding_down
  <2> QED
    BY <1>2, <2>2, <2>3 DEF get_next_sqrt_price_from_input, get_next_sqrt_price_from_output
<1> QED  BY <1>1, <1>2

Step == [price : Nat, amount_in : Nat, amount_out : Nat, fee_amount : Nat]

\* A step of a swap yields naturals: in particular no division by a zero price.
LEMMA SwapStepType ==
    ASSUME NEW current \in Nat, NEW target \in Nat \ {0}, NEW l \in Nat,
           NEW remaining \in Int, NEW fee_pips \in 0 .. ONE_FEE - 1
    PROVE  compute_swap_step(current, target, l, remaining, fee_pips) \in Step
<1> DEFINE zero_for_one == current >= target
           exact_in     == remaining >= 0
           amount_in(p)  == IF zero_for_one
                            THEN unsigned_amount_0_delta(p, current, l, TRUE)
                            ELSE unsigned_amount_1_delta(current, p, l, TRUE)
           amount_out(p) == IF zero_for_one
                            THEN unsigned_amount_1_delta(p, current, l, FALSE)
                            ELSE unsigned_amount_0_delta(current, p, l, FALSE)
           less_fee == mul_div(remaining, ONE_FEE - fee_pips, ONE_FEE)
           next == IF exact_in
                   THEN IF less_fee >= amount_in(target) THEN target
                        ELSE get_next_sqrt_price_from_input(current, l, less_fee, zero_for_one)
                   ELSE IF -remaining >= amount_out(target) THEN target
                        ELSE get_next_sqrt_price_from_output(current, l, -remaining, zero_for_one)
           charge(p) == IF exact_in /\ p # target
                        THEN wrapping_sub(remaining, amount_in(p))
                        ELSE mul_div_rounding_up(amount_in(p), fee_pips, ONE_FEE - fee_pips)
           out(p) == IF exact_in THEN amount_out(p) ELSE Lo(amount_out(p), -remaining)
           failed == [price |-> ErrPrice, amount_in |-> 0, amount_out |-> 0, fee_amount |-> 0]
           done   == [price |-> next, amount_in |-> amount_in(next),
                      amount_out |-> out(next), fee_amount |-> charge(next)]
<1>1. compute_swap_step(current, target, l, remaining, fee_pips)
        = IF current = 0 \/ next = ErrPrice THEN failed ELSE done
  BY Zenon DEF compute_swap_step
<1>2. failed \in Step
  BY DEF Step, ErrPrice
<1>3. ASSUME current # 0, next # ErrPrice PROVE done \in Step
  <2>0. ONE_FEE \in Nat \ {0} /\ fee_pips \in Nat /\ ONE_FEE - fee_pips \in Nat \ {0}
    BY MathAssumption
  <2>1. zero_for_one \in BOOLEAN /\ exact_in \in BOOLEAN
    OBVIOUS
  <2>2. ASSUME NEW p \in Nat \ {0} PROVE amount_in(p) \in Nat /\ amount_out(p) \in Nat
    BY <1>3, Amount0Type, Amount1Type
  <2>3. exact_in => less_fee \in Nat
    BY <2>0, MulDivType
  <2>4. ~exact_in => -remaining \in Nat
    OBVIOUS
  <2>5. next \in Nat
    <3> HIDE DEF less_fee, amount_in, amount_out, zero_for_one
    <3> QED  BY <2>1, <2>3, <2>4, NextPriceTypes
  <2>6. next \in Nat \ {0}
    <3> HIDE DEF next
    <3> QED  BY <1>3, <2>5 DEF ErrPrice
  <2> HIDE DEF next
  <2>7. amount_in(next) \in Nat /\ amount_out(next) \in Nat
    BY <2>2, <2>6
  <2> HIDE DEF amount_in, amount_out
  <2>8. out(next) \in Nat
    BY <2>4, <2>7 DEF Lo
  <2>9. charge(next) \in Nat
    <3>0. amount_in(next) \in Int
      BY <2>7
    <3>1. wrapping_sub(remaining, amount_in(next)) \in Nat
      BY <3>0, WrappingSubType
    <3>2. mul_div_rounding_up(amount_in(next), fee_pips, ONE_FEE - fee_pips) \in Nat
      BY <2>0, <2>7, MulDivType
    <3> QED  BY <3>1, <3>2
  <2> HIDE DEF out, charge
  <2> QED  BY <2>6, <2>7, <2>8, <2>9 DEF Step
<1> QED
  <2> HIDE DEF failed, done, next
  <2> QED  BY <1>1, <1>2, <1>3

-----------------------------------------------------------------------------
(* Rounding.  A rounded quotient is compared with a number by comparing the *)
(* products: all the bounds on a step of a swap follow from these.          *)

\* Quotient and remainder of integers.
LEMMA DivMod ==
    ASSUME NEW m \in Int, NEW n \in Nat \ {0}
    PROVE  /\ m \div n \in Int /\ m % n \in 0 .. n - 1
           /\ m = n * (m \div n) + (m % n)
OBVIOUS

\* Multiplying keeps an order, strictly if the factor is positive.
LEMMA MulOrder ==
    ASSUME NEW x \in Int, NEW y \in Int, NEW n \in Nat, x <= y
    PROVE  x * n <= y * n
<1>1. y - x \in Nat
  OBVIOUS
<1>2. (y - x) * n \in Nat
  BY <1>1, MulType
<1>3. (y - x) * n = y * n - x * n /\ y * n \in Int /\ x * n \in Int
  OBVIOUS
<1> QED  BY <1>2, <1>3

\* A quotient rounded down is at least x when x times the divisor fits.
LEMMA FloorAtLeast ==
    ASSUME NEW m \in Int, NEW n \in Nat \ {0}, NEW x \in Int
    PROVE  x <= m \div n <=> x * n <= m
<1> DEFINE q == m \div n
           r == m % n
<1>1. q \in Int /\ r \in 0 .. n - 1 /\ m = n * q + r
  BY DivMod
<1> HIDE DEF q, r
<1>2. n * q = q * n /\ q * n \in Int /\ x * n \in Int
  BY <1>1
<1>3. ASSUME x <= q PROVE x * n <= m
  <2>1. x * n <= q * n
    BY <1>1, <1>3, MulOrder
  <2> QED  BY <1>1, <1>2, <2>1
<1>4. ASSUME q + 1 <= x PROVE m < x * n
  <2>1. (q + 1) * n <= x * n
    BY <1>1, <1>4, MulOrder
  <2>2. (q + 1) * n = q * n + n
    BY <1>1
  <2> QED  BY <1>1, <1>2, <2>1, <2>2
<1>5. x <= q <=> x * n <= m
  <2>1. x <= q \/ q + 1 <= x
    BY <1>1
  <2> QED  BY <1>1, <1>2, <1>3, <1>4, <2>1
<1> QED  BY <1>5 DEF q

\* A quotient rounded up is at most x when x times the divisor covers it.
LEMMA CeilAtMost ==
    ASSUME NEW a \in Nat, NEW b \in Nat, NEW n \in Nat \ {0}, NEW x \in Int
    PROVE  mul_div_rounding_up(a, b, n) <= x <=> a * b <= x * n
<1> DEFINE m == a * b
           q == m \div n
           r == m % n
           u == IF r = 0 THEN 0 ELSE 1
           v == q + u
<1>1. m \in Nat
  BY MulType
<1>2. q \in Int /\ r \in 0 .. n - 1 /\ m = n * q + r
  <2> HIDE DEF m
  <2> QED  BY <1>1, DivMod
<1>3. mul_div_rounding_up(a, b, n) = q + u
  BY DEF mul_div_rounding_up, mul_div
<1> HIDE DEF m, q, r
<1>4. v \in Int /\ n * q = q * n /\ q * n \in Int /\ v * n \in Int /\ x * n \in Int
      /\ v * n = q * n + (IF r = 0 THEN 0 ELSE n)
  BY <1>2
<1> HIDE DEF u, v
<1>5. ASSUME v <= x PROVE m <= x * n
  <2>1. v * n <= x * n
    BY <1>4, <1>5, MulOrder
  <2> QED  BY <1>1, <1>2, <1>4, <2>1
<1>6. ASSUME x <= v - 1 PROVE x * n < m
  <2>1. x * n <= (v - 1) * n
    BY <1>4, <1>6, MulOrder
  <2>2. (v - 1) * n = v * n - n
    BY <1>4
  <2> QED  BY <1>1, <1>2, <1>4, <2>1, <2>2
<1>7. v <= x <=> m <= x * n
  <2>1. v <= x \/ x <= v - 1
    BY <1>4
  <2> QED  BY <1>1, <1>4, <1>5, <1>6, <2>1
<1> QED  BY <1>3, <1>7 DEF m, v

\* _get_amount_0_delta and _get_amount_1_delta compared with an amount.
LEMMA AmountsCompared ==
    ASSUME NEW lo \in Nat \ {0}, NEW hi \in Nat \ {0}, lo <= hi, NEW l \in Nat, NEW x \in Int
    PROVE  /\ unsigned_amount_0_delta(lo, hi, l, TRUE) <= x <=> (l * Q96) * (hi - lo) <= (x * lo) * hi
           /\ x <= unsigned_amount_0_delta(lo, hi, l, FALSE) <=> (x * lo) * hi <= (l * Q96) * (hi - lo)
           /\ unsigned_amount_1_delta(lo, hi, l, TRUE) <= x <=> l * (hi - lo) <= x * Q96
           /\ x <= unsigned_amount_1_delta(lo, hi, l, FALSE) <=> x * Q96 <= l * (hi - lo)
<1> DEFINE n == l * Q96
           d == hi - lo
           up == mul_div_rounding_up(n, d, hi)
           down == mul_div(n, d, hi)
<1>1. n \in Nat /\ d \in Nat /\ Q96 \in Nat \ {0}
  BY MulType, MathAssumption
<1>2. Lo(lo, hi) = lo /\ Hi(lo, hi) = hi
  BY DEF Lo, Hi
<1> HIDE DEF n, d
<1>3. up \in Nat /\ down \in Nat /\ n * d \in Nat /\ x * lo \in Int
  BY <1>1, MulDivType, MulType
<1>4. unsigned_amount_0_delta(lo, hi, l, TRUE) = mul_div_rounding_up(up, 1, lo)
  BY <1>2 DEF unsigned_amount_0_delta, div_rounding_up, n, d
<1>5. unsigned_amount_0_delta(lo, hi, l, FALSE) = down \div lo
  BY <1>2 DEF unsigned_amount_0_delta, n, d
<1>6. /\ unsigned_amount_1_delta(lo, hi, l, TRUE) = mul_div_rounding_up(l, d, Q96)
      /\ unsigned_amount_1_delta(lo, hi, l, FALSE) = (l * d) \div Q96
  BY <1>2 DEF unsigned_amount_1_delta, mul_div, d
<1>7. mul_div_rounding_up(up, 1, lo) <= x <=> n * d <= (x * lo) * hi
  <2>1. mul_div_rounding_up(up, 1, lo) <= x <=> up * 1 <= x * lo
    <3> HIDE DEF up
    <3> QED  BY <1>3, CeilAtMost
  <2>2. up <= x * lo <=> n * d <= (x * lo) * hi
    BY <1>1, <1>3, CeilAtMost
  <2> HIDE DEF up
  <2>3. up * 1 = up
    BY <1>3
  <2> QED  BY <2>1, <2>2, <2>3
<1>8. x <= down \div lo <=> (x * lo) * hi <= n * d
  <2>1. x <= down \div lo <=> x * lo <= down
    <3> HIDE DEF down
    <3> QED  BY <1>3, FloorAtLeast
  <2>2. down = (n * d) \div hi
    BY DEF mul_div
  <2>3. x * lo <= (n * d) \div hi <=> (x * lo) * hi <= n * d
    <3> DEFINE nd == n * d
               y == x * lo
    <3>1. nd \in Int /\ y \in Int
      BY <1>3
    <3> HIDE DEF nd, y
    <3>2. y <= nd \div hi <=> y * hi <= nd
      BY <3>1, FloorAtLeast
    <3> QED  BY <3>2 DEF nd, y
  <2> HIDE DEF down
  <2> QED  BY <2>1, <2>2, <2>3
<1>9. mul_div_rounding_up(l, d, Q96) <= x <=> l * d <= x * Q96
  BY <1>1, CeilAtMost
<1>10. x <= (l * d) \div Q96 <=> x * Q96 <= l * d
  <2> DEFINE ld == l * d
  <2>1. ld \in Int
    BY <1>1
  <2> HIDE DEF ld
  <2>2. x <= ld \div Q96 <=> x * Q96 <= ld
    BY <1>1, <2>1, FloorAtLeast
  <2> QED  BY <2>2 DEF ld
<1> HIDE DEF up, down
<1> QED  BY <1>4, <1>5, <1>6, <1>7, <1>8, <1>9, <1>10 DEF n, d

\* A quotient rounded up, bounded from above and from below.
LEMMA CeilBounds ==
    ASSUME NEW a \in Nat, NEW b \in Nat, NEW n \in Nat \ {0}, NEW x \in Nat, NEW r \in Nat,
           r = mul_div_rounding_up(a, b, n)
    PROVE  (r <= x <=> a * b <= x * n) /\ a * b <= r * n
<1>1. r <= x <=> a * b <= x * n
  BY CeilAtMost
<1>2. r <= r <=> a * b <= r * n
  BY CeilAtMost
<1> QED  BY <1>1, <1>2

\* The same of one of the two next-price formulas of token 0, whose result for
\* no amount is the price itself.
LEMMA PriceBounds ==
    ASSUME NEW n \in Nat \ {0}, NEW c \in Nat, NEW m \in Nat \ {0}, NEW x \in Nat, NEW r \in Nat,
           r = mul_div_rounding_up(n, c, m) \/ (r = c /\ m = n)
    PROVE  (r <= x <=> n * c <= x * m) /\ n * c <= r * m
<1>1. CASE r = mul_div_rounding_up(n, c, m)
  BY <1>1, CeilBounds
<1>2. CASE r = c /\ m = n
  <2>1. c <= x => c * n <= x * n
    BY MulOrder
  <2>2. x + 1 <= c => (x + 1) * n <= c * n
    BY MulOrder
  <2>3. (x + 1) * n = x * n + n /\ n * c = c * n /\ x * n \in Int /\ c * n \in Int
    OBVIOUS
  <2>4. c <= x <=> n * c <= x * n
    BY <2>1, <2>2, <2>3
  <2> QED  BY <1>2, <2>3, <2>4
<1> QED  BY <1>1, <1>2

\* An input of token 0 that does not reach the target moves the price down to
\* before it, and at that price the pool asks for no more than the input.
LEMMA InputDown ==
    ASSUME NEW c \in Nat \ {0}, NEW t \in Nat \ {0}, t <= c, NEW n \in Nat, NEW a \in Nat,
           ~(n * (c - t) <= (a * t) * c), NEW r \in Nat,
           r = IF a = 0 THEN c ELSE mul_div_rounding_up(n, c, n + a * c)
    PROVE  t < r /\ r <= c /\ n * (c - r) <= (a * r) * c
<1> DEFINE m == n + a * c
<1>0. a * c \in Nat
  BY MulType
<1>1. n # 0
  <2> SUFFICES ASSUME n = 0 PROVE FALSE
    OBVIOUS
  <2>1. n * (c - t) = 0 /\ (a * t) * c \in Nat
    BY MulType
  <2> QED  BY <2>1
<1>2. m \in Nat \ {0} /\ n \in Nat \ {0} /\ (a = 0 => m = n)
  BY <1>0, <1>1
<1>3. ~(n * c <= t * m)
  OBVIOUS
<1>4. n * c <= c * m
  <2>1. c * m = n * c + (a * c) * c /\ (a * c) * c \in Nat /\ n * c \in Nat
    BY <1>0, MulType
  <2> HIDE DEF m
  <2> QED  BY <2>1
<1>5. r = mul_div_rounding_up(n, c, m) \/ (r = c /\ m = n)
  BY <1>2
<1>6. (r <= t <=> n * c <= t * m) /\ (r <= c <=> n * c <= c * m) /\ n * c <= r * m
  <2> HIDE DEF m
  <2>1. (r <= t <=> n * c <= t * m) /\ n * c <= r * m
    <3> DEFINE b == t
    <3> HIDE DEF b
    <3>1. b \in Nat
      BY DEF b
    <3>2. (r <= b <=> n * c <= b * m) /\ n * c <= r * m
      BY <1>2, <1>5, <3>1, PriceBounds
    <3> QED  BY <3>2 DEF b
  <2>2. r <= c <=> n * c <= c * m
    <3> DEFINE b == c
    <3> HIDE DEF b
    <3>1. b \in Nat
      BY DEF b
    <3>2. r <= b <=> n * c <= b * m
      BY <1>2, <1>5, <3>1, PriceBounds
    <3> QED  BY <3>2 DEF b
  <2> QED  BY <2>1, <2>2
<1>7. n * (c - r) <= (a * r) * c
  BY <1>6
<1>8. t < r /\ r <= c
  <2> HIDE DEF m
  <2> QED  BY <1>3, <1>4, <1>6
<1> QED  BY <1>7, <1>8

\* An input of token 1 that does not reach the target moves the price up to
\* before it, and at that price the pool asks for no more than the input.
LEMMA InputUp ==
    ASSUME NEW c \in Nat \ {0}, NEW t \in Nat \ {0}, c <= t, NEW l \in Nat \ {0}, NEW m \in Nat,
           ~(l * (t - c) <= m), NEW r \in Nat, r = c + (m \div l)
    PROVE  c <= r /\ r < t /\ l * (r - c) <= m
<1> DEFINE d == m \div l
           e == t - c
<1>1. e \in Nat /\ ~(l * e <= m)
  OBVIOUS
<1>2. d \in Nat
  BY DivType
<1>3. (e <= d <=> e * l <= m) /\ (d <= d <=> d * l <= m)
  <2> HIDE DEF e
  <2>1. e <= d <=> e * l <= m
    BY <1>1, FloorAtLeast
  <2>2. d \in Int
    BY <1>2
  <2>3. d <= d <=> d * l <= m
    <3> DEFINE f == d
    <3>1. f \in Int /\ (f <= d <=> f * l <= m)
      <4> HIDE DEF f
      <4>1. f \in Int
        BY <2>2 DEF f
      <4> QED  BY <4>1, FloorAtLeast
    <3> QED  BY <3>1
  <2> QED  BY <2>1, <2>3
<1>4. r = c + d
  OBVIOUS
<1> HIDE DEF d, e
<1>5. ~(e <= d) /\ d * l <= m
  BY <1>1, <1>2, <1>3
<1>6. c <= r /\ r < t /\ r - c = d
  BY <1>2, <1>4, <1>5 DEF e
<1>7. l * (r - c) <= m
  BY <1>2, <1>5, <1>6
<1> QED  BY <1>6, <1>7

\* An output of token 1 that does not reach the target moves the price down,
\* not past it, and at that price the pool can pay the whole output.
LEMMA OutputDown ==
    ASSUME NEW c \in Nat \ {0}, NEW t \in Nat \ {0}, t <= c, NEW l \in Nat \ {0}, NEW a \in Nat,
           NEW q \in Nat \ {0}, (a + 1) * q <= l * (c - t), NEW r \in Nat,
           r = Hi(c - mul_div_rounding_up(a, q, l), ErrPrice)
    PROVE  t <= r /\ r <= c /\ a * q <= l * (c - r)
<1> DEFINE u == mul_div_rounding_up(a, q, l)
           e == c - t
<1>0. e \in Nat /\ (a + 1) * q <= l * e /\ u \in Nat
  BY MulDivType
<1>1. (u <= e <=> a * q <= e * l) /\ a * q <= u * l
  <2> HIDE DEF e
  <2> QED  BY <1>0, CeilBounds
<1>2. r = Hi(c - u, ErrPrice)
  OBVIOUS
<1> HIDE DEF u, e
<1>3. a * q <= e * l
  BY <1>0
<1>4. u <= e
  BY <1>1, <1>3
<1>5. r = c - u /\ t <= r /\ r <= c /\ c - r = u
  BY <1>0, <1>2, <1>4 DEF Hi, ErrPrice, e
<1>6. a * q <= l * (c - r)
  BY <1>0, <1>1, <1>5
<1> QED  BY <1>5, <1>6

\* An output of token 0 that does not reach the target moves the price up, not
\* past it, and at that price the pool can pay the whole output.
LEMMA OutputUp ==
    ASSUME NEW c \in Nat \ {0}, NEW t \in Nat \ {0}, c <= t, NEW n \in Nat, NEW a \in Nat,
           ((a + 1) * c) * t <= n * (t - c), NEW r \in Nat,
           r = IF a = 0 THEN c
               ELSE IF n > a * c THEN mul_div_rounding_up(n, c, n - a * c) ELSE ErrPrice
    PROVE  c <= r /\ r <= t /\ (a * c) * r <= n * (r - c)
<1> DEFINE m == n - a * c
<1>0. a * c \in Nat /\ c * t \in Nat /\ c * t # 0 /\ n * c \in Nat
  BY MulType
<1>1. n * c + c * t <= t * m
  OBVIOUS
<1>2. m \in Nat \ {0} /\ n \in Nat \ {0} /\ n > a * c /\ (a = 0 => m = n)
  <2>1. m \in Int
    BY <1>0
  <2>2. CASE m <= 0
    <3>1. m * t <= 0 * t
      BY <2>1, <2>2, MulOrder
    <3> HIDE DEF m
    <3>2. t * m = m * t /\ 0 * t = 0 /\ m * t \in Int
      BY <2>1
    <3> QED  BY <1>0, <1>1, <3>1, <3>2
  <2> QED  BY <1>0, <2>1, <2>2
<1>3. r = mul_div_rounding_up(n, c, m) \/ (r = c /\ m = n)
  BY <1>2
<1>4. /\ r <= t <=> n * c <= t * m
      /\ r <= c - 1 <=> n * c <= (c - 1) * m
      /\ n * c <= r * m
  <2> HIDE DEF m
  <2>1. c - 1 \in Nat
    OBVIOUS
  <2>2. (r <= t <=> n * c <= t * m) /\ n * c <= r * m
    BY <1>2, <1>3, PriceBounds
  <2>3. r <= c - 1 <=> n * c <= (c - 1) * m
    <3> DEFINE b == c - 1
    <3> HIDE DEF b
    <3>1. b \in Nat
      BY <2>1 DEF b
    <3>2. r <= b <=> n * c <= b * m
      BY <1>2, <1>3, <3>1, PriceBounds
    <3> QED  BY <3>2 DEF b
  <2> QED  BY <2>2, <2>3
<1>5. ~(n * c <= (c - 1) * m)
  <2>1. (c - 1) * m = n * c - (a * c) * c - m
    OBVIOUS
  <2>2. (a * c) * c \in Nat
    BY <1>0, MulType
  <2> HIDE DEF m
  <2> QED  BY <1>0, <1>2, <2>1, <2>2
<1>6. (a * c) * r <= n * (r - c)
  BY <1>4
<1> HIDE DEF m
<1>7. c <= r /\ r <= t
  BY <1>0, <1>1, <1>2, <1>4, <1>5
<1> QED  BY <1>6, <1>7

\* The amounts between two prices, rounded up and down, and the prices after an
\* input or an output.
Up0(lo, hi, l)   == unsigned_amount_0_delta(lo, hi, l, TRUE)
Down0(lo, hi, l) == unsigned_amount_0_delta(lo, hi, l, FALSE)
Up1(lo, hi, l)   == unsigned_amount_1_delta(lo, hi, l, TRUE)
Down1(lo, hi, l) == unsigned_amount_1_delta(lo, hi, l, FALSE)
Input0(c, l, a)  == get_next_sqrt_price_from_input(c, l, a, TRUE)
Input1(c, l, a)  == get_next_sqrt_price_from_input(c, l, a, FALSE)
Output1(c, l, a) == get_next_sqrt_price_from_output(c, l, a, TRUE)
Output0(c, l, a) == get_next_sqrt_price_from_output(c, l, a, FALSE)

\* They are naturals, and compare as the products do.
LEMMA AmountFacts ==
    ASSUME NEW lo \in Nat \ {0}, NEW hi \in Nat \ {0}, lo <= hi, NEW l \in Nat, NEW x \in Int
    PROVE  /\ Up0(lo, hi, l) \in Nat /\ Down0(lo, hi, l) \in Nat
           /\ Up1(lo, hi, l) \in Nat /\ Down1(lo, hi, l) \in Nat
           /\ Up0(lo, hi, l) <= x <=> (l * Q96) * (hi - lo) <= (x * lo) * hi
           /\ x <= Down0(lo, hi, l) <=> (x * lo) * hi <= (l * Q96) * (hi - lo)
           /\ Up1(lo, hi, l) <= x <=> l * (hi - lo) <= x * Q96
           /\ x <= Down1(lo, hi, l) <=> x * Q96 <= l * (hi - lo)
<1>1. /\ Up0(lo, hi, l) \in Nat /\ Down0(lo, hi, l) \in Nat
      /\ Up1(lo, hi, l) \in Nat /\ Down1(lo, hi, l) \in Nat
  BY Amount0Type, Amount1Type DEF Up0, Down0, Up1, Down1
<1>2. /\ Up0(lo, hi, l) <= x <=> (l * Q96) * (hi - lo) <= (x * lo) * hi
      /\ x <= Down0(lo, hi, l) <=> (x * lo) * hi <= (l * Q96) * (hi - lo)
      /\ Up1(lo, hi, l) <= x <=> l * (hi - lo) <= x * Q96
      /\ x <= Down1(lo, hi, l) <=> x * Q96 <= l * (hi - lo)
  BY AmountsCompared, Zenon DEF Up0, Down0, Up1, Down1
<1> QED  BY <1>1, <1>2

\* The liquidity one token buys between two prices is a natural.
LEMMA LiquidityForAmountType ==
    ASSUME NEW x \in Nat \ {0}, NEW y \in Nat \ {0}, x < y, NEW amount \in Nat
    PROVE  /\ get_liquidity_for_amount_0(x, y, amount) \in Nat
           /\ get_liquidity_for_amount_1(x, y, amount) \in Nat
<1>1. y - x \in Nat \ {0}
  OBVIOUS
<1>2. mul_div(x, y, Q96) \in Nat
  BY MulDivType, MathAssumption
<1> QED  BY <1>1, <1>2, MulDivType, MathAssumption
         DEF get_liquidity_for_amount_0, get_liquidity_for_amount_1

\* Liquidity is rounded down and the amounts it costs are rounded up, by
\* different divisions; still what an amount of a token buys between two prices
\* never costs more than the amount.
LEMMA LiquidityCosts ==
    ASSUME NEW lo \in Nat \ {0}, NEW hi \in Nat \ {0}, lo < hi, NEW amount \in Nat, NEW l \in Nat
    PROVE  /\ l <= get_liquidity_for_amount_0(lo, hi, amount) => Up0(lo, hi, l) <= amount
           /\ l <= get_liquidity_for_amount_1(lo, hi, amount) => Up1(lo, hi, l) <= amount
<1> DEFINE d == hi - lo
           s == lo * hi
           q == s \div Q96
<1>0. d \in Nat \ {0} /\ s \in Nat /\ Q96 \in Nat \ {0}
  BY MathAssumption, MulType
<1>1. /\ Up0(lo, hi, l) <= amount <=> (l * Q96) * d <= (amount * lo) * hi
      /\ Up1(lo, hi, l) <= amount <=> l * d <= amount * Q96
  <2>1. lo <= hi /\ amount \in Int
    OBVIOUS
  <2> QED  BY <2>1, AmountFacts
<1>2. /\ get_liquidity_for_amount_0(lo, hi, amount) = (amount * q) \div d
      /\ get_liquidity_for_amount_1(lo, hi, amount) = (amount * Q96) \div d
  BY DEF get_liquidity_for_amount_0, get_liquidity_for_amount_1, mul_div
<1>3. (amount * lo) * hi = amount * s
  OBVIOUS
<1> HIDE DEF d, s
<1>4. q \in Nat /\ q * Q96 <= s
  <2>1. q \in Nat
    BY <1>0, DivType
  <2>2. q <= s \div Q96 <=> q * Q96 <= s
    BY <1>0, <2>1, FloorAtLeast
  <2> QED  BY <2>1, <2>2
<1> HIDE DEF q
<1>5. ASSUME l <= (amount * q) \div d PROVE (l * Q96) * d <= amount * s
  <2>1. amount * q \in Nat /\ l * d \in Nat /\ amount * s \in Nat
    BY <1>0, <1>4, MulType
  <2>2. l * d <= amount * q
    BY <1>0, <1>5, <2>1, FloorAtLeast
  <2>3. (l * d) * Q96 <= (amount * q) * Q96
    BY <1>0, <2>1, <2>2, MulOrder
  <2>4. (q * Q96) * amount <= s * amount
    BY <1>0, <1>4, MulOrder
  <2>5. (l * d) * Q96 = (l * Q96) * d /\ (amount * q) * Q96 = (q * Q96) * amount
        /\ s * amount = amount * s
    BY <1>0, <1>4
  <2> QED  BY <1>0, <1>4, <2>1, <2>3, <2>4, <2>5
<1>6. ASSUME l <= (amount * Q96) \div d PROVE l * d <= amount * Q96
  <2>1. amount * Q96 \in Nat
    BY <1>0, MulType
  <2> QED  BY <1>0, <1>6, <2>1, FloorAtLeast
<1> QED  BY <1>1, <1>2, <1>3, <1>5, <1>6

\* The prices after an input or an output are naturals, computed by these
\* formulas.
LEMMA PriceFacts ==
    ASSUME NEW c \in Nat \ {0}, NEW l \in Nat \ {0}, NEW a \in Nat
    PROVE  /\ Input0(c, l, a) \in Nat /\ Input1(c, l, a) \in Nat
           /\ Output0(c, l, a) \in Nat /\ Output1(c, l, a) \in Nat
           /\ Input0(c, l, a) = IF a = 0 THEN c
                                ELSE mul_div_rounding_up(l * Q96, c, l * Q96 + a * c)
           /\ Input1(c, l, a) = c + ((a * Q96) \div l)
           /\ Output1(c, l, a) = Hi(c - mul_div_rounding_up(a, Q96, l), ErrPrice)
           /\ Output0(c, l, a) =
                  IF a = 0 THEN c
                  ELSE IF l * Q96 > a * c THEN mul_div_rounding_up(l * Q96, c, l * Q96 - a * c)
                  ELSE ErrPrice
<1>1. /\ Input0(c, l, a) \in Nat /\ Input1(c, l, a) \in Nat
      /\ Output0(c, l, a) \in Nat /\ Output1(c, l, a) \in Nat
  BY NextPriceTypes DEF Input0, Input1, Output0, Output1
<1>2. c # 0 /\ l # 0
  OBVIOUS
<1>3. Input0(c, l, a) = get_next_sqrt_price_from_amount_0_rounding_up(c, l, a, TRUE)
  BY <1>2, Zenon DEF Input0, get_next_sqrt_price_from_input
<1>4. Input1(c, l, a) = get_next_sqrt_price_from_amount_1_rounding_down(c, l, a, TRUE)
  BY <1>2, Zenon DEF Input1, get_next_sqrt_price_from_input
<1>5. Output1(c, l, a) = get_next_sqrt_price_from_amount_1_rounding_down(c, l, a, FALSE)
  BY <1>2, Zenon DEF Output1, get_next_sqrt_price_from_output
<1>6. Output0(c, l, a) = get_next_sqrt_price_from_amount_0_rounding_up(c, l, a, FALSE)
  BY <1>2, Zenon DEF Output0, get_next_sqrt_price_from_output
<1>7. Input0(c, l, a) = IF a = 0 THEN c
                        ELSE mul_div_rounding_up(l * Q96, c, l * Q96 + a * c)
  BY <1>3, Zenon DEF get_next_sqrt_price_from_amount_0_rounding_up
<1>8. Input1(c, l, a) = c + ((a * Q96) \div l)
  BY <1>4, Zenon DEF get_next_sqrt_price_from_amount_1_rounding_down, mul_div
<1>9. Output1(c, l, a) = Hi(c - mul_div_rounding_up(a, Q96, l), ErrPrice)
  BY <1>5, Zenon DEF get_next_sqrt_price_from_amount_1_rounding_down
<1>10. Output0(c, l, a) =
           IF a = 0 THEN c
           ELSE IF l * Q96 > a * c THEN mul_div_rounding_up(l * Q96, c, l * Q96 - a * c)
           ELSE ErrPrice
  BY <1>6, Zenon DEF get_next_sqrt_price_from_amount_0_rounding_up
<1> QED  BY <1>1, <1>7, <1>8, <1>9, <1>10, Zenon

\* An amount that does not reach the target stops between the prices, where the
\* pool asks for no more than that input or can pay all of that output.
LEMMA StopsBefore ==
    ASSUME NEW c \in Nat \ {0}, NEW t \in Nat \ {0}, NEW l \in Nat, NEW a \in Nat
    PROVE  /\ (t <= c /\ a < Up0(t, c, l)) =>
                  /\ t < Input0(c, l, a) /\ Input0(c, l, a) <= c
                  /\ Up0(Input0(c, l, a), c, l) <= a /\ Input0(c, l, a) \in Nat
           /\ (c <= t /\ a < Up1(c, t, l)) =>
                  /\ c <= Input1(c, l, a) /\ Input1(c, l, a) < t
                  /\ Up1(c, Input1(c, l, a), l) <= a /\ Input1(c, l, a) \in Nat
           /\ (t <= c /\ a < Down1(t, c, l)) =>
                  /\ t <= Output1(c, l, a) /\ Output1(c, l, a) <= c
                  /\ a <= Down1(Output1(c, l, a), c, l) /\ Output1(c, l, a) \in Nat
           /\ (c <= t /\ a < Down0(c, t, l)) =>
                  /\ c <= Output0(c, l, a) /\ Output0(c, l, a) <= t
                  /\ a <= Down0(c, Output0(c, l, a), l) /\ Output0(c, l, a) \in Nat
<1> DEFINE n == l * Q96
           m == a * Q96
<1>0. n \in Nat /\ m \in Nat /\ Q96 \in Nat \ {0}
  BY MulType, MathAssumption
<1>1. ASSUME t <= c, a < Up0(t, c, l)
      PROVE  /\ t < Input0(c, l, a) /\ Input0(c, l, a) <= c
             /\ Up0(Input0(c, l, a), c, l) <= a /\ Input0(c, l, a) \in Nat
  <2> DEFINE r == Input0(c, l, a)
  <2>1. Up0(t, c, l) \in Nat
    BY <1>1, AmountFacts
  <2>2. ~(Up0(t, c, l) <= a)
    BY <1>1, <2>1
  <2>3. ~(n * (c - t) <= (a * t) * c)
    BY <1>1, <2>2, AmountFacts
  <2>4. l \in Nat \ {0}
    <3> SUFFICES ASSUME l = 0 PROVE FALSE
      OBVIOUS
    <3>1. n * (c - t) = 0 /\ (a * t) * c \in Nat
      BY <1>0, MulType
    <3> QED  BY <2>3, <3>1
  <2>5. r \in Nat /\ r = IF a = 0 THEN c ELSE mul_div_rounding_up(n, c, n + a * c)
    BY <2>4, PriceFacts
  <2> HIDE DEF r, n
  <2>6. t < r /\ r <= c /\ n * (c - r) <= (a * r) * c
    BY <1>0, <1>1, <2>3, <2>5, InputDown
  <2>7. r \in Nat \ {0}
    BY <2>5, <2>6
  <2>8. Up0(r, c, l) <= a
    BY <2>6, <2>7, AmountFacts DEF n
  <2> QED  BY <2>5, <2>6, <2>8 DEF r
<1>2. ASSUME c <= t, a < Up1(c, t, l)
      PROVE  /\ c <= Input1(c, l, a) /\ Input1(c, l, a) < t
             /\ Up1(c, Input1(c, l, a), l) <= a /\ Input1(c, l, a) \in Nat
  <2> DEFINE r == Input1(c, l, a)
  <2>1. Up1(c, t, l) \in Nat
    BY <1>2, AmountFacts
  <2>2. ~(Up1(c, t, l) <= a)
    BY <1>2, <2>1
  <2>3. ~(l * (t - c) <= m)
    BY <1>2, <2>2, AmountFacts
  <2>4. l \in Nat \ {0}
    <3> SUFFICES ASSUME l = 0 PROVE FALSE
      OBVIOUS
    <3>1. l * (t - c) = 0
      OBVIOUS
    <3> QED  BY <1>0, <2>3, <3>1
  <2>5. r \in Nat /\ r = c + (m \div l)
    BY <2>4, PriceFacts
  <2> HIDE DEF r, m
  <2>6. c <= r /\ r < t /\ l * (r - c) <= m
    BY <1>0, <1>2, <2>3, <2>4, <2>5, InputUp
  <2>7. r \in Nat \ {0}
    BY <2>5, <2>6
  <2>8. Up1(c, r, l) <= a
    BY <2>6, <2>7, AmountFacts DEF m
  <2> QED  BY <2>5, <2>6, <2>8 DEF r
<1>3. ASSUME t <= c, a < Down1(t, c, l)
      PROVE  /\ t <= Output1(c, l, a) /\ Output1(c, l, a) <= c
             /\ a <= Down1(Output1(c, l, a), c, l) /\ Output1(c, l, a) \in Nat
  <2> DEFINE r == Output1(c, l, a)
             b == a + 1
  <2>1. Down1(t, c, l) \in Nat
    BY <1>3, AmountFacts
  <2>2. b <= Down1(t, c, l) /\ b \in Int /\ b \in Nat \ {0}
    BY <1>3, <2>1
  <2> HIDE DEF b
  <2>3. b * Q96 <= l * (c - t)
    BY <1>3, <2>2, AmountFacts
  <2>4. l \in Nat \ {0}
    <3> SUFFICES ASSUME l = 0 PROVE FALSE
      OBVIOUS
    <3>1. l * (c - t) = 0 /\ b * Q96 \in Nat /\ b * Q96 # 0
      BY <1>0, <2>2, MulType
    <3> QED  BY <2>3, <3>1
  <2>5. r \in Nat /\ r = Hi(c - mul_div_rounding_up(a, Q96, l), ErrPrice)
    BY <2>4, PriceFacts
  <2> HIDE DEF r
  <2>6. (a + 1) * Q96 <= l * (c - t)
    BY <2>3 DEF b
  <2>7. t <= r /\ r <= c /\ a * Q96 <= l * (c - r)
    <3> DEFINE q == Q96
    <3>1. q \in Nat \ {0} /\ (a + 1) * q <= l * (c - t)
          /\ r = Hi(c - mul_div_rounding_up(a, q, l), ErrPrice)
      BY <1>0, <2>5, <2>6
    <3> HIDE DEF q
    <3>2. t <= r /\ r <= c /\ a * q <= l * (c - r)
      BY <1>3, <2>4, <2>5, <3>1, OutputDown
    <3> QED  BY <3>2 DEF q
  <2>8. r \in Nat \ {0}
    BY <2>5, <2>7
  <2>9. a <= Down1(r, c, l)
    BY <2>7, <2>8, AmountFacts
  <2> QED  BY <2>5, <2>7, <2>9 DEF r
<1>4. ASSUME c <= t, a < Down0(c, t, l)
      PROVE  /\ c <= Output0(c, l, a) /\ Output0(c, l, a) <= t
             /\ a <= Down0(c, Output0(c, l, a), l) /\ Output0(c, l, a) \in Nat
  <2> DEFINE r == Output0(c, l, a)
             b == a + 1
  <2>1. Down0(c, t, l) \in Nat
    BY <1>4, AmountFacts
  <2>2. b <= Down0(c, t, l) /\ b \in Int /\ b \in Nat \ {0}
    BY <1>4, <2>1
  <2> HIDE DEF b
  <2>3. (b * c) * t <= n * (t - c)
    BY <1>4, <2>2, AmountFacts
  <2>4. l \in Nat \ {0}
    <3> SUFFICES ASSUME l = 0 PROVE FALSE
      OBVIOUS
    <3>1. n * (t - c) = 0
      BY <1>0
    <3>2. b * c \in Nat /\ b * c # 0
      BY <2>2, MulType
    <3>3. (b * c) * t \in Nat /\ (b * c) * t # 0
      <4> DEFINE bc == b * c
      <4> HIDE DEF bc
      <4>1. bc \in Nat /\ bc # 0
        BY <3>2 DEF bc
      <4>2. bc * t \in Nat /\ bc * t # 0
        BY <4>1, MulType
      <4> QED  BY <4>2 DEF bc
    <3> QED  BY <2>3, <3>1, <3>3
  <2>5. r \in Nat /\ r = IF a = 0 THEN c
                         ELSE IF n > a * c THEN mul_div_rounding_up(n, c, n - a * c) ELSE ErrPrice
    BY <2>4, PriceFacts
  <2> HIDE DEF r, n
  <2>6. ((a + 1) * c) * t <= n * (t - c)
    BY <2>3 DEF b
  <2>7. c <= r /\ r <= t /\ (a * c) * r <= n * (r - c)
    BY <1>0, <1>4, <2>5, <2>6, OutputUp
  <2>8. r \in Nat \ {0}
    BY <2>5, <2>7
  <2>9. a <= Down0(c, r, l)
    BY <2>7, <2>8, AmountFacts DEF n
  <2> QED  BY <2>5, <2>7, <2>9 DEF r
<1> QED  BY <1>1, <1>2, <1>3, <1>4

\* The fee of an exact input leaves at most that input, and an input that leaves
\* room for its fee, as rounded, exceeds it by no more.
LEMMA FeeFits ==
    ASSUME NEW rem \in Nat, NEW f \in 0 .. ONE_FEE - 1, NEW less \in Nat,
           less = mul_div(rem, ONE_FEE - f, ONE_FEE), NEW in \in Nat
    PROVE  /\ less <= rem
           /\ in <= less => in + mul_div_rounding_up(in, f, ONE_FEE - f) <= rem
<1> DEFINE k == ONE_FEE - f
           m == rem * k
<1>0. ONE_FEE \in Nat \ {0} /\ k \in Nat \ {0} /\ f \in Nat /\ m \in Nat
  BY MulType, MathAssumption
<1>1. less = m \div ONE_FEE
  BY DEF mul_div
<1>2. less <= rem
  <2> DEFINE b == rem + 1
  <2>1. ~(b * ONE_FEE <= m)
    <3>1. b * ONE_FEE = rem * ONE_FEE + ONE_FEE /\ m = rem * ONE_FEE - rem * f
      BY <1>0
    <3>2. rem * f \in Nat /\ rem * ONE_FEE \in Nat
      BY <1>0, MulType
    <3> HIDE DEF b, m
    <3> QED  BY <1>0, <3>1, <3>2
  <2>2. b \in Int
    OBVIOUS
  <2> HIDE DEF b, m
  <2>3. ~(b <= m \div ONE_FEE)
    BY <1>0, <2>1, <2>2, FloorAtLeast
  <2> QED  BY <1>1, <2>3 DEF b
<1>3. ASSUME in <= less PROVE in + mul_div_rounding_up(in, f, k) <= rem
  <2>1. in * ONE_FEE <= m
    <3> HIDE DEF m
    <3> QED  BY <1>0, <1>1, <1>3, FloorAtLeast
  <2> DEFINE x == rem - in
  <2>2. x \in Int /\ in * f <= x * k
    BY <1>0, <2>1
  <2> HIDE DEF x, k
  <2>3. mul_div_rounding_up(in, f, k) <= x
    BY <1>0, <2>2, CeilAtMost
  <2>4. mul_div_rounding_up(in, f, k) \in Nat
    BY <1>0, MulDivType
  <2> QED  BY <2>3, <2>4 DEF x
<1> QED  BY <1>2, <1>3

\* compute_swap_step stops between the price and the target.  It never takes
\* more than an exact input, its fee included, nor pays more than an exact
\* output; short of the target it uses up the amount that remains.
LEMMA SwapStepBounds ==
    ASSUME NEW c \in Nat \ {0}, NEW t \in Nat \ {0}, NEW l \in Nat, NEW rem \in Int,
           NEW f \in 0 .. ONE_FEE - 1, NEW step, step = compute_swap_step(c, t, l, rem, f)
    PROVE  /\ t <= c => t <= step.price /\ step.price <= c
           /\ c <= t => c <= step.price /\ step.price <= t
           /\ rem >= 0 => step.amount_in + step.fee_amount <= rem
           /\ rem < 0 => step.amount_out <= -rem
           /\ (rem >= 0 /\ rem < U256 /\ step.price # t) => step.amount_in + step.fee_amount = rem
           /\ (rem < 0 /\ step.price # t) => step.amount_out = -rem
<1> DEFINE z == c >= t
           exact == rem >= 0
           in(p)  == IF z THEN Up0(p, c, l) ELSE Up1(c, p, l)
           out(p) == IF z THEN Down1(p, c, l) ELSE Down0(c, p, l)
           less == mul_div(rem, ONE_FEE - f, ONE_FEE)
           input(a)  == IF z THEN Input0(c, l, a) ELSE Input1(c, l, a)
           output(a) == IF z THEN Output1(c, l, a) ELSE Output0(c, l, a)
           next == IF exact THEN IF less >= in(t) THEN t ELSE input(less)
                            ELSE IF -rem >= out(t) THEN t ELSE output(-rem)
           pay(p) == IF exact THEN out(p) ELSE Lo(out(p), -rem)
           charge(p) == IF exact /\ p # t THEN wrapping_sub(rem, in(p))
                        ELSE mul_div_rounding_up(in(p), f, ONE_FEE - f)
<1>0. c # 0 /\ c \in Int /\ t \in Int /\ z \in BOOLEAN /\ exact \in BOOLEAN
  OBVIOUS
<1>1. ASSUME NEW a
      PROVE  /\ get_next_sqrt_price_from_input(c, l, a, z) = input(a)
             /\ get_next_sqrt_price_from_output(c, l, a, z) = output(a)
  BY <1>0, Zenon DEF Input0, Input1, Output0, Output1, get_next_sqrt_price_from_input,
                     get_next_sqrt_price_from_output
<1> DEFINE Input(a)  == get_next_sqrt_price_from_input(c, l, a, z)
           Output(a) == get_next_sqrt_price_from_output(c, l, a, z)
           coded == IF exact THEN IF less >= in(t) THEN t ELSE Input(less)
                             ELSE IF -rem >= out(t) THEN t ELSE Output(-rem)
           result(p) == IF c = 0 \/ p = ErrPrice
             THEN [price |-> ErrPrice, amount_in |-> 0, amount_out |-> 0, fee_amount |-> 0]
             ELSE [price |-> p, amount_in |-> in(p), amount_out |-> pay(p),
                   fee_amount |-> charge(p)]
<1>2a. step = result(coded)
  BY Zenon DEF compute_swap_step, Up0, Up1, Down0, Down1
<1>2b. coded = next
  <2>1. Input(less) = input(less) /\ Output(-rem) = output(-rem)
    BY <1>1
  <2> HIDE DEF Input, Output, input, output, in, out, less, exact
  <2> QED  BY <2>1
<1>2. step = result(next)
  BY <1>2a, <1>2b
<1>4. ASSUME NEW p \in Nat \ {0}, z => p <= c, ~z => c <= p
      PROVE  in(p) \in Nat /\ out(p) \in Nat
  BY <1>4, AmountFacts
<1>5. /\ z => t <= c
      /\ ~z => c <= t
  OBVIOUS
<1>6. in(t) \in Nat /\ out(t) \in Nat
  BY <1>4, <1>5
\* An exact input.
<1>7. ASSUME exact
      PROVE  /\ next \in Nat \ {0} /\ (z => t <= next /\ next <= c) /\ (~z => c <= next /\ next <= t)
             /\ in(next) \in Nat /\ charge(next) \in Nat /\ in(next) + charge(next) <= rem
             /\ (rem < U256 /\ next # t) => in(next) + charge(next) = rem
  <2>1. less \in Nat /\ rem \in Nat /\ ONE_FEE - f \in Nat \ {0} /\ f \in Nat
        /\ U256 \in Nat \ {0}
    <3>1. rem \in Nat /\ ONE_FEE - f \in Nat \ {0} /\ f \in Nat
      BY <1>7, MathAssumption
    <3>2. ONE_FEE \in Nat \ {0} /\ U256 \in Nat \ {0}
      BY MathAssumption
    <3> QED  BY <3>1, <3>2, MulDivType
  <2>2. \A x \in Nat : less <= rem /\ (x <= less => x + mul_div_rounding_up(x, f, ONE_FEE - f) <= rem)
    <3> HIDE DEF less
    <3>1. less = mul_div(rem, ONE_FEE - f, ONE_FEE)
      BY DEF less
    <3> QED  BY <2>1, <3>1, FeeFits
  <2> HIDE DEF less
  <2>3. CASE less >= in(t)
    <3>1. next = t
      BY <1>7, <2>3
    <3>2. charge(t) = mul_div_rounding_up(in(t), f, ONE_FEE - f) /\ charge(t) \in Nat
      <4> HIDE DEF in
      <4> QED  BY <1>6, <2>1, MulDivType
    <3>3. in(t) + charge(t) <= rem
      <4> HIDE DEF in
      <4>1. in(t) <= less
        BY <1>6, <2>1, <2>3
      <4> QED  BY <1>6, <2>2, <3>2, <4>1
    <3> HIDE DEF in, charge, next, z
    <3> QED  BY <1>0, <1>5, <1>6, <3>1, <3>2, <3>3
  <2>4. CASE ~(less >= in(t))
    <3>1. next = input(less)
      BY <1>7, <2>4, Zenon
    <3>2. less < in(t)
      <4> HIDE DEF in
      <4> QED  BY <1>6, <2>1, <2>4
    <3>3. /\ next \in Nat /\ (z => t < next /\ next <= c) /\ (~z => c <= next /\ next < t)
          /\ in(next) <= less
      <4> HIDE DEF next
      <4>1. CASE z
        <5>1. less < Up0(t, c, l) /\ next = Input0(c, l, less) /\ in(next) = Up0(next, c, l)
          BY <3>1, <3>2, <4>1, Zenon
        <5> HIDE DEF z, in
        <5> QED  BY <1>5, <2>1, <4>1, <5>1, StopsBefore
      <4>2. CASE ~z
        <5>1. less < Up1(c, t, l) /\ next = Input1(c, l, less) /\ in(next) = Up1(c, next, l)
          BY <3>1, <3>2, <4>2, Zenon
        <5> HIDE DEF z, in
        <5> QED  BY <1>5, <2>1, <4>2, <5>1, StopsBefore
      <4> QED  BY <4>1, <4>2
    <3> HIDE DEF next
    <3>4. next \in Nat \ {0} /\ next # t /\ next \in Int
      <4> HIDE DEF z, in
      <4> QED  BY <1>0, <3>3
    <3>5. in(next) \in Nat
      <4> HIDE DEF z
      <4> QED  BY <1>4, <3>3, <3>4
    <3>6. charge(next) = (rem - in(next)) % U256
      BY <1>7, <3>4, Zenon DEF wrapping_sub
    <3> HIDE DEF in, charge, z
    <3>7. rem - in(next) \in Nat /\ less <= rem
      BY <2>1, <2>2, <3>3, <3>5
    <3>8. /\ charge(next) \in Nat /\ charge(next) <= rem - in(next)
          /\ rem < U256 => charge(next) = rem - in(next)
      <4> DEFINE d == rem - in(next)
      <4>1. d \in Nat /\ charge(next) = d % U256 /\ (rem < U256 => d < U256)
        BY <2>1, <3>5, <3>6, <3>7
      <4> HIDE DEF d
      <4>2. d % U256 \in Nat /\ d % U256 <= d /\ (d < U256 => d % U256 = d)
        BY <2>1, <4>1
      <4> QED  BY <4>1, <4>2 DEF d
    <3> QED  BY <1>0, <2>1, <3>3, <3>4, <3>5, <3>7, <3>8
  <2> QED  BY <2>3, <2>4
\* An exact output.
<1>8. ASSUME ~exact
      PROVE  /\ next \in Nat \ {0} /\ (z => t <= next /\ next <= c) /\ (~z => c <= next /\ next <= t)
             /\ pay(next) <= -rem /\ (next # t => pay(next) = -rem)
  <2> DEFINE a == -rem
  <2>1. a \in Nat
    BY <1>8
  <2>2. pay(next) = Lo(out(next), a)
    BY <1>8, Zenon
  <2>3. CASE -rem >= out(t)
    <3>1. next = t
      BY <1>8, <2>3, Zenon
    <3> HIDE DEF out, pay, next, z
    <3> QED  BY <1>0, <1>5, <1>6, <2>1, <2>2, <3>1 DEF Lo
  <2>4. CASE ~(-rem >= out(t))
    <3>1. next = output(a)
      BY <1>8, <2>4, Zenon
    <3> HIDE DEF a
    <3>2. a < out(t)
      <4> HIDE DEF out
      <4> QED  BY <1>6, <2>1, <2>4 DEF a
    <3>3. /\ next \in Nat /\ (z => t <= next /\ next <= c) /\ (~z => c <= next /\ next <= t)
          /\ a <= out(next)
      <4> HIDE DEF next
      <4>1. CASE z
        <5>1. a < Down1(t, c, l) /\ next = Output1(c, l, a) /\ out(next) = Down1(next, c, l)
          BY <3>1, <3>2, <4>1, Zenon
        <5> HIDE DEF z, out
        <5> QED  BY <1>5, <2>1, <4>1, <5>1, StopsBefore
      <4>2. CASE ~z
        <5>1. a < Down0(c, t, l) /\ next = Output0(c, l, a) /\ out(next) = Down0(c, next, l)
          BY <3>1, <3>2, <4>2, Zenon
        <5> HIDE DEF z, out
        <5> QED  BY <1>5, <2>1, <4>2, <5>1, StopsBefore
      <4> QED  BY <4>1, <4>2
    <3> HIDE DEF next
    <3>4. next \in Nat \ {0}
      <4> HIDE DEF z, out
      <4> QED  BY <1>0, <3>3
    <3>5. out(next) \in Nat
      <4> HIDE DEF z
      <4> QED  BY <1>4, <3>3, <3>4
    <3> HIDE DEF out, pay, z
    <3> QED  BY <2>1, <2>2, <3>3, <3>4, <3>5 DEF a, Lo
  <2> QED  BY <2>3, <2>4
<1>9. next \in Nat \ {0} /\ (z => t <= next /\ next <= c) /\ (~z => c <= next /\ next <= t)
  <2> HIDE DEF next, z, in, charge, pay, exact
  <2> QED  BY <1>7, <1>8
<1> HIDE DEF next, in, charge, pay
<1>10. /\ step.price = next /\ step.amount_in = in(next) /\ step.amount_out = pay(next)
       /\ step.fee_amount = charge(next)
  BY <1>0, <1>2, <1>9 DEF ErrPrice
<1>11. /\ t <= c => t <= next /\ next <= c
       /\ c <= t => c <= next /\ next <= t
  BY <1>9
<1> QED  BY <1>7, <1>8, <1>10, <1>11

-----------------------------------------------------------------------------
(* Ticks and their prices *)

\* Prices order the ticks.
LEMMA RatioOrder ==
    ASSUME NEW s \in Tick, NEW t \in Tick
    PROVE  /\ s <= t => SqrtRatio[s] <= SqrtRatio[t]
           /\ SqrtRatio[s] < SqrtRatio[t] => s < t
           /\ SqrtRatio[s] <= SqrtRatio[t] => s <= t
<1>1. s \in Int /\ t \in Int /\ SqrtRatio[s] \in Int /\ SqrtRatio[t] \in Int
  BY MathAssumption DEF Tick, MIN_TICK
<1>2. s < t => SqrtRatio[s] < SqrtRatio[t]
  BY RatioAssumption
<1>3. t < s => SqrtRatio[t] < SqrtRatio[s]
  BY RatioAssumption
<1> QED  BY <1>1, <1>2, <1>3

\* get_tick_at_sqrt_ratio finds the tick whose interval holds the price.
LEMMA TickAtRatio ==
    ASSUME NEW p \in Int, MIN_SQRT_RATIO <= p, p < MAX_SQRT_RATIO,
           NEW t, t = get_tick_at_sqrt_ratio(p)
    PROVE  /\ t \in MIN_TICK .. MAX_TICK - 1
           /\ SqrtRatio[t] <= p /\ p < SqrtRatio[t + 1]
<1> DEFINE S == {u \in Tick : SqrtRatio[u] <= p}
<1>0. MAX_TICK \in Nat /\ MIN_TICK = -MAX_TICK /\ \A u \in Tick : u \in Int /\ SqrtRatio[u] \in Int
  BY MathAssumption DEF Tick, MIN_TICK
<1>1. S \in SUBSET Int /\ \A u \in S : u <= MAX_TICK
  BY MathAssumption DEF Tick, MIN_TICK
<1>2. MIN_TICK \in S
  BY MathAssumption DEF Tick, MIN_TICK, MIN_SQRT_RATIO
<1>3. t \in S /\ \A u \in S : t >= u
  <2>1. MAX_TICK \in Int /\ S # {} /\ t = Max(S)
    BY <1>0, <1>2 DEF get_tick_at_sqrt_ratio
  <2> HIDE DEF S
  <2> QED  BY <1>1, <2>1, MaxOfBounded
<1>4. t \in Tick /\ t \in Int /\ SqrtRatio[t] <= p
  BY <1>0, <1>3
<1>5. t # MAX_TICK
  BY <1>0, <1>4 DEF MAX_SQRT_RATIO
<1>6. t \in MIN_TICK .. MAX_TICK - 1 /\ t + 1 \in Tick
  BY <1>0, <1>4, <1>5 DEF Tick
<1>7. ~(SqrtRatio[t + 1] <= p)
  BY <1>3, <1>4, <1>6
<1> QED  BY <1>0, <1>4, <1>6, <1>7

\* n is at or below (above) the compressed tick q, and no bit is set between.
NextBelow(bitmap, q, n) == n <= q /\ \A i \in bitmap : ~(n < i /\ i <= q)
NextAbove(bitmap, q, n) == n > q /\ \A i \in bitmap : ~(q < i /\ i < n)

\* The search of one bitmap word: the compressed tick it names is the next on
\* the side asked for, and it is initialised exactly if its bit is set.
LEMMA NextTick ==
    ASSUME NEW bitmap \in SUBSET Int, NEW tick \in Int, NEW spacing \in Nat \ {0},
           NEW lte \in BOOLEAN, NEW r,
           r = next_initialized_tick_within_one_word(bitmap, tick, spacing, lte)
    PROVE  \E n \in Int :
               /\ r.tick = n * spacing
               /\ r.initialised <=> n \in bitmap
               /\ lte => NextBelow(bitmap, tick \div spacing, n)
               /\ ~lte => NextAbove(bitmap, tick \div spacing, n)
<1> DEFINE compressed == tick \div spacing
           from  == IF lte THEN compressed ELSE compressed + 1
           found == {i \in bitmap : /\ WordOf(i) = WordOf(from)
                                    /\ IF lte THEN i <= from ELSE i >= from}
           edge  == IF lte THEN WordOf(from) * WORD ELSE WordOf(from) * WORD + WORD - 1
           next  == IF found = {} THEN edge ELSE IF lte THEN Max(found) ELSE Min(found)
<1>1. compressed \in Int /\ from \in Int /\ WORD \in Nat \ {0}
  BY MathAssumption
<1>w. ASSUME NEW i \in Int
      PROVE  /\ WordOf(i) \in Int /\ WordOf(i) * WORD <= i /\ i <= WordOf(i) * WORD + WORD - 1
             /\ i >= WordOf(i) * WORD
  <2>1. i \div WORD \in Int /\ i % WORD \in 0 .. WORD - 1 /\ i = WORD * (i \div WORD) + (i % WORD)
    BY <1>1, DivMod
  <2> DEFINE x == WORD * (i \div WORD)
  <2>2. x \in Int /\ x = WordOf(i) * WORD
    BY <1>1, <2>1 DEF WordOf
  <2> HIDE DEF x
  <2>3. i = x + (i % WORD)
    BY <2>1 DEF x
  <2> QED  BY <1>1, <2>1, <2>2, <2>3 DEF WordOf
\* Between the edge of a word and one of its ticks lies only that word.
<1>b. ASSUME NEW i \in Int, NEW j \in Int, WordOf(j) * WORD <= i, i <= WordOf(j) * WORD + WORD - 1
      PROVE  WordOf(i) = WordOf(j)
  <2> DEFINE a == WordOf(i)
             b == WordOf(j)
  <2>1. a \in Int /\ b \in Int /\ a * WORD <= i /\ i <= a * WORD + WORD - 1
        /\ b * WORD <= i /\ i <= b * WORD + WORD - 1
    BY <1>w, <1>b
  <2> HIDE DEF a, b
  <2>2. ~(a < b)
    <3> SUFFICES ASSUME a < b PROVE FALSE
      OBVIOUS
    <3>1. (a + 1) * WORD <= b * WORD
      BY <1>1, <2>1, MulOrder
    <3>2. (a + 1) * WORD = a * WORD + WORD
      BY <1>1, <2>1
    <3> DEFINE aw == a * WORD
               bw == b * WORD
    <3>3. aw \in Int /\ bw \in Int /\ aw + WORD <= bw /\ i <= aw + WORD - 1 /\ bw <= i
      BY <1>1, <2>1, <3>1, <3>2
    <3> HIDE DEF aw, bw
    <3> QED  BY <1>1, <3>3
  <2>3. ~(b < a)
    <3> SUFFICES ASSUME b < a PROVE FALSE
      OBVIOUS
    <3>1. (b + 1) * WORD <= a * WORD
      BY <1>1, <2>1, MulOrder
    <3>2. (b + 1) * WORD = b * WORD + WORD
      BY <1>1, <2>1
    <3> DEFINE aw == a * WORD
               bw == b * WORD
    <3>3. aw \in Int /\ bw \in Int /\ bw + WORD <= aw /\ i <= bw + WORD - 1 /\ aw <= i
      BY <1>1, <2>1, <3>1, <3>2
    <3> HIDE DEF aw, bw
    <3> QED  BY <1>1, <3>3
  <2>4. a = b
    BY <2>1, <2>2, <2>3
  <2> QED  BY <2>4 DEF a, b
<1>2. r = [tick |-> next * spacing, initialised |-> found # {}]
  BY Zenon DEF next_initialized_tick_within_one_word
<1>4. r.tick = next * spacing /\ (r.initialised <=> found # {})
  <2> DEFINE x == next * spacing
             b == found # {}
  <2> HIDE DEF x, b
  <2>1. r = [tick |-> x, initialised |-> b]
    BY <1>2 DEF x, b
  <2>2. r.tick = x /\ r.initialised = b
    BY <2>1
  <2> QED  BY <2>2, Zenon DEF x, b
<1>3. found \in SUBSET Int /\ found \subseteq bitmap
  OBVIOUS
<1>c. compressed = tick \div spacing
  OBVIOUS
<1>5. CASE lte
  <2>1. \A i \in found : i <= from
    BY <1>5
  <2>2. from = compressed /\ edge = WordOf(from) * WORD /\ next = IF found = {} THEN edge ELSE Max(found)
    BY <1>5
  <2>e. edge \in Int /\ edge <= from /\ edge <= WordOf(from) * WORD + WORD - 1 /\ edge >= WordOf(from) * WORD
    <3> DEFINE x == WordOf(from) * WORD
    <3>1. x \in Int /\ x <= from /\ edge = x
      <4> HIDE DEF from
      <4>1. WordOf(from) \in Int /\ x <= from
        BY <1>1, <1>w
      <4> QED  BY <1>1, <2>2, <4>1
    <3> HIDE DEF x, edge
    <3>2. edge \in Int /\ edge <= from /\ edge <= x + WORD - 1 /\ edge >= x
      BY <1>1, <3>1
    <3> QED  BY <3>2 DEF x
  <2>3. \A i \in bitmap : (WordOf(i) = WordOf(from) /\ i <= from) => i \in found
    BY <1>5
  <2> HIDE DEF from, edge
  <2>4. CASE found = {}
    <3>1. WordOf(edge) = WordOf(from)
      BY <1>1, <1>b, <2>e
    <3>2. edge \notin bitmap
      BY <2>3, <2>4, <2>e, <3>1
    <3>3. \A i \in bitmap : ~(edge < i /\ i <= from)
      <4> SUFFICES ASSUME NEW i \in bitmap, edge < i, i <= from PROVE FALSE
        OBVIOUS
      <4>1. i \in Int
        OBVIOUS
      <4>2. WordOf(from) * WORD <= i /\ i <= WordOf(from) * WORD + WORD - 1
        <5> DEFINE x == WordOf(from) * WORD
        <5>1. x \in Int /\ from <= x + WORD - 1 /\ edge = x
          BY <1>1, <1>w, <2>2
        <5> HIDE DEF x
        <5>2. x <= i /\ i <= x + WORD - 1
          BY <1>1, <4>1, <5>1
        <5> QED  BY <5>2 DEF x
      <4>3. WordOf(i) = WordOf(from)
        BY <1>1, <1>b, <4>1, <4>2
      <4> QED  BY <2>3, <2>4, <4>3
    <3>4. next = edge
      BY <2>2, <2>4
    <3> HIDE DEF next, found, compressed
    <3>5. r.tick = next * spacing /\ (r.initialised <=> next \in bitmap)
      BY <1>4, <2>4, <3>2, <3>4, Zenon
    <3> QED  BY <1>5, <1>c, <2>2, <2>e, <3>3, <3>4, <3>5 DEF NextBelow
  <2>5. CASE found # {}
    <3>1. next = Max(found)
      BY <2>2, <2>5
    <3>2. next \in found /\ \A i \in found : next >= i
      <4> HIDE DEF found, next
      <4> QED  BY <1>1, <1>3, <2>1, <2>5, <3>1, MaxOfBounded
    <3>3. next \in bitmap /\ WordOf(next) = WordOf(from) /\ next <= from /\ next \in Int
      BY <1>5, <3>2
    <3>4. \A i \in bitmap : ~(next < i /\ i <= from)
      <4> SUFFICES ASSUME NEW i \in bitmap, next < i, i <= from PROVE FALSE
        OBVIOUS
      <4> HIDE DEF next, found
      <4>1. i \in Int
        OBVIOUS
      <4>2. WordOf(from) * WORD <= i /\ i <= WordOf(from) * WORD + WORD - 1
        <5> DEFINE x == WordOf(from) * WORD
        <5>1. x \in Int /\ from <= x + WORD - 1 /\ x <= next
          BY <1>1, <1>w, <3>3
        <5> HIDE DEF x
        <5>2. x <= i /\ i <= x + WORD - 1
          BY <1>1, <3>3, <4>1, <5>1
        <5> QED  BY <5>2 DEF x
      <4>3. WordOf(i) = WordOf(from)
        BY <1>1, <1>b, <4>1, <4>2
      <4>4. i \in found
        BY <2>3, <4>3
      <4> QED  BY <3>2, <3>3, <4>1, <4>4
    <3> HIDE DEF next, found, compressed
    <3>5. r.tick = next * spacing /\ (r.initialised <=> next \in bitmap)
      BY <1>4, <2>5, <3>3, Zenon
    <3> QED  BY <1>5, <1>c, <2>2, <3>3, <3>4, <3>5 DEF NextBelow
  <2> QED  BY <2>4, <2>5
<1>6. CASE ~lte
  <2>1. \A i \in found : i >= from
    BY <1>6
  <2>2. from = compressed + 1 /\ edge = WordOf(from) * WORD + WORD - 1
        /\ next = IF found = {} THEN edge ELSE Min(found)
    BY <1>6
  <2>e. edge \in Int /\ edge >= from /\ edge <= WordOf(from) * WORD + WORD - 1 /\ edge >= WordOf(from) * WORD
    <3> DEFINE x == WordOf(from) * WORD
    <3>1. x \in Int /\ from <= x + WORD - 1 /\ edge = x + WORD - 1
      <4> HIDE DEF from
      <4>1. WordOf(from) \in Int /\ from <= x + WORD - 1
        BY <1>1, <1>w
      <4> QED  BY <1>1, <2>2, <4>1
    <3> HIDE DEF x, edge, from
    <3>2. edge \in Int /\ edge >= from /\ edge <= x + WORD - 1 /\ edge >= x
      BY <1>1, <3>1
    <3> QED  BY <3>2 DEF x
  <2>3. \A i \in bitmap : (WordOf(i) = WordOf(from) /\ i >= from) => i \in found
    BY <1>6
  <2>f. \A i \in Int : compressed < i <=> i >= from
    <3> HIDE DEF compressed, from
    <3> QED  BY <1>1, <2>2
  <2> HIDE DEF from, edge
  <2>4. CASE found = {}
    <3>1. WordOf(edge) = WordOf(from)
      BY <1>1, <1>b, <2>e
    <3>2. edge \notin bitmap
      BY <2>3, <2>4, <2>e, <3>1
    <3>3. \A i \in bitmap : ~(compressed < i /\ i < edge)
      <4> SUFFICES ASSUME NEW i \in bitmap, i >= from, i < edge PROVE FALSE
        BY <2>f
      <4>1. i \in Int
        OBVIOUS
      <4>2. WordOf(from) * WORD <= i /\ i <= WordOf(from) * WORD + WORD - 1
        <5> DEFINE x == WordOf(from) * WORD
        <5>1. x \in Int /\ x <= from /\ edge = x + WORD - 1
          BY <1>1, <1>w, <2>2
        <5> HIDE DEF x
        <5>2. x <= i /\ i <= x + WORD - 1
          BY <1>1, <4>1, <5>1
        <5> QED  BY <5>2 DEF x
      <4>3. WordOf(i) = WordOf(from)
        BY <1>1, <1>b, <4>1, <4>2
      <4> QED  BY <2>3, <2>4, <4>3
    <3>4. next = edge
      BY <2>2, <2>4
    <3> HIDE DEF next, found, compressed
    <3>5. r.tick = next * spacing /\ (r.initialised <=> next \in bitmap)
      BY <1>4, <2>4, <3>2, <3>4, Zenon
    <3>6. next > compressed /\ next \in Int
      BY <1>1, <2>e, <2>f, <3>4
    <3> QED  BY <1>6, <1>c, <3>3, <3>4, <3>5, <3>6 DEF NextAbove
  <2>5. CASE found # {}
    <3>1. next = Min(found)
      BY <2>2, <2>5
    <3>2. next \in found /\ \A i \in found : next <= i
      <4> HIDE DEF found, next
      <4> QED  BY <1>1, <1>3, <2>1, <2>5, <3>1, MinOfBounded
    <3>3. next \in bitmap /\ WordOf(next) = WordOf(from) /\ next >= from /\ next \in Int
      BY <1>6, <3>2
    <3>4. \A i \in bitmap : ~(compressed < i /\ i < next)
      <4> SUFFICES ASSUME NEW i \in bitmap, i >= from, i < next PROVE FALSE
        BY <2>f
      <4> HIDE DEF next, found
      <4>1. i \in Int
        OBVIOUS
      <4>2. WordOf(from) * WORD <= i /\ i <= WordOf(from) * WORD + WORD - 1
        <5> DEFINE x == WordOf(from) * WORD
        <5>1. x \in Int /\ x <= from /\ next <= x + WORD - 1
          BY <1>1, <1>w, <3>3
        <5> HIDE DEF x
        <5>2. x <= i /\ i <= x + WORD - 1
          BY <1>1, <3>3, <4>1, <5>1
        <5> QED  BY <5>2 DEF x
      <4>3. WordOf(i) = WordOf(from)
        BY <1>1, <1>b, <4>1, <4>2
      <4>4. i \in found
        BY <2>3, <4>3
      <4> QED  BY <3>2, <3>3, <4>1, <4>4
    <3> HIDE DEF next, found, compressed
    <3>5. r.tick = next * spacing /\ (r.initialised <=> next \in bitmap)
      BY <1>4, <2>5, <3>3, Zenon
    <3>6. next > compressed
      BY <1>1, <2>f, <3>3
    <3> QED  BY <1>6, <1>c, <3>3, <3>4, <3>5, <3>6 DEF NextAbove
  <2> QED  BY <2>4, <2>5
<1> QED  BY <1>5, <1>6

-----------------------------------------------------------------------------
(* The invariant of the pool *)

\* A swap only runs in an enabled and initialised pool, towards a real price.
RunningOk ==
    swap.active => enabled /\ tick_spacing # 0 /\ swap.price_limit # 0

\* Before init a pool has no tick spacing, and holds no liquidity on any tick.
UninitialisedIsEmpty ==
    tick_spacing = 0 =>
        /\ max_liquidity_per_tick = 0
        /\ \A t \in Tick : ticks[t].liquidity_gross = 0

PoolInv == TypeOK /\ RunningOk /\ UninitialisedIsEmpty

-----------------------------------------------------------------------------
(* Types of the parts *)

\* What the assumptions on the constants say of ticks and prices.
LEMMA Constants ==
    /\ MAX_TICK \in Nat \ {0} /\ MIN_TICK \in Int /\ MIN_TICK \in Tick /\ MAX_TICK \in Tick
    /\ 0 \in Tick /\ Tick \subseteq Int
    /\ MIN_SQRT_RATIO \in Nat \ {0} /\ MAX_SQRT_RATIO \in Nat \ {0}
    /\ \A t \in Tick : SqrtRatio[t] \in Nat \ {0}
    /\ Q96 \in Nat \ {0} /\ Q128 \in Nat \ {0} /\ ONE_FEE \in Nat \ {0}
    /\ U128 \in Nat \ {0} /\ U256 \in Nat \ {0}
<1>1. MAX_TICK \in Nat \ {0} /\ MIN_TICK = -MAX_TICK
  BY MathAssumption DEF MIN_TICK
<1>2. MIN_TICK \in Tick /\ MAX_TICK \in Tick /\ 0 \in Tick /\ Tick \subseteq Int
  BY <1>1 DEF Tick
<1> QED  BY <1>1, <1>2, MathAssumption DEF MIN_SQRT_RATIO, MAX_SQRT_RATIO

\* Fresh storage has the types of the storage.
LEMMA EmptyTypes ==
    /\ NoFees \in [Token -> Nat]
    /\ EmptyTick \in TickInfo
    /\ EmptyPosition \in PositionInfo
    /\ NoSwap \in SwapInfo /\ NoSwap.active = FALSE
<1>1. NoFees \in [Token -> Nat]
  BY DEF NoFees
<1>2. EmptyTick \in TickInfo
  BY <1>1 DEF EmptyTick, TickInfo
<1>3. EmptyPosition \in PositionInfo
  BY <1>1, Constants DEF EmptyPosition, PositionInfo
<1>4. [t \in Tick |-> EmptyTick] \in [Tick -> TickInfo]
  BY <1>2
<1>5. NoSwap \in SwapInfo /\ NoSwap.active = FALSE
  BY <1>4 DEF NoSwap, SwapInfo
<1> QED  BY <1>1, <1>2, <1>3, <1>5

\* A pool before init satisfies the invariant.
LEMMA PoolInit == Init => PoolInv
<1> SUFFICES ASSUME Init PROVE PoolInv
  OBVIOUS
<1>1. 0 \in 0 .. ONE_FEE - 1
  BY Constants
<1>2. NoFees \in [Token -> Int]
  BY EmptyTypes
<1>3. TypeOK
  <2>1. positions \in [Id -> PositionInfo] /\ ticks \in [Tick -> TickInfo] /\ swap \in SwapInfo
    BY EmptyTypes DEF Init
  <2>2. fee_growth_global \in [Token -> Nat] /\ reserve \in [Token -> Int]
    BY <1>2, EmptyTypes DEF Init
  <2>3. enabled \in BOOLEAN /\ tick_bitmap \subseteq Int
    BY DEF Init
  <2>4. /\ fee \in 0 .. ONE_FEE - 1 /\ tick_spacing \in Nat /\ max_liquidity_per_tick \in Nat
        /\ liquidity \in Nat /\ cur_tick \in Int /\ sqrt_price \in Nat
        /\ next_position_id \in Nat
    BY <1>1 DEF Init
  <2> QED  BY <2>1, <2>2, <2>3, <2>4 DEF TypeOK
<1>4. RunningOk
  BY EmptyTypes DEF Init, RunningOk
<1>5. UninitialisedIsEmpty
  BY DEF Init, UninitialisedIsEmpty, EmptyTick
<1> QED  BY <1>3, <1>4, <1>5 DEF PoolInv

-----------------------------------------------------------------------------
(* Administration and minting *)

\* init, enable_pool and set_sqrt_price keep the invariant.
LEMMA AdminKeeps == ASSUME PoolInv, Admin PROVE PoolInv'
<1>1. ASSUME NEW a \in InitParams, InitPool(a[1], a[2], a[3], a[4]) PROVE PoolInv'
  <2>1. a[1] \in Nat /\ a[2] \in 0 .. ONE_FEE - 1 /\ a[3] \in Nat \ {0} /\ a[4] \in Nat
    BY PoolAssumption, Constants
  <2>2. get_tick_at_sqrt_ratio(a[1]) \in Int
    <3>1. a[1] \in Int /\ MIN_SQRT_RATIO <= a[1]
      BY <1>1, <2>1 DEF InitPool
    <3>2. get_tick_at_sqrt_ratio(a[1]) \in Tick
      BY <3>1, TickAtRatioType
    <3> QED  BY <3>2, Constants
  <2> QED  BY <1>1, <2>1, <2>2 DEF InitPool, PoolInv, TypeOK, RunningOk, UninitialisedIsEmpty
<1>2. ASSUME NEW e \in BOOLEAN, SetEnabled(e) PROVE PoolInv'
  BY <1>2 DEF SetEnabled, PoolInv, TypeOK, RunningOk, UninitialisedIsEmpty, config, market
<1>3. ASSUME NEW p \in AdminPrices, SetSqrtPrice(p) PROVE PoolInv'
  BY <1>3, PoolAssumption DEF SetSqrtPrice, PoolInv, TypeOK, RunningOk, UninitialisedIsEmpty, config, market
<1> QED  BY <1>1, <1>2, <1>3 DEF Admin

\* create_position accepts ticks only.
LEMMA ValidTickType ==
    ASSUME NEW t \in Int, tick_spacing \in Nat \ {0}, valid_tick(t)
    PROVE  t \in Tick
<1> DEFINE q == MAX_TICK \div tick_spacing
           m == q * tick_spacing
<1>1. m <= MAX_TICK /\ m \in Int
  BY Constants
<1>2. -m <= t /\ t <= m
  BY DEF valid_tick, get_min_tick, get_max_tick
<1> HIDE DEF m
<1> QED  BY <1>1, <1>2, Constants DEF Tick, MIN_TICK

\* mint_position, on this pool or another, keeps the invariant.
LEMMA MintKeeps == ASSUME PoolInv, Mint PROVE PoolInv'
<1>1. ASSUME NEW r \in Ranges, CreatePosition(r[1], r[2]) PROVE PoolInv'
  <2>1. r[1] \in Int /\ r[2] \in Int
    BY PoolAssumption
  <2>2. r[1] \in Tick /\ r[2] \in Tick
    BY <1>1, <2>1, ValidTickType DEF CreatePosition, PoolInv, TypeOK
  <2>3. positions' \in [Id -> PositionInfo]
    BY <1>1, <2>2 DEF CreatePosition, PoolInv, TypeOK, PositionInfo
  <2>4. next_position_id' \in Nat
    BY <1>1 DEF CreatePosition, PoolInv, TypeOK
  <2> QED  BY <1>1, <2>3, <2>4 DEF CreatePosition, PoolInv, TypeOK, RunningOk, UninitialisedIsEmpty, config, market
<1>2. ASSUME MintElsewhere PROVE PoolInv'
  BY <1>2 DEF MintElsewhere, PoolInv, TypeOK, RunningOk, UninitialisedIsEmpty, config, market
<1> QED  BY <1>1, <1>2 DEF Mint

-----------------------------------------------------------------------------
(* update_position *)

\* StorageTicks::update keeps the type of a tick, by the check of add_delta.
LEMMA TickUpdateType ==
    ASSUME TypeOK, NEW info \in TickInfo, NEW t, NEW delta \in Int, NEW upper,
           tick_update_ok(info, delta)
    PROVE  tick_update(info, t, delta, upper) \in TickInfo
<1> DEFINE gross == info.liquidity_gross + delta
           net == IF upper THEN info.liquidity_net - delta ELSE info.liquidity_net + delta
           outside == IF info.liquidity_gross = 0 /\ t <= cur_tick
                      THEN fee_growth_global ELSE info.fee_growth_outside
<1>1. gross \in Nat
  BY Constants DEF tick_update_ok, add_delta_ok, TickInfo
<1>2. net \in Int
  BY DEF TickInfo
<1>3. outside \in [Token -> Nat]
  BY DEF TickInfo, TypeOK
<1>4. tick_update(info, t, delta, upper)
        = [liquidity_gross |-> gross, liquidity_net |-> net, fee_growth_outside |-> outside]
  BY Zenon DEF tick_update
<1> HIDE DEF gross, net, outside
<1> QED  BY <1>1, <1>2, <1>3, <1>4 DEF TickInfo

UpdateOk(p, delta) ==
    delta # 0 => /\ tick_update_ok(ticks[p.lower], delta)
                 /\ tick_update_ok(ticks_lower_updated(p, delta)[p.upper], delta)

\* The ticks of update_position keep their types through both updates and the
\* clearing.
LEMMA TicksUpdatedType ==
    ASSUME TypeOK, NEW p \in PositionInfo, NEW delta \in Int, UpdateOk(p, delta)
    PROVE  /\ ticks_lower_updated(p, delta) \in [Tick -> TickInfo]
           /\ ticks_updated(p, delta) \in [Tick -> TickInfo]
           /\ ticks_cleared(p, delta) \in [Tick -> TickInfo]
<1>0. p.lower \in Tick /\ p.upper \in Tick /\ ticks \in [Tick -> TickInfo]
  BY DEF PositionInfo, TypeOK
<1>1. CASE delta = 0
  <2>1. ticks_lower_updated(p, delta) = ticks /\ ticks_updated(p, delta) = ticks
    BY <1>1 DEF ticks_lower_updated, ticks_updated
  <2> QED  BY <1>0, <2>1, EmptyTypes DEF ticks_cleared
<1>2. CASE delta # 0
  <2>1. tick_update(ticks[p.lower], p.lower, delta, FALSE) \in TickInfo
    <3>1. tick_update_ok(ticks[p.lower], delta) /\ ticks[p.lower] \in TickInfo
      BY <1>0, <1>2 DEF UpdateOk
    <3> QED  BY <3>1, TickUpdateType, Zenon
  <2>2. ticks_lower_updated(p, delta) \in [Tick -> TickInfo]
    BY <1>0, <1>2, <2>1 DEF ticks_lower_updated
  <2>3. tick_update(ticks_lower_updated(p, delta)[p.upper], p.upper, delta, TRUE) \in TickInfo
    <3>1. /\ tick_update_ok(ticks_lower_updated(p, delta)[p.upper], delta)
          /\ ticks_lower_updated(p, delta)[p.upper] \in TickInfo
      BY <1>0, <1>2, <2>2 DEF UpdateOk
    <3> QED  BY <3>1, TickUpdateType, Zenon
  <2>4. ticks_updated(p, delta) \in [Tick -> TickInfo]
    BY <1>0, <1>2, <2>2, <2>3 DEF ticks_updated
  <2>5. ticks_cleared(p, delta) \in [Tick -> TickInfo]
    BY <2>4, EmptyTypes DEF ticks_cleared
  <2> QED  BY <2>2, <2>4, <2>5
<1> QED  BY <1>1, <1>2

\* The amounts of update_position are integers, unless the admin left the price 0.
LEMMA AmountsForType ==
    ASSUME TypeOK, NEW p \in PositionInfo, NEW delta \in Int,
           (delta # 0 /\ in_range(p, cur_tick)) => sqrt_price # 0
    PROVE  amounts_for(p, delta) \in Int \X Int
<1> DEFINE low == SqrtRatio[p.lower]
           up  == SqrtRatio[p.upper]
<1>1. p.lower \in Int /\ p.upper \in Int /\ cur_tick \in Int
      /\ low \in Nat \ {0} /\ up \in Nat \ {0}
  BY Constants DEF PositionInfo, TypeOK
<1>2. get_amount_0_delta(low, up, delta) \in Int /\ get_amount_1_delta(low, up, delta) \in Int
  <2> HIDE DEF low, up
  <2> QED  BY <1>1, AmountDeltaTypes
<1>3. CASE delta = 0
  BY <1>3 DEF amounts_for
<1>4. CASE delta # 0 /\ cur_tick < p.lower
  BY <1>2, <1>4 DEF amounts_for
<1>5. CASE delta # 0 /\ ~(cur_tick < p.lower) /\ cur_tick < p.upper
  <2>1. sqrt_price \in Nat \ {0}
    BY <1>1, <1>5 DEF in_range, TypeOK
  <2>2. get_amount_0_delta(sqrt_price, up, delta) \in Int
        /\ get_amount_1_delta(low, sqrt_price, delta) \in Int
    <3> HIDE DEF low, up
    <3> QED  BY <1>1, <2>1, AmountDeltaTypes
  <2> QED  BY <1>5, <2>2 DEF amounts_for
<1>6. CASE delta # 0 /\ ~(cur_tick < p.lower) /\ ~(cur_tick < p.upper)
  BY <1>2, <1>6 DEF amounts_for
<1> QED  BY <1>3, <1>4, <1>5, <1>6

\* get_fee_growth_inside returns naturals, by its checked subtractions.
LEMMA InsideType ==
    ASSUME TypeOK, NEW tks \in [Tick -> TickInfo], NEW lower \in Tick, NEW upper \in Tick,
           get_fee_growth_inside_ok(tks, lower, upper)
    PROVE  get_fee_growth_inside(tks, lower, upper) \in [Token -> Nat]
<1>1. ASSUME NEW k \in Token
      PROVE  fee_growth_below(tks, lower, k) \in Int /\ fee_growth_above(tks, upper, k) \in Int
  <2>1. /\ fee_growth_global[k] \in Int
        /\ tks[lower].fee_growth_outside[k] \in Int /\ tks[upper].fee_growth_outside[k] \in Int
    BY DEF TypeOK, TickInfo
  <2> QED  BY <2>1 DEF fee_growth_below, fee_growth_above
<1>2. ASSUME NEW k \in Token
      PROVE  fee_growth_global[k] - fee_growth_below(tks, lower, k)
                                  - fee_growth_above(tks, upper, k) \in Nat
  <2>1. fee_growth_global[k] \in Int
    BY DEF TypeOK
  <2>2. get_fee_growth_inside(tks, lower, upper)[k] >= 0
    BY DEF get_fee_growth_inside_ok
  <2>3. get_fee_growth_inside(tks, lower, upper)[k]
          = fee_growth_global[k] - fee_growth_below(tks, lower, k)
                                 - fee_growth_above(tks, upper, k)
    BY DEF get_fee_growth_inside
  <2> QED  BY <1>1, <2>1, <2>2, <2>3
<1> QED  BY <1>2 DEF get_fee_growth_inside

\* StoragePositions::update keeps the type of a position.
LEMMA PositionUpdateType ==
    ASSUME NEW p \in PositionInfo, NEW delta \in Int, NEW inside \in [Token -> Nat],
           position_update_ok(p, delta, inside)
    PROVE  position_update(p, delta, inside) \in PositionInfo
<1> DEFINE owed == [k \in Token |->
               (p.token_owed[k]
                + mul_div(inside[k] - p.fee_growth_inside[k], p.liquidity, Q128)) % U128]
<1>1. p.liquidity + delta \in Nat
  BY Constants DEF position_update_ok, add_delta_ok, PositionInfo
<1>2. owed \in [Token -> Nat]
  <2> SUFFICES ASSUME NEW k \in Token
               PROVE  (p.token_owed[k]
                       + mul_div(inside[k] - p.fee_growth_inside[k], p.liquidity, Q128)) % U128
                        \in Nat
    OBVIOUS
  <2>1. inside[k] - p.fee_growth_inside[k] \in Nat /\ p.liquidity \in Nat
        /\ p.token_owed[k] \in Nat
    BY DEF position_update_ok, PositionInfo
  <2> DEFINE x == mul_div(inside[k] - p.fee_growth_inside[k], p.liquidity, Q128)
  <2>2. x \in Nat
    BY <2>1, MulDivType, Constants
  <2> HIDE DEF x
  <2>3. p.token_owed[k] + x \in Nat
    BY <2>1, <2>2
  <2>4. (p.token_owed[k] + x) % U128 \in Nat
    BY <2>3, Constants
  <2> QED  BY <2>4 DEF x
<1>3. position_update(p, delta, inside)
        = [p EXCEPT !.liquidity = p.liquidity + delta, !.fee_growth_inside = inside,
                    !.token_owed = owed]
  BY DEF position_update
<1> HIDE DEF owed
<1> QED  BY <1>1, <1>2, <1>3 DEF PositionInfo

\* flip toggles a compressed tick; the pool that runs it has a tick spacing.
LEMMA FlipType ==
    ASSUME NEW bitmap \in SUBSET Int, NEW t \in Int, tick_spacing \in Nat \ {0}
    PROVE  flip(bitmap, t) \in SUBSET Int
<1>1. t \div tick_spacing \in Int
  OBVIOUS
<1> QED  BY <1>1 DEF flip, SymDiff

\* update_position, with the transfers of its caller, keeps the invariant.
LEMMA UpdateKeeps ==
    ASSUME PoolInv, ~swap.active, NEW id \in Id, NEW delta \in Int,
           update_position_ok(id, delta), update_position(id, delta)
    PROVE  PoolInv'
<1> DEFINE p == positions[id]
           inside == get_fee_growth_inside(ticks_updated(p, delta), p.lower, p.upper)
<1>0. TypeOK /\ p \in PositionInfo /\ p.lower \in Tick /\ p.upper \in Tick
  BY DEF PoolInv, TypeOK, PositionInfo
<1>1. UpdateOk(p, delta)
  BY DEF update_position_ok, UpdateOk
<1>2. /\ get_fee_growth_inside_ok(ticks_updated(p, delta), p.lower, p.upper)
      /\ position_update_ok(p, delta, inside)
      /\ (delta # 0 /\ in_range(p, cur_tick)) => add_delta_ok(liquidity, delta) /\ sqrt_price # 0
  BY DEF update_position_ok
<1>3. /\ ticks' = ticks_cleared(p, delta)
      /\ tick_bitmap' = bitmap_flipped(p, delta)
      /\ positions' = [positions EXCEPT ![id] = position_update(p, delta, inside)]
      /\ liquidity' = IF in_range(p, cur_tick) THEN liquidity + delta ELSE liquidity
      /\ reserve' = [k \in Token |-> reserve[k] + amounts_for(p, delta)[k + 1]]
      /\ UNCHANGED <<enabled, config, fee_growth_global, cur_tick, sqrt_price,
                     next_position_id, swap>>
  BY DEF update_position
<1> HIDE DEF p
<1>4. ticks' \in [Tick -> TickInfo] /\ ticks_updated(p, delta) \in [Tick -> TickInfo]
  BY <1>0, <1>1, <1>3, TicksUpdatedType
<1>5. positions' \in [Id -> PositionInfo]
  <2>1. inside \in [Token -> Nat]
    BY <1>0, <1>2, <1>4, InsideType
  <2>2. position_update(p, delta, inside) \in PositionInfo
    <3> HIDE DEF inside
    <3> QED  BY <1>0, <1>2, <2>1, PositionUpdateType
  <2> HIDE DEF inside
  <2> QED  BY <1>0, <1>3, <2>2 DEF TypeOK
<1> HIDE DEF inside
<1>6. liquidity' \in Nat
  BY <1>0, <1>2, <1>3, Constants DEF TypeOK, add_delta_ok
<1>7. reserve' \in [Token -> Int]
  <2>1. amounts_for(p, delta) \in Int \X Int
    BY <1>0, <1>2, AmountsForType
  <2>2. \A k \in Token : amounts_for(p, delta)[k + 1] \in Int /\ reserve[k] \in Int
    BY <1>0, <2>1 DEF Token, TypeOK
  <2> QED  BY <1>3, <2>2
<1>8. tick_spacing = 0 => delta = 0
  <2> SUFFICES ASSUME tick_spacing = 0, delta # 0 PROVE FALSE
    OBVIOUS
  <2>1. tick_update_ok(ticks[p.lower], delta)
    BY <1>1 DEF UpdateOk
  <2>2. ticks[p.lower].liquidity_gross = 0 /\ max_liquidity_per_tick = 0
    BY <1>0 DEF PoolInv, UninitialisedIsEmpty
  <2> QED  BY <2>1, <2>2, Constants DEF tick_update_ok, add_delta_ok
<1>9. tick_bitmap' \subseteq Int
  <2>1. CASE delta = 0
    BY <1>0, <1>3, <2>1 DEF bitmap_flipped, flipped_lower, flipped_upper, TypeOK
  <2>2. CASE delta # 0
    <3>1. tick_spacing \in Nat \ {0} /\ tick_bitmap \in SUBSET Int
          /\ p.lower \in Int /\ p.upper \in Int
      BY <1>0, <1>8, <2>2, Constants DEF TypeOK
    <3> DEFINE low == IF flipped_lower(p, delta) THEN flip(tick_bitmap, p.lower) ELSE tick_bitmap
    <3>2. low \in SUBSET Int
      BY <3>1, FlipType
    <3>3. flip(low, p.upper) \in SUBSET Int
      <4> HIDE DEF low
      <4> QED  BY <3>1, <3>2, FlipType
    <3>4. tick_bitmap' = IF flipped_upper(p, delta) THEN flip(low, p.upper) ELSE low
      BY <1>3 DEF bitmap_flipped
    <3> HIDE DEF low
    <3> QED  BY <3>2, <3>3, <3>4
  <2> QED  BY <2>1, <2>2
<1>10. TypeOK'
  BY <1>0, <1>3, <1>4, <1>5, <1>6, <1>7, <1>9 DEF TypeOK, config
<1>11. RunningOk'
  BY <1>3 DEF RunningOk
<1>12. UninitialisedIsEmpty'
  <2>1. ASSUME tick_spacing = 0 PROVE ticks' = ticks
    <3>1. delta = 0 /\ ticks \in [Tick -> TickInfo]
      BY <1>0, <1>8, <2>1 DEF TypeOK
    <3>2. ticks_cleared(p, delta) = [t \in Tick |-> ticks[t]]
      BY <3>1 DEF ticks_cleared, ticks_updated
    <3> QED  BY <1>3, <3>1, <3>2
  <2> QED  BY <1>3, <2>1 DEF PoolInv, UninitialisedIsEmpty, config
<1> QED  BY <1>10, <1>11, <1>12 DEF PoolInv

\* The liquidity that adjust_position works out is an integer, because a range
\* with two different ticks has two different prices.
LEMMA LiquidityForAmountsType ==
    ASSUME NEW c \in Nat \ {0}, NEW a \in Nat \ {0}, NEW b \in Nat \ {0}, a # b,
           NEW amount_0 \in Nat, NEW amount_1 \in Nat
    PROVE  get_liquidity_for_amounts(c, a, b, amount_0, amount_1) \in Nat
<1> DEFINE lo == Lo(a, b)
           hi == Hi(a, b)
<1>1. lo \in Nat \ {0} /\ hi \in Nat \ {0} /\ lo < hi
  BY DEF Lo, Hi
<1> HIDE DEF lo, hi
<1>2. ASSUME NEW x \in Nat \ {0}, NEW y \in Nat \ {0}, x < y
      PROVE  /\ get_liquidity_for_amount_0(x, y, amount_0) \in Nat
             /\ get_liquidity_for_amount_1(x, y, amount_1) \in Nat
  BY <1>2, LiquidityForAmountType
<1>3. get_liquidity_for_amount_0(lo, hi, amount_0) \in Nat
      /\ get_liquidity_for_amount_1(lo, hi, amount_1) \in Nat
  BY <1>1, <1>2
<1>4. (~(c <= lo) /\ c < hi) =>
          Lo(get_liquidity_for_amount_0(c, hi, amount_0),
             get_liquidity_for_amount_1(lo, c, amount_1)) \in Nat
  <2> SUFFICES ASSUME ~(c <= lo), c < hi
               PROVE  Lo(get_liquidity_for_amount_0(c, hi, amount_0),
                         get_liquidity_for_amount_1(lo, c, amount_1)) \in Nat
    OBVIOUS
  <2>1. get_liquidity_for_amount_0(c, hi, amount_0) \in Nat
        /\ get_liquidity_for_amount_1(lo, c, amount_1) \in Nat
    BY <1>1, <1>2
  <2> QED  BY <2>1 DEF Lo
<1> QED  BY <1>3, <1>4 DEF get_liquidity_for_amounts, lo, hi

\* adjust_position is an update_position by the liquidity that it works out.
LEMMA AdjustUpdates ==
    ASSUME PoolInv, NEW id \in Id, NEW desired \in Desired, NEW minimum \in Desired,
           NEW giving \in BOOLEAN, AdjustPosition(id, desired, minimum, giving)
    PROVE  \E delta \in Int : UpdatePosition(id, delta)
<1> DEFINE delta == adjust_delta(id, desired, giving)
           p == positions[id]
<1>1. p.lower \in Tick /\ p.upper \in Tick /\ cur_tick \in Tick /\ p.lower # p.upper
  BY DEF PoolInv, TypeOK, PositionInfo, AdjustPosition
<1>2. /\ SqrtRatio[cur_tick] \in Nat \ {0}
      /\ SqrtRatio[p.lower] \in Nat \ {0} /\ SqrtRatio[p.upper] \in Nat \ {0}
      /\ SqrtRatio[p.lower] # SqrtRatio[p.upper]
  <2>1. p.lower \in Int /\ p.upper \in Int /\ \A t \in Tick : SqrtRatio[t] \in Nat \ {0}
    BY <1>1, Constants
  <2>2. p.lower < p.upper \/ p.upper < p.lower
    BY <1>1, <2>1
  <2> HIDE DEF p
  <2>3. SqrtRatio[p.lower] < SqrtRatio[p.upper] \/ SqrtRatio[p.upper] < SqrtRatio[p.lower]
    BY <1>1, <2>2, RatioAssumption
  <2> QED  BY <1>1, <2>1, <2>3
<1>3. desired[1] \in Nat /\ desired[2] \in Nat
  BY PoolAssumption
<1>4. get_liquidity_for_amounts(SqrtRatio[cur_tick], SqrtRatio[p.lower], SqrtRatio[p.upper],
                                desired[1], desired[2]) \in Nat
  <2> HIDE DEF p
  <2> QED  BY <1>2, <1>3, LiquidityForAmountsType
<1>5. delta \in Int
  BY <1>4 DEF adjust_delta
<1>6. UpdatePosition(id, delta)
  BY DEF AdjustPosition, UpdatePosition
<1> HIDE DEF delta
<1> QED  BY <1>5, <1>6

\* The calls of providers and the start of a swap keep the invariant.
LEMMA OperateKeeps == ASSUME PoolInv, Operate PROVE PoolInv'
<1>0. ASSUME NEW id \in Id, NEW delta \in Int, UpdatePosition(id, delta) PROVE PoolInv'
  BY <1>0, UpdateKeeps DEF UpdatePosition
<1>1. ASSUME NEW id \in Id, NEW delta \in Deltas, UpdatePosition(id, delta) PROVE PoolInv'
  BY <1>0, <1>1, PoolAssumption
<1>2. ASSUME NEW id \in Id, NEW desired \in Desired, NEW minimum \in Desired,
             NEW giving \in BOOLEAN,
             AdjustPosition(id, desired, minimum, giving)
      PROVE  PoolInv'
  BY <1>0, <1>2, AdjustUpdates
<1>3. ASSUME NEW id \in Id, Collect(id) PROVE PoolInv'
  <2>1. positions' \in [Id -> PositionInfo]
    BY <1>3, EmptyTypes DEF Collect, PoolInv, TypeOK, PositionInfo
  <2>2. \A k \in Token : reserve[k] \in Int /\ positions[id].token_owed[k] \in Int
    BY DEF PoolInv, TypeOK, PositionInfo
  <2>3. reserve' \in [Token -> Int]
    BY <1>3, <2>2 DEF Collect
  <2> QED  BY <1>3, <2>1, <2>3 DEF Collect, PoolInv, TypeOK, RunningOk, UninitialisedIsEmpty,
                                 config, market
<1>4. ASSUME NEW zero_for_one \in BOOLEAN, NEW amount \in SwapAmounts, NEW limit \in PriceLimits,
             SwapBegin(zero_for_one, amount, limit)
      PROVE  PoolInv'
  <2> DEFINE lim == effective_limit(zero_for_one, limit)
             k == IF zero_for_one THEN 0 ELSE 1
  <2>1. lim \in Nat \ {0}
    <3>1. lim \in Int
      BY PoolAssumption, Constants DEF effective_limit
    <3>2. IF zero_for_one THEN MIN_SQRT_RATIO < lim ELSE sqrt_price < lim
      BY <1>4 DEF SwapBegin, swap_start_ok
    <3> HIDE DEF lim
    <3> QED  BY <3>1, <3>2, Constants DEF PoolInv, TypeOK
  <2>2. fee_growth_global[k] \in Nat
    BY DEF PoolInv, TypeOK, Token
  <2>3. swap' = [active |-> TRUE, zero_for_one |-> zero_for_one, amount |-> amount,
                 price_limit |-> lim, amount_remaining |-> amount,
                 amount_calculated |-> 0, price |-> sqrt_price, tick |-> cur_tick,
                 fee_growth |-> fee_growth_global[k], liquidity |-> liquidity, ticks |-> ticks]
    BY <1>4, Zenon DEF SwapBegin, swap_start
  <2>4. enabled /\ tick_spacing # 0
        /\ UNCHANGED <<enabled, config, market, sqrt_price, positions, ticks, tick_bitmap,
                       next_position_id, reserve>>
    BY <1>4 DEF SwapBegin, swap_start_ok
  <2>5. amount \in Int
    BY PoolAssumption
  <2> HIDE DEF lim, k
  <2>6. swap' \in SwapInfo
    BY <2>1, <2>2, <2>3, <2>5 DEF PoolInv, TypeOK, SwapInfo
  <2>7. RunningOk'
    BY <2>1, <2>3, <2>4 DEF RunningOk, config
  <2> QED  BY <2>4, <2>6, <2>7 DEF PoolInv, TypeOK, UninitialisedIsEmpty, config, market
<1> QED  BY <1>1, <1>2, <1>3, <1>4 DEF Operate

-----------------------------------------------------------------------------
(* swap *)

\* An iteration of the loop looks at a tick and aims at a price.
LEMMA StepTargetType ==
    ASSUME PoolInv, swap.active
    PROVE  /\ step_next_tick(swap) \in Tick
           /\ step_next_price(swap) \in Nat \ {0}
           /\ step_clamped_price(swap) \in Nat \ {0}
           /\ FoundTick(swap).initialised \in BOOLEAN
<1>1. /\ tick_bitmap \in SUBSET Int /\ swap.tick \in Int /\ swap.zero_for_one \in BOOLEAN
      /\ tick_spacing \in Nat \ {0} /\ swap.price_limit \in Nat \ {0}
  BY DEF PoolInv, TypeOK, RunningOk, SwapInfo
<1>2. FoundTick(swap).tick \in Int /\ FoundTick(swap).initialised \in BOOLEAN
  BY <1>1, NextTickType DEF FoundTick
<1>3. step_next_tick(swap) \in Tick
  BY <1>2, Constants DEF step_next_tick, Lo, Hi, Tick
<1>4. step_next_price(swap) \in Nat \ {0}
  BY <1>3, Constants DEF step_next_price
<1>5. step_clamped_price(swap) \in Nat \ {0}
  BY <1>1, <1>4 DEF step_clamped_price, Lo, Hi
<1> QED  BY <1>2, <1>3, <1>4, <1>5

\* compute_swap_step, as an iteration calls it, returns naturals.
LEMMA StepResultType ==
    ASSUME PoolInv, swap.active
    PROVE  SwapStepResult(swap) \in Step
<1>1. /\ swap.price \in Nat /\ swap.liquidity \in Nat /\ swap.amount_remaining \in Int
      /\ fee \in 0 .. ONE_FEE - 1
  BY DEF PoolInv, TypeOK, SwapInfo
<1>2. step_clamped_price(swap) \in Nat \ {0}
  BY StepTargetType
<1> QED  BY <1>1, <1>2, SwapStepType DEF SwapStepResult

\* cross keeps the type of a tick; its subtraction wraps.
LEMMA CrossType ==
    ASSUME NEW info \in TickInfo, NEW growth \in [Token -> Nat]
    PROVE  cross(info, growth) \in TickInfo
<1>1. \A k \in Token : growth[k] \in Int /\ info.fee_growth_outside[k] \in Int
  BY DEF TickInfo
<1>2. \A k \in Token : wrapping_sub(growth[k], info.fee_growth_outside[k]) \in Nat
  BY <1>1, WrappingSubType
<1> QED  BY <1>2 DEF cross, TickInfo

\* The fee growth of an iteration, and the growths a crossing sees, are naturals.
LEMMA StepGrowthType ==
    ASSUME PoolInv, swap.active, NEW step \in Step
    PROVE  step_fee_growth(swap, step) \in Nat /\ growth_at_cross(swap, step) \in [Token -> Nat]
<1>1. swap.fee_growth \in Nat /\ swap.liquidity \in Nat /\ step.fee_amount \in Nat
      /\ fee_growth_global \in [Token -> Nat]
  BY DEF PoolInv, TypeOK, SwapInfo, Step
<1>2. step_fee_growth(swap, step) \in Nat
  <2>1. CASE swap.liquidity > 0
    <3> DEFINE x == mul_div(step.fee_amount, Q128, swap.liquidity)
    <3>1. swap.liquidity \in Nat \ {0}
      BY <1>1, <2>1
    <3>2. x \in Nat
      BY <1>1, <3>1, MulDivType, Constants
    <3> HIDE DEF x
    <3>3. (swap.fee_growth + x) % U256 \in Nat
      BY <1>1, <3>2, Constants
    <3> QED  BY <2>1, <3>3 DEF step_fee_growth, x
  <2>2. CASE ~(swap.liquidity > 0)
    BY <1>1, <2>2 DEF step_fee_growth
  <2> QED  BY <2>1, <2>2
<1> QED  BY <1>1, <1>2 DEF growth_at_cross

\* An iteration that does not fail leaves a well-typed SwapState.
LEMMA AfterStepType ==
    ASSUME PoolInv, swap.active, NEW step \in Step, ~StepFails(swap, step)
    PROVE  /\ AfterStep(swap, step) \in SwapInfo
           /\ AfterStep(swap, step).price_limit = swap.price_limit
<1> DEFINE exact_in == swap.amount > 0
           paid == step.amount_in + step.fee_amount
           remaining == IF exact_in THEN swap.amount_remaining - paid
                                    ELSE swap.amount_remaining + step.amount_out
           calculated == IF exact_in THEN swap.amount_calculated - step.amount_out
                                     ELSE swap.amount_calculated + paid
           next == step_next_tick(swap)
<1>0. swap \in SwapInfo /\ next \in Tick /\ next \in Int
  BY StepTargetType, Constants DEF PoolInv, TypeOK
<1>1. remaining \in Int /\ calculated \in Int /\ step.price \in Nat
  BY <1>0 DEF SwapInfo, Step
<1>2. ticks_after(swap, step) \in [Tick -> TickInfo]
  <2>1. swap.ticks \in [Tick -> TickInfo] /\ swap.ticks[next] \in TickInfo
    BY <1>0 DEF SwapInfo
  <2>2. cross(swap.ticks[next], growth_at_cross(swap, step)) \in TickInfo
    BY <2>1, CrossType, StepGrowthType
  <2> QED  BY <1>0, <2>1, <2>2 DEF ticks_after
<1>3. liquidity_after(swap, step) \in Nat
  <2>1. CrossesTick(swap, step) => add_delta_ok(swap.liquidity, crossing_delta(swap))
    BY DEF StepFails
  <2> QED  BY <1>0, <2>1, Constants DEF liquidity_after, add_delta_ok, SwapInfo
<1>4. tick_after(swap, step) \in Int
  <2>1. ASSUME ~ReachedTick(swap, step), step.price # swap.price
        PROVE  get_tick_at_sqrt_ratio(step.price) \in Int
    <3>1. MIN_SQRT_RATIO <= step.price /\ step.price \in Int
      BY <1>1, <2>1 DEF StepFails
    <3>2. get_tick_at_sqrt_ratio(step.price) \in Tick
      BY <3>1, TickAtRatioType
    <3> QED  BY <3>2, Constants
  <2> QED  BY <1>0, <2>1 DEF tick_after, SwapInfo
<1>5. step_fee_growth(swap, step) \in Nat
  BY StepGrowthType
<1>6. AfterStep(swap, step)
        = [swap EXCEPT !.price = step.price, !.amount_remaining = remaining,
                       !.amount_calculated = calculated,
                       !.fee_growth = step_fee_growth(swap, step),
                       !.ticks = ticks_after(swap, step),
                       !.liquidity = liquidity_after(swap, step),
                       !.tick = tick_after(swap, step)]
  BY DEF AfterStep
<1> HIDE DEF remaining, calculated, next
<1> QED  BY <1>0, <1>1, <1>2, <1>3, <1>4, <1>5, <1>6 DEF SwapInfo

\* Every iteration of a swap, and every way it can end, keeps the invariant.
LEMMA SwapKeeps == ASSUME PoolInv, SwapLoop PROVE PoolInv'
<1>1. CASE SwapStep
  <2>1. swap.active /\ ~StepFails(swap, SwapStepResult(swap))
        /\ swap' = AfterStep(swap, SwapStepResult(swap))
        /\ UNCHANGED <<enabled, config, market, sqrt_price, positions, ticks, tick_bitmap,
                       next_position_id, reserve>>
    BY <1>1 DEF SwapStep
  <2>2. swap' \in SwapInfo /\ swap'.price_limit = swap.price_limit
    BY <2>1, StepResultType, AfterStepType
  <2>3. RunningOk'
    BY <2>1, <2>2 DEF PoolInv, RunningOk, config
  <2> QED  BY <2>1, <2>2, <2>3 DEF PoolInv, TypeOK, UninitialisedIsEmpty, config, market
<1>2. CASE SwapReverts
  BY <1>2, EmptyTypes
     DEF SwapReverts, PoolInv, TypeOK, RunningOk, UninitialisedIsEmpty, config, market
<1>3. CASE SwapCommit
  <2>0. swap \in SwapInfo /\ swap.active
    BY <1>3 DEF SwapCommit, PoolInv, TypeOK
  <2>1. /\ sqrt_price' = swap.price /\ cur_tick' = swap.tick /\ liquidity' = swap.liquidity
        /\ ticks' = swap.ticks /\ swap' = NoSwap
        /\ UNCHANGED <<enabled, config, positions, tick_bitmap, next_position_id>>
    BY <1>3 DEF SwapCommit
  <2>2. fee_growth_global' \in [Token -> Nat]
    BY <1>3, <2>0 DEF SwapCommit, PoolInv, TypeOK, SwapInfo, Token
  <2>3. reserve' \in [Token -> Int]
    <3>1. swap_amounts(swap)[1] \in Int /\ swap_amounts(swap)[2] \in Int
      BY <2>0 DEF swap_amounts, SwapInfo
    <3>2. \A k \in Token : swap_amounts(swap)[k + 1] \in Int /\ reserve[k] \in Int
      BY <3>1 DEF Token, PoolInv, TypeOK
    <3> QED  BY <1>3, <3>2 DEF SwapCommit
  <2>4. TypeOK'
    BY <2>0, <2>1, <2>2, <2>3, EmptyTypes DEF PoolInv, TypeOK, SwapInfo, config
  <2>5. RunningOk' /\ UninitialisedIsEmpty'
    BY <2>0, <2>1, EmptyTypes DEF PoolInv, RunningOk, UninitialisedIsEmpty, config
  <2> QED  BY <2>4, <2>5 DEF PoolInv
<1>4. CASE SwapDiscard
  BY <1>4, EmptyTypes
     DEF SwapDiscard, PoolInv, TypeOK, RunningOk, UninitialisedIsEmpty, config, market
<1> QED  BY <1>1, <1>2, <1>3, <1>4 DEF SwapLoop

\* Every step of a pool keeps the invariant.
LEMMA PoolNext == PoolInv /\ [Next]_vars => PoolInv'
<1> SUFFICES ASSUME PoolInv, [Next]_vars PROVE PoolInv'
  OBVIOUS
<1>1. CASE UNCHANGED vars
  <2>1. TypeOK'
    BY <1>1 DEF vars, config, market, PoolInv, TypeOK
  <2>2. RunningOk' /\ UninitialisedIsEmpty'
    BY <1>1 DEF vars, config, PoolInv, RunningOk, UninitialisedIsEmpty
  <2> QED  BY <2>1, <2>2 DEF PoolInv
<1> QED  BY <1>1, AdminKeeps, MintKeeps, OperateKeeps, SwapKeeps DEF Next

\* The inductive invariant holds in every state of a pool.
LEMMA PoolInvariant == Spec => []PoolInv
BY PoolInit, PoolNext, PTL DEF Spec

-----------------------------------------------------------------------------
(* Theorems *)

\* The storage of a pool keeps its types whatever the callers and the admin do:
\* no liquidity, fee growth, credited fee or price is ever negative, and no step
\* of a swap divides by zero or leaves the price table.
THEOREM PoolTypeOK == Spec => []TypeOK
BY PoolInvariant, PTL DEF PoolInv

Frozen ==
    (sqrt_price # 0 /\ ~enabled /\ ~enabled') =>
        \/ RemovesLiquidity
        \/ UNCHANGED <<market, positions, ticks, tick_bitmap, reserve>>

\* While a pool is disabled no call that is not a removal moves its liquidity,
\* positions, ticks or tokens; a swap that began before is no exception, because
\* none is under way.
THEOREM DisabledPoolIsFrozen == Spec => DisabledIsFrozen
<1>1. PoolInv /\ [Next]_vars => [Frozen]_vars
  <2> SUFFICES ASSUME PoolInv, Next, sqrt_price # 0, ~enabled, ~enabled'
               PROVE  UNCHANGED <<market, positions, ticks, tick_bitmap, reserve>>
    BY DEF Frozen, vars
  <2>0. ~swap.active
    BY DEF PoolInv, RunningOk
  <2>1. CASE Admin
    BY <2>1 DEF Admin, InitPool, SetEnabled, SetSqrtPrice
  <2>2. CASE Mint
    BY <2>2 DEF Mint, CreatePosition, MintElsewhere
  <2>3. CASE Operate
    <3>1. ASSUME NEW id, NEW delta, update_position_ok(id, delta) PROVE FALSE
      BY <3>1 DEF update_position_ok
    <3> QED  BY <2>3, <3>1 DEF Operate, UpdatePosition, AdjustPosition, Collect, SwapBegin,
                               swap_start_ok
  <2>4. CASE SwapLoop
    BY <2>0, <2>4 DEF SwapLoop, SwapStep, SwapReverts, SwapCommit, SwapDiscard
  <2> QED  BY <2>1, <2>2, <2>3, <2>4 DEF Next
<1> QED  BY <1>1, PoolInvariant, PTL DEF Spec, DisabledIsFrozen, Frozen

-----------------------------------------------------------------------------
(* The price and the tick.  set_sqrt_price overwrites the price without the  *)
(* tick and may put them at odds, so these results are about a pool whose    *)
(* price only swaps move.                                                    *)

OnlySwapsMovePrice == AdminPrices = {}

InInterval(price, tick) ==
    /\ tick \in MIN_TICK .. MAX_TICK - 1
    /\ SqrtRatio[tick] <= price /\ price <= SqrtRatio[tick + 1]

\* The price of an initialised pool is a legal one and lies in its tick.
StoredPriceOk ==
    /\ tick_spacing # 0 => sqrt_price # 0
    /\ sqrt_price # 0 => /\ MIN_SQRT_RATIO <= sqrt_price /\ sqrt_price < MAX_SQRT_RATIO
                         /\ InInterval(sqrt_price, cur_tick)

\* The running swap is between the stored price and a legal limit, in its tick,
\* and has used none, some or all of its amount.
LimitsOk ==
    /\ IF swap.zero_for_one
       THEN /\ MIN_SQRT_RATIO < swap.price_limit
            /\ swap.price_limit <= swap.price /\ swap.price <= sqrt_price
       ELSE /\ sqrt_price <= swap.price /\ swap.price <= swap.price_limit
            /\ swap.price_limit < MAX_SQRT_RATIO
    /\ InInterval(swap.price, swap.tick)
    /\ swap.amount < U256
    /\ IF swap.amount > 0 THEN swap.amount_remaining \in 0 .. swap.amount
                          ELSE swap.amount_remaining \in swap.amount .. 0

PriceInv == StoredPriceOk /\ (swap.active => LimitsOk)

\* The search of an iteration: see NextTick.
LEMMA NextTickOfSwap ==
    ASSUME PoolInv, swap.active
    PROVE  \E n \in Int :
               /\ FoundTick(swap).tick = n * tick_spacing
               /\ FoundTick(swap).initialised <=> n \in tick_bitmap
               /\ swap.zero_for_one => NextBelow(tick_bitmap, swap.tick \div tick_spacing, n)
               /\ ~swap.zero_for_one => NextAbove(tick_bitmap, swap.tick \div tick_spacing, n)
<1>1. /\ tick_bitmap \in SUBSET Int /\ swap.tick \in Int /\ swap.zero_for_one \in BOOLEAN
      /\ tick_spacing \in Nat \ {0}
  BY DEF PoolInv, TypeOK, RunningOk, SwapInfo
<1> QED  BY <1>1, NextTick, Zenon DEF FoundTick

\* The next tick of an iteration lies on the side the swap moves to, and the
\* price it aims at between the current price, the limit and that tick's price.
LEMMA StepTarget ==
    ASSUME PoolInv, LimitsOk, swap.active
    PROVE  /\ swap.zero_for_one =>
                 /\ step_next_tick(swap) <= swap.tick
                 /\ step_next_price(swap) <= step_clamped_price(swap)
                 /\ swap.price_limit <= step_clamped_price(swap)
                 /\ step_clamped_price(swap) <= swap.price
           /\ ~swap.zero_for_one =>
                 /\ swap.tick < step_next_tick(swap)
                 /\ step_clamped_price(swap) <= step_next_price(swap)
                 /\ step_clamped_price(swap) <= swap.price_limit
                 /\ swap.price <= step_clamped_price(swap)
           /\ step_clamped_price(swap) \in {step_next_price(swap), swap.price_limit}
<1> DEFINE t == swap.tick
           n == step_next_tick(swap)
           q == t \div tick_spacing
           f == FoundTick(swap).tick
           p == swap.price
           lim == swap.price_limit
<1>1. /\ tick_bitmap \in SUBSET Int /\ t \in Int /\ swap.zero_for_one \in BOOLEAN
      /\ tick_spacing \in Nat \ {0} /\ lim \in Int /\ p \in Int
  BY DEF PoolInv, TypeOK, RunningOk, SwapInfo
<1>2. /\ t \in Tick /\ t + 1 \in Tick /\ MIN_TICK <= t /\ t < MAX_TICK
      /\ SqrtRatio[t] <= p /\ p <= SqrtRatio[t + 1]
      /\ swap.zero_for_one => lim <= p
      /\ ~swap.zero_for_one => p <= lim
  BY <1>1, Constants DEF LimitsOk, InInterval, Tick
<1>3. n \in Tick /\ n \in Int /\ n = Lo(Hi(f, MIN_TICK), MAX_TICK)
  BY StepTargetType, Constants DEF step_next_tick
<1>4. PICK m \in Int : /\ f = m * tick_spacing
                       /\ swap.zero_for_one => m <= q
                       /\ ~swap.zero_for_one => m > q
  BY NextTickOfSwap DEF NextBelow, NextAbove
<1>5. q \in Int /\ q * tick_spacing <= t /\ t < (q + 1) * tick_spacing
  <2>1. q \in Int /\ t % tick_spacing \in 0 .. tick_spacing - 1
        /\ t = tick_spacing * q + (t % tick_spacing)
    BY <1>1, DivMod
  <2> HIDE DEF q, t
  <2>2. tick_spacing * q = q * tick_spacing /\ (q + 1) * tick_spacing = q * tick_spacing + tick_spacing
    BY <1>1, <2>1
  <2> DEFINE x == q * tick_spacing
  <2>3. x \in Int /\ t = x + (t % tick_spacing) /\ (q + 1) * tick_spacing = x + tick_spacing
    BY <1>1, <2>1, <2>2
  <2> HIDE DEF x
  <2>4. x <= t /\ t < x + tick_spacing
    BY <1>1, <2>1, <2>3
  <2> QED  BY <2>1, <2>3, <2>4 DEF x
<1>6. CASE swap.zero_for_one
  <2>1. m * tick_spacing <= q * tick_spacing
    BY <1>1, <1>4, <1>5, <1>6, MulOrder
  <2>2. f <= t /\ f \in Int
    <3> DEFINE x == q * tick_spacing
    <3>1. x \in Int /\ x <= t /\ f <= x /\ f \in Int
      BY <1>1, <1>4, <1>5, <2>1
    <3> HIDE DEF x, f, t
    <3> QED  BY <1>1, <3>1
  <2> HIDE DEF f, t, n, p, lim
  <2>3. n <= t
    BY <1>1, <1>2, <1>3, <2>2, Constants DEF Lo, Hi
  <2>4. SqrtRatio[n] <= SqrtRatio[t] /\ SqrtRatio[n] \in Int /\ SqrtRatio[t] \in Int
    BY <1>2, <1>3, <2>3, RatioOrder, Constants
  <2>5. step_clamped_price(swap) = Hi(SqrtRatio[n], lim) /\ step_next_price(swap) = SqrtRatio[n]
    BY <1>6 DEF step_clamped_price, step_next_price, n, lim
  <2>6. /\ SqrtRatio[n] <= Hi(SqrtRatio[n], lim) /\ lim <= Hi(SqrtRatio[n], lim)
        /\ Hi(SqrtRatio[n], lim) <= p /\ Hi(SqrtRatio[n], lim) \in {SqrtRatio[n], lim}
    BY <1>1, <1>2, <1>6, <2>4 DEF Hi
  <2> QED  BY <1>6, <2>3, <2>5, <2>6 DEF n, t, p, lim
<1>7. CASE ~swap.zero_for_one
  <2>1. (q + 1) * tick_spacing <= m * tick_spacing
    BY <1>1, <1>4, <1>5, <1>7, MulOrder
  <2>2. t < f /\ f \in Int
    <3> DEFINE x == (q + 1) * tick_spacing
    <3>1. x \in Int /\ t < x /\ x <= f /\ f \in Int
      BY <1>1, <1>4, <1>5, <2>1
    <3> HIDE DEF x, f, t
    <3> QED  BY <1>1, <3>1
  <2> HIDE DEF f, t, n, p, lim
  <2>3. t < n /\ t + 1 <= n
    BY <1>1, <1>2, <1>3, <2>2, Constants DEF Lo, Hi
  <2>4. SqrtRatio[t + 1] <= SqrtRatio[n] /\ SqrtRatio[n] \in Int /\ SqrtRatio[t + 1] \in Int
    BY <1>2, <1>3, <2>3, RatioOrder, Constants
  <2>5. step_clamped_price(swap) = Lo(SqrtRatio[n], lim) /\ step_next_price(swap) = SqrtRatio[n]
    BY <1>7 DEF step_clamped_price, step_next_price, n, lim
  <2>6. /\ Lo(SqrtRatio[n], lim) <= SqrtRatio[n] /\ Lo(SqrtRatio[n], lim) <= lim
        /\ p <= Lo(SqrtRatio[n], lim) /\ Lo(SqrtRatio[n], lim) \in {SqrtRatio[n], lim}
    BY <1>1, <1>2, <1>7, <2>4 DEF Lo
  <2> QED  BY <1>7, <2>3, <2>5, <2>6 DEF n, t, p, lim
<1> QED  BY <1>6, <1>7

\* What an iteration leaves: the price between the old one and its target, the
\* amount within what was asked and used up short of the target.
LEMMA StepAmounts ==
    ASSUME PoolInv, LimitsOk, swap.active, SwapContinues, NEW step, step = SwapStepResult(swap),
           NEW next, next = AfterStep(swap, step)
    PROVE  /\ step \in Step
           /\ swap.zero_for_one => step_clamped_price(swap) <= step.price /\ step.price <= swap.price
           /\ ~swap.zero_for_one => swap.price <= step.price /\ step.price <= step_clamped_price(swap)
           /\ IF swap.amount > 0
              THEN next.amount_remaining \in 0 .. swap.amount_remaining
              ELSE next.amount_remaining \in swap.amount_remaining .. 0
           /\ step.price # step_clamped_price(swap) => next.amount_remaining = 0
<1> DEFINE rem == swap.amount_remaining
           t == step_clamped_price(swap)
           c == swap.price
           l == swap.liquidity
<1>1. swap \in SwapInfo /\ swap.zero_for_one \in BOOLEAN /\ rem \in Int /\ l \in Nat
      /\ fee \in 0 .. ONE_FEE - 1 /\ c \in Nat /\ swap.amount \in Int /\ rem # 0
  BY DEF PoolInv, TypeOK, SwapInfo, SwapContinues
<1>2. c \in Nat \ {0} /\ t \in Nat \ {0}
  <2>1. SqrtRatio[swap.tick] \in Nat \ {0} /\ SqrtRatio[swap.tick] <= c
    BY Constants DEF LimitsOk, InInterval, Tick
  <2> QED  BY <1>1, <2>1, StepTargetType
<1>3. step \in Step
  BY StepResultType
<1>4. step = compute_swap_step(c, t, l, rem, fee)
  BY DEF SwapStepResult
<1>5. /\ swap.zero_for_one => t <= c
      /\ ~swap.zero_for_one => c <= t
  BY StepTarget
<1> HIDE DEF t, c, l, rem
<1>6. /\ t <= c => t <= step.price /\ step.price <= c
      /\ c <= t => c <= step.price /\ step.price <= t
      /\ rem >= 0 => step.amount_in + step.fee_amount <= rem
      /\ rem < 0 => step.amount_out <= -rem
      /\ (rem >= 0 /\ rem < U256 /\ step.price # t) => step.amount_in + step.fee_amount = rem
      /\ (rem < 0 /\ step.price # t) => step.amount_out = -rem
  BY <1>1, <1>2, <1>4, SwapStepBounds
<1>7. next.amount_remaining = IF swap.amount > 0 THEN rem - (step.amount_in + step.fee_amount)
                                                 ELSE rem + step.amount_out
  BY <1>1 DEF AfterStep, SwapInfo, rem
<1>8. /\ step.amount_in \in Nat /\ step.fee_amount \in Nat /\ step.amount_out \in Nat
      /\ step.amount_in + step.fee_amount \in Nat
  BY <1>3 DEF Step
<1>9. /\ IF swap.amount > 0 THEN next.amount_remaining \in 0 .. rem
                            ELSE next.amount_remaining \in rem .. 0
      /\ step.price # t => next.amount_remaining = 0
  <2> DEFINE paid == step.amount_in + step.fee_amount
  <2>1. paid \in Nat
    BY <1>8
  <2>2. CASE swap.amount > 0
    <3>1. rem >= 0 /\ rem < U256 /\ rem \in Int
      BY <1>1, <2>2, Constants DEF LimitsOk, rem
    <3>2. paid <= rem /\ (step.price # t => paid = rem) /\ next.amount_remaining = rem - paid
      BY <1>6, <1>7, <2>2, <3>1
    <3> HIDE DEF paid
    <3> QED  BY <2>1, <2>2, <3>1, <3>2
  <2>3. CASE ~(swap.amount > 0)
    <3>1. rem < 0 /\ rem \in Int
      BY <1>1, <2>3 DEF LimitsOk, rem
    <3> QED  BY <1>6, <1>7, <1>8, <2>3, <3>1
  <2> QED  BY <2>2, <2>3
<1> QED  BY <1>3, <1>5, <1>6, <1>9 DEF t, c, rem

\* An iteration moves the tick with the price, never backwards, and to the next
\* tick at least when it reaches that tick's price.
LEMMA StepTick ==
    ASSUME PoolInv, LimitsOk, StoredPriceOk, swap.active, SwapContinues,
           NEW step, step = SwapStepResult(swap), ~StepFails(swap, step)
    PROVE  /\ InInterval(step.price, tick_after(swap, step))
           /\ swap.zero_for_one => tick_after(swap, step) <= swap.tick
           /\ ~swap.zero_for_one => swap.tick <= tick_after(swap, step)
           /\ ReachedTick(swap, step) => tick_after(swap, step) # swap.tick
<1> DEFINE r == step.price
           p == swap.price
           t == swap.tick
           n == step_next_tick(swap)
           u == tick_after(swap, step)
           lim == swap.price_limit
           goal == step_clamped_price(swap)
<1>1. /\ swap.zero_for_one \in BOOLEAN /\ p \in Int /\ lim \in Int /\ t \in Int /\ goal \in Int
      /\ n \in Tick /\ n \in Int /\ SqrtRatio[n] \in Int /\ r \in Int
      /\ step_next_price(swap) = SqrtRatio[n]
  <2>1. swap \in SwapInfo
    BY DEF PoolInv, TypeOK
  <2>2. step \in Step
    BY StepResultType
  <2>3. n \in Tick /\ n \in Int /\ SqrtRatio[n] \in Int
    <3>1. n \in Tick
      BY StepTargetType
    <3> HIDE DEF n
    <3> QED  BY <3>1, Constants
  <2>4. goal \in Int
    BY StepTargetType
  <2> QED  BY <2>1, <2>2, <2>3, <2>4 DEF SwapInfo, Step, step_next_price
<1>2. /\ t \in MIN_TICK .. MAX_TICK - 1 /\ t \in Tick /\ t + 1 \in Tick
      /\ SqrtRatio[t] <= p /\ p <= SqrtRatio[t + 1]
      /\ SqrtRatio[t] \in Int /\ SqrtRatio[t + 1] \in Int
  BY Constants DEF LimitsOk, InInterval, Tick
<1>3. /\ swap.zero_for_one => /\ n <= t /\ lim <= goal /\ goal <= r /\ r <= p
                              /\ MIN_SQRT_RATIO < lim
      /\ ~swap.zero_for_one => /\ t < n /\ goal <= lim /\ r <= goal /\ p <= r
                               /\ lim < MAX_SQRT_RATIO
  BY StepTarget, StepAmounts DEF LimitsOk
<1>4. /\ MIN_TICK \in Tick /\ MAX_TICK \in Tick /\ MIN_SQRT_RATIO \in Int /\ MAX_SQRT_RATIO \in Int
      /\ MIN_TICK \in Int /\ MAX_TICK \in Int
      /\ MIN_SQRT_RATIO = SqrtRatio[MIN_TICK] /\ MAX_SQRT_RATIO = SqrtRatio[MAX_TICK]
  BY Constants DEF MIN_SQRT_RATIO, MAX_SQRT_RATIO
<1> HIDE DEF r, p, t, n, lim, goal
<1>5. CASE ReachedTick(swap, step)
  <2>1. r = SqrtRatio[n]
    BY <1>1, <1>5 DEF ReachedTick, r
  <2>2. CASE swap.zero_for_one
    <3>1. u = n - 1
      BY <1>5, <2>2 DEF tick_after, n
    <3>2. SqrtRatio[MIN_TICK] < SqrtRatio[n]
      BY <1>1, <1>3, <1>4, <2>1, <2>2
    <3>3. MIN_TICK < n
      BY <1>1, <1>4, <3>2, RatioOrder
    <3>4. n - 1 \in MIN_TICK .. MAX_TICK - 1 /\ n - 1 \in Tick /\ (n - 1) + 1 = n
      BY <1>1, <1>2, <1>3, <1>4, <2>2, <3>3 DEF Tick
    <3>5. SqrtRatio[n - 1] <= SqrtRatio[n]
      BY <1>1, <3>4, RatioOrder
    <3> QED  BY <1>1, <1>2, <1>3, <2>1, <2>2, <3>1, <3>4, <3>5 DEF InInterval, r, t
  <2>3. CASE ~swap.zero_for_one
    <3>1. u = n
      BY <1>5, <2>3 DEF tick_after, n
    <3>2. SqrtRatio[n] < SqrtRatio[MAX_TICK]
      BY <1>1, <1>3, <1>4, <2>1, <2>3
    <3>3. n < MAX_TICK
      BY <1>1, <1>4, <3>2, RatioOrder
    <3>4. n \in MIN_TICK .. MAX_TICK - 1 /\ n + 1 \in Tick
      BY <1>1, <1>2, <1>3, <1>4, <2>3, <3>3 DEF Tick
    <3>5. SqrtRatio[n] <= SqrtRatio[n + 1]
      BY <1>1, <3>4, RatioOrder
    <3> QED  BY <1>1, <1>2, <1>3, <2>1, <2>3, <3>1, <3>4, <3>5 DEF InInterval, r, t
  <2> QED  BY <2>2, <2>3
<1>6. CASE ~ReachedTick(swap, step) /\ r = p
  <2>1. u = t
    BY <1>6 DEF tick_after, r, p, t
  <2> QED  BY <1>1, <1>2, <1>6, <2>1 DEF InInterval, r, t
<1>7. CASE ~ReachedTick(swap, step) /\ r # p
  <2>1. MIN_SQRT_RATIO <= r /\ r < MAX_SQRT_RATIO
    BY <1>7 DEF StepFails, r, p
  <2>2. u = get_tick_at_sqrt_ratio(r)
    BY <1>7 DEF tick_after, r, p
  <2>3. u \in MIN_TICK .. MAX_TICK - 1 /\ SqrtRatio[u] <= r /\ r < SqrtRatio[u + 1]
    <3> HIDE DEF u
    <3> QED  BY <1>1, <2>1, <2>2, TickAtRatio
  <2>4. u \in Tick /\ u + 1 \in Tick /\ u \in Int /\ SqrtRatio[u] \in Int /\ SqrtRatio[u + 1] \in Int
    BY <1>4, <2>3, Constants DEF Tick
  <2> HIDE DEF u
  <2>5. CASE swap.zero_for_one
    <3>1. SqrtRatio[u] < SqrtRatio[t + 1]
      BY <1>1, <1>2, <1>3, <1>7, <2>3, <2>4, <2>5
    <3>2. u < t + 1
      BY <1>2, <2>4, <3>1, RatioOrder
    <3>3. u <= t
      BY <1>1, <2>4, <3>2
    <3> QED  BY <1>1, <1>7, <2>3, <2>4, <2>5, <3>3 DEF InInterval, r, t, u
  <2>6. CASE ~swap.zero_for_one
    <3>1. SqrtRatio[t] < SqrtRatio[u + 1]
      BY <1>1, <1>2, <1>3, <2>3, <2>4, <2>6
    <3>2. t < u + 1
      BY <1>2, <2>4, <3>1, RatioOrder
    <3>3. t <= u
      BY <1>1, <2>4, <3>2
    <3> QED  BY <1>1, <1>7, <2>3, <2>4, <2>6, <3>3 DEF InInterval, r, t, u
  <2> QED  BY <2>5, <2>6
<1> QED  BY <1>5, <1>6, <1>7

\* A pool before init satisfies the invariant.
LEMMA PriceInit == Init => PriceInv
BY EmptyTypes DEF Init, PriceInv, StoredPriceOk

\* swap() starts at the stored price and tick, with its whole amount left.
LEMMA SwapBeginKeepsPrice ==
    ASSUME PoolInv, PriceInv, NEW z \in BOOLEAN, NEW a \in SwapAmounts, NEW lim \in PriceLimits,
           SwapBegin(z, a, lim)
    PROVE  PriceInv'
<1> DEFINE e == effective_limit(z, lim)
<1>1. /\ swap_start_ok(z, e) /\ swap' = swap_start(z, a, e)
      /\ UNCHANGED <<tick_spacing, sqrt_price, cur_tick>>
  BY DEF SwapBegin, config, market
<1> HIDE DEF e
<1>2. /\ swap'.zero_for_one = z /\ swap'.amount = a /\ swap'.amount_remaining = a
      /\ swap'.price_limit = e /\ swap'.price = sqrt_price /\ swap'.tick = cur_tick
  BY <1>1 DEF swap_start
<1>3. sqrt_price # 0 /\ StoredPriceOk /\ sqrt_price \in Nat
  BY <1>1 DEF PriceInv, StoredPriceOk, swap_start_ok, PoolInv, TypeOK
<1>4. a \in Int /\ a < U256
  BY PoolAssumption, Constants
<1>5. e \in Int
  <2>1. lim \in Nat
    BY PoolAssumption
  <2> QED  BY <2>1, Constants DEF e, effective_limit
<1>6. IF z THEN MIN_SQRT_RATIO < e /\ e < sqrt_price
           ELSE sqrt_price < e /\ e < MAX_SQRT_RATIO
  BY <1>1 DEF swap_start_ok
<1>7. InInterval(swap'.price, swap'.tick)
  BY <1>2, <1>3 DEF StoredPriceOk
<1>8. LimitsOk'
  <2>1. IF z THEN /\ MIN_SQRT_RATIO < e /\ e <= sqrt_price /\ sqrt_price <= sqrt_price
             ELSE /\ sqrt_price <= sqrt_price /\ sqrt_price <= e /\ e < MAX_SQRT_RATIO
    BY <1>3, <1>5, <1>6
  <2>2. IF a > 0 THEN a \in 0 .. a ELSE a \in a .. 0
    BY <1>4
  <2>3. IF swap'.zero_for_one
        THEN /\ MIN_SQRT_RATIO < swap'.price_limit
             /\ swap'.price_limit <= swap'.price /\ swap'.price <= sqrt_price'
        ELSE /\ sqrt_price' <= swap'.price /\ swap'.price <= swap'.price_limit
             /\ swap'.price_limit < MAX_SQRT_RATIO
    BY <1>1, <1>2, <2>1, Zenon
  <2>4. IF swap'.amount > 0 THEN swap'.amount_remaining \in 0 .. swap'.amount
                            ELSE swap'.amount_remaining \in swap'.amount .. 0
    BY <1>2, <2>2
  <2> QED  BY <1>2, <1>4, <1>7, <2>3, <2>4 DEF LimitsOk
<1> QED  BY <1>1, <1>3, <1>8 DEF PriceInv, StoredPriceOk

\* An iteration keeps the price, the tick and the amount of the swap in bounds.
LEMMA SwapStepKeepsPrice ==
    ASSUME PoolInv, PriceInv, SwapStep
    PROVE  PriceInv'
<1> DEFINE step == SwapStepResult(swap)
           next == AfterStep(swap, step)
<1>1. /\ swap.active /\ SwapContinues /\ ~StepFails(swap, step) /\ swap' = next
      /\ UNCHANGED <<tick_spacing, sqrt_price, cur_tick>>
  BY DEF SwapStep, config, market
<1>2. LimitsOk /\ StoredPriceOk /\ swap \in SwapInfo
  BY <1>1 DEF PriceInv, PoolInv, TypeOK
<1>3. /\ next.zero_for_one = swap.zero_for_one /\ next.amount = swap.amount
      /\ next.price_limit = swap.price_limit /\ next.price = step.price
      /\ next.tick = tick_after(swap, step)
  BY <1>2 DEF AfterStep, SwapInfo
<1>4. /\ step \in Step
      /\ swap.zero_for_one => step_clamped_price(swap) <= step.price /\ step.price <= swap.price
      /\ ~swap.zero_for_one => swap.price <= step.price /\ step.price <= step_clamped_price(swap)
      /\ IF swap.amount > 0
         THEN next.amount_remaining \in 0 .. swap.amount_remaining
         ELSE next.amount_remaining \in swap.amount_remaining .. 0
  <2> HIDE DEF step, next
  <2>1. step = SwapStepResult(swap) /\ next = AfterStep(swap, step)
    BY DEF step, next
  <2> QED  BY <1>1, <1>2, <2>1, StepAmounts
<1>5. InInterval(next.price, next.tick)
  <2> HIDE DEF step, next
  <2>1. step = SwapStepResult(swap)
    BY DEF step
  <2> QED  BY <1>1, <1>2, <1>3, <2>1, StepTick
<1> HIDE DEF step, next
<1>6. IF swap.zero_for_one
      THEN /\ MIN_SQRT_RATIO < swap.price_limit
           /\ swap.price_limit <= next.price /\ next.price <= sqrt_price
      ELSE /\ sqrt_price <= next.price /\ next.price <= swap.price_limit
           /\ swap.price_limit < MAX_SQRT_RATIO
  <2>1. /\ step_clamped_price(swap) \in Int /\ step.price \in Int /\ swap.price \in Int
        /\ swap.price_limit \in Int /\ sqrt_price \in Int /\ swap.zero_for_one \in BOOLEAN
    <3>1. step_clamped_price(swap) \in Int
      BY <1>1, StepTargetType
    <3> QED  BY <1>2, <1>4, <3>1 DEF SwapInfo, Step, PoolInv, TypeOK
  <2>2. /\ swap.zero_for_one => swap.price_limit <= step_clamped_price(swap)
        /\ ~swap.zero_for_one => step_clamped_price(swap) <= swap.price_limit
    BY <1>1, <1>2, StepTarget
  <2> QED  BY <1>2, <1>3, <1>4, <2>1, <2>2 DEF LimitsOk
<1>7. IF swap.amount > 0 THEN next.amount_remaining \in 0 .. swap.amount
                         ELSE next.amount_remaining \in swap.amount .. 0
  <2>1. swap.amount \in Int /\ swap.amount_remaining \in Int
    BY <1>2 DEF SwapInfo
  <2> QED  BY <1>2, <1>4, <2>1 DEF LimitsOk
<1>8. LimitsOk'
  BY <1>1, <1>2, <1>3, <1>5, <1>6, <1>7 DEF LimitsOk
<1> QED  BY <1>1, <1>2, <1>8 DEF PriceInv, StoredPriceOk

\* Every step of a pool whose price only swaps move keeps the invariant.
LEMMA PriceNext ==
    ASSUME OnlySwapsMovePrice, PoolInv, PriceInv, [Next]_vars
    PROVE  PriceInv'
<1>idle. ASSUME ~swap'.active, UNCHANGED <<tick_spacing, sqrt_price, cur_tick>>
         PROVE  PriceInv'
  BY <1>idle DEF PriceInv, StoredPriceOk
<1>1. CASE UNCHANGED vars
  BY <1>1 DEF vars, config, market, PriceInv, StoredPriceOk, LimitsOk
<1>2. ASSUME NEW a \in InitParams, InitPool(a[1], a[2], a[3], a[4]) PROVE PriceInv'
  <2>1. a[1] \in Nat /\ MIN_SQRT_RATIO <= a[1] /\ a[1] < MAX_SQRT_RATIO /\ ~swap.active
        /\ sqrt_price' = a[1] /\ cur_tick' = get_tick_at_sqrt_ratio(a[1]) /\ swap' = swap
    BY <1>2, PoolAssumption DEF InitPool
  <2>2. a[1] \in Int /\ a[1] # 0
    BY <2>1, Constants
  <2>3. InInterval(sqrt_price', cur_tick')
    <3>1. /\ cur_tick' \in MIN_TICK .. MAX_TICK - 1
          /\ SqrtRatio[cur_tick'] <= a[1] /\ a[1] < SqrtRatio[cur_tick' + 1]
      BY <2>1, <2>2, TickAtRatio
    <3>2. cur_tick' + 1 \in Tick
      <4> DEFINE c == cur_tick'
      <4>1. c \in MIN_TICK .. MAX_TICK - 1 /\ MIN_TICK \in Int /\ MAX_TICK \in Int
        BY <3>1, Constants
      <4> HIDE DEF c
      <4>2. c + 1 \in MIN_TICK .. MAX_TICK
        BY <4>1
      <4> QED  BY <4>2 DEF Tick, c
    <3> QED  BY <2>1, <2>2, <3>1, <3>2, Constants DEF InInterval
  <2> QED  BY <2>1, <2>2, <2>3 DEF PriceInv, StoredPriceOk
<1>3. ASSUME NEW e \in BOOLEAN, SetEnabled(e) PROVE PriceInv'
  BY <1>3, <1>idle DEF SetEnabled, config, market
<1>4. ASSUME NEW x \in AdminPrices, SetSqrtPrice(x) PROVE PriceInv'
  BY <1>4 DEF OnlySwapsMovePrice
<1>5. CASE Mint
  BY <1>5, <1>idle DEF Mint, CreatePosition, MintElsewhere, config, market
<1>6. ASSUME NEW id \in Id, NEW delta, UpdatePosition(id, delta) PROVE PriceInv'
  BY <1>6, <1>idle DEF UpdatePosition, update_position, config
<1>7. ASSUME NEW id \in Id, NEW desired \in Desired, NEW minimum \in Desired, NEW giving \in BOOLEAN,
             AdjustPosition(id, desired, minimum, giving)
      PROVE  PriceInv'
  <2>1. PICK delta \in Int : UpdatePosition(id, delta)
    BY <1>7, AdjustUpdates
  <2> QED  BY <1>6, <2>1
<1>8. ASSUME NEW id \in Id, Collect(id) PROVE PriceInv'
  BY <1>8, <1>idle DEF Collect, config, market
<1>9. ASSUME NEW z \in BOOLEAN, NEW a \in SwapAmounts, NEW lim \in PriceLimits, SwapBegin(z, a, lim)
      PROVE  PriceInv'
  BY <1>9, SwapBeginKeepsPrice
<1>10. CASE SwapStep
  BY <1>10, SwapStepKeepsPrice
<1>11. CASE SwapReverts \/ SwapDiscard
  BY <1>11, <1>idle, EmptyTypes DEF SwapReverts, SwapDiscard, config, market
<1>12. CASE SwapCommit
  <2>1. /\ swap.active /\ sqrt_price' = swap.price /\ cur_tick' = swap.tick /\ ~swap'.active
        /\ tick_spacing' = tick_spacing
    BY <1>12, EmptyTypes DEF SwapCommit, config
  <2>2. /\ LimitsOk /\ sqrt_price # 0 /\ MIN_SQRT_RATIO <= sqrt_price /\ sqrt_price < MAX_SQRT_RATIO
    BY <2>1 DEF PoolInv, RunningOk, PriceInv, StoredPriceOk
  <2>3. swap.price \in Int /\ swap.price_limit \in Int /\ sqrt_price \in Int
    BY DEF PoolInv, TypeOK, SwapInfo
  <2>4. MIN_SQRT_RATIO <= swap.price /\ swap.price < MAX_SQRT_RATIO
    BY <2>2, <2>3, Constants DEF LimitsOk
  <2>5. swap.price # 0
    BY <2>3, <2>4, Constants
  <2> QED  BY <2>1, <2>2, <2>4, <2>5 DEF LimitsOk, PriceInv, StoredPriceOk
<1> QED  BY <1>1, <1>2, <1>3, <1>4, <1>5, <1>6, <1>7, <1>8, <1>9, <1>10, <1>11, <1>12
         DEF Next, Admin, Operate, SwapLoop

\* The price invariant holds in every state of a pool whose price only swaps move.
LEMMA PriceInvariant == ASSUME OnlySwapsMovePrice PROVE Spec => [](PoolInv /\ PriceInv)
<1>1. PoolInv /\ PriceInv /\ [Next]_vars => PriceInv'
  BY PriceNext
<1> QED  BY <1>1, PriceInit, PoolInit, PoolNext, PTL DEF Spec

\* At rest and after every iteration of a swap, the price lies in the interval
\* of the current tick: swap() keeps the two in step when it crosses ticks and
\* when it stops between them.
THEOREM PriceAgreesWithTick == ASSUME OnlySwapsMovePrice PROVE Spec => []PriceInCurrentTick
<1>1. PoolInv /\ PriceInv => PriceInCurrentTick
  BY DEF PriceInv, StoredPriceOk, LimitsOk, InInterval, PriceInCurrentTick, RunningTick, RunningPrice
<1> QED  BY <1>1, PriceInvariant, PTL

\* No iteration of a swap moves the price past the limit or backwards, takes
\* more than an exact input or pays more than an exact output, for every
\* amount, fee and liquidity: the rounding of compute_swap_step is safe.
THEOREM SwapsStayWithinLimits == ASSUME OnlySwapsMovePrice PROVE Spec => []SwapWithinLimits
<1>1. PoolInv /\ PriceInv => SwapWithinLimits
  BY DEF PriceInv, LimitsOk, SwapWithinLimits
<1> QED  BY <1>1, PriceInvariant, PTL

\* The loop of swap() gets on in every iteration, whatever the rounding: it
\* cannot run for ever without using the amount or moving the price or the tick.
THEOREM SwapsMakeProgress == ASSUME OnlySwapsMovePrice PROVE Spec => []SwapProgress
<1>1. PoolInv /\ PriceInv => SwapProgress
  <2> SUFFICES ASSUME PoolInv, PriceInv, swap.active, SwapContinues,
                      NEW step, step = SwapStepResult(swap), ~StepFails(swap, step),
                      NEW next, next = AfterStep(swap, step)
               PROVE  /\ Magnitude(next.amount_remaining) <= Magnitude(swap.amount_remaining)
                      /\ swap.zero_for_one => next.price <= swap.price /\ next.tick <= swap.tick
                      /\ ~swap.zero_for_one => swap.price <= next.price /\ swap.tick <= next.tick
                      /\ <<next.amount_remaining, next.price, next.tick>>
                            # <<swap.amount_remaining, swap.price, swap.tick>>
    BY Zenon DEF SwapProgress
  <2>1. LimitsOk /\ StoredPriceOk /\ swap \in SwapInfo
    BY DEF PriceInv, PoolInv, TypeOK
  <2>2. next.price = step.price /\ next.tick = tick_after(swap, step)
    BY <2>1 DEF AfterStep, SwapInfo
  <2>3. /\ step \in Step
        /\ swap.zero_for_one => step_clamped_price(swap) <= step.price /\ step.price <= swap.price
        /\ ~swap.zero_for_one => swap.price <= step.price /\ step.price <= step_clamped_price(swap)
        /\ IF swap.amount > 0
           THEN next.amount_remaining \in 0 .. swap.amount_remaining
           ELSE next.amount_remaining \in swap.amount_remaining .. 0
        /\ step.price # step_clamped_price(swap) => next.amount_remaining = 0
    BY <2>1, StepAmounts
  <2>4. /\ swap.zero_for_one => tick_after(swap, step) <= swap.tick
        /\ ~swap.zero_for_one => swap.tick <= tick_after(swap, step)
        /\ ReachedTick(swap, step) => tick_after(swap, step) # swap.tick
    BY <2>1, StepTick
  <2>5. Magnitude(next.amount_remaining) <= Magnitude(swap.amount_remaining)
    <3>1. swap.amount_remaining \in Int /\ swap.amount \in Int
      BY <2>1 DEF SwapInfo
    <3> QED  BY <2>1, <2>3, <3>1 DEF Magnitude, LimitsOk
  <2>6. ASSUME next.amount_remaining = swap.amount_remaining, step.price = swap.price,
               tick_after(swap, step) = swap.tick
        PROVE  FALSE
    <3>1. swap.amount_remaining # 0 /\ swap.price # swap.price_limit
      BY DEF SwapContinues
    <3>2. step.price = step_clamped_price(swap)
      BY <2>3, <2>6, <3>1
    <3>3. step_clamped_price(swap) \in {step_next_price(swap), swap.price_limit}
      BY <2>1, StepTarget
    <3>4. ReachedTick(swap, step)
      BY <2>6, <3>1, <3>2, <3>3 DEF ReachedTick
    <3> QED  BY <2>4, <2>6, <3>4
  <2> QED  BY <2>2, <2>3, <2>4, <2>5, <2>6
<1> QED  BY <1>1, PriceInvariant, PTL

-----------------------------------------------------------------------------
(* The fee growth.  The counters wrap at 2^256, which no run of the contract *)
(* comes near; these results are about a pool whose counters have not.       *)

\* The next iteration of the running swap does not carry its counter past 256 bits.
GrowthInWord ==
    (swap.active /\ SwapContinues /\ swap.liquidity > 0) =>
        swap.fee_growth
            + mul_div(SwapStepResult(swap).fee_amount, Q128, swap.liquidity) < U256

\* The counter the running swap adds to, and the counters as the swap sees them.
Side          == IF swap.zero_for_one THEN 0 ELSE 1
RunningGrowth == [fee_growth_global EXCEPT ![Side] = swap.fee_growth]

Bounded(tks, growth) == \A t \in Tick, k \in Token : tks[t].fee_growth_outside[k] <= growth[k]

\* A pool without a fee does not store the running counter; there a counter
\* only moves in the last iteration, which crosses no tick.
GrowthInv ==
    /\ \A k \in Token : fee_growth_global[k] < U256
    /\ Bounded(ticks, fee_growth_global)
    /\ swap.active =>
           /\ fee_growth_global[Side] <= swap.fee_growth /\ swap.fee_growth < U256
           /\ Bounded(swap.ticks, RunningGrowth)
           /\ fee = 0 => /\ swap.fee_growth = fee_growth_global[Side] \/ swap.amount_remaining = 0
                         /\ Bounded(swap.ticks, fee_growth_global)

\* Where the counters of a running swap stand.
LEMMA RunningGrowthAt ==
    ASSUME PoolInv
    PROVE  /\ Side \in Token /\ RunningGrowth \in [Token -> Nat]
           /\ \A k \in Token : RunningGrowth[k] = IF k = Side THEN swap.fee_growth
                                                  ELSE fee_growth_global[k]
BY DEF PoolInv, TypeOK, SwapInfo, Side, RunningGrowth, Token

\* Without a fee a step to its target charges nothing.
LEMMA NoFeeAtTarget ==
    ASSUME NEW c \in Nat, NEW t \in Nat \ {0}, NEW l \in Nat, NEW rem \in Int,
           compute_swap_step(c, t, l, rem, 0).price = t
    PROVE  compute_swap_step(c, t, l, rem, 0).fee_amount = 0
<1> DEFINE step == compute_swap_step(c, t, l, rem, 0)
<1>0. ONE_FEE \in Nat \ {0} /\ 0 \in 0 .. ONE_FEE - 1
  BY Constants
<1>1. step \in Step
  BY <1>0, SwapStepType
<1>2. \/ step.fee_amount = 0
      \/ step.fee_amount = mul_div_rounding_up(step.amount_in, 0, ONE_FEE - 0)
  BY DEF compute_swap_step, ErrPrice
<1>3. ASSUME NEW a \in Nat PROVE mul_div_rounding_up(a, 0, ONE_FEE - 0) = 0
  <2>1. a * 0 = 0
    OBVIOUS
  <2> QED  BY <1>0, <2>1 DEF mul_div_rounding_up, mul_div
<1>4. step.amount_in \in Nat
  BY <1>1 DEF Step
<1> HIDE DEF step
<1>5. step.fee_amount = 0
  BY <1>2, <1>3, <1>4
<1> QED  BY <1>5 DEF step

\* An iteration adds to the counter, and an iteration that crosses a tick of a
\* pool without a fee does not.
LEMMA StepGrowth ==
    ASSUME PoolInv, LimitsOk, GrowthInWord, swap.active, SwapContinues, swap.fee_growth < U256,
           NEW step, step = SwapStepResult(swap)
    PROVE  /\ step_fee_growth(swap, step) \in Nat
           /\ swap.fee_growth <= step_fee_growth(swap, step)
           /\ step_fee_growth(swap, step) < U256
           /\ (fee = 0 /\ step.price = step_clamped_price(swap)) =>
                  step_fee_growth(swap, step) = swap.fee_growth
           /\ CrossesTick(swap, step) => step.price = step_clamped_price(swap)
<1>1. step \in Step /\ swap.fee_growth \in Nat /\ swap.liquidity \in Nat /\ swap.price \in Nat
      /\ swap.amount_remaining \in Int /\ step.fee_amount \in Nat /\ U256 \in Nat \ {0}
  BY StepResultType, Constants DEF PoolInv, TypeOK, SwapInfo, Step
<1>2. CASE swap.liquidity > 0
  <2> DEFINE x == mul_div(step.fee_amount, Q128, swap.liquidity)
  <2>1. x \in Nat
    <3>1. swap.liquidity \in Nat \ {0} /\ Q128 \in Nat
      BY <1>1, <1>2, Constants
    <3> QED  BY <1>1, <3>1, MulDivType
  <2>2. swap.fee_growth + x < U256
    BY <1>2 DEF GrowthInWord
  <2>3. step.fee_amount = 0 => x = 0
    <3> SUFFICES ASSUME step.fee_amount = 0 PROVE x = 0
      OBVIOUS
    <3>1. step.fee_amount * Q128 = 0
      BY Constants
    <3> QED  BY <1>1, <1>2, <3>1 DEF mul_div
  <2>4. step_fee_growth(swap, step) = (swap.fee_growth + x) % U256
    BY <1>2 DEF step_fee_growth
  <2> HIDE DEF x
  <2>5. step_fee_growth(swap, step) = swap.fee_growth + x
    BY <1>1, <2>1, <2>2, <2>4
  <2>6. (fee = 0 /\ step.price = step_clamped_price(swap)) => step.fee_amount = 0
    <3> SUFFICES ASSUME fee = 0, step.price = step_clamped_price(swap) PROVE step.fee_amount = 0
      OBVIOUS
    <3> DEFINE c == swap.price
               t == step_clamped_price(swap)
               l == swap.liquidity
               rem == swap.amount_remaining
    <3>1. c \in Nat /\ t \in Nat \ {0} /\ l \in Nat /\ rem \in Int
      BY <1>1, StepTargetType
    <3>2. step = compute_swap_step(c, t, l, rem, 0)
      BY DEF SwapStepResult
    <3>3. step.price = t
      OBVIOUS
    <3> HIDE DEF c, t, l, rem
    <3> QED  BY <3>1, <3>2, <3>3, NoFeeAtTarget
  <2>7. CrossesTick(swap, step) => step.price = step_clamped_price(swap)
    BY <1>1, StepTarget, StepAmounts, StepTargetType DEF CrossesTick, ReachedTick, Step
  <2> QED  BY <1>1, <2>1, <2>2, <2>3, <2>5, <2>6, <2>7
<1>3. CASE ~(swap.liquidity > 0)
  <2>1. CrossesTick(swap, step) => step.price = step_clamped_price(swap)
    BY <1>1, StepTarget, StepAmounts, StepTargetType DEF CrossesTick, ReachedTick, Step
  <2> QED  BY <1>1, <1>3, <2>1 DEF step_fee_growth
<1> QED  BY <1>2, <1>3

\* cross subtracts exactly as long as no more is outside than there is.
LEMMA CrossSubtracts ==
    ASSUME NEW info \in TickInfo, NEW growth \in [Token -> Nat], NEW k \in Token,
           info.fee_growth_outside[k] <= growth[k], growth[k] < U256
    PROVE  cross(info, growth).fee_growth_outside[k] = growth[k] - info.fee_growth_outside[k]
<1>1. cross(info, growth).fee_growth_outside[k] = wrapping_sub(growth[k], info.fee_growth_outside[k])
  BY DEF cross, TickInfo
<1> DEFINE a == growth[k]
           b == info.fee_growth_outside[k]
<1>2. a \in Nat /\ b \in Nat /\ b <= a /\ a < U256 /\ U256 \in Nat
  BY Constants DEF TickInfo
<1> HIDE DEF a, b
<1>3. (a - b) % U256 = a - b
  BY <1>2
<1> QED  BY <1>1, <1>3 DEF wrapping_sub, a, b

\* A crossing leaves no more outside than the counters it sees.
LEMMA StepBounded ==
    ASSUME PoolInv, swap.active, NEW step, NEW growth \in [Token -> Nat],
           \A k \in Token : growth[k] < U256, Bounded(swap.ticks, growth),
           CrossesTick(swap, step) => growth_at_cross(swap, step) = growth
    PROVE  Bounded(ticks_after(swap, step), growth)
<1> DEFINE n == step_next_tick(swap)
<1>1. n \in Tick /\ swap.ticks \in [Tick -> TickInfo]
  BY StepTargetType DEF PoolInv, TypeOK, SwapInfo
<1>2. CASE CrossesTick(swap, step)
  <2>1. ticks_after(swap, step) = [swap.ticks EXCEPT ![n] = cross(swap.ticks[n], growth)]
    BY <1>2 DEF ticks_after
  <2>2. ASSUME NEW k \in Token
        PROVE  cross(swap.ticks[n], growth).fee_growth_outside[k] <= growth[k]
    <3>1. swap.ticks[n] \in TickInfo /\ swap.ticks[n].fee_growth_outside[k] <= growth[k]
      BY <1>1 DEF Bounded
    <3>2. swap.ticks[n].fee_growth_outside[k] \in Nat
      BY <3>1 DEF TickInfo
    <3> HIDE DEF n
    <3>3. cross(swap.ticks[n], growth).fee_growth_outside[k]
            = growth[k] - swap.ticks[n].fee_growth_outside[k]
      BY <3>1, CrossSubtracts
    <3> QED  BY <3>2, <3>3
  <2> HIDE DEF n
  <2> QED  BY <1>1, <2>1, <2>2 DEF Bounded
<1>3. CASE ~CrossesTick(swap, step)
  BY <1>3 DEF ticks_after
<1> QED  BY <1>2, <1>3

\* What update_position writes outside a tick: nothing, or a counter.
LEMMA UpdateBounded ==
    ASSUME PoolInv, Bounded(ticks, fee_growth_global), NEW id \in Id, NEW delta \in Int
    PROVE  Bounded(ticks_cleared(positions[id], delta), fee_growth_global)
<1> DEFINE p == positions[id]
           low == ticks_lower_updated(p, delta)
           upd == ticks_updated(p, delta)
<1>0. /\ p.lower \in Tick /\ p.upper \in Tick /\ ticks \in [Tick -> TickInfo]
      /\ fee_growth_global \in [Token -> Nat]
  BY DEF PoolInv, TypeOK, PositionInfo
<1>1. ASSUME NEW info, NEW t, NEW upper, NEW k \in Token,
             info.fee_growth_outside[k] <= fee_growth_global[k]
      PROVE  tick_update(info, t, delta, upper).fee_growth_outside[k] <= fee_growth_global[k]
  <2>1. tick_update(info, t, delta, upper).fee_growth_outside
          \in {fee_growth_global, info.fee_growth_outside}
    BY DEF tick_update
  <2> QED  BY <1>0, <1>1, <2>1
<1>2. DOMAIN low = Tick /\ Bounded(low, fee_growth_global)
  <2> HIDE DEF p
  <2> QED  BY <1>0, <1>1 DEF ticks_lower_updated, Bounded
<1>3. Bounded(upd, fee_growth_global)
  <2>1. delta # 0 => upd = [low EXCEPT ![p.upper] = tick_update(low[p.upper], p.upper, delta, TRUE)]
    BY DEF ticks_updated
  <2>2. delta = 0 => upd = ticks
    BY DEF ticks_updated
  <2> HIDE DEF p, low, upd
  <2>3. CASE delta = 0
    BY <2>2, <2>3
  <2>4. CASE delta # 0
    <3> SUFFICES ASSUME NEW t \in Tick, NEW k \in Token
                 PROVE  upd[t].fee_growth_outside[k] <= fee_growth_global[k]
      BY DEF Bounded
    <3>1. CASE t = p.upper
      <4>1. upd[t] = tick_update(low[p.upper], p.upper, delta, TRUE)
        BY <1>0, <1>2, <2>1, <2>4, <3>1
      <4>2. low[p.upper].fee_growth_outside[k] <= fee_growth_global[k]
        BY <1>0, <1>2 DEF Bounded
      <4> QED  BY <1>1, <4>1, <4>2
    <3>2. CASE t # p.upper
      <4>1. upd[t] = low[t]
        BY <1>2, <2>1, <2>4, <3>2
      <4> QED  BY <1>2, <4>1 DEF Bounded
    <3> QED  BY <3>1, <3>2
  <2> QED  BY <2>3, <2>4
<1>4. ASSUME NEW t \in Tick PROVE ticks_cleared(p, delta)[t] \in {EmptyTick, upd[t]}
  <2> HIDE DEF p
  <2> QED  BY Zenon DEF ticks_cleared
<1> HIDE DEF p, upd
<1> QED  BY <1>0, <1>3, <1>4, EmptyTypes DEF Bounded, EmptyTick, NoFees, p

\* The counters as the ticks see them in an iteration: they have grown, the ticks
\* are within them, and without a fee they are the stored ones at a crossing.
LEMMA StepCounters ==
    ASSUME PoolInv, PriceInv, GrowthInWord, GrowthInv, SwapStep,
           NEW g, g = growth_at_cross(swap, SwapStepResult(swap))
    PROVE  /\ RunningGrowth' = g /\ g \in [Token -> Nat] /\ fee_growth_global \in [Token -> Nat]
           /\ \A k \in Token : g[k] < U256 /\ RunningGrowth[k] <= g[k] /\ RunningGrowth[k] \in Nat
           /\ Bounded(swap.ticks, g)
           /\ fee_growth_global[Side] <= swap'.fee_growth /\ swap'.fee_growth < U256
           /\ fee = 0 =>
                  /\ CrossesTick(swap, SwapStepResult(swap)) => g = fee_growth_global
                  /\ swap'.fee_growth = fee_growth_global[Side] \/ swap'.amount_remaining = 0
<1> DEFINE step == SwapStepResult(swap)
<1>1. /\ swap.active /\ SwapContinues /\ swap' = AfterStep(swap, step)
      /\ UNCHANGED <<fee_growth_global, ticks, fee>> /\ LimitsOk
  BY DEF SwapStep, config, market, PriceInv
<1>2. swap'.fee_growth = step_fee_growth(swap, step) /\ swap'.zero_for_one = swap.zero_for_one
  BY <1>1 DEF AfterStep, PoolInv, TypeOK, SwapInfo
<1>3. /\ step_fee_growth(swap, step) \in Nat
      /\ swap.fee_growth <= step_fee_growth(swap, step) /\ step_fee_growth(swap, step) < U256
      /\ (fee = 0 /\ step.price = step_clamped_price(swap)) =>
             step_fee_growth(swap, step) = swap.fee_growth
      /\ CrossesTick(swap, step) => step.price = step_clamped_price(swap)
  BY <1>1, StepGrowth DEF GrowthInv
<1>4. step.price # step_clamped_price(swap) => swap'.amount_remaining = 0
  BY <1>1, StepAmounts
<1>5. g = growth_at_cross(swap, step)
  OBVIOUS
<1> HIDE DEF step
<1>6. RunningGrowth' = g
  BY <1>1, <1>2, <1>5 DEF Side, RunningGrowth, growth_at_cross
<1>7. /\ g \in [Token -> Nat] /\ Side \in Token /\ fee_growth_global \in [Token -> Nat]
      /\ \A k \in Token : g[k] = IF k = Side THEN step_fee_growth(swap, step) ELSE fee_growth_global[k]
  BY <1>3, <1>5, RunningGrowthAt DEF growth_at_cross, Side, PoolInv, TypeOK
<1>8. \A k \in Token : g[k] < U256 /\ RunningGrowth[k] <= g[k]
                       /\ RunningGrowth[k] \in Nat /\ fee_growth_global[k] \in Nat
  BY <1>1, <1>3, <1>7, RunningGrowthAt DEF GrowthInv, PoolInv, TypeOK
<1>9. Bounded(swap.ticks, g)
  <2>1. swap.ticks \in [Tick -> TickInfo]
    BY DEF PoolInv, TypeOK, SwapInfo
  <2>2. \A t \in Tick, k \in Token : swap.ticks[t].fee_growth_outside[k] \in Nat
    BY <2>1 DEF TickInfo
  <2> QED  BY <1>1, <1>7, <1>8, <2>2 DEF GrowthInv, Bounded
<1>10. fee_growth_global[Side] <= swap'.fee_growth
  BY <1>1, <1>2, <1>3, <1>7, <1>8, RunningGrowthAt DEF GrowthInv
<1>11. ASSUME fee = 0
       PROVE  /\ CrossesTick(swap, step) => g = fee_growth_global
              /\ swap'.fee_growth = fee_growth_global[Side] \/ swap'.amount_remaining = 0
  <2>1. swap.fee_growth = fee_growth_global[Side]
    BY <1>1, <1>11 DEF GrowthInv, SwapContinues
  <2>2. step.price = step_clamped_price(swap) => step_fee_growth(swap, step) = fee_growth_global[Side]
    BY <1>3, <1>11, <2>1
  <2>3. CrossesTick(swap, step) => g = fee_growth_global
    BY <1>3, <1>7, <2>2
  <2> QED  BY <1>2, <1>4, <2>2, <2>3
<1> QED  BY <1>2, <1>3, <1>6, <1>7, <1>8, <1>9, <1>10, <1>11 DEF step

\* Before init nothing has grown.
LEMMA GrowthInit == Init => GrowthInv
BY Constants, EmptyTypes DEF Init, GrowthInv, Bounded, EmptyTick, NoFees, Token

\* Every step keeps the growth outside the ticks within the counters.
LEMMA GrowthNext ==
    ASSUME OnlySwapsMovePrice, GrowthInWord, PoolInv, PriceInv, GrowthInv, [Next]_vars
    PROVE  GrowthInv'
<1>1. CASE UNCHANGED <<fee_growth_global, ticks, swap, fee>>
  BY <1>1 DEF GrowthInv, Side, RunningGrowth, Bounded
<1>2. CASE ~swap.active /\ UNCHANGED <<fee_growth_global, ticks, swap>>
  BY <1>2 DEF GrowthInv, Bounded
<1>3. ASSUME NEW id \in Id, NEW delta \in Int, UpdatePosition(id, delta) PROVE GrowthInv'
  <2>1. /\ ticks' = ticks_cleared(positions[id], delta) /\ ~swap.active
        /\ UNCHANGED <<fee_growth_global, swap>>
    BY <1>3 DEF UpdatePosition, update_position
  <2> QED  BY <2>1, UpdateBounded DEF GrowthInv, Bounded
<1>4. ASSUME NEW z, NEW a, NEW lim, SwapBegin(z, a, lim) PROVE GrowthInv'
  <2>1. /\ swap'.zero_for_one = z /\ swap'.ticks = ticks
        /\ swap'.fee_growth = fee_growth_global[IF z THEN 0 ELSE 1]
        /\ UNCHANGED <<fee_growth_global, ticks, fee>>
    BY <1>4 DEF SwapBegin, swap_start, config, market
  <2>2. Side' \in Token /\ swap'.fee_growth = fee_growth_global[Side']
    BY <2>1 DEF Side, Token
  <2>3. RunningGrowth' = fee_growth_global
    BY <2>1, <2>2 DEF RunningGrowth, PoolInv, TypeOK
  <2>4. fee_growth_global[Side'] \in Nat
    BY <2>2 DEF PoolInv, TypeOK
  <2> QED  BY <2>1, <2>2, <2>3, <2>4 DEF GrowthInv, Bounded
<1>5. CASE SwapStep
  <2> DEFINE step == SwapStepResult(swap)
             g == growth_at_cross(swap, step)
  <2>1. /\ swap.active /\ swap' = AfterStep(swap, step) /\ UNCHANGED <<fee_growth_global, ticks, fee>>
    BY <1>5 DEF SwapStep, config, market
  <2>2. swap'.ticks = ticks_after(swap, step) /\ Side' = Side
    BY <2>1 DEF AfterStep, PoolInv, TypeOK, SwapInfo, Side
  <2>3. /\ RunningGrowth' = g /\ g \in [Token -> Nat] /\ fee_growth_global \in [Token -> Nat]
        /\ \A k \in Token : g[k] < U256
        /\ Bounded(swap.ticks, g)
        /\ fee_growth_global[Side] <= swap'.fee_growth /\ swap'.fee_growth < U256
        /\ fee = 0 =>
               /\ CrossesTick(swap, step) => g = fee_growth_global
               /\ swap'.fee_growth = fee_growth_global[Side] \/ swap'.amount_remaining = 0
    BY <1>5, StepCounters
  <2> HIDE DEF step
  <2>4. Bounded(ticks_after(swap, step), g)
    BY <2>1, <2>3, StepBounded
  <2> HIDE DEF g
  <2>5. fee = 0 => Bounded(ticks_after(swap, step), fee_growth_global)
    <3> SUFFICES ASSUME fee = 0 PROVE Bounded(ticks_after(swap, step), fee_growth_global)
      OBVIOUS
    <3>1. /\ \A k \in Token : fee_growth_global[k] < U256
          /\ Bounded(swap.ticks, fee_growth_global)
      BY <2>1 DEF GrowthInv
    <3> QED  BY <2>1, <2>3, <3>1, StepBounded DEF g
  <2> QED  BY <2>1, <2>2, <2>3, <2>4, <2>5 DEF GrowthInv
<1>6. CASE swap' = NoSwap /\ UNCHANGED <<fee_growth_global, ticks>>
  BY <1>6, EmptyTypes DEF GrowthInv
<1>7. CASE SwapCommit
  <2>1. /\ swap.active /\ swap' = NoSwap /\ ticks' = swap.ticks
        /\ fee_growth_global' = IF fee = 0 THEN fee_growth_global ELSE RunningGrowth
    BY <1>7 DEF SwapCommit, RunningGrowth, Side
  <2>2. \A k \in Token : RunningGrowth[k] < U256
    BY <2>1, RunningGrowthAt DEF GrowthInv
  <2> QED  BY <2>1, <2>2, EmptyTypes DEF GrowthInv, Bounded
<1>8. CASE Admin \/ Mint \/ UNCHANGED vars
  BY <1>1, <1>2, <1>8 DEF Admin, InitPool, SetEnabled, SetSqrtPrice, Mint, CreatePosition,
                          MintElsewhere, vars, config, market
<1>9. CASE Operate
  <2>1. ASSUME NEW id \in Id, Collect(id) PROVE GrowthInv'
    BY <1>1, <2>1 DEF Collect, config, market
  <2> QED  BY <1>3, <1>4, <1>9, <2>1, AdjustUpdates, PoolAssumption DEF Operate
<1>10. CASE SwapLoop
  BY <1>5, <1>6, <1>7, <1>10 DEF SwapLoop, SwapReverts, SwapDiscard, market
<1> QED  BY <1>8, <1>9, <1>10 DEF Next

\* The growth outside the ticks stays within the counters.
LEMMA GrowthInvariant ==
    ASSUME OnlySwapsMovePrice
    PROVE  Spec /\ []GrowthInWord => []GrowthInv
<1>1. GrowthInWord /\ PoolInv /\ PriceInv /\ GrowthInv /\ [Next]_vars => GrowthInv'
  BY GrowthNext
<1> QED  BY <1>1, GrowthInit, PriceInvariant, PTL DEF Spec

\* As long as no counter has wrapped at 256 bits, a tick never records more fee
\* growth outside it than there was in total, at rest and in the middle of a
\* swap: the wrapping subtraction of cross never wraps.
THEOREM OutsideNeverExceedsGlobal ==
    ASSUME OnlySwapsMovePrice
    PROVE  Spec /\ []GrowthInWord => []OutsideWithinGlobal
<1>1. PoolInv /\ GrowthInv => OutsideWithinGlobal
  BY RunningGrowthAt DEF GrowthInv, OutsideWithinGlobal, RunningTicks, Bounded, Side
<1> QED  BY <1>1, PoolInvariant, GrowthInvariant, PTL

-----------------------------------------------------------------------------
(* incr_position.  create_position accepts a range whose ends are swapped;   *)
(* inside such a range the liquidity is computed for two tokens and the      *)
(* amounts for one, so the result is about ranges whose ends are in order.   *)

\* adjust_position takes at most the desired amounts at the price of the tick,
\* below the range, on its lower tick, inside it and above it.
LEMMA AdjustCosts ==
    ASSUME PoolInv, NEW id \in Id, positions[id].lower <= positions[id].upper,
           NEW desired \in Desired, NEW minimum \in Desired,
           sqrt_price = SqrtRatio[cur_tick], AdjustPosition(id, desired, minimum, FALSE)
    PROVE  \A k \in Token : reserve'[k] - reserve[k] <= desired[k + 1]
<1> DEFINE p   == positions[id]
           low == SqrtRatio[p.lower]
           up  == SqrtRatio[p.upper]
           c   == SqrtRatio[cur_tick]
           d0  == desired[1]
           d1  == desired[2]
           l   == adjust_delta(id, desired, FALSE)
           am  == amounts_for(p, l)
<1>1. p.lower \in Tick /\ p.upper \in Tick /\ cur_tick \in Tick /\ p.lower # p.upper
  BY DEF PoolInv, TypeOK, PositionInfo, AdjustPosition
<1>2. p.lower \in Int /\ p.upper \in Int /\ cur_tick \in Int /\ p.lower < p.upper
  <2>1. p.lower \in Int /\ p.upper \in Int /\ cur_tick \in Int
    BY <1>1, Constants
  <2> QED  BY <1>1, <2>1
<1>3. d0 \in Nat /\ d1 \in Nat
  BY PoolAssumption
<1>4. low \in Nat \ {0} /\ up \in Nat \ {0} /\ c \in Nat \ {0} /\ sqrt_price = c
  BY <1>1, Constants
<1>5. l = get_liquidity_for_amounts(c, low, up, d0, d1)
  BY DEF adjust_delta
<1>6. am = IF l = 0 THEN <<0, 0>>
           ELSE IF cur_tick < p.lower THEN <<get_amount_0_delta(low, up, l), 0>>
           ELSE IF cur_tick < p.upper
           THEN <<get_amount_0_delta(c, up, l), get_amount_1_delta(low, c, l)>>
           ELSE <<0, get_amount_1_delta(low, up, l)>>
  BY DEF amounts_for
<1>7. reserve' = [k \in Token |-> reserve[k] + am[k + 1]] /\ reserve \in [Token -> Int]
  BY DEF AdjustPosition, update_position, PoolInv, TypeOK
<1>8. /\ low < up
      /\ cur_tick < p.lower => c < low
      /\ cur_tick = p.lower => c = low
      /\ p.lower < cur_tick => low < c
      /\ cur_tick < p.upper => c < up
      /\ p.upper <= cur_tick => up <= c
  <2> DEFINE m == p.lower
             n == p.upper
  <2>1. m \in Tick /\ n \in Tick /\ m < n
    BY <1>1, <1>2
  <2> HIDE DEF p, m, n
  <2>2. /\ SqrtRatio[m] < SqrtRatio[n]
        /\ cur_tick < m => SqrtRatio[cur_tick] < SqrtRatio[m]
        /\ cur_tick = m => SqrtRatio[cur_tick] = SqrtRatio[m]
        /\ m < cur_tick => SqrtRatio[m] < SqrtRatio[cur_tick]
        /\ cur_tick < n => SqrtRatio[cur_tick] < SqrtRatio[n]
        /\ n <= cur_tick => SqrtRatio[n] <= SqrtRatio[cur_tick]
    BY <1>1, <2>1, RatioAssumption, RatioOrder
  <2> QED  BY <2>2 DEF m, n
<1> HIDE DEF p, low, up, c, d0, d1, l, am
<1>9. /\ c <= low => l = get_liquidity_for_amount_0(low, up, d0)
      /\ (low < c /\ c < up) => l = Lo(get_liquidity_for_amount_0(c, up, d0),
                                        get_liquidity_for_amount_1(low, c, d1))
      /\ up <= c => l = get_liquidity_for_amount_1(low, up, d1)
  BY <1>4, <1>5, <1>8 DEF get_liquidity_for_amounts, Lo, Hi
<1>10. l \in Nat
  <2>1. low # up
    BY <1>4, <1>8
  <2> QED  BY <1>3, <1>4, <1>5, <2>1, LiquidityForAmountsType
<1>11. ASSUME NEW x, NEW y
       PROVE  get_amount_0_delta(x, y, l) = Up0(x, y, l) /\ get_amount_1_delta(x, y, l) = Up1(x, y, l)
  <2>1. ~(l < 0)
    BY <1>10
  <2> QED  BY <2>1, Zenon DEF get_amount_0_delta, get_amount_1_delta, Up0, Up1
<1>12. am[1] \in Int /\ am[2] \in Int /\ am[1] <= d0 /\ am[2] <= d1
  <2>1. CASE l = 0
    BY <1>3, <1>6, <2>1
  <2>2. CASE l # 0 /\ cur_tick < p.lower
    <3>1. Up0(low, up, l) <= d0 /\ Up0(low, up, l) \in Nat
      <4>1. l <= get_liquidity_for_amount_0(low, up, d0)
        BY <1>4, <1>8, <1>9, <1>10, <2>2
      <4> QED  BY <1>3, <1>4, <1>8, <1>10, <4>1, LiquidityCosts, AmountFacts
    <3>2. am = <<Up0(low, up, l), 0>>
      BY <1>6, <1>11, <2>2
    <3> QED  BY <1>3, <3>1, <3>2
  <2>3. CASE l # 0 /\ cur_tick = p.lower
    <3>1. Up0(low, up, l) <= d0 /\ Up0(low, up, l) \in Nat
      <4>1. l <= get_liquidity_for_amount_0(low, up, d0)
        BY <1>4, <1>8, <1>9, <1>10, <2>3
      <4> QED  BY <1>3, <1>4, <1>8, <1>10, <4>1, LiquidityCosts, AmountFacts
    <3>2. Up1(low, low, l) = 0
      <4>1. l * (low - low) <= 0 * Q96
        BY <1>4, <1>10, Constants
      <4>2. Up1(low, low, l) \in Nat /\ (Up1(low, low, l) <= 0 <=> l * (low - low) <= 0 * Q96)
        BY <1>4, <1>10, AmountFacts, 0 \in Int, low <= low
      <4> QED  BY <4>1, <4>2
    <3>3. am = <<Up0(low, up, l), Up1(low, low, l)>>
      BY <1>2, <1>6, <1>8, <1>11, <2>3
    <3> QED  BY <1>3, <3>1, <3>2, <3>3
  <2>4. CASE l # 0 /\ p.lower < cur_tick /\ cur_tick < p.upper
    <3> DEFINE x == get_liquidity_for_amount_0(c, up, d0)
               y == get_liquidity_for_amount_1(low, c, d1)
    <3>1. l = Lo(x, y)
      BY <1>8, <1>9, <2>4
    <3>2. x \in Nat /\ y \in Nat
      BY <1>3, <1>4, <1>8, <2>4, LiquidityForAmountType
    <3> HIDE DEF x, y
    <3>3. l <= x /\ l <= y
      BY <3>1, <3>2 DEF Lo
    <3>4. Up0(c, up, l) <= d0 /\ Up0(c, up, l) \in Nat
      BY <1>3, <1>4, <1>8, <1>10, <2>4, <3>3, LiquidityCosts, AmountFacts DEF x
    <3>5. Up1(low, c, l) <= d1 /\ Up1(low, c, l) \in Nat
      BY <1>3, <1>4, <1>8, <1>10, <2>4, <3>3, LiquidityCosts, AmountFacts DEF y
    <3>6. am = <<Up0(c, up, l), Up1(low, c, l)>>
      BY <1>2, <1>6, <1>11, <2>4
    <3> QED  BY <3>4, <3>5, <3>6
  <2>5. CASE l # 0 /\ p.upper <= cur_tick
    <3>1. Up1(low, up, l) <= d1 /\ Up1(low, up, l) \in Nat
      <4>1. l <= get_liquidity_for_amount_1(low, up, d1)
        BY <1>4, <1>8, <1>9, <1>10, <2>5
      <4> QED  BY <1>3, <1>4, <1>8, <1>10, <4>1, LiquidityCosts, AmountFacts
    <3>2. am = <<0, Up1(low, up, l)>>
      BY <1>2, <1>6, <1>11, <2>5
    <3> QED  BY <1>3, <3>1, <3>2
  <2> QED  BY <1>2, <2>1, <2>2, <2>3, <2>4, <2>5
<1>13. ASSUME NEW k \in Token PROVE reserve'[k] - reserve[k] <= desired[k + 1]
  <2>1. k = 0 \/ k = 1
    BY DEF Token
  <2>2. reserve'[k] = reserve[k] + am[k + 1] /\ reserve[k] \in Int
    BY <1>7
  <2> QED  BY <1>3, <1>12, <2>1, <2>2 DEF d0, d1
<1> QED  BY <1>13

\* incr_position takes no more than the desired amount of either token when the
\* price is that of the current tick: of all the divisions between a desired
\* amount and the transfer, those on the way to the liquidity round down and
\* the others up, and no combination of them costs the caller a unit more.
THEOREM IncreasesWithinDesired == Spec => AdjustsWithinDesired
<1> DEFINE Within == sqrt_price = SqrtRatio[cur_tick] => AdjustTakesAtMostDesired
<1>1. PoolInv => Within
  BY AdjustCosts DEF AdjustTakesAtMostDesired
<1>2. PoolInv /\ [Next]_vars => [Within]_vars
  BY <1>1
<1> HIDE DEF Within
<1>3. Spec => [][Within]_vars
  BY <1>2, PoolInvariant, PTL DEF Spec
<1> QED  BY <1>3 DEF AdjustsWithinDesired, Within

-----------------------------------------------------------------------------
(***************************************************************************)
(* The ledger.  What is needed of sums over finite sets comes first, from  *)
(* a smallest counterexample each time.                                    *)
(***************************************************************************)

\* A set of subsets of a finite set has a smallest member.
LEMMA SmallestSubset ==
    ASSUME NEW S, IsFiniteSet(S), NEW Bad \in SUBSET (SUBSET S), Bad # {}
    PROVE  \E T \in Bad : \A U \in SUBSET T : U # T => U \notin Bad
<1>1. IsWellFoundedOn(StrictSubsetOrdering(S), FiniteSubsetsOf(S))
  BY FS_StrictSubsetOrderingWellFounded
<1>2. FiniteSubsetsOf(S) = SUBSET S
  BY FS_FiniteSubsetsOfFinite
<1>3. \E T \in Bad : \A U \in Bad : <<U, T>> \notin StrictSubsetOrdering(S)
  BY <1>1, <1>2, WFMin
<1>4. \A T, U \in SUBSET S : (U \subseteq T /\ U # T) => <<U, T>> \in StrictSubsetOrdering(S)
  BY DEF StrictSubsetOrdering
<1> QED  BY <1>3, <1>4

\* The recursion behind SumFunctionOnSet: its choice of an element, its
\* equation, and the functions that solve it.
Pick(T) == CHOOSE x \in T : TRUE
Rest(T) == T \ {Pick(T)}
SumBody(f, T, g) == IF T = {} THEN 0 ELSE f[Pick(T)] + g[Rest(T)]
Solves(f, S, g) == g = [T \in SUBSET S |-> SumBody(f, T, g)]
Solution(f, S) == CHOOSE g : Solves(f, S, g)

\* A sum is a value of a solution of that recursion.
LEMMA SumIsSolution == ASSUME NEW f, NEW S PROVE SumFunctionOnSet(f, S) = Solution(f, S)[S]
BY DEF SumFunctionOnSet, FoldFunctionOnSet, MapThenFoldSet, Solution, Solves, SumBody, Rest, Pick

\* The rest of a set is a smaller set.
LEMMA RestSmaller ==
    ASSUME NEW T, T # {}
    PROVE  Pick(T) \in T /\ Rest(T) \in SUBSET T /\ Rest(T) # T /\ T = Rest(T) \cup {Pick(T)}
<1>1. Pick(T) \in T
  BY Zenon DEF Pick
<1> QED  BY <1>1 DEF Rest

\* Two solutions agree where both are defined.
LEMMA SolutionsAgree ==
    ASSUME NEW f, NEW S, IsFiniteSet(S), NEW R \in SUBSET S, NEW g, NEW h,
           Solves(f, S, g), Solves(f, R, h)
    PROVE  \A T \in SUBSET R : g[T] = h[T]
<1> DEFINE Bad == {T \in SUBSET R : g[T] # h[T]}
<1> SUFFICES ASSUME Bad # {} PROVE FALSE
  OBVIOUS
<1>0. IsFiniteSet(R)
  BY FS_Subset
<1>1. PICK T \in Bad : \A U \in SUBSET T : U # T => U \notin Bad
  <2>1. Bad \in SUBSET (SUBSET R)
    OBVIOUS
  <2> HIDE DEF Bad
  <2> QED  BY <1>0, <2>1, SmallestSubset
<1>2. T \in SUBSET R /\ T \in SUBSET S /\ g[T] # h[T]
  OBVIOUS
<1>3. g[T] = SumBody(f, T, g) /\ h[T] = SumBody(f, T, h)
  BY <1>2 DEF Solves
<1>4. CASE T = {}
  BY <1>2, <1>3, <1>4 DEF SumBody
<1>5. CASE T # {}
  <2>1. Rest(T) \in SUBSET T /\ Rest(T) # T
    BY <1>5, RestSmaller
  <2>2. g[Rest(T)] = h[Rest(T)]
    BY <1>1, <1>2, <2>1
  <2> QED  BY <1>2, <1>3, <2>2 DEF SumBody
<1> QED  BY <1>4, <1>5

\* The recursion has a solution on every finite set.
LEMMA SolutionExists ==
    ASSUME NEW f, NEW S, IsFiniteSet(S)
    PROVE  Solves(f, S, Solution(f, S))
<1> DEFINE Bad == {T \in SUBSET S : ~\E g : Solves(f, T, g)}
<1>1. Bad = {}
  <2> SUFFICES ASSUME Bad # {} PROVE FALSE
    OBVIOUS
  <2>1. PICK T \in Bad : \A U \in SUBSET T : U # T => U \notin Bad
    <3>1. Bad \in SUBSET (SUBSET S)
      OBVIOUS
    <3> HIDE DEF Bad
    <3> QED  BY <3>1, SmallestSubset
  <2> DEFINE g == [U \in SUBSET T |->
                     IF U = {} THEN 0 ELSE f[Pick(U)] + Solution(f, Rest(U))[Rest(U)]]
  <2>2. ASSUME NEW U \in SUBSET T, U # T PROVE Solves(f, U, Solution(f, U))
    <3>1. \E h : Solves(f, U, h)
      BY <2>1, <2>2
    <3> QED  BY <3>1 DEF Solution
  <2>3. ASSUME NEW U \in SUBSET T, U # T PROVE Solution(f, U)[U] = g[U]
    <3>1. Solution(f, U)[U] = SumBody(f, U, Solution(f, U))
      BY <2>2, <2>3 DEF Solves
    <3>2. CASE U = {}
      BY <3>1, <3>2 DEF SumBody
    <3>3. CASE U # {}
      <4>1. Rest(U) \in SUBSET U /\ Rest(U) \in SUBSET T /\ Rest(U) # T
        BY <2>3, <3>3, RestSmaller
      <4>2. IsFiniteSet(U)
        BY FS_Subset
      <4>3. Solution(f, U)[Rest(U)] = Solution(f, Rest(U))[Rest(U)]
        BY <2>2, <2>3, <4>1, <4>2, SolutionsAgree
      <4> QED  BY <3>1, <3>3, <4>3 DEF SumBody
    <3> QED  BY <3>2, <3>3
  <2>4. ASSUME NEW U \in SUBSET T PROVE g[U] = SumBody(f, U, g)
    <3>1. CASE U = {}
      BY <3>1 DEF SumBody
    <3>2. CASE U # {}
      <4>1. Rest(U) \in SUBSET T /\ Rest(U) # T
        BY <3>2, RestSmaller
      <4>2. Solution(f, Rest(U))[Rest(U)] = g[Rest(U)]
        BY <2>3, <4>1
      <4> QED  BY <3>2, <4>2 DEF SumBody
    <3> QED  BY <3>1, <3>2
  <2>5. g = [U \in SUBSET T |-> SumBody(f, U, g)]
    <3>1. \A U \in SUBSET T : g[U] = SumBody(f, U, g)
      BY <2>4
    <3>2. g = [U \in SUBSET T |-> g[U]]
      OBVIOUS
    <3> HIDE DEF g
    <3> QED  BY <3>1, <3>2
  <2> QED  BY <2>1, <2>5 DEF Solves
<1>2. \E g : Solves(f, S, g)
  BY <1>1
<1> QED  BY <1>2 DEF Solution

\* The sum over a finite set is that of a chosen element and of the rest.
LEMMA SumUnfolds ==
    ASSUME NEW f, NEW S, IsFiniteSet(S)
    PROVE  SumFunctionOnSet(f, S) =
               IF S = {} THEN 0 ELSE f[Pick(S)] + SumFunctionOnSet(f, Rest(S))
<1>1. Solves(f, S, Solution(f, S))
  BY SolutionExists
<1>2. Solution(f, S)[S] = SumBody(f, S, Solution(f, S))
  BY <1>1 DEF Solves
<1>3. CASE S = {}
  BY <1>2, <1>3, SumIsSolution DEF SumBody
<1>4. CASE S # {}
  <2>1. Rest(S) \in SUBSET S /\ IsFiniteSet(Rest(S))
    BY <1>4, RestSmaller, FS_Subset
  <2>2. Solves(f, Rest(S), Solution(f, Rest(S)))
    BY <2>1, SolutionExists
  <2>3. Solution(f, S)[Rest(S)] = Solution(f, Rest(S))[Rest(S)]
    BY <1>1, <2>1, <2>2, SolutionsAgree
  <2> QED  BY <1>2, <1>4, <2>3, SumIsSolution DEF SumBody
<1> QED  BY <1>3, <1>4

\* The sum over no element is 0.
LEMMA SumEmpty == ASSUME NEW f PROVE SumFunctionOnSet(f, {}) = 0
BY FS_EmptySet, SumUnfolds

\* Sums of integers are integers, sums of naturals naturals.
LEMMA SumType ==
    ASSUME NEW I, IsFiniteSet(I), NEW V, V \in {Int, Nat}, NEW f \in [I -> V], NEW S \in SUBSET I
    PROVE  SumFunctionOnSet(f, S) \in V
<1> DEFINE Bad == {T \in SUBSET I : SumFunctionOnSet(f, T) \notin V}
<1> SUFFICES ASSUME Bad # {} PROVE FALSE
  OBVIOUS
<1>1. PICK T \in Bad : \A U \in SUBSET T : U # T => U \notin Bad
  <2>1. Bad \in SUBSET (SUBSET I)
    OBVIOUS
  <2> HIDE DEF Bad
  <2> QED  BY <2>1, SmallestSubset
<1>2. T \in SUBSET I /\ IsFiniteSet(T)
  BY FS_Subset
<1>3. T # {}
  BY SumEmpty
<1>4. Pick(T) \in I /\ Rest(T) \in SUBSET I /\ Rest(T) \notin Bad
  BY <1>1, <1>2, <1>3, RestSmaller
<1>5. f[Pick(T)] \in V /\ SumFunctionOnSet(f, Rest(T)) \in V
  BY <1>4
<1>6. SumFunctionOnSet(f, T) = f[Pick(T)] + SumFunctionOnSet(f, Rest(T))
  BY <1>2, <1>3, SumUnfolds
<1>7. \A x, y \in V : x + y \in V
  OBVIOUS
<1> QED  BY <1>5, <1>6, <1>7

\* Any element may be taken out first.
LEMMA SumRemove ==
    ASSUME NEW I, IsFiniteSet(I), NEW f \in [I -> Int], NEW S \in SUBSET I, NEW x \in S
    PROVE  SumFunctionOnSet(f, S) = f[x] + SumFunctionOnSet(f, S \ {x})
<1> DEFINE Sum(T) == SumFunctionOnSet(f, T)
           Bad == {T \in SUBSET I : \E y \in T : Sum(T) # f[y] + Sum(T \ {y})}
<1> SUFFICES ASSUME Bad # {} PROVE FALSE
  OBVIOUS
<1>1. PICK T \in Bad : \A U \in SUBSET T : U # T => U \notin Bad
  <2>1. Bad \in SUBSET (SUBSET I)
    OBVIOUS
  <2> HIDE DEF Bad
  <2> QED  BY <2>1, SmallestSubset
<1>2. PICK y \in T : Sum(T) # f[y] + Sum(T \ {y})
  OBVIOUS
<1> DEFINE z == Pick(T)
           Both == T \ {y, z}
<1>3. T \in SUBSET I /\ IsFiniteSet(T) /\ z \in T /\ Rest(T) = T \ {z}
  BY FS_Subset, RestSmaller DEF Rest
<1>4. Sum(T) = f[z] + Sum(T \ {z})
  BY <1>3, SumUnfolds
<1>5. y # z
  BY <1>2, <1>4
<1> HIDE DEF z
<1>6. T \ {z} \in SUBSET T /\ T \ {z} # T /\ T \ {y} \in SUBSET T /\ T \ {y} # T
      /\ y \in T \ {z} /\ z \in T \ {y} /\ (T \ {z}) \ {y} = Both /\ (T \ {y}) \ {z} = Both
  BY <1>3, <1>5
<1>7. T \ {z} \in SUBSET I /\ T \ {z} \notin Bad /\ T \ {y} \in SUBSET I /\ T \ {y} \notin Bad
  BY <1>1, <1>3, <1>6
<1>8. Sum(T \ {z}) = f[y] + Sum(Both)
  <2>1. Sum(T \ {z}) = f[y] + Sum((T \ {z}) \ {y})
    BY <1>6, <1>7
  <2> QED  BY <1>6, <2>1
<1>9. Sum(T \ {y}) = f[z] + Sum(Both)
  <2>1. Sum(T \ {y}) = f[z] + Sum((T \ {y}) \ {z})
    BY <1>6, <1>7
  <2> QED  BY <1>6, <2>1
<1>10. f[y] \in Int /\ f[z] \in Int /\ Sum(Both) \in Int
  <2>1. Both \in SUBSET I /\ y \in I /\ z \in I
    BY <1>3
  <2> QED  BY <2>1, SumType
<1> HIDE DEF Sum, Bad, Both
<1> QED  BY <1>2, <1>4, <1>8, <1>9, <1>10

\* The sum reads the function only on the set.
LEMMA SumAgree ==
    ASSUME NEW I, IsFiniteSet(I), NEW f, NEW g, NEW S \in SUBSET I, \A x \in S : f[x] = g[x]
    PROVE  SumFunctionOnSet(f, S) = SumFunctionOnSet(g, S)
<1> DEFINE Bad == {T \in SUBSET S : SumFunctionOnSet(f, T) # SumFunctionOnSet(g, T)}
<1> SUFFICES ASSUME Bad # {} PROVE FALSE
  OBVIOUS
<1>1. PICK T \in Bad : \A U \in SUBSET T : U # T => U \notin Bad
  <2>1. Bad \in SUBSET (SUBSET S) /\ IsFiniteSet(S)
    BY FS_Subset
  <2> HIDE DEF Bad
  <2> QED  BY <2>1, SmallestSubset
<1>2. T \in SUBSET S /\ IsFiniteSet(T)
  BY FS_Subset
<1>3. T # {}
  BY SumEmpty
<1>4. Pick(T) \in S /\ Rest(T) \in SUBSET S /\ Rest(T) \notin Bad
  BY <1>1, <1>2, <1>3, RestSmaller
<1>5. SumFunctionOnSet(f, Rest(T)) = SumFunctionOnSet(g, Rest(T)) /\ f[Pick(T)] = g[Pick(T)]
  BY <1>4
<1>6. /\ SumFunctionOnSet(f, T) = f[Pick(T)] + SumFunctionOnSet(f, Rest(T))
      /\ SumFunctionOnSet(g, T) = g[Pick(T)] + SumFunctionOnSet(g, Rest(T))
  BY <1>2, <1>3, SumUnfolds
<1> QED  BY <1>5, <1>6

\* Changing the function at one element changes the sums over that element.
LEMMA SumChange ==
    ASSUME NEW I, IsFiniteSet(I), NEW f \in [I -> Int], NEW g \in [I -> Int], NEW S \in SUBSET I,
           NEW x \in I, \A y \in I \ {x} : f[y] = g[y]
    PROVE  SumFunctionOnSet(g, S) = SumFunctionOnSet(f, S) + IF x \in S THEN g[x] - f[x] ELSE 0
<1>1. S \ {x} \in SUBSET I /\ \A y \in S \ {x} : f[y] = g[y]
  OBVIOUS
<1>2. SumFunctionOnSet(f, S \ {x}) = SumFunctionOnSet(g, S \ {x})
  BY <1>1, SumAgree
<1>3. SumFunctionOnSet(f, S \ {x}) \in Int /\ SumFunctionOnSet(f, S) \in Int
      /\ f[x] \in Int /\ g[x] \in Int
  BY <1>1, SumType
<1>4. CASE x \in S
  <2>1. /\ SumFunctionOnSet(f, S) = f[x] + SumFunctionOnSet(f, S \ {x})
        /\ SumFunctionOnSet(g, S) = g[x] + SumFunctionOnSet(g, S \ {x})
    BY <1>4, SumRemove
  <2> QED  BY <1>2, <1>3, <1>4, <2>1
<1>5. CASE x \notin S
  <2>1. S \ {x} = S
    BY <1>5
  <2> QED  BY <1>2, <1>3, <1>5, <2>1
<1> QED  BY <1>4, <1>5

\* The elements that count for something.
Support(f, S) == {x \in S : f[x] # 0}

\* The others may be left out of a sum.
LEMMA SumOnSupport ==
    ASSUME NEW I, IsFiniteSet(I), NEW f \in [I -> Int], NEW S \in SUBSET I
    PROVE  SumFunctionOnSet(f, S) = SumFunctionOnSet(f, Support(f, S))
<1> DEFINE Bad == {T \in SUBSET I : SumFunctionOnSet(f, T) # SumFunctionOnSet(f, Support(f, T))}
<1> SUFFICES ASSUME Bad # {} PROVE FALSE
  OBVIOUS
<1>1. PICK T \in Bad : \A U \in SUBSET T : U # T => U \notin Bad
  <2>1. Bad \in SUBSET (SUBSET I)
    OBVIOUS
  <2> HIDE DEF Bad
  <2> QED  BY <2>1, SmallestSubset
<1>2. Support(f, T) # T
  OBVIOUS
<1>3. PICK x \in T : f[x] = 0
  BY <1>2 DEF Support
<1>4. T \ {x} \in SUBSET I /\ T \ {x} \notin Bad /\ Support(f, T \ {x}) = Support(f, T)
  BY <1>1, <1>3 DEF Support
<1>5. SumFunctionOnSet(f, T) = 0 + SumFunctionOnSet(f, T \ {x})
  BY <1>3, SumRemove
<1>6. SumFunctionOnSet(f, T \ {x}) \in Int
  BY <1>4, SumType
<1>7. SumFunctionOnSet(f, T \ {x}) = SumFunctionOnSet(f, Support(f, T))
  BY <1>4
<1> QED  BY <1>5, <1>6, <1>7

\* Sets that differ in elements that count for nothing have the same sum.
LEMMA SumSameSupport ==
    ASSUME NEW I, IsFiniteSet(I), NEW f \in [I -> Int], NEW S \in SUBSET I, NEW T \in SUBSET I,
           Support(f, S) = Support(f, T)
    PROVE  SumFunctionOnSet(f, S) = SumFunctionOnSet(f, T)
BY SumOnSupport

\* Sums over disjoint sets add up.
LEMMA SumUnion ==
    ASSUME NEW I, IsFiniteSet(I), NEW f \in [I -> Int], NEW S \in SUBSET I, NEW T \in SUBSET I,
           S \cap T = {}
    PROVE  SumFunctionOnSet(f, S \cup T) = SumFunctionOnSet(f, S) + SumFunctionOnSet(f, T)
<1> DEFINE Sum(U) == SumFunctionOnSet(f, U)
           Bad == {U \in SUBSET T : Sum(S \cup U) # Sum(S) + Sum(U)}
<1> SUFFICES ASSUME Bad # {} PROVE FALSE
  OBVIOUS
<1>1. PICK U \in Bad : \A W \in SUBSET U : W # U => W \notin Bad
  <2>1. Bad \in SUBSET (SUBSET T) /\ IsFiniteSet(T)
    BY FS_Subset
  <2> HIDE DEF Bad
  <2> QED  BY <2>1, SmallestSubset
<1>2. Sum(S) \in Int /\ Sum(U) \in Int
  BY SumType
<1>3. U # {}
  <2> SUFFICES ASSUME U = {} PROVE FALSE
    OBVIOUS
  <2>1. S \cup U = S /\ Sum(U) = 0
    BY SumEmpty
  <2>2. Sum(S \cup U) = Sum(S) + Sum(U)
    BY <1>2, <2>1
  <2> QED  BY <2>2
<1>4. PICK x \in U : TRUE
  BY <1>3
<1>5. x \in S \cup U /\ (S \cup U) \ {x} = S \cup (U \ {x}) /\ S \cup U \in SUBSET I
  BY <1>4
<1>6. Sum(S \cup U) = f[x] + Sum(S \cup (U \ {x}))
  <2>1. Sum(S \cup U) = f[x] + Sum((S \cup U) \ {x})
    BY <1>5, SumRemove
  <2> QED  BY <1>5, <2>1
<1>7. Sum(U) = f[x] + Sum(U \ {x})
  BY SumRemove
<1>8. Sum(S \cup (U \ {x})) = Sum(S) + Sum(U \ {x})
  <2>1. U \ {x} \in SUBSET U /\ U \ {x} # U /\ U \ {x} \in SUBSET T
    OBVIOUS
  <2>2. U \ {x} \notin Bad
    BY <1>1, <2>1
  <2> QED  BY <2>1, <2>2
<1>9. f[x] \in Int /\ Sum(U \ {x}) \in Int
  <2>1. x \in I /\ U \ {x} \in SUBSET I
    OBVIOUS
  <2> QED  BY <2>1, SumType
<1>10. Sum(S \cup U) # Sum(S) + Sum(U)
  OBVIOUS
<1> HIDE DEF Sum, Bad
<1> QED  BY <1>2, <1>6, <1>7, <1>8, <1>9, <1>10

-----------------------------------------------------------------------------
(* Ticks and positions *)

\* The liquidity of a set of positions, and the positions at a tick.
Amount(pos, S)   == SumFunctionOnSet([id \in Id |-> pos[id].liquidity], S)
Starting(pos, t) == {id \in Id : pos[id].lower = t}
Ending(pos, t)   == {id \in Id : pos[id].upper = t}

Matches(pos, tks) ==
    \A t \in Tick :
        /\ tks[t].liquidity_gross = Amount(pos, Starting(pos, t)) + Amount(pos, Ending(pos, t))
        /\ tks[t].liquidity_net   = Amount(pos, Starting(pos, t)) - Amount(pos, Ending(pos, t))

\* An id that was not minted has no liquidity anywhere.
UnmintedEmpty == \A id \in Id : next_position_id <= id => positions[id].liquidity = 0

TicksInv ==
    /\ UnmintedEmpty
    /\ Matches(positions, ticks)
    /\ swap.active => Matches(positions, swap.ticks)

\* Sums over positions are naturals.
LEMMA AmountType ==
    ASSUME NEW pos \in [Id -> PositionInfo], NEW S \in SUBSET Id
    PROVE  /\ Amount(pos, S) \in Nat
           /\ [id \in Id |-> pos[id].liquidity] \in [Id -> Nat]
           /\ [id \in Id |-> pos[id].liquidity] \in [Id -> Int] /\ IsFiniteSet(Id)
<1>1. [id \in Id |-> pos[id].liquidity] \in [Id -> Nat]
      /\ [id \in Id |-> pos[id].liquidity] \in [Id -> Int]
  BY DEF PositionInfo
<1>2. IsFiniteSet(Id)
  BY FS_Interval, PoolAssumption DEF Id
<1> QED  BY <1>1, <1>2, SumType DEF Amount

\* Only ranges and liquidity of the positions count, and of a position without
\* liquidity not even the range.
LEMMA MatchesSame ==
    ASSUME NEW pos \in [Id -> PositionInfo], NEW new \in [Id -> PositionInfo], NEW tks,
           \A id \in Id : new[id].liquidity = pos[id].liquidity,
           \A id \in Id : pos[id].liquidity # 0 =>
               new[id].lower = pos[id].lower /\ new[id].upper = pos[id].upper,
           Matches(pos, tks)
    PROVE  Matches(new, tks)
<1> DEFINE f == [id \in Id |-> pos[id].liquidity]
<1>1. f = [id \in Id |-> new[id].liquidity]
  OBVIOUS
<1>2. f \in [Id -> Int] /\ IsFiniteSet(Id)
  BY AmountType
<1>3. ASSUME NEW t
      PROVE  /\ Amount(new, Starting(new, t)) = Amount(pos, Starting(pos, t))
             /\ Amount(new, Ending(new, t)) = Amount(pos, Ending(pos, t))
  <2>1. /\ Support(f, Starting(new, t)) = Support(f, Starting(pos, t))
        /\ Support(f, Ending(new, t)) = Support(f, Ending(pos, t))
    BY DEF Support, Starting, Ending
  <2>2. Starting(new, t) \in SUBSET Id /\ Starting(pos, t) \in SUBSET Id
        /\ Ending(new, t) \in SUBSET Id /\ Ending(pos, t) \in SUBSET Id
    BY DEF Starting, Ending
  <2> HIDE DEF f
  <2>3. /\ SumFunctionOnSet(f, Starting(new, t)) = SumFunctionOnSet(f, Starting(pos, t))
        /\ SumFunctionOnSet(f, Ending(new, t)) = SumFunctionOnSet(f, Ending(pos, t))
    BY <1>2, <2>1, <2>2, SumSameSupport
  <2> QED  BY <1>1, <2>3 DEF f, Amount
<1> QED  BY <1>3 DEF Matches

\* A tick without gross liquidity has no net liquidity.
LEMMA NoGrossNoNet ==
    ASSUME NEW pos \in [Id -> PositionInfo], NEW tks, Matches(pos, tks), NEW t \in Tick,
           tks[t].liquidity_gross = 0
    PROVE  /\ tks[t].liquidity_net = 0
           /\ Amount(pos, Starting(pos, t)) = 0 /\ Amount(pos, Ending(pos, t)) = 0
<1>1. Amount(pos, Starting(pos, t)) \in Nat /\ Amount(pos, Ending(pos, t)) \in Nat
  BY AmountType DEF Starting, Ending
<1> QED  BY <1>1 DEF Matches

\* The gross and net liquidity that update_position writes to a tick before it
\* clears any; the two ticks of a position may be one.
LEMMA UpdatedLiquidity ==
    ASSUME TypeOK, NEW p \in PositionInfo, NEW delta \in Int, NEW t \in Tick
    PROVE  /\ ticks_updated(p, delta)[t].liquidity_gross
                = ticks[t].liquidity_gross + (IF t = p.lower THEN delta ELSE 0)
                                           + (IF t = p.upper THEN delta ELSE 0)
           /\ ticks_updated(p, delta)[t].liquidity_net
                = ticks[t].liquidity_net + (IF t = p.lower THEN delta ELSE 0)
                                         - (IF t = p.upper THEN delta ELSE 0)
           /\ ticks_lower_updated(p, delta)[t].liquidity_gross
                = ticks[t].liquidity_gross + (IF t = p.lower THEN delta ELSE 0)
<1>0. /\ p.lower \in Tick /\ p.upper \in Tick /\ ticks \in [Tick -> TickInfo]
      /\ \A u \in Tick : ticks[u].liquidity_gross \in Int /\ ticks[u].liquidity_net \in Int
  BY DEF PositionInfo, TypeOK, TickInfo
<1>1. CASE delta = 0
  BY <1>0, <1>1 DEF ticks_updated, ticks_lower_updated
<1>2. CASE delta # 0
  <2> DEFINE low == tick_update(ticks[p.lower], p.lower, delta, FALSE)
             one == [ticks EXCEPT ![p.lower] = low]
             up  == tick_update(one[p.upper], p.upper, delta, TRUE)
             two == [one EXCEPT ![p.upper] = up]
  <2>1. ticks_lower_updated(p, delta) = one /\ ticks_updated(p, delta) = two
    BY <1>2 DEF ticks_lower_updated, ticks_updated
  <2>2. /\ low.liquidity_gross = ticks[p.lower].liquidity_gross + delta
        /\ low.liquidity_net = ticks[p.lower].liquidity_net + delta
        /\ up.liquidity_gross = one[p.upper].liquidity_gross + delta
        /\ up.liquidity_net = one[p.upper].liquidity_net - delta
    BY DEF tick_update
  <2> HIDE DEF low, up
  <2>3. \A u \in Tick : one[u] = IF u = p.lower THEN low ELSE ticks[u]
    BY <1>0
  <2>4. \A u \in Tick : two[u] = IF u = p.upper THEN up ELSE one[u]
    BY <1>0
  <2> HIDE DEF one, two
  <2>5. ASSUME NEW u \in Tick
        PROVE  /\ one[u].liquidity_gross
                    = ticks[u].liquidity_gross + (IF u = p.lower THEN delta ELSE 0)
               /\ one[u].liquidity_net
                    = ticks[u].liquidity_net + (IF u = p.lower THEN delta ELSE 0)
    BY <1>0, <2>2, <2>3
  <2>6. /\ two[t].liquidity_gross
             = one[t].liquidity_gross + (IF t = p.upper THEN delta ELSE 0)
        /\ two[t].liquidity_net = one[t].liquidity_net - (IF t = p.upper THEN delta ELSE 0)
    BY <1>0, <2>2, <2>4, <2>5
  <2> QED
    <3>1. /\ one[t].liquidity_gross
               = ticks[t].liquidity_gross + (IF t = p.lower THEN delta ELSE 0)
          /\ one[t].liquidity_net
               = ticks[t].liquidity_net + (IF t = p.lower THEN delta ELSE 0)
      BY <2>5
    <3>2. ticks[t].liquidity_gross \in Int /\ ticks[t].liquidity_net \in Int
      BY <1>0
    <3> QED  BY <2>1, <2>6, <3>1, <3>2
<1> QED  BY <1>1, <1>2

\* A tick that update_position clears has lost its last liquidity.
LEMMA ClearedIsEmpty ==
    ASSUME TypeOK, NEW p \in PositionInfo, NEW delta \in Int, UpdateOk(p, delta),
           NEW t \in Tick, delta < 0,
           \/ t = p.lower /\ flipped_lower(p, delta)
           \/ t = p.upper /\ flipped_upper(p, delta)
    PROVE  ticks_updated(p, delta)[t].liquidity_gross = 0
<1>0. p.lower \in Tick /\ p.upper \in Tick
  BY DEF PositionInfo
<1>1. /\ ticks_updated(p, delta) \in [Tick -> TickInfo] /\ ticks \in [Tick -> TickInfo]
      /\ ticks_lower_updated(p, delta) \in [Tick -> TickInfo]
  BY TicksUpdatedType DEF TypeOK
<1>2. /\ ticks_updated(p, delta)[t].liquidity_gross \in Nat
      /\ ticks[t].liquidity_gross \in Nat
      /\ ticks_lower_updated(p, delta)[t].liquidity_gross \in Nat
  BY <1>1 DEF TickInfo
<1>3. /\ ticks_updated(p, delta)[t].liquidity_gross
           = ticks[t].liquidity_gross + (IF t = p.lower THEN delta ELSE 0)
                                      + (IF t = p.upper THEN delta ELSE 0)
      /\ ticks_lower_updated(p, delta)[t].liquidity_gross
           = ticks[t].liquidity_gross + (IF t = p.lower THEN delta ELSE 0)
  BY UpdatedLiquidity
<1>4. CASE t = p.lower /\ flipped_lower(p, delta)
  <2>1. (ticks[t].liquidity_gross + delta = 0) # (ticks[t].liquidity_gross = 0)
    BY <1>4 DEF flipped_lower, tick_flipped
  <2>2. ticks[t].liquidity_gross + delta = 0
    BY <1>2, <1>3, <1>4, <2>1
  <2> QED  BY <1>2, <1>3, <1>4, <2>2
<1>5. CASE t = p.upper /\ flipped_upper(p, delta)
  <2> DEFINE u == ticks_lower_updated(p, delta)[t].liquidity_gross
  <2>1. (u + delta = 0) # (u = 0)
    BY <1>5 DEF flipped_upper, tick_flipped
  <2>2. ticks_updated(p, delta)[t].liquidity_gross = u + delta
    BY <1>2, <1>3, <1>5
  <2> HIDE DEF u
  <2> QED  BY <1>2, <2>1, <2>2 DEF u
<1> QED  BY <1>4, <1>5

\* Clearing changes no gross liquidity.
LEMMA ClearedGross ==
    ASSUME TypeOK, NEW p \in PositionInfo, NEW delta \in Int, UpdateOk(p, delta), NEW t \in Tick
    PROVE  ticks_cleared(p, delta)[t].liquidity_gross = ticks_updated(p, delta)[t].liquidity_gross
<1> DEFINE cleared == /\ delta < 0
                      /\ \/ t = p.lower /\ flipped_lower(p, delta)
                         \/ t = p.upper /\ flipped_upper(p, delta)
<1>1. ticks_cleared(p, delta)[t] = IF cleared THEN EmptyTick ELSE ticks_updated(p, delta)[t]
  BY Zenon DEF ticks_cleared
<1>2. cleared => ticks_updated(p, delta)[t].liquidity_gross = 0
  BY ClearedIsEmpty
<1> HIDE DEF cleared
<1> QED  BY <1>1, <1>2 DEF EmptyTick

\* The liquidity of a set of positions follows that of each.
LEMMA AmountChange ==
    ASSUME NEW pos \in [Id -> PositionInfo], NEW new \in [Id -> PositionInfo], NEW S \in SUBSET Id,
           NEW id \in Id, NEW delta \in Int, \A i \in Id \ {id} : new[i] = pos[i],
           new[id].liquidity = pos[id].liquidity + delta
    PROVE  Amount(new, S) = Amount(pos, S) + (IF id \in S THEN delta ELSE 0)
<1> DEFINE f == [i \in Id |-> pos[i].liquidity]
           g == [i \in Id |-> new[i].liquidity]
<1>1. f \in [Id -> Int] /\ g \in [Id -> Int] /\ IsFiniteSet(Id)
  BY AmountType
<1>2. \A i \in Id \ {id} : f[i] = g[i]
  OBVIOUS
<1>3. g[id] - f[id] = delta
  BY DEF PositionInfo
<1> HIDE DEF f, g
<1>4. SumFunctionOnSet(g, S) = SumFunctionOnSet(f, S) + IF id \in S THEN g[id] - f[id] ELSE 0
  BY <1>1, <1>2, SumChange
<1> QED  BY <1>3, <1>4 DEF Amount, f, g

\* update_position keeps the ticks in step with the positions; a tick that it
\* clears has lost its last liquidity, gross and net.
LEMMA UpdateMatches ==
    ASSUME TypeOK, NEW id \in Id, NEW delta \in Int, NEW new \in [Id -> PositionInfo],
           UpdateOk(positions[id], delta), Matches(positions, ticks),
           \A i \in Id \ {id} : new[i] = positions[i],
           new[id].lower = positions[id].lower, new[id].upper = positions[id].upper,
           new[id].liquidity = positions[id].liquidity + delta
    PROVE  Matches(new, ticks_cleared(positions[id], delta))
<1> DEFINE p == positions[id]
<1>0. /\ positions \in [Id -> PositionInfo] /\ p \in PositionInfo
      /\ p.lower \in Tick /\ p.upper \in Tick
  BY DEF TypeOK, PositionInfo
<1>2. \A i \in Id : new[i].lower = positions[i].lower /\ new[i].upper = positions[i].upper
  OBVIOUS
<1>3. ASSUME NEW S \in SUBSET Id
      PROVE  Amount(new, S) = Amount(positions, S) + (IF id \in S THEN delta ELSE 0)
  BY <1>0, AmountChange
<1>4. ASSUME NEW t \in Tick
      PROVE  /\ Amount(new, Starting(new, t))
                  = Amount(positions, Starting(positions, t)) + (IF t = p.lower THEN delta ELSE 0)
             /\ Amount(new, Ending(new, t))
                  = Amount(positions, Ending(positions, t)) + (IF t = p.upper THEN delta ELSE 0)
  <2>1. /\ Starting(new, t) = Starting(positions, t) /\ Starting(positions, t) \in SUBSET Id
        /\ Ending(new, t) = Ending(positions, t) /\ Ending(positions, t) \in SUBSET Id
    BY <1>2 DEF Starting, Ending
  <2>2. (id \in Starting(positions, t) <=> t = p.lower) /\ (id \in Ending(positions, t) <=> t = p.upper)
    BY DEF Starting, Ending
  <2> QED  BY <1>3, <2>1, <2>2
<1> HIDE DEF p
<1>5. Matches(new, ticks_updated(p, delta))
  <2> SUFFICES ASSUME NEW t \in Tick
      PROVE /\ ticks_updated(p, delta)[t].liquidity_gross
                 = Amount(new, Starting(new, t)) + Amount(new, Ending(new, t))
            /\ ticks_updated(p, delta)[t].liquidity_net
                 = Amount(new, Starting(new, t)) - Amount(new, Ending(new, t))
    BY DEF Matches
  <2>1. /\ ticks[t].liquidity_gross = Amount(positions, Starting(positions, t))
                                      + Amount(positions, Ending(positions, t))
        /\ ticks[t].liquidity_net = Amount(positions, Starting(positions, t))
                                    - Amount(positions, Ending(positions, t))
    BY DEF Matches
  <2>2. Amount(positions, Starting(positions, t)) \in Int
        /\ Amount(positions, Ending(positions, t)) \in Int
    BY <1>0, AmountType DEF Starting, Ending
  <2>3. /\ ticks_updated(p, delta)[t].liquidity_gross
             = ticks[t].liquidity_gross + (IF t = p.lower THEN delta ELSE 0)
                                        + (IF t = p.upper THEN delta ELSE 0)
        /\ ticks_updated(p, delta)[t].liquidity_net
             = ticks[t].liquidity_net + (IF t = p.lower THEN delta ELSE 0)
                                      - (IF t = p.upper THEN delta ELSE 0)
    BY <1>0, UpdatedLiquidity
  <2> QED  BY <1>4, <2>1, <2>2, <2>3
<1>6. ASSUME NEW t \in Tick, delta < 0,
             \/ t = p.lower /\ flipped_lower(p, delta)
             \/ t = p.upper /\ flipped_upper(p, delta)
      PROVE  ticks_updated(p, delta)[t].liquidity_gross = 0
  BY <1>0, <1>6, ClearedIsEmpty DEF p
<1>7. ASSUME NEW t \in Tick
      PROVE  /\ ticks_cleared(p, delta)[t].liquidity_gross
                  = ticks_updated(p, delta)[t].liquidity_gross
             /\ ticks_cleared(p, delta)[t].liquidity_net
                  = ticks_updated(p, delta)[t].liquidity_net
  <2> DEFINE cleared == /\ delta < 0
                        /\ \/ t = p.lower /\ flipped_lower(p, delta)
                           \/ t = p.upper /\ flipped_upper(p, delta)
  <2>1. ticks_cleared(p, delta)[t] = IF cleared THEN EmptyTick ELSE ticks_updated(p, delta)[t]
    BY Zenon DEF ticks_cleared
  <2>2. cleared => /\ ticks_updated(p, delta)[t].liquidity_gross = 0
                   /\ ticks_updated(p, delta)[t].liquidity_net = 0
    BY <1>5, <1>6, NoGrossNoNet, Zenon
  <2> HIDE DEF cleared
  <2> QED  BY <2>1, <2>2 DEF EmptyTick
<1> QED  BY <1>5, <1>7 DEF Matches, p

-----------------------------------------------------------------------------
(* The ticks stay in step with the positions *)

\* What update_position does to the positions: one gains delta liquidity, and
\* no range moves.
LEMMA UpdateEffect ==
    ASSUME PoolInv, NEW id \in Id, NEW delta \in Int, UpdatePosition(id, delta)
    PROVE  /\ PoolInv' /\ UpdateOk(positions[id], delta) /\ id < next_position_id
           /\ \A i \in Id \ {id} : positions'[i] = positions[i]
           /\ positions'[id].lower = positions[id].lower
           /\ positions'[id].upper = positions[id].upper
           /\ positions'[id].liquidity = positions[id].liquidity + delta
<1> DEFINE p == positions[id]
           inside == get_fee_growth_inside(ticks_updated(p, delta), p.lower, p.upper)
<1>1. /\ id < next_position_id /\ ~swap.active
      /\ update_position_ok(id, delta) /\ update_position(id, delta)
  BY DEF UpdatePosition
<1>2. PoolInv'
  BY <1>1, UpdateKeeps
<1>3. UpdateOk(p, delta)
  BY <1>1 DEF update_position_ok, UpdateOk
<1>4. positions' = [positions EXCEPT ![id] = position_update(p, delta, inside)]
  BY <1>1 DEF update_position
<1>5. positions \in [Id -> PositionInfo] /\ p \in PositionInfo
  BY DEF PoolInv, TypeOK
<1> HIDE DEF inside
<1>6. /\ position_update(p, delta, inside).lower = p.lower
      /\ position_update(p, delta, inside).upper = p.upper
      /\ position_update(p, delta, inside).liquidity = p.liquidity + delta
  BY <1>5 DEF position_update, PositionInfo
<1> QED  BY <1>1, <1>2, <1>3, <1>4, <1>5, <1>6

\* An iteration of a swap moves no liquidity on or off a tick.
LEMMA StepKeepsLiquidity ==
    ASSUME PoolInv, swap.active, NEW t \in Tick, NEW step
    PROVE  /\ ticks_after(swap, step)[t].liquidity_gross = swap.ticks[t].liquidity_gross
           /\ ticks_after(swap, step)[t].liquidity_net = swap.ticks[t].liquidity_net
<1> DEFINE n == step_next_tick(swap)
<1>1. swap.ticks \in [Tick -> TickInfo] /\ n \in Tick
  BY StepTargetType DEF PoolInv, TypeOK, SwapInfo
<1>2. ASSUME NEW growth
      PROVE  /\ cross(swap.ticks[n], growth).liquidity_gross = swap.ticks[n].liquidity_gross
             /\ cross(swap.ticks[n], growth).liquidity_net = swap.ticks[n].liquidity_net
  BY <1>1 DEF cross, TickInfo
<1> HIDE DEF n
<1> QED  BY <1>1, <1>2 DEF ticks_after, n

\* What an iteration, the end and the failure of a swap do to its state.
LEMMA SwapEffect ==
    ASSUME PoolInv, SwapLoop
    PROVE  /\ UNCHANGED <<enabled, config, positions, tick_bitmap, next_position_id>>
           /\ swap.active
           /\ \/ /\ SwapStep
                 /\ UNCHANGED <<market, sqrt_price, ticks, reserve>>
                 /\ SwapStepResult(swap) \in Step /\ ~StepFails(swap, SwapStepResult(swap))
                 /\ swap' = AfterStep(swap, SwapStepResult(swap))
              \/ swap' = NoSwap /\ UNCHANGED <<market, sqrt_price, ticks, reserve>>
              \/ SwapCommit
<1>1. SwapStep => swap.active
  BY DEF SwapStep
<1> QED  BY <1>1, StepResultType DEF SwapLoop, SwapStep, SwapReverts, SwapCommit, SwapDiscard, market

\* A pool before init matches: no position has liquidity.
LEMMA TicksInit == Init => TicksInv
<1> SUFFICES ASSUME Init PROVE TicksInv
  OBVIOUS
<1>1. UnmintedEmpty
  BY DEF Init, UnmintedEmpty, EmptyPosition
<1>2. ~swap.active
  BY EmptyTypes DEF Init
<1>3. positions \in [Id -> PositionInfo]
  BY EmptyTypes DEF Init
<1>4. ASSUME NEW S \in SUBSET Id PROVE Amount(positions, S) = 0
  <2> DEFINE f == [id \in Id |-> positions[id].liquidity]
  <2>1. f \in [Id -> Int] /\ IsFiniteSet(Id)
    BY <1>3, AmountType
  <2>2. Support(f, S) = Support(f, {}) /\ {} \in SUBSET Id
    BY DEF Support, Init, EmptyPosition
  <2> HIDE DEF f
  <2>3. SumFunctionOnSet(f, S) = SumFunctionOnSet(f, {})
    BY <2>1, <2>2, SumSameSupport
  <2> QED  BY <2>3, SumEmpty DEF Amount, f
<1>5. \A t \in Tick : Amount(positions, Starting(positions, t)) = 0
                     /\ Amount(positions, Ending(positions, t)) = 0
  BY <1>4 DEF Starting, Ending
<1>6. \A t \in Tick : ticks[t].liquidity_gross = 0 /\ ticks[t].liquidity_net = 0
  BY DEF Init, EmptyTick
<1> QED  BY <1>1, <1>2, <1>5, <1>6 DEF TicksInv, Matches

\* Every step keeps the ticks in step with the positions.
LEMMA TicksNext == PoolInv /\ TicksInv /\ [Next]_vars => TicksInv'
<1> SUFFICES ASSUME PoolInv, TicksInv, [Next]_vars PROVE TicksInv'
  OBVIOUS
<1>0. /\ positions \in [Id -> PositionInfo] /\ positions' \in [Id -> PositionInfo]
      /\ next_position_id \in Nat /\ Id \subseteq Int
  BY PoolNext, PoolAssumption DEF PoolInv, TypeOK, Id
<1>1. CASE UNCHANGED vars \/ Admin
  <2>1. UNCHANGED <<positions, ticks, next_position_id, swap>>
    BY <1>1 DEF vars, Admin, InitPool, SetEnabled, SetSqrtPrice
  <2> QED  BY <2>1 DEF TicksInv, UnmintedEmpty
<1>2. CASE Mint
  <2>1. /\ ~swap.active /\ next_position_id' = next_position_id + 1
        /\ UNCHANGED <<ticks, swap>> /\ next_position_id \in Id
    BY <1>2 DEF Mint, CreatePosition, MintElsewhere
  <2>2. \A id \in Id : /\ positions'[id].liquidity = positions[id].liquidity
                       /\ id # next_position_id => positions'[id] = positions[id]
    <3>1. CASE positions' = positions
      BY <3>1
    <3>2. ASSUME NEW r \in Ranges, CreatePosition(r[1], r[2])
          PROVE  \A id \in Id : /\ positions'[id].liquidity = positions[id].liquidity
                                /\ id # next_position_id => positions'[id] = positions[id]
      <4> DEFINE q == [positions[next_position_id] EXCEPT !.lower = r[1], !.upper = r[2]]
      <4>1. positions' = [positions EXCEPT ![next_position_id] = q]
        BY <1>0, <2>1, <3>2 DEF CreatePosition, PositionInfo
      <4>2. q.liquidity = positions[next_position_id].liquidity
        BY <1>0, <2>1 DEF PositionInfo
      <4> HIDE DEF q
      <4> QED  BY <1>0, <2>1, <4>1, <4>2
    <3> QED  BY <1>2, <3>1, <3>2 DEF Mint, MintElsewhere
  <2>3. positions[next_position_id].liquidity = 0
    BY <1>0, <2>1 DEF TicksInv, UnmintedEmpty
  <2>4. UnmintedEmpty'
    BY <1>0, <2>1, <2>2 DEF TicksInv, UnmintedEmpty
  <2>5. Matches(positions', ticks)
    BY <1>0, <2>2, <2>3, MatchesSame DEF TicksInv
  <2> QED  BY <2>1, <2>4, <2>5 DEF TicksInv
<1>3. CASE Operate
  <2>1. ASSUME NEW id \in Id, NEW delta \in Int, UpdatePosition(id, delta) PROVE TicksInv'
    <3>1. /\ UpdateOk(positions[id], delta) /\ id < next_position_id
          /\ \A i \in Id \ {id} : positions'[i] = positions[i]
          /\ positions'[id].lower = positions[id].lower
          /\ positions'[id].upper = positions[id].upper
          /\ positions'[id].liquidity = positions[id].liquidity + delta
      BY <2>1, UpdateEffect
    <3>2. /\ ticks' = ticks_cleared(positions[id], delta) /\ ~swap.active
          /\ UNCHANGED <<next_position_id, swap>>
      BY <2>1 DEF UpdatePosition, update_position
    <3>3. Matches(positions', ticks_cleared(positions[id], delta))
      BY <1>0, <3>1, UpdateMatches DEF PoolInv, TicksInv
    <3>4. UnmintedEmpty'
      BY <1>0, <3>1, <3>2 DEF TicksInv, UnmintedEmpty
    <3> QED  BY <3>2, <3>3, <3>4 DEF TicksInv
  <2>2. ASSUME NEW id \in Id, Collect(id) PROVE TicksInv'
    <3>1. \A i \in Id : /\ positions'[i].liquidity = positions[i].liquidity
                        /\ positions'[i].lower = positions[i].lower
                        /\ positions'[i].upper = positions[i].upper
      BY <1>0, <2>2 DEF Collect, PositionInfo
    <3>2. ~swap.active /\ UNCHANGED <<ticks, next_position_id, swap>>
      BY <2>2 DEF Collect
    <3>3. Matches(positions', ticks)
      BY <1>0, <3>1, MatchesSame DEF TicksInv
    <3> QED  BY <3>1, <3>2, <3>3 DEF TicksInv, UnmintedEmpty
  <2>3. ASSUME NEW zero_for_one, NEW amount, NEW limit, SwapBegin(zero_for_one, amount, limit)
        PROVE  TicksInv'
    <3>1. swap'.ticks = ticks /\ UNCHANGED <<positions, ticks, next_position_id>>
      BY <2>3 DEF SwapBegin, swap_start
    <3> QED  BY <3>1 DEF TicksInv, UnmintedEmpty
  <2> QED  BY <1>3, <2>1, <2>2, <2>3, AdjustUpdates, PoolAssumption DEF Operate
<1>4. CASE SwapLoop
  <2>1. /\ UNCHANGED <<positions, next_position_id>> /\ swap.active
        /\ \/ /\ UNCHANGED ticks
              /\ swap' = AfterStep(swap, SwapStepResult(swap))
           \/ swap' = NoSwap /\ UNCHANGED ticks
           \/ SwapCommit
    BY <1>4, SwapEffect
  <2>2. UnmintedEmpty'
    BY <2>1 DEF TicksInv, UnmintedEmpty
  <2>3. CASE UNCHANGED ticks /\ swap' = AfterStep(swap, SwapStepResult(swap))
    <3>1. swap'.ticks = ticks_after(swap, SwapStepResult(swap))
      BY <2>3 DEF AfterStep, PoolInv, TypeOK, SwapInfo
    <3>2. \A t \in Tick : /\ swap'.ticks[t].liquidity_gross = swap.ticks[t].liquidity_gross
                          /\ swap'.ticks[t].liquidity_net = swap.ticks[t].liquidity_net
      BY <2>1, <3>1, StepKeepsLiquidity
    <3>3. Matches(positions, swap'.ticks)
      BY <2>1, <3>2 DEF TicksInv, Matches
    <3> QED  BY <2>1, <2>2, <2>3, <3>3 DEF TicksInv
  <2>4. CASE swap' = NoSwap /\ UNCHANGED ticks
    BY <2>1, <2>2, <2>4, EmptyTypes DEF TicksInv
  <2>5. CASE SwapCommit
    <3>1. swap' = NoSwap /\ ticks' = swap.ticks
      BY <2>5 DEF SwapCommit
    <3> QED  BY <2>1, <2>2, <3>1, EmptyTypes DEF TicksInv
  <2> QED  BY <2>1, <2>3, <2>4, <2>5
<1> QED  BY <1>1, <1>2, <1>3, <1>4 DEF Next

\* The ledger of the ticks is part of every state.
LEMMA TicksInvariant == Spec => [](PoolInv /\ TicksInv)
BY PoolInit, PoolNext, TicksInit, TicksNext, PTL DEF Spec

\* Whatever the callers and the admin do, and in the middle of a swap, each
\* tick's gross and net liquidity is the sum over the positions that start or
\* end there: update, cross and clear lose nothing, for any number of positions.
THEOREM TicksMatch == Spec => []TicksMatchPositions
<1>1. TicksInv => TicksMatchPositions
  <2> SUFFICES ASSUME TicksInv PROVE TicksMatchPositions
    OBVIOUS
  <2>1. Matches(positions, RunningTicks)
    BY DEF TicksInv, RunningTicks
  <2> QED  BY <2>1 DEF TicksMatchPositions, Matches, SumOf, LiquidityOf, Amount, Starting, Ending
<1> QED  BY <1>1, TicksInvariant, PTL

-----------------------------------------------------------------------------
(* The bitmap stays in step with the ticks *)

\* A pool whose price the admin set to 0 can be initialised again; that must
\* not change the spacing by which the bits of the bitmap are numbered.
SpacingIsFixed == 0 \in AdminPrices => \A a, b \in InitParams : a[3] = b[3]

\* A bit is set exactly for a tick with liquidity; of the negative ones flip
\* reaches only the first of a word.
Reach(i)      == i < 0 => i % WORD = 0
InUse(t, tks) == t \in Tick /\ tks[t].liquidity_gross # 0

BitsOf(bitmap, tks) ==
    \A i \in Int : i \in bitmap <=> InUse(i * tick_spacing, tks) /\ Reach(i)

\* The ticks of positions are multiples of the spacing.
OnGrid(t) == \E k \in Int : t = k * tick_spacing

BitmapInv ==
    /\ tick_spacing # 0 => \E a \in InitParams : tick_spacing = a[3]
    /\ (tick_spacing # 0 /\ sqrt_price = 0) => 0 \in AdminPrices
    /\ (swap.active /\ swap.price = 0) => 0 \in AdminPrices
    /\ \A id \in Id : OnGrid(positions[id].lower) /\ OnGrid(positions[id].upper)
    /\ BitsOf(tick_bitmap, ticks)

\* Dividing a multiple by its factor.
LEMMA DivOfMultiple ==
    ASSUME NEW k \in Int, NEW n \in Nat \ {0}
    PROVE  (k * n) \div n = k /\ (k * n) % n = 0
<1> DEFINE m == k * n
           q == m \div n
           r == m % n
<1>1. m \in Int
  OBVIOUS
<1>2. q \in Int /\ r \in 0 .. n - 1 /\ m = n * q + r
  <2> HIDE DEF m
  <2> QED  BY <1>1, DivMod
<1>3. k * n = n * q + r
  BY <1>2
<1> HIDE DEF m, q, r
<1>4. n * (k - q) = r
  BY <1>2, <1>3
<1>5. ASSUME NEW d \in Int, n * d = r PROVE d = 0
  <2>1. CASE d >= 1
    BY <1>2, <1>5, <2>1
  <2>2. CASE d <= -1
    BY <1>2, <1>5, <2>2
  <2> QED  BY <2>1, <2>2
<1>6. k - q = 0
  BY <1>2, <1>4, <1>5
<1>7. k = q /\ r = 0
  BY <1>2, <1>4, <1>6
<1> QED  BY <1>7 DEF m, q, r

\* flip toggles the bit of its tick, where it reaches it, and no other.
LEMMA FlipToggles ==
    ASSUME tick_spacing \in Nat \ {0}, NEW bitmap \in SUBSET Int, NEW k \in Int, NEW i \in Int
    PROVE  i \in flip(bitmap, k * tick_spacing) <=>
               IF i = k /\ Reach(i) THEN i \notin bitmap ELSE i \in bitmap
<1>1. (k * tick_spacing) \div tick_spacing = k
  BY DivOfMultiple
<1>2. flip(bitmap, k * tick_spacing)
        = IF k < 0 /\ k % WORD # 0 THEN bitmap ELSE SymDiff(bitmap, {k})
  BY <1>1 DEF flip
<1> QED  BY <1>2 DEF SymDiff, Reach

\* One tick's gross liquidity changes, and its bit is flipped when that crosses 0.
LEMMA ToggleBits ==
    ASSUME tick_spacing \in Nat \ {0}, NEW bitmap \in SUBSET Int, NEW old, NEW new,
           BitsOf(bitmap, old), NEW t \in Tick, OnGrid(t), NEW flipped \in BOOLEAN,
           \A u \in Tick \ {t} : new[u].liquidity_gross = old[u].liquidity_gross,
           flipped <=> ((new[t].liquidity_gross = 0) # (old[t].liquidity_gross = 0))
    PROVE  BitsOf(IF flipped THEN flip(bitmap, t) ELSE bitmap, new)
<1> DEFINE was == old[t].liquidity_gross # 0
           now == new[t].liquidity_gross # 0
           B   == IF flipped THEN flip(bitmap, t) ELSE bitmap
<1>0. flipped <=> ~(now <=> was)
  BY Zenon
<1>1. PICK k \in Int : t = k * tick_spacing
  BY DEF OnGrid
<1>2. \A i \in Int : i * tick_spacing = t <=> i = k
  <2>1. \A i \in Int : (i * tick_spacing) \div tick_spacing = i
    BY DivOfMultiple
  <2>2. t \div tick_spacing = k
    BY <1>1, <2>1
  <2> QED  BY <1>1, <2>1, <2>2
<1>3. ASSUME NEW i \in Int
      PROVE  i \in B <=> InUse(i * tick_spacing, new) /\ Reach(i)
  <2> DEFINE x == i * tick_spacing
  <2>1. i \in bitmap <=> InUse(x, old) /\ Reach(i)
    BY DEF BitsOf
  <2>2. i \in flip(bitmap, t) <=> IF i = k /\ Reach(i) THEN i \notin bitmap ELSE i \in bitmap
    BY <1>1, FlipToggles
  <2>3. x = t <=> i = k
    BY <1>2
  <2>4. i \in B <=> IF flipped THEN i \in flip(bitmap, t) ELSE i \in bitmap
    BY Zenon
  <2> HIDE DEF x, B
  <2>5. CASE i = k
    <3>1. (InUse(x, old) <=> was) /\ (InUse(x, new) <=> now)
      BY <2>3, <2>5 DEF InUse
    <3> HIDE DEF was, now
    <3> QED  BY <1>0, <2>1, <2>2, <2>4, <2>5, <3>1 DEF x
  <2>6. CASE i # k
    <3>1. InUse(x, new) <=> InUse(x, old)
      BY <2>3, <2>6 DEF InUse
    <3> QED  BY <2>1, <2>2, <2>4, <2>6, <3>1 DEF x
  <2> QED  BY <2>5, <2>6
<1> HIDE DEF B
<1>4. BitsOf(B, new)
  BY <1>3, Zenon DEF BitsOf
<1> QED  BY <1>4 DEF B

\* The ticks' gross liquidity is all that BitsOf reads.
LEMMA BitsSame ==
    ASSUME NEW bitmap, NEW old, NEW new, BitsOf(bitmap, old),
           \A t \in Tick : new[t].liquidity_gross = old[t].liquidity_gross
    PROVE  BitsOf(bitmap, new)
<1>1. \A t : InUse(t, new) <=> InUse(t, old)
  BY DEF InUse
<1> QED  BY <1>1, Zenon DEF BitsOf

\* A pool without a tick spacing changes no liquidity: its limit per tick is 0.
LEMMA NoSpacingNoDelta ==
    ASSUME PoolInv, NEW p \in PositionInfo, NEW delta \in Int, UpdateOk(p, delta), delta # 0
    PROVE  tick_spacing \in Nat \ {0}
<1> SUFFICES ASSUME tick_spacing = 0 PROVE FALSE
  BY DEF PoolInv, TypeOK
<1>1. tick_update_ok(ticks[p.lower], delta) /\ p.lower \in Tick
  BY DEF UpdateOk, PositionInfo
<1>2. ticks[p.lower].liquidity_gross = 0 /\ max_liquidity_per_tick = 0
  BY <1>1 DEF PoolInv, UninitialisedIsEmpty
<1> QED  BY <1>1, <1>2, Constants DEF tick_update_ok, add_delta_ok

\* update_position flips a bit for each tick that gains its first or loses its
\* last liquidity, also when both ends of a range are the same tick.
LEMMA UpdateBits ==
    ASSUME PoolInv, NEW p \in PositionInfo, NEW delta \in Int, UpdateOk(p, delta),
           OnGrid(p.lower), OnGrid(p.upper), BitsOf(tick_bitmap, ticks)
    PROVE  BitsOf(bitmap_flipped(p, delta), ticks_cleared(p, delta))
<1> DEFINE one == ticks_lower_updated(p, delta)
           two == ticks_updated(p, delta)
<1>0. TypeOK /\ p.lower \in Tick /\ p.upper \in Tick /\ tick_bitmap \in SUBSET Int
  BY DEF PoolInv, TypeOK, PositionInfo
<1>1. \A t \in Tick : ticks_cleared(p, delta)[t].liquidity_gross = two[t].liquidity_gross
  BY <1>0, ClearedGross
<1>2. CASE delta = 0
  <2>1. two = ticks /\ bitmap_flipped(p, delta) = tick_bitmap
    BY <1>2 DEF ticks_updated, bitmap_flipped, flipped_lower, flipped_upper
  <2> QED  BY <1>1, <2>1, BitsSame
<1>3. CASE delta # 0
  <2>1. tick_spacing \in Nat \ {0}
    BY <1>3, NoSpacingNoDelta
  <2>2. /\ one \in [Tick -> TickInfo] /\ two \in [Tick -> TickInfo]
        /\ ticks \in [Tick -> TickInfo]
    BY <1>0, TicksUpdatedType DEF TypeOK
  <2>3. ASSUME NEW t \in Tick
        PROVE  /\ one[t].liquidity_gross
                    = ticks[t].liquidity_gross + (IF t = p.lower THEN delta ELSE 0)
               /\ two[t].liquidity_gross
                    = one[t].liquidity_gross + (IF t = p.upper THEN delta ELSE 0)
               /\ one[t].liquidity_gross \in Nat /\ two[t].liquidity_gross \in Nat
               /\ ticks[t].liquidity_gross \in Nat
    <3>1. /\ one[t].liquidity_gross \in Nat /\ two[t].liquidity_gross \in Nat
          /\ ticks[t].liquidity_gross \in Nat
      BY <2>2 DEF TickInfo
    <3>2. /\ two[t].liquidity_gross
               = ticks[t].liquidity_gross + (IF t = p.lower THEN delta ELSE 0)
                                          + (IF t = p.upper THEN delta ELSE 0)
          /\ one[t].liquidity_gross
               = ticks[t].liquidity_gross + (IF t = p.lower THEN delta ELSE 0)
      BY <1>0, UpdatedLiquidity
    <3> HIDE DEF one, two
    <3> QED  BY <3>1, <3>2
  <2> DEFINE fl == flipped_lower(p, delta)
             fu == flipped_upper(p, delta)
             low == IF fl THEN flip(tick_bitmap, p.lower) ELSE tick_bitmap
  <2>4. fl \in BOOLEAN /\ fu \in BOOLEAN
    BY DEF flipped_lower, flipped_upper
  <2>5. /\ fl <=> ((ticks[p.lower].liquidity_gross + delta = 0)
                     # (ticks[p.lower].liquidity_gross = 0))
        /\ fu <=> ((one[p.upper].liquidity_gross + delta = 0)
                     # (one[p.upper].liquidity_gross = 0))
    BY <1>3, Zenon DEF flipped_lower, flipped_upper, tick_flipped
  <2>6. /\ fl <=> ((one[p.lower].liquidity_gross = 0) # (ticks[p.lower].liquidity_gross = 0))
        /\ \A u \in Tick \ {p.lower} : one[u].liquidity_gross = ticks[u].liquidity_gross
    <3> HIDE DEF one, two, fl, fu
    <3>1. one[p.lower].liquidity_gross = ticks[p.lower].liquidity_gross + delta
      BY <1>0, <2>3
    <3>2. \A u \in Tick \ {p.lower} : one[u].liquidity_gross = ticks[u].liquidity_gross
      BY <2>3
    <3> QED  BY <2>5, <3>1, <3>2, Zenon
  <2>7. /\ fu <=> ((two[p.upper].liquidity_gross = 0) # (one[p.upper].liquidity_gross = 0))
        /\ \A u \in Tick \ {p.upper} : two[u].liquidity_gross = one[u].liquidity_gross
    <3> HIDE DEF one, two, fl, fu
    <3>1. two[p.upper].liquidity_gross = one[p.upper].liquidity_gross + delta
      BY <1>0, <2>3
    <3>2. \A u \in Tick \ {p.upper} : two[u].liquidity_gross = one[u].liquidity_gross
      BY <2>3
    <3> QED  BY <2>5, <3>1, <3>2, Zenon
  <2>8. low \in SUBSET Int
    BY <1>0, <2>1, FlipType, Constants
  <2>9. bitmap_flipped(p, delta) = IF fu THEN flip(low, p.upper) ELSE low
    BY DEF bitmap_flipped
  <2>10. BitsOf(low, one)
    <3> HIDE DEF one, two, fl, fu
    <3> QED  BY <1>0, <2>1, <2>4, <2>6, ToggleBits
  <2>11. BitsOf(IF fu THEN flip(low, p.upper) ELSE low, two)
    <3> HIDE DEF one, two, fl, fu, low
    <3> QED  BY <1>0, <2>1, <2>4, <2>7, <2>8, <2>10, ToggleBits
  <2> HIDE DEF one, two, fl, fu, low
  <2> QED  BY <1>1, <2>9, <2>11, BitsSame
<1> QED  BY <1>2, <1>3

\* A pool before init has an empty bitmap and no position away from 0.
LEMMA BitmapInit == Init => BitmapInv
<1> SUFFICES ASSUME Init PROVE BitmapInv
  OBVIOUS
<1>1. ~swap.active
  BY EmptyTypes DEF Init
<1>2. \A id \in Id : OnGrid(positions[id].lower) /\ OnGrid(positions[id].upper)
  BY DEF Init, EmptyPosition, OnGrid
<1>3. \A t : ~InUse(t, ticks)
  BY DEF Init, InUse, EmptyTick
<1>4. BitsOf(tick_bitmap, ticks)
  BY <1>3 DEF Init, BitsOf
<1> QED  BY <1>1, <1>2, <1>4 DEF BitmapInv, Init

\* Every step keeps the bitmap in step with the ticks.
LEMMA BitmapNext ==
    ASSUME SpacingIsFixed, PoolInv, TicksInv, BitmapInv, [Next]_vars
    PROVE  BitmapInv'
<1>0. /\ PoolInv' /\ TicksInv'
      /\ positions \in [Id -> PositionInfo] /\ positions' \in [Id -> PositionInfo]
      /\ tick_spacing \in Nat
  BY PoolNext, TicksNext DEF PoolInv, TypeOK
<1>1. CASE UNCHANGED vars
  BY <1>1 DEF vars, config, BitmapInv, OnGrid, BitsOf
<1>2. CASE Admin
  <2>1. ASSUME NEW a \in InitParams, InitPool(a[1], a[2], a[3], a[4]) PROVE BitmapInv'
    <3>1. /\ ~swap.active /\ sqrt_price = 0 /\ tick_spacing' = a[3] /\ sqrt_price' = a[1]
          /\ MIN_SQRT_RATIO <= a[1]
          /\ UNCHANGED <<positions, ticks, tick_bitmap, swap>>
      BY <2>1 DEF InitPool
    <3>2. sqrt_price' # 0
      <4>1. a[1] \in Nat
        BY PoolAssumption
      <4> QED  BY <3>1, <4>1, Constants
    <3>3. CASE tick_spacing = a[3]
      BY <3>1, <3>2, <3>3 DEF BitmapInv, OnGrid, BitsOf
    <3>4. CASE tick_spacing # a[3]
      <4>1. tick_spacing = 0
        BY <3>1, <3>4 DEF BitmapInv, SpacingIsFixed
      <4>2. \A id \in Id : positions[id].lower = 0 /\ positions[id].upper = 0
        BY <4>1 DEF BitmapInv, OnGrid
      <4>3. \A id \in Id : OnGrid(positions[id].lower)' /\ OnGrid(positions[id].upper)'
        <5>1. a[3] \in Int
          BY PoolAssumption
        <5>2. 0 = 0 * a[3]
          BY <5>1
        <5> QED  BY <3>1, <4>2, <5>2 DEF OnGrid
      <4>4. \A t : ~InUse(t, ticks)
        BY <4>1 DEF PoolInv, UninitialisedIsEmpty, InUse
      <4>5. tick_bitmap = {}
        BY <4>4 DEF BitmapInv, BitsOf, PoolInv, TypeOK
      <4>6. BitsOf(tick_bitmap, ticks)'
        BY <3>1, <4>4, <4>5 DEF BitsOf
      <4> QED  BY <3>1, <3>2, <4>3, <4>6 DEF BitmapInv
    <3> QED  BY <3>3, <3>4
  <2>2. ASSUME NEW e, SetEnabled(e) PROVE BitmapInv'
    BY <2>2 DEF SetEnabled, config, BitmapInv, OnGrid, BitsOf
  <2>3. ASSUME NEW price \in AdminPrices, SetSqrtPrice(price) PROVE BitmapInv'
    BY <2>3 DEF SetSqrtPrice, config, BitmapInv, OnGrid, BitsOf
  <2> QED  BY <1>2, <2>1, <2>2, <2>3 DEF Admin
<1>3. CASE Mint
  <2>1. UNCHANGED <<tick_spacing, sqrt_price, ticks, tick_bitmap, swap>>
    BY <1>3 DEF Mint, CreatePosition, MintElsewhere, config
  <2>2. ASSUME NEW r \in Ranges, CreatePosition(r[1], r[2]), NEW id \in Id
        PROVE  OnGrid(positions'[id].lower) /\ OnGrid(positions'[id].upper)
    <3>1. /\ valid_tick(r[1]) /\ valid_tick(r[2]) /\ tick_spacing \in Nat \ {0}
          /\ r[1] \in Int /\ r[2] \in Int
      BY <1>0, <2>2, PoolAssumption DEF CreatePosition
    <3>2. ASSUME NEW t \in Int, valid_tick(t) PROVE OnGrid(t)
      <4>1. /\ t % tick_spacing = 0 /\ t \div tick_spacing \in Int
            /\ t = tick_spacing * (t \div tick_spacing) + (t % tick_spacing)
        BY <3>1, <3>2, DivMod DEF valid_tick
      <4>2. t = (t \div tick_spacing) * tick_spacing
        <5> DEFINE q == t \div tick_spacing
        <5>1. q \in Int /\ t = tick_spacing * q + 0
          BY <4>1
        <5> HIDE DEF q
        <5>2. t = q * tick_spacing
          BY <3>1, <5>1
        <5> QED  BY <5>2 DEF q
      <4> QED  BY <4>1, <4>2 DEF OnGrid
    <3>3. /\ positions'[id].lower \in {positions[id].lower, r[1]}
          /\ positions'[id].upper \in {positions[id].upper, r[2]}
      BY <1>0, <2>2 DEF CreatePosition, PositionInfo
    <3>4. OnGrid(r[1]) /\ OnGrid(r[2])
      BY <3>1, <3>2
    <3> QED  BY <3>3, <3>4 DEF BitmapInv
  <2>3. \A id \in Id : OnGrid(positions'[id].lower) /\ OnGrid(positions'[id].upper)
    BY <1>3, <2>2 DEF Mint, MintElsewhere, BitmapInv
  <2> QED  BY <2>1, <2>3 DEF BitmapInv, OnGrid, BitsOf
<1>4. CASE Operate
  <2>1. ASSUME NEW id \in Id, NEW delta \in Int, UpdatePosition(id, delta) PROVE BitmapInv'
    <3> DEFINE p == positions[id]
    <3>1. /\ UpdateOk(p, delta)
          /\ \A i \in Id : /\ positions'[i].lower = positions[i].lower
                            /\ positions'[i].upper = positions[i].upper
      BY <2>1, UpdateEffect
    <3>2. /\ ticks' = ticks_cleared(p, delta) /\ tick_bitmap' = bitmap_flipped(p, delta)
          /\ UNCHANGED <<tick_spacing, sqrt_price, swap>>
      BY <2>1 DEF UpdatePosition, update_position, config
    <3>3. p \in PositionInfo /\ OnGrid(p.lower) /\ OnGrid(p.upper)
      BY <1>0 DEF BitmapInv
    <3> HIDE DEF p
    <3>4. BitsOf(tick_bitmap', ticks')
      BY <3>1, <3>2, <3>3, UpdateBits DEF BitmapInv
    <3> QED  BY <3>1, <3>2, <3>4 DEF BitmapInv, OnGrid, BitsOf
  <2>2. ASSUME NEW id \in Id, Collect(id) PROVE BitmapInv'
    <3>1. \A i \in Id : /\ positions'[i].lower = positions[i].lower
                        /\ positions'[i].upper = positions[i].upper
      BY <1>0, <2>2 DEF Collect, PositionInfo
    <3>2. UNCHANGED <<tick_spacing, sqrt_price, ticks, tick_bitmap, swap>>
      BY <2>2 DEF Collect, config
    <3> QED  BY <3>1, <3>2 DEF BitmapInv, OnGrid, BitsOf
  <2>3. ASSUME NEW zero_for_one, NEW amount, NEW limit, SwapBegin(zero_for_one, amount, limit)
        PROVE  BitmapInv'
    <3>1. swap'.price = sqrt_price /\ tick_spacing # 0
          /\ UNCHANGED <<positions, tick_spacing, sqrt_price, ticks, tick_bitmap>>
      BY <2>3 DEF SwapBegin, swap_start, swap_start_ok, config
    <3> QED  BY <3>1 DEF BitmapInv, OnGrid, BitsOf
  <2> QED  BY <1>4, <2>1, <2>2, <2>3, AdjustUpdates, PoolAssumption DEF Operate
<1>5. CASE SwapLoop
  <2>1. /\ UNCHANGED <<positions, tick_spacing, tick_bitmap>> /\ swap.active
        /\ \/ /\ UNCHANGED <<sqrt_price, ticks>> /\ ~StepFails(swap, SwapStepResult(swap))
              /\ swap' = AfterStep(swap, SwapStepResult(swap))
           \/ swap' = NoSwap /\ UNCHANGED <<sqrt_price, ticks>>
           \/ SwapCommit
    BY <1>5, SwapEffect DEF config
  <2>2. CASE /\ UNCHANGED <<sqrt_price, ticks>> /\ ~StepFails(swap, SwapStepResult(swap))
             /\ swap' = AfterStep(swap, SwapStepResult(swap))
    <3>1. swap'.price # 0
      BY <2>2 DEF AfterStep, StepFails, ErrPrice, PoolInv, TypeOK, SwapInfo
    <3> QED  BY <2>1, <2>2, <3>1 DEF BitmapInv, OnGrid, BitsOf
  <2>3. CASE swap' = NoSwap /\ UNCHANGED <<sqrt_price, ticks>>
    BY <2>1, <2>3, EmptyTypes DEF BitmapInv, OnGrid, BitsOf
  <2>4. CASE SwapCommit
    <3>1. swap' = NoSwap /\ ticks' = swap.ticks /\ sqrt_price' = swap.price
      BY <2>4 DEF SwapCommit
    <3>2. \A t \in Tick : ticks'[t].liquidity_gross = ticks[t].liquidity_gross
      BY <2>1, <3>1 DEF TicksInv, Matches
    <3>3. BitsOf(tick_bitmap, ticks')
      BY <3>2, BitsSame DEF BitmapInv
    <3> QED  BY <2>1, <3>1, <3>3, EmptyTypes DEF BitmapInv, OnGrid, BitsOf
  <2> QED  BY <2>1, <2>2, <2>3, <2>4
<1> QED  BY <1>1, <1>2, <1>3, <1>4, <1>5 DEF Next

\* As long as no second init changes the spacing, the bitmap has a bit for every
\* tick from 0 upwards that carries liquidity and for no other, so that no swap
\* passes a tick without crossing it.
THEOREM BitmapMatches == ASSUME SpacingIsFixed PROVE Spec => []BitmapMatchesTicks
<1>1. PoolInv /\ TicksInv /\ BitmapInv /\ [Next]_vars => BitmapInv'
  BY BitmapNext
<1>2. PoolInv /\ BitmapInv => BitmapMatchesTicks
  <2> SUFFICES ASSUME PoolInv, BitmapInv, NEW t \in Tick, tick_spacing # 0, t >= 0,
                      t % tick_spacing = 0
               PROVE  (t \div tick_spacing) \in tick_bitmap <=> ticks[t].liquidity_gross # 0
    BY DEF BitmapMatchesTicks
  <2> DEFINE i == t \div tick_spacing
  <2>1. tick_spacing \in Nat \ {0} /\ t \in Nat
    BY Constants DEF PoolInv, TypeOK
  <2>2. i \in Nat /\ t = tick_spacing * i + 0
    <3>1. i \in Int /\ t = tick_spacing * i + (t % tick_spacing)
      BY <2>1, DivMod
    <3>2. i \in Nat
      BY <2>1, DivType
    <3> QED  BY <3>1, <3>2
  <2> HIDE DEF i
  <2>3. t = i * tick_spacing
    BY <2>1, <2>2
  <2>4. i \in tick_bitmap <=> InUse(t, ticks) /\ Reach(i)
    BY <2>2, <2>3 DEF BitmapInv, BitsOf
  <2>5. Reach(i)
    BY <2>2 DEF Reach
  <2> QED  BY <2>4, <2>5 DEF InUse, i
<1> QED  BY <1>1, <1>2, BitmapInit, TicksInvariant, PTL DEF Spec

-----------------------------------------------------------------------------
(* The liquidity of the pool is that of the positions around the price.  The *)
(* bitmap does not reach every negative tick, see flip, and create_position  *)
(* accepts a range whose ends are swapped: the result is about ranges from 0 *)
(* upwards whose ends are in order.                                          *)

RangesCounted == \A r \in Ranges : 0 <= r[1] /\ r[1] <= r[2]

InRange(pos, t) == {id \in Id : in_range(pos[id], t)}

LiquidityInv ==
    /\ \A id \in Id : 0 <= positions[id].lower /\ positions[id].lower <= positions[id].upper
    /\ tick_spacing = 0 => \A id \in Id : positions[id].liquidity = 0
    /\ liquidity = Amount(positions, InRange(positions, cur_tick))
    /\ swap.active => swap.liquidity = Amount(positions, InRange(positions, swap.tick))

\* Sums over two sets of positions are equal if they differ in positions
\* without liquidity only.
LEMMA AmountSame ==
    ASSUME NEW pos \in [Id -> PositionInfo], NEW new \in [Id -> PositionInfo],
           NEW S \in SUBSET Id, NEW T \in SUBSET Id,
           \A id \in Id : new[id].liquidity = pos[id].liquidity,
           \A id \in Id : pos[id].liquidity # 0 => (id \in S <=> id \in T)
    PROVE  Amount(pos, S) = Amount(new, T)
<1> DEFINE f == [id \in Id |-> pos[id].liquidity]
<1>1. f = [id \in Id |-> new[id].liquidity]
  OBVIOUS
<1>2. f \in [Id -> Int] /\ IsFiniteSet(Id)
  BY AmountType
<1>3. Support(f, S) = Support(f, T)
  BY DEF Support
<1> HIDE DEF f
<1>4. SumFunctionOnSet(f, S) = SumFunctionOnSet(f, T)
  BY <1>2, <1>3, SumSameSupport
<1> QED  BY <1>1, <1>4 DEF f, Amount

\* Positions without liquidity add up to nothing.
LEMMA AmountZero ==
    ASSUME NEW pos \in [Id -> PositionInfo], NEW S \in SUBSET Id,
           \A id \in S : pos[id].liquidity = 0
    PROVE  Amount(pos, S) = 0
<1>1. {} \in SUBSET Id /\ \A id \in Id : pos[id].liquidity # 0 => (id \in S <=> id \in {})
  OBVIOUS
<1>2. Amount(pos, S) = Amount(pos, {})
  BY <1>1, AmountSame
<1> QED  BY <1>2, SumEmpty DEF Amount

\* A position is part of the sum.
LEMMA AmountMember ==
    ASSUME NEW pos \in [Id -> PositionInfo], NEW S \in SUBSET Id, NEW id \in S
    PROVE  pos[id].liquidity <= Amount(pos, S)
<1> DEFINE f == [i \in Id |-> pos[i].liquidity]
<1>1. f \in [Id -> Int] /\ IsFiniteSet(Id) /\ f[id] \in Nat /\ S \ {id} \in SUBSET Id
      /\ f[id] = pos[id].liquidity
  BY AmountType DEF PositionInfo
<1>2. Amount(pos, S \ {id}) \in Nat
  BY <1>1, AmountType
<1> HIDE DEF f
<1>3. SumFunctionOnSet(f, S) = f[id] + SumFunctionOnSet(f, S \ {id})
  BY <1>1, SumRemove
<1>4. Amount(pos, S) = f[id] + Amount(pos, S \ {id})
  BY <1>3 DEF Amount, f
<1> QED  BY <1>1, <1>2, <1>4

\* The ticks in use are those at which a position with liquidity starts or ends.
LEMMA UsedTicks ==
    ASSUME NEW pos \in [Id -> PositionInfo], NEW tks, Matches(pos, tks), NEW t \in Tick
    PROVE  tks[t].liquidity_gross # 0 <=>
               \E id \in Id : pos[id].liquidity # 0 /\ (pos[id].lower = t \/ pos[id].upper = t)
<1> DEFINE s == Amount(pos, Starting(pos, t))
           e == Amount(pos, Ending(pos, t))
<1>1. /\ Starting(pos, t) \in SUBSET Id /\ Ending(pos, t) \in SUBSET Id
  BY DEF Starting, Ending
<1>2. s \in Nat /\ e \in Nat /\ tks[t].liquidity_gross = s + e
  BY <1>1, AmountType DEF Matches
<1>3. ASSUME NEW S \in SUBSET Id, NEW id \in S, pos[id].liquidity # 0
      PROVE  Amount(pos, S) # 0
  <2>1. id \in Id /\ pos[id].liquidity \in Nat
    BY DEF PositionInfo
  <2>2. pos[id].liquidity <= Amount(pos, S) /\ Amount(pos, S) \in Nat
    BY AmountMember, AmountType
  <2> QED  BY <1>3, <2>1, <2>2
<1>4. ASSUME NEW id \in Id, pos[id].liquidity # 0, pos[id].lower = t \/ pos[id].upper = t
      PROVE  tks[t].liquidity_gross # 0
  <2>1. id \in Starting(pos, t) => s # 0
    BY <1>1, <1>3, <1>4
  <2>2. id \in Ending(pos, t) => e # 0
    BY <1>1, <1>3, <1>4
  <2>3. id \in Starting(pos, t) \/ id \in Ending(pos, t)
    BY <1>4 DEF Starting, Ending
  <2> HIDE DEF s, e
  <2> QED  BY <1>2, <2>1, <2>2, <2>3
<1>5. ASSUME \A id \in Id : pos[id].liquidity # 0 => pos[id].lower # t /\ pos[id].upper # t
      PROVE  tks[t].liquidity_gross = 0
  <2>1. s = 0 /\ e = 0
    BY <1>1, <1>5, AmountZero DEF Starting, Ending
  <2> QED  BY <1>2, <2>1
<1> QED  BY <1>4, <1>5

\* Moving over ticks that are not in use changes nothing.
LEMMA RangeSame ==
    ASSUME NEW pos \in [Id -> PositionInfo], NEW tks, Matches(pos, tks),
           NEW a \in Int, NEW b \in Int, a <= b,
           \A x \in Tick : (a < x /\ x <= b) => tks[x].liquidity_gross = 0
    PROVE  Amount(pos, InRange(pos, a)) = Amount(pos, InRange(pos, b))
<1>1. InRange(pos, a) \in SUBSET Id /\ InRange(pos, b) \in SUBSET Id
  BY DEF InRange
<1>2. ASSUME NEW id \in Id, pos[id].liquidity # 0
      PROVE  id \in InRange(pos, a) <=> id \in InRange(pos, b)
  <2>1. pos[id].lower \in Tick /\ pos[id].upper \in Tick /\ pos[id].lower \in Int /\ pos[id].upper \in Int
    BY Constants DEF PositionInfo
  <2>2. tks[pos[id].lower].liquidity_gross # 0 /\ tks[pos[id].upper].liquidity_gross # 0
    BY <1>2, <2>1, UsedTicks
  <2>3. ~(a < pos[id].lower /\ pos[id].lower <= b) /\ ~(a < pos[id].upper /\ pos[id].upper <= b)
    BY <2>1, <2>2
  <2> QED  BY <2>1, <2>3 DEF InRange, in_range
<1> QED  BY <1>1, <1>2, AmountSame

\* Moving up to the next tick in use adds its net liquidity.
LEMMA RangeShift ==
    ASSUME NEW pos \in [Id -> PositionInfo], NEW tks, Matches(pos, tks),
           \A id \in Id : pos[id].lower <= pos[id].upper,
           NEW a \in Int, NEW n \in Tick, a < n,
           \A x \in Tick : (a < x /\ x < n) => tks[x].liquidity_gross = 0
    PROVE  Amount(pos, InRange(pos, n)) = Amount(pos, InRange(pos, a)) + tks[n].liquidity_net
<1> DEFINE f == [id \in Id |-> pos[id].liquidity]
           A == InRange(pos, a)
           N == InRange(pos, n)
           S == Starting(pos, n)
           E == Ending(pos, n)
<1>0. n \in Int /\ f \in [Id -> Int] /\ IsFiniteSet(Id)
  BY AmountType, Constants
<1>1. /\ A \in SUBSET Id /\ N \in SUBSET Id /\ S \in SUBSET Id /\ E \in SUBSET Id
      /\ A \cup S \in SUBSET Id /\ N \cup E \in SUBSET Id
  BY DEF InRange, Starting, Ending
<1>2. ASSUME NEW id \in Id
      PROVE  pos[id].lower \in Tick /\ pos[id].upper \in Tick /\ pos[id].lower \in Int /\ pos[id].upper \in Int
  BY Constants DEF PositionInfo
<1>3. A \cap S = {} /\ N \cap E = {}
  BY <1>0, <1>2 DEF InRange, in_range, Starting, Ending
<1>4. ASSUME NEW id \in Id, pos[id].liquidity # 0
      PROVE  id \in A \cup S <=> id \in N \cup E
  <2>1. tks[pos[id].lower].liquidity_gross # 0 /\ tks[pos[id].upper].liquidity_gross # 0
    BY <1>2, <1>4, UsedTicks
  <2>2. ~(a < pos[id].lower /\ pos[id].lower < n) /\ ~(a < pos[id].upper /\ pos[id].upper < n)
    BY <1>2, <2>1
  <2> QED  BY <1>0, <1>2, <2>2 DEF InRange, in_range, Starting, Ending
<1>5. Amount(pos, A \cup S) = Amount(pos, N \cup E)
  <2> HIDE DEF A, S, N, E
  <2> QED  BY <1>1, <1>4, AmountSame
<1>6. /\ Amount(pos, A \cup S) = Amount(pos, A) + Amount(pos, S)
      /\ Amount(pos, N \cup E) = Amount(pos, N) + Amount(pos, E)
  <2> HIDE DEF f, A, S, N, E
  <2>1. /\ SumFunctionOnSet(f, A \cup S) = SumFunctionOnSet(f, A) + SumFunctionOnSet(f, S)
        /\ SumFunctionOnSet(f, N \cup E) = SumFunctionOnSet(f, N) + SumFunctionOnSet(f, E)
    BY <1>0, <1>1, <1>3, SumUnion
  <2> QED  BY <2>1 DEF Amount, f
<1>7. /\ Amount(pos, A) \in Int /\ Amount(pos, S) \in Int
      /\ Amount(pos, N) \in Int /\ Amount(pos, E) \in Int
  <2> HIDE DEF A, S, N, E
  <2> QED  BY <1>1, AmountType
<1>8. tks[n].liquidity_net = Amount(pos, S) - Amount(pos, E)
  BY DEF Matches
<1> HIDE DEF A, S, N, E
<1>9. Amount(pos, N) = Amount(pos, A) + tks[n].liquidity_net
  <2> DEFINE x == Amount(pos, A)
             y == Amount(pos, S)
             z == Amount(pos, E)
             w == Amount(pos, N)
             k == tks[n].liquidity_net
  <2>1. x \in Int /\ y \in Int /\ z \in Int /\ w \in Int /\ x + y = w + z /\ k = y - z
    BY <1>5, <1>6, <1>7, <1>8
  <2> HIDE DEF x, y, z, w, k
  <2>2. w = x + k
    BY <2>1
  <2> QED  BY <2>2 DEF x, w, k
<1> QED  BY <1>9 DEF A, N

\* A tick in use is on the bitmap.
LEMMA UsedOnBitmap ==
    ASSUME PoolInv, TicksInv, BitmapInv, LiquidityInv, NEW t \in Tick, ticks[t].liquidity_gross # 0
    PROVE  t >= 0 /\ \E i \in tick_bitmap : i \in Int /\ t = i * tick_spacing
<1>1. positions \in [Id -> PositionInfo] /\ t \in Int /\ tick_spacing \in Nat
  BY Constants DEF PoolInv, TypeOK
<1>2. PICK id \in Id : positions[id].liquidity # 0 /\ (positions[id].lower = t \/ positions[id].upper = t)
  BY <1>1, UsedTicks DEF TicksInv
<1>3. t >= 0
  <2>1. positions[id].lower \in Int /\ positions[id].upper \in Int
    BY <1>1, Constants DEF PositionInfo
  <2> QED  BY <1>1, <1>2, <2>1 DEF LiquidityInv
<1>4. PICK i \in Int : t = i * tick_spacing
  BY <1>2 DEF BitmapInv, OnGrid
<1>5. Reach(i)
  <2> SUFFICES ASSUME i < 0 PROVE FALSE
    BY DEF Reach
  <2>1. tick_spacing # 0
    BY <1>2 DEF LiquidityInv
  <2>2. i + 1 <= 0 /\ 0 * tick_spacing = 0 /\ (i + 1) * tick_spacing = i * tick_spacing + tick_spacing
    BY <1>1, <1>4
  <2>3. (i + 1) * tick_spacing <= 0 * tick_spacing
    BY <1>1, <2>2, MulOrder
  <2>4. t + tick_spacing <= 0
    BY <1>4, <2>2, <2>3
  <2> QED  BY <1>1, <1>3, <2>1, <2>4
<1>6. i \in tick_bitmap
  BY <1>4, <1>5 DEF BitmapInv, BitsOf, InUse
<1> QED  BY <1>3, <1>4, <1>6

\* The search of an iteration passes no tick in use, and a tick it reports as
\* not initialised is not in use.
LEMMA NothingPassed ==
    ASSUME PoolInv, LimitsOk, TicksInv, BitmapInv, LiquidityInv, swap.active
    PROVE  LET n == step_next_tick(swap)
           IN  /\ swap.zero_for_one =>
                     \A x \in Tick : (n < x /\ x <= swap.tick) => ticks[x].liquidity_gross = 0
               /\ ~swap.zero_for_one =>
                     \A x \in Tick : (swap.tick < x /\ x < n) => ticks[x].liquidity_gross = 0
               /\ ~FoundTick(swap).initialised => ticks[n].liquidity_gross = 0
<1> DEFINE n == step_next_tick(swap)
           t == swap.tick
           q == t \div tick_spacing
           f == FoundTick(swap).tick
<1>1. /\ t \in Int /\ swap.zero_for_one \in BOOLEAN /\ tick_spacing \in Nat \ {0} /\ tick_bitmap \subseteq Int
      /\ MIN_TICK <= t /\ t < MAX_TICK /\ MIN_TICK \in Int /\ MAX_TICK \in Int /\ MIN_TICK < 0
  <2>1. MIN_TICK \in Int /\ MAX_TICK \in Int /\ MIN_TICK < 0
    BY Constants DEF MIN_TICK
  <2> QED  BY <2>1 DEF PoolInv, TypeOK, RunningOk, SwapInfo, LimitsOk, InInterval
<1>2. n \in Tick /\ n \in Int /\ n = Lo(Hi(f, MIN_TICK), MAX_TICK)
  BY StepTargetType, Constants DEF step_next_tick
<1>3. PICK m \in Int : /\ f = m * tick_spacing
                       /\ FoundTick(swap).initialised <=> m \in tick_bitmap
                       /\ swap.zero_for_one => NextBelow(tick_bitmap, q, m)
                       /\ ~swap.zero_for_one => NextAbove(tick_bitmap, q, m)
  BY NextTickOfSwap
<1>4. f \in Int /\ q \in Int
  BY <1>1, <1>3
<1>5. ASSUME NEW x \in Tick, ticks[x].liquidity_gross # 0
      PROVE  /\ x >= 0 /\ x \in Int
             /\ swap.zero_for_one => (x <= f \/ t < x)
             /\ ~swap.zero_for_one => (x <= t \/ f <= x)
             /\ x = f => m \in tick_bitmap
  <2>1. PICK i \in tick_bitmap : i \in Int /\ x = i * tick_spacing
    BY <1>5, UsedOnBitmap
  <2>2. x >= 0 /\ x \in Int
    BY <1>5, UsedOnBitmap, Constants
  <2>3. i <= q <=> x <= t
    <3> HIDE DEF t
    <3>1. i <= q <=> i * tick_spacing <= t
      BY <1>1, <2>1, FloorAtLeast
    <3> QED  BY <2>1, <3>1
  <2>4. i <= m => x <= f
    BY <1>1, <1>3, <2>1, MulOrder
  <2>5. m <= i => f <= x
    BY <1>1, <1>3, <2>1, MulOrder
  <2>6. x = f => i = m
    <3> SUFFICES ASSUME x = f, i # m PROVE FALSE
      OBVIOUS
    <3>1. i + 1 <= m \/ m + 1 <= i
      BY <2>1
    <3>2. /\ (i + 1) * tick_spacing = i * tick_spacing + tick_spacing
          /\ (m + 1) * tick_spacing = m * tick_spacing + tick_spacing
      BY <1>1, <2>1
    <3>3. i + 1 <= m => (i + 1) * tick_spacing <= m * tick_spacing
      BY <1>1, <2>1, MulOrder
    <3>4. m + 1 <= i => (m + 1) * tick_spacing <= i * tick_spacing
      BY <1>1, <2>1, MulOrder
    <3>5. (i + 1) * tick_spacing = f + tick_spacing /\ (m + 1) * tick_spacing = f + tick_spacing
          /\ i * tick_spacing = f /\ m * tick_spacing = f
      BY <1>3, <2>1, <3>2
    <3> HIDE DEF f
    <3> QED  BY <1>1, <1>4, <3>1, <3>3, <3>4, <3>5
  <2> HIDE DEF q, f, t
  <2>7. swap.zero_for_one => (x <= f \/ t < x)
    BY <1>1, <1>3, <1>4, <2>1, <2>2, <2>3, <2>4 DEF NextBelow
  <2>8. ~swap.zero_for_one => (x <= t \/ f <= x)
    BY <1>1, <1>3, <1>4, <2>1, <2>2, <2>3, <2>5 DEF NextAbove
  <2> QED  BY <2>1, <2>2, <2>6, <2>7, <2>8
<1>6. /\ swap.zero_for_one => f <= t
      /\ ~swap.zero_for_one => t < f
  <2>1. m <= q <=> f <= t
    <3> HIDE DEF t
    <3>1. m <= q <=> m * tick_spacing <= t
      BY <1>1, FloorAtLeast
    <3> QED  BY <1>3, <3>1
  <2> HIDE DEF q, f, t
  <2> QED  BY <1>1, <1>3, <1>4, <2>1 DEF NextBelow, NextAbove
<1> HIDE DEF q, f, t, n
<1>7. /\ swap.zero_for_one => n = f \/ (f < MIN_TICK /\ n = MIN_TICK)
      /\ ~swap.zero_for_one => n = f \/ (MAX_TICK < f /\ n = MAX_TICK)
  BY <1>1, <1>2, <1>4, <1>6 DEF Lo, Hi
<1>8. ASSUME NEW x \in Tick, swap.zero_for_one, n < x, x <= t PROVE ticks[x].liquidity_gross = 0
  BY <1>1, <1>2, <1>4, <1>5, <1>7, <1>8
<1>9. ASSUME NEW x \in Tick, ~swap.zero_for_one, t < x, x < n PROVE ticks[x].liquidity_gross = 0
  BY <1>1, <1>2, <1>4, <1>5, <1>7, <1>9
<1>10. ASSUME m \notin tick_bitmap PROVE ticks[n].liquidity_gross = 0
  <2> SUFFICES ASSUME ticks[n].liquidity_gross # 0 PROVE FALSE
    OBVIOUS
  <2>1. /\ n >= 0 /\ n # f
        /\ ~swap.zero_for_one => (n <= t \/ f <= n)
    BY <1>2, <1>5, <1>10
  <2> QED  BY <1>1, <1>2, <1>4, <1>7, <2>1
<1> QED  BY <1>3, <1>8, <1>9, <1>10 DEF n, t

\* Where an iteration stops: at the tick it aimed at, or between it and the tick
\* it came from.
LEMMA StepPath ==
    ASSUME PoolInv, PriceInv, swap.active, SwapContinues,
           NEW step, step = SwapStepResult(swap), ~StepFails(swap, step)
    PROVE  LET n == step_next_tick(swap)
               t == swap.tick
               u == tick_after(swap, step)
           IN  /\ n \in Tick /\ n \in Int /\ t \in Int /\ u \in Int
               /\ IF swap.zero_for_one
                  THEN n <= t /\ IF ReachedTick(swap, step) THEN u = n - 1 ELSE n <= u /\ u <= t
                  ELSE t < n /\ IF ReachedTick(swap, step) THEN u = n ELSE t <= u /\ u < n
<1> DEFINE n == step_next_tick(swap)
           t == swap.tick
           u == tick_after(swap, step)
           r == step.price
<1>1. LimitsOk /\ StoredPriceOk /\ t \in Int /\ swap.zero_for_one \in BOOLEAN
  BY DEF PriceInv, PoolInv, TypeOK, SwapInfo
<1>2. n \in Tick
  BY StepTargetType
<1>3. n \in Int /\ SqrtRatio[n] \in Int /\ step_next_price(swap) = SqrtRatio[n]
  <2>1. step_next_price(swap) = SqrtRatio[n]
    BY DEF step_next_price
  <2> HIDE DEF n
  <2> QED  BY <1>2, <2>1, Constants
<1>4. /\ InInterval(r, u)
      /\ swap.zero_for_one => u <= t
      /\ ~swap.zero_for_one => t <= u
  BY <1>1, StepTick
<1>5. u \in Int /\ u \in Tick /\ u + 1 \in Tick /\ SqrtRatio[u] \in Int /\ SqrtRatio[u + 1] \in Int
      /\ SqrtRatio[u] <= r /\ r <= SqrtRatio[u + 1] /\ r \in Int
  <2>1. step \in Step
    BY StepResultType
  <2> HIDE DEF u
  <2>2. u \in MIN_TICK .. MAX_TICK - 1 /\ SqrtRatio[u] <= r /\ r <= SqrtRatio[u + 1]
    BY <1>4 DEF InInterval
  <2>3. u \in Int /\ u \in Tick /\ u + 1 \in Tick
    <3>1. MIN_TICK \in Int /\ MAX_TICK \in Int
      BY Constants
    <3> QED  BY <2>2, <3>1 DEF Tick
  <2> QED  BY <2>1, <2>2, <2>3, Constants DEF Step
<1>6. /\ swap.zero_for_one => n <= t /\ SqrtRatio[n] <= r
      /\ ~swap.zero_for_one => t < n /\ r <= SqrtRatio[n]
  <2>1. /\ swap.zero_for_one => /\ n <= t /\ SqrtRatio[n] <= step_clamped_price(swap)
                                /\ step_clamped_price(swap) <= r
        /\ ~swap.zero_for_one => /\ t < n /\ step_clamped_price(swap) <= SqrtRatio[n]
                                 /\ r <= step_clamped_price(swap)
    BY <1>1, <1>3, StepTarget, StepAmounts
  <2>2. step_clamped_price(swap) \in Int
    BY StepTargetType
  <2> HIDE DEF n, t, r
  <2> QED  BY <1>3, <1>5, <2>1, <2>2
<1>7. ReachedTick(swap, step) <=> r = SqrtRatio[n]
  BY <1>3 DEF ReachedTick
<1>8. ReachedTick(swap, step) => u = IF swap.zero_for_one THEN n - 1 ELSE n
  BY DEF tick_after
<1> HIDE DEF n, t, r, u
<1>9. ~ReachedTick(swap, step) => IF swap.zero_for_one THEN n <= u ELSE u < n
  <2> SUFFICES ASSUME ~ReachedTick(swap, step) PROVE IF swap.zero_for_one THEN n <= u ELSE u < n
    OBVIOUS
  <2>1. swap.zero_for_one => SqrtRatio[n] < SqrtRatio[u + 1]
    BY <1>3, <1>5, <1>6, <1>7
  <2>2. ~swap.zero_for_one => SqrtRatio[u] < SqrtRatio[n]
    BY <1>3, <1>5, <1>6, <1>7
  <2>3. swap.zero_for_one => n < u + 1
    BY <1>2, <1>5, <2>1, RatioOrder
  <2>4. ~swap.zero_for_one => u < n
    BY <1>2, <1>5, <2>2, RatioOrder
  <2> QED  BY <1>3, <1>5, <2>3, <2>4
<1> QED  BY <1>1, <1>2, <1>3, <1>4, <1>5, <1>6, <1>8, <1>9 DEF n, t, u

\* An iteration carries the liquidity to that of the tick it stops at: the ticks
\* it passes are not in use, and the one it reaches is crossed.
LEMMA StepLiquidity ==
    ASSUME PoolInv, PriceInv, TicksInv, BitmapInv, LiquidityInv, swap.active, SwapContinues,
           NEW step, step = SwapStepResult(swap), ~StepFails(swap, step)
    PROVE  liquidity_after(swap, step)
               = Amount(positions, InRange(positions, tick_after(swap, step)))
<1> DEFINE n == step_next_tick(swap)
           t == swap.tick
           u == tick_after(swap, step)
           At(x) == Amount(positions, InRange(positions, x))
           net == ticks[n].liquidity_net
<1>1. LimitsOk /\ StoredPriceOk /\ positions \in [Id -> PositionInfo] /\ Matches(positions, ticks)
      /\ Matches(positions, swap.ticks) /\ t \in Int /\ swap.zero_for_one \in BOOLEAN
      /\ \A id \in Id : positions[id].lower <= positions[id].upper
  BY DEF PriceInv, PoolInv, TypeOK, SwapInfo, TicksInv, LiquidityInv
<1>2. n \in Tick
  BY StepTargetType
<1>3. /\ n \in Int /\ u \in Int
      /\ IF swap.zero_for_one
         THEN n <= t /\ IF ReachedTick(swap, step) THEN u = n - 1 ELSE n <= u /\ u <= t
         ELSE t < n /\ IF ReachedTick(swap, step) THEN u = n ELSE t <= u /\ u < n
  BY StepPath
<1>4. /\ swap.zero_for_one => \A x \in Tick : (n < x /\ x <= t) => ticks[x].liquidity_gross = 0
      /\ ~swap.zero_for_one => \A x \in Tick : (t < x /\ x < n) => ticks[x].liquidity_gross = 0
      /\ ~FoundTick(swap).initialised => ticks[n].liquidity_gross = 0
  BY <1>1, NothingPassed
<1>5. swap.liquidity = At(t) /\ At(t) \in Int
  <2>1. InRange(positions, t) \in SUBSET Id
    BY DEF InRange
  <2> QED  BY <1>1, <2>1, AmountType DEF LiquidityInv
<1>6. net = swap.ticks[n].liquidity_net /\ net \in Int
  <2>1. swap.ticks[n].liquidity_net = ticks[n].liquidity_net
    BY <1>1, <1>2 DEF Matches
  <2>2. ticks[n] \in TickInfo
    BY <1>2 DEF PoolInv, TypeOK
  <2> QED  BY <2>1, <2>2 DEF TickInfo
<1>7. ~FoundTick(swap).initialised => net = 0
  BY <1>1, <1>2, <1>4, NoGrossNoNet
<1>8. liquidity_after(swap, step) = IF CrossesTick(swap, step)
                                     THEN At(t) + (IF swap.zero_for_one THEN -net ELSE net)
                                     ELSE At(t)
  BY <1>5, <1>6 DEF liquidity_after, crossing_delta
<1>9. CrossesTick(swap, step) <=> ReachedTick(swap, step) /\ FoundTick(swap).initialised
  BY DEF CrossesTick
<1> HIDE DEF n, t, net
<1>10. CASE swap.zero_for_one
  <2>1. At(n) = At(t)
    <3> HIDE DEF At
    <3>1. Amount(positions, InRange(positions, n)) = Amount(positions, InRange(positions, t))
      BY <1>1, <1>3, <1>4, <1>10, RangeSame
    <3> QED  BY <3>1 DEF At
  <2>2. CASE ReachedTick(swap, step)
    <3>1. u = n - 1
      <4> HIDE DEF u
      <4> QED  BY <1>3, <1>10, <2>2
    <3>2. At(n) = At(n - 1) + net
      <4> HIDE DEF At
      <4>1. n - 1 \in Int /\ n - 1 < n /\ \A x \in Tick : (n - 1 < x /\ x < n) => ticks[x].liquidity_gross = 0
        BY <1>3, Constants
      <4>2. Amount(positions, InRange(positions, n))
              = Amount(positions, InRange(positions, n - 1)) + ticks[n].liquidity_net
        BY <1>1, <1>2, <4>1, RangeShift
      <4> QED  BY <4>2 DEF At, net
    <3>3. At(n - 1) \in Int
      <4>1. InRange(positions, n - 1) \in SUBSET Id
        BY DEF InRange
      <4> QED  BY <1>1, <4>1, AmountType
    <3>4. At(n - 1) = At(t) - net
      <4> DEFINE x == At(n - 1)
                 y == At(t)
      <4>1. y = x + net /\ x \in Int /\ y \in Int
        BY <1>5, <2>1, <3>2, <3>3
      <4> HIDE DEF x, y
      <4>2. x = y - net
        BY <1>6, <4>1
      <4> QED  BY <4>2 DEF x, y
    <3>5. liquidity_after(swap, step) = At(t) - net
      <4> HIDE DEF At
      <4> QED  BY <1>5, <1>6, <1>7, <1>8, <1>9, <1>10, <2>2
    <3> QED  BY <3>1, <3>4, <3>5
  <2>3. CASE ~ReachedTick(swap, step)
    <3>1. u <= t /\ \A x \in Tick : (u < x /\ x <= t) => ticks[x].liquidity_gross = 0
      <4> HIDE DEF u
      <4>1. \A x \in Tick : x \in Int
        BY Constants
      <4> QED  BY <1>1, <1>3, <1>4, <1>10, <2>3, <4>1
    <3>2. At(u) = At(t)
      <4> HIDE DEF u
      <4>1. Amount(positions, InRange(positions, u)) = Amount(positions, InRange(positions, t))
        BY <1>1, <1>3, <3>1, RangeSame
      <4> QED  BY <4>1
    <3> QED  BY <1>8, <1>9, <2>3, <3>2
  <2> QED  BY <2>2, <2>3
<1>11. CASE ~swap.zero_for_one
  <2>1. CASE ReachedTick(swap, step)
    <3>1. u = n
      <4> HIDE DEF u
      <4> QED  BY <1>3, <1>11, <2>1
    <3>2. At(n) = At(t) + net
      <4>1. Amount(positions, InRange(positions, n))
              = Amount(positions, InRange(positions, t)) + ticks[n].liquidity_net
        BY <1>1, <1>2, <1>3, <1>4, <1>11, RangeShift
      <4> QED  BY <4>1 DEF net
    <3>3. liquidity_after(swap, step) = At(t) + net
      <4> HIDE DEF At
      <4> QED  BY <1>5, <1>6, <1>7, <1>8, <1>9, <1>11, <2>1
    <3> QED  BY <3>1, <3>2, <3>3
  <2>2. CASE ~ReachedTick(swap, step)
    <3>1. t <= u /\ \A x \in Tick : (t < x /\ x <= u) => ticks[x].liquidity_gross = 0
      <4> HIDE DEF u
      <4>1. \A x \in Tick : x \in Int
        BY Constants
      <4> QED  BY <1>1, <1>3, <1>4, <1>11, <2>2, <4>1
    <3>2. At(t) = At(u)
      <4> HIDE DEF u
      <4>1. Amount(positions, InRange(positions, t)) = Amount(positions, InRange(positions, u))
        BY <1>1, <1>3, <3>1, RangeSame
      <4> QED  BY <4>1
    <3> QED  BY <1>8, <1>9, <2>2, <3>2
  <2> QED  BY <2>1, <2>2
<1> QED  BY <1>10, <1>11

\* A pool before init has no liquidity.
LEMMA LiquidityInit == Init => LiquidityInv
<1> SUFFICES ASSUME Init PROVE LiquidityInv
  OBVIOUS
<1>1. positions \in [Id -> PositionInfo] /\ ~swap.active
  BY EmptyTypes DEF Init
<1>2. \A id \in Id : /\ positions[id].liquidity = 0 /\ positions[id].lower = 0
                     /\ positions[id].upper = 0
  BY DEF Init, EmptyPosition
<1>3. InRange(positions, cur_tick) \in SUBSET Id
  BY DEF InRange
<1>4. Amount(positions, InRange(positions, cur_tick)) = 0
  BY <1>1, <1>2, <1>3, AmountZero
<1> QED  BY <1>1, <1>2, <1>4 DEF LiquidityInv, Init

\* Every step keeps the liquidity of the pool that of the positions in range.
LEMMA LiquidityNext ==
    ASSUME OnlySwapsMovePrice, RangesCounted,
           PoolInv, PriceInv, TicksInv, BitmapInv, LiquidityInv, [Next]_vars
    PROVE  LiquidityInv'
<1>0. /\ positions \in [Id -> PositionInfo] /\ positions' \in [Id -> PositionInfo]
      /\ \A pos, t : InRange(pos, t) \in SUBSET Id
  BY PoolNext DEF PoolInv, TypeOK, InRange
<1>1. CASE UNCHANGED vars
  BY <1>1 DEF vars, config, market, LiquidityInv
<1>2. ASSUME NEW a \in InitParams, InitPool(a[1], a[2], a[3], a[4]) PROVE LiquidityInv'
  <2>1. /\ ~swap.active /\ sqrt_price = 0 /\ tick_spacing' = a[3]
        /\ UNCHANGED <<liquidity, positions, swap>> /\ a[3] # 0
    BY <1>2, PoolAssumption DEF InitPool
  <2>2. \A id \in Id : positions[id].liquidity = 0
    BY <2>1 DEF PriceInv, StoredPriceOk, LiquidityInv
  <2>3. \A t : Amount(positions, InRange(positions, t)) = 0
    <3> TAKE t
    <3>1. InRange(positions, t) \in SUBSET Id
      BY <1>0
    <3> QED  BY <1>0, <2>2, <3>1, AmountZero
  <2> QED  BY <2>1, <2>3 DEF LiquidityInv
<1>3. ASSUME NEW e \in BOOLEAN, SetEnabled(e) PROVE LiquidityInv'
  BY <1>3 DEF SetEnabled, config, market, LiquidityInv
<1>4. ASSUME NEW x \in AdminPrices, SetSqrtPrice(x) PROVE LiquidityInv'
  BY <1>4 DEF OnlySwapsMovePrice
<1>5. ASSUME NEW r \in Ranges, CreatePosition(r[1], r[2]) PROVE LiquidityInv'
  <2>1. /\ ~swap.active /\ next_position_id \in Id /\ tick_spacing # 0
        /\ UNCHANGED <<liquidity, cur_tick, tick_spacing, swap>>
        /\ positions' = [positions EXCEPT ![next_position_id].lower = r[1],
                                          ![next_position_id].upper = r[2]]
    BY <1>5 DEF CreatePosition, config, market
  <2> DEFINE q == [positions[next_position_id] EXCEPT !.lower = r[1], !.upper = r[2]]
  <2>2. positions' = [positions EXCEPT ![next_position_id] = q]
    BY <1>0, <2>1 DEF PositionInfo
  <2>3. q.liquidity = positions[next_position_id].liquidity /\ q.lower = r[1] /\ q.upper = r[2]
    BY <1>0, <2>1 DEF PositionInfo
  <2> HIDE DEF q
  <2>4. \A id \in Id : /\ positions'[id].liquidity = positions[id].liquidity
                       /\ id # next_position_id => positions'[id] = positions[id]
                       /\ id = next_position_id => positions'[id] = q
    BY <1>0, <2>1, <2>2, <2>3
  <2>5. positions[next_position_id].liquidity = 0
    <3>1. next_position_id \in Int
      BY DEF PoolInv, TypeOK
    <3> QED  BY <2>1, <3>1 DEF TicksInv, UnmintedEmpty
  <2>6. \A id \in Id : positions[id].liquidity # 0 =>
           (id \in InRange(positions, cur_tick) <=> id \in InRange(positions', cur_tick))
    BY <2>4, <2>5 DEF InRange
  <2>7. Amount(positions, InRange(positions, cur_tick)) = Amount(positions', InRange(positions', cur_tick))
    <3>1. InRange(positions, cur_tick) \in SUBSET Id /\ InRange(positions', cur_tick) \in SUBSET Id
      BY <1>0
    <3> QED  BY <1>0, <2>4, <2>6, <3>1, AmountSame
  <2>8. \A id \in Id : 0 <= positions'[id].lower /\ positions'[id].lower <= positions'[id].upper
    BY <2>3, <2>4 DEF RangesCounted, LiquidityInv
  <2> QED  BY <2>1, <2>7, <2>8 DEF LiquidityInv
<1>6. CASE MintElsewhere
  BY <1>6 DEF MintElsewhere, config, market, LiquidityInv
<1>7. ASSUME NEW id \in Id, NEW delta \in Int, UpdatePosition(id, delta) PROVE LiquidityInv'
  <2> DEFINE p == positions[id]
             S == InRange(positions, cur_tick)
  <2>1. /\ UpdateOk(p, delta)
        /\ \A i \in Id \ {id} : positions'[i] = positions[i]
        /\ positions'[id].lower = p.lower /\ positions'[id].upper = p.upper
        /\ positions'[id].liquidity = p.liquidity + delta
    BY <1>7, UpdateEffect
  <2>2. /\ liquidity' = IF in_range(p, cur_tick) THEN liquidity + delta ELSE liquidity
        /\ UNCHANGED <<tick_spacing, cur_tick, swap>> /\ ~swap.active
    BY <1>7 DEF UpdatePosition, update_position, config
  <2>3. InRange(positions', cur_tick) = S /\ (id \in S <=> in_range(p, cur_tick)) /\ S \in SUBSET Id
    BY <2>1 DEF InRange, in_range
  <2> HIDE DEF p, S
  <2>4. Amount(positions', S) = Amount(positions, S) + (IF id \in S THEN delta ELSE 0)
    BY <1>0, <2>1, <2>3, AmountChange DEF p
  <2>5. Amount(positions, S) \in Int /\ liquidity = Amount(positions, S)
    BY <1>0, <2>3, AmountType DEF LiquidityInv, S
  <2>6. liquidity' = Amount(positions', InRange(positions', cur_tick))
    BY <2>2, <2>3, <2>4, <2>5
  <2>7. tick_spacing = 0 => \A i \in Id : positions'[i].liquidity = 0
    <3> SUFFICES ASSUME tick_spacing = 0 PROVE \A i \in Id : positions'[i].liquidity = 0
      OBVIOUS
    <3>1. p \in PositionInfo
      BY <1>0 DEF p
    <3>2. delta = 0
      BY <2>1, <3>1, NoSpacingNoDelta
    <3> QED  BY <2>1, <3>2 DEF LiquidityInv, p
  <2>8. \A i \in Id : 0 <= positions'[i].lower /\ positions'[i].lower <= positions'[i].upper
    BY <2>1 DEF LiquidityInv, p
  <2> QED  BY <2>2, <2>6, <2>7, <2>8 DEF LiquidityInv
<1>8. ASSUME NEW id \in Id, Collect(id) PROVE LiquidityInv'
  <2>1. \A i \in Id : /\ positions'[i].liquidity = positions[i].liquidity
                      /\ positions'[i].lower = positions[i].lower
                      /\ positions'[i].upper = positions[i].upper
    BY <1>0, <1>8 DEF Collect, PositionInfo
  <2>2. ~swap.active /\ UNCHANGED <<liquidity, cur_tick, tick_spacing, swap>>
    BY <1>8 DEF Collect, config, market
  <2>3. InRange(positions', cur_tick) = InRange(positions, cur_tick)
    BY <2>1 DEF InRange, in_range
  <2>4. Amount(positions, InRange(positions, cur_tick)) = Amount(positions', InRange(positions, cur_tick))
    <3>1. InRange(positions, cur_tick) \in SUBSET Id
      BY <1>0
    <3> QED  BY <1>0, <2>1, <3>1, AmountSame
  <2> QED  BY <2>1, <2>2, <2>3, <2>4 DEF LiquidityInv
<1>9. ASSUME NEW z, NEW a, NEW lim, SwapBegin(z, a, lim) PROVE LiquidityInv'
  <2>1. /\ swap'.liquidity = liquidity /\ swap'.tick = cur_tick
        /\ UNCHANGED <<liquidity, cur_tick, tick_spacing, positions>>
    BY <1>9 DEF SwapBegin, swap_start, config, market
  <2> QED  BY <2>1 DEF LiquidityInv
<1>10. CASE SwapLoop
  <2>1. /\ UNCHANGED <<positions, tick_spacing>> /\ swap.active
        /\ \/ /\ SwapStep /\ UNCHANGED <<liquidity, cur_tick>>
              /\ ~StepFails(swap, SwapStepResult(swap))
              /\ swap' = AfterStep(swap, SwapStepResult(swap))
           \/ swap' = NoSwap /\ UNCHANGED <<liquidity, cur_tick>>
           \/ SwapCommit
    BY <1>10, SwapEffect DEF config, market
  <2>2. CASE /\ SwapStep /\ UNCHANGED <<liquidity, cur_tick>>
             /\ ~StepFails(swap, SwapStepResult(swap))
             /\ swap' = AfterStep(swap, SwapStepResult(swap))
    <3> DEFINE step == SwapStepResult(swap)
    <3>1. swap'.liquidity = liquidity_after(swap, step) /\ swap'.tick = tick_after(swap, step)
      BY <2>2 DEF AfterStep, PoolInv, TypeOK, SwapInfo
    <3>2. SwapContinues
      BY <2>2 DEF SwapStep
    <3>3. ~StepFails(swap, step) /\ step = SwapStepResult(swap)
      BY <2>2
    <3> HIDE DEF step
    <3>4. liquidity_after(swap, step) = Amount(positions, InRange(positions, tick_after(swap, step)))
      BY <2>1, <3>2, <3>3, StepLiquidity
    <3> QED  BY <2>1, <2>2, <3>1, <3>4 DEF LiquidityInv
  <2>3. CASE swap' = NoSwap /\ UNCHANGED <<liquidity, cur_tick>>
    BY <2>1, <2>3, EmptyTypes DEF LiquidityInv
  <2>4. CASE SwapCommit
    <3>1. swap' = NoSwap /\ liquidity' = swap.liquidity /\ cur_tick' = swap.tick
      BY <2>4 DEF SwapCommit
    <3> QED  BY <2>1, <3>1, EmptyTypes DEF LiquidityInv
  <2> QED  BY <2>1, <2>2, <2>3, <2>4
<1> QED  BY <1>1, <1>2, <1>3, <1>4, <1>5, <1>6, <1>7, <1>8, <1>9, <1>10, AdjustUpdates, PoolAssumption
         DEF Next, Admin, Mint, Operate

\* At rest and after every iteration of a swap, the pool's liquidity is the sum
\* of the liquidity of the positions whose range holds the current tick, for
\* any number of positions and any spacing: swaps cross every tick they pass,
\* in either direction, and updates add to the pool what is in range.
THEOREM PoolLiquidityIsInRange ==
    ASSUME OnlySwapsMovePrice, RangesCounted
    PROVE  Spec => []LiquidityIsInRange
<1>1. SpacingIsFixed
  BY DEF OnlySwapsMovePrice, SpacingIsFixed
<1>2. PoolInv /\ TicksInv /\ BitmapInv /\ [Next]_vars => BitmapInv'
  BY <1>1, BitmapNext
<1>3. PoolInv /\ PriceInv /\ TicksInv /\ BitmapInv /\ LiquidityInv /\ [Next]_vars => LiquidityInv'
  BY LiquidityNext
<1>4. LiquidityInv => LiquidityIsInRange
  <2> SUFFICES ASSUME LiquidityInv PROVE LiquidityIsInRange
    OBVIOUS
  <2>1. RunningLiquidity = Amount(positions, InRange(positions, RunningTick))
    BY DEF LiquidityInv, RunningLiquidity, RunningTick
  <2> QED  BY <2>1 DEF LiquidityIsInRange, SumOf, LiquidityOf, Amount, InRange
<1> QED  BY <1>2, <1>3, <1>4, BitmapInit, LiquidityInit, TicksInvariant, PriceInvariant, PTL DEF Spec

-----------------------------------------------------------------------------
(* Withdrawing.  The fee growth below a tick is what the counters recorded on *)
(* its lower side; the growth inside a range is that below its upper end less *)
(* that below its lower end.                                                  *)

Below(tks, growth, tick, t, k) ==
    IF t <= tick THEN tks[t].fee_growth_outside[k] ELSE growth[k] - tks[t].fee_growth_outside[k]

\* No position has recorded more growth inside its range than there is.
InsideOk(pos, tks, growth, tick) ==
    \A id \in Id, k \in Token :
        pos[id].liquidity # 0 =>
            pos[id].fee_growth_inside[k] <=
                Below(tks, growth, tick, pos[id].upper, k) - Below(tks, growth, tick, pos[id].lower, k)

InsideInv ==
    /\ InsideOk(positions, ticks, fee_growth_global, cur_tick)
    /\ swap.active =>
           /\ InsideOk(positions, swap.ticks, RunningGrowth, swap.tick)
           /\ fee = 0 => InsideOk(positions, swap.ticks, fee_growth_global, swap.tick)

\* Liquidity stays within its word and within the limit of a tick.
CapInv ==
    /\ max_liquidity_per_tick < U128
    /\ \A t \in Tick : ticks[t].liquidity_gross <= max_liquidity_per_tick
    /\ liquidity < U128 /\ (swap.active => swap.liquidity < U128)

\* The growth below a tick is an integer.
LEMMA BelowType ==
    ASSUME NEW tks \in [Tick -> TickInfo], NEW growth \in [Token -> Nat], NEW tick,
           NEW t \in Tick, NEW k \in Token
    PROVE  Below(tks, growth, tick, t, k) \in Int
<1>1. tks[t].fee_growth_outside[k] \in Nat /\ growth[k] \in Nat
  BY DEF TickInfo
<1> QED  BY <1>1 DEF Below

\* get_fee_growth_inside is the difference of the growths below the two ends.
LEMMA InsideIsBelow ==
    ASSUME TypeOK, NEW tks \in [Tick -> TickInfo], NEW lower \in Tick, NEW upper \in Tick,
           NEW k \in Token
    PROVE  get_fee_growth_inside(tks, lower, upper)[k]
               = Below(tks, fee_growth_global, cur_tick, upper, k)
                 - Below(tks, fee_growth_global, cur_tick, lower, k)
<1> DEFINE g == fee_growth_global[k]
           o == tks[lower].fee_growth_outside[k]
           p == tks[upper].fee_growth_outside[k]
<1>1. g \in Nat /\ o \in Nat /\ p \in Nat /\ cur_tick \in Int /\ lower \in Int /\ upper \in Int
  BY Constants DEF TypeOK, TickInfo
<1>2. get_fee_growth_inside(tks, lower, upper)[k]
        = g - (IF cur_tick >= lower THEN o ELSE g - o) - (IF cur_tick < upper THEN p ELSE g - p)
  BY DEF get_fee_growth_inside, fee_growth_below, fee_growth_above
<1>3. /\ Below(tks, fee_growth_global, cur_tick, upper, k) = IF upper <= cur_tick THEN p ELSE g - p
      /\ Below(tks, fee_growth_global, cur_tick, lower, k) = IF lower <= cur_tick THEN o ELSE g - o
  BY DEF Below
<1> HIDE DEF g, o, p
<1> QED  BY <1>1, <1>2, <1>3

\* Growth of the counters never takes growth out of a range.
LEMMA InsideGrows ==
    ASSUME NEW pos \in [Id -> PositionInfo], NEW tks \in [Tick -> TickInfo], NEW tick \in Int,
           NEW g \in [Token -> Nat], NEW h \in [Token -> Nat], \A k \in Token : g[k] <= h[k],
           \A id \in Id : pos[id].lower <= pos[id].upper, InsideOk(pos, tks, g, tick)
    PROVE  InsideOk(pos, tks, h, tick)
<1> SUFFICES ASSUME NEW id \in Id, NEW k \in Token, pos[id].liquidity # 0
             PROVE  pos[id].fee_growth_inside[k] <=
                        Below(tks, h, tick, pos[id].upper, k) - Below(tks, h, tick, pos[id].lower, k)
  BY DEF InsideOk
<1> DEFINE l == pos[id].lower
           u == pos[id].upper
           o == tks[l].fee_growth_outside[k]
           p == tks[u].fee_growth_outside[k]
           c == pos[id].fee_growth_inside[k]
           a == g[k]
           b == h[k]
<1>1. l \in Tick /\ u \in Tick /\ c \in Nat /\ l <= u
  BY DEF PositionInfo
<1>2. l \in Int /\ u \in Int /\ o \in Nat /\ p \in Nat /\ a \in Nat /\ b \in Nat /\ a <= b
  BY <1>1, Constants DEF TickInfo
<1>3. c <= Below(tks, g, tick, u, k) - Below(tks, g, tick, l, k)
  BY DEF InsideOk
<1>4. /\ Below(tks, g, tick, u, k) = IF u <= tick THEN p ELSE a - p
      /\ Below(tks, g, tick, l, k) = IF l <= tick THEN o ELSE a - o
      /\ Below(tks, h, tick, u, k) = IF u <= tick THEN p ELSE b - p
      /\ Below(tks, h, tick, l, k) = IF l <= tick THEN o ELSE b - o
  BY DEF Below
<1>5. c <= Below(tks, h, tick, u, k) - Below(tks, h, tick, l, k)
  <2> HIDE DEF l, u, o, p, c, a, b
  <2> QED  BY <1>1, <1>2, <1>3, <1>4
<1> QED  BY <1>5

\* If the growth below the ends of every position with liquidity stays, so does
\* the growth inside.
LEMMA InsideSame ==
    ASSUME NEW pos, NEW new, NEW tks, NEW g, NEW c, NEW tks2, NEW h, NEW d,
           InsideOk(pos, tks, g, c),
           \A id \in Id : new[id].liquidity # 0 =>
               /\ pos[id].liquidity # 0 /\ new[id].fee_growth_inside = pos[id].fee_growth_inside
               /\ new[id].lower = pos[id].lower /\ new[id].upper = pos[id].upper
               /\ \A k \in Token :
                      /\ Below(tks2, h, d, pos[id].lower, k) = Below(tks, g, c, pos[id].lower, k)
                      /\ Below(tks2, h, d, pos[id].upper, k) = Below(tks, g, c, pos[id].upper, k)
    PROVE  InsideOk(new, tks2, h, d)
BY DEF InsideOk

\* An iteration moves past a tick in use exactly when it crosses it.
LEMMA UsedTickPassed ==
    ASSUME PoolInv, PriceInv, TicksInv, BitmapInv, LiquidityInv, swap.active, SwapContinues,
           NEW step, step = SwapStepResult(swap), ~StepFails(swap, step),
           NEW x \in Tick, ticks[x].liquidity_gross # 0
    PROVE  /\ (CrossesTick(swap, step) /\ x = step_next_tick(swap)) =>
                  (x <= swap.tick <=> ~(x <= tick_after(swap, step)))
           /\ ~(CrossesTick(swap, step) /\ x = step_next_tick(swap)) =>
                  (x <= swap.tick <=> x <= tick_after(swap, step))
<1> DEFINE n == step_next_tick(swap)
           t == swap.tick
           u == tick_after(swap, step)
<1>1. LimitsOk /\ x \in Int /\ swap.zero_for_one \in BOOLEAN
  BY Constants DEF PriceInv, PoolInv, TypeOK, SwapInfo
<1>2. /\ n \in Int /\ t \in Int /\ u \in Int
      /\ IF swap.zero_for_one
         THEN n <= t /\ IF ReachedTick(swap, step) THEN u = n - 1 ELSE n <= u /\ u <= t
         ELSE t < n /\ IF ReachedTick(swap, step) THEN u = n ELSE t <= u /\ u < n
  BY StepPath
<1>3. /\ swap.zero_for_one => ~(n < x /\ x <= t)
      /\ ~swap.zero_for_one => ~(t < x /\ x < n)
      /\ ~FoundTick(swap).initialised => x # n
  BY <1>1, NothingPassed
<1>4. CrossesTick(swap, step) <=> ReachedTick(swap, step) /\ FoundTick(swap).initialised
  BY DEF CrossesTick
<1> HIDE DEF n, t, u
<1>5. /\ (CrossesTick(swap, step) /\ x = n) => (x <= t <=> ~(x <= u))
      /\ ~(CrossesTick(swap, step) /\ x = n) => (x <= t <=> x <= u)
  <2>1. CASE ReachedTick(swap, step)
    BY <1>1, <1>2, <1>3, <1>4, <2>1
  <2>2. CASE ~ReachedTick(swap, step)
    BY <1>1, <1>2, <1>3, <1>4, <2>2
  <2> QED  BY <2>1, <2>2
<1> QED  BY <1>5 DEF n, t, u

\* An iteration leaves the growth below a tick in use as it is: cross turns the
\* growth outside over when the swap moves to the other side.
LEMMA StepBelow ==
    ASSUME PoolInv, PriceInv, TicksInv, BitmapInv, LiquidityInv, swap.active, SwapContinues,
           NEW step, step = SwapStepResult(swap), ~StepFails(swap, step),
           NEW growth \in [Token -> Nat], \A k \in Token : growth[k] < U256,
           Bounded(swap.ticks, growth),
           CrossesTick(swap, step) => growth_at_cross(swap, step) = growth,
           NEW x \in Tick, ticks[x].liquidity_gross # 0, NEW k \in Token
    PROVE  Below(ticks_after(swap, step), growth, tick_after(swap, step), x, k)
               = Below(swap.ticks, growth, swap.tick, x, k)
<1> DEFINE n == step_next_tick(swap)
           u == tick_after(swap, step)
           new == ticks_after(swap, step)
           o == swap.ticks[x].fee_growth_outside[k]
           a == growth[k]
<1>1. /\ (CrossesTick(swap, step) /\ x = n) => (x <= swap.tick <=> ~(x <= u))
      /\ ~(CrossesTick(swap, step) /\ x = n) => (x <= swap.tick <=> x <= u)
  BY UsedTickPassed
<1>2. swap.ticks \in [Tick -> TickInfo] /\ swap.ticks[x] \in TickInfo
  BY DEF PoolInv, TypeOK, SwapInfo
<1>3. o \in Nat /\ a \in Nat /\ o <= a /\ a < U256
  BY <1>2 DEF TickInfo, Bounded
<1>4. /\ Below(new, growth, u, x, k) = IF x <= u THEN new[x].fee_growth_outside[k]
                                       ELSE a - new[x].fee_growth_outside[k]
      /\ Below(swap.ticks, growth, swap.tick, x, k) = IF x <= swap.tick THEN o ELSE a - o
  BY DEF Below
<1>5. CASE CrossesTick(swap, step) /\ x = n
  <2>1. new = [swap.ticks EXCEPT ![n] = cross(swap.ticks[n], growth)]
    BY <1>5 DEF ticks_after
  <2>2. new[x] = cross(swap.ticks[x], growth)
    <3> HIDE DEF n, new
    <3> QED  BY <1>2, <1>5, <2>1
  <2>3. cross(swap.ticks[x], growth).fee_growth_outside[k] = a - o
    BY <1>2, <1>3, CrossSubtracts
  <2>4. new[x].fee_growth_outside[k] = a - o
    BY <2>2, <2>3
  <2>5. Below(new, growth, u, x, k) = Below(swap.ticks, growth, swap.tick, x, k)
    <3> HIDE DEF new, o, a, u, n
    <3> QED  BY <1>1, <1>3, <1>4, <1>5, <2>4
  <2> QED  BY <2>5
<1>6. CASE ~(CrossesTick(swap, step) /\ x = n)
  <2>1. new[x] = swap.ticks[x]
    BY <1>2, <1>6 DEF ticks_after
  <2>2. Below(new, growth, u, x, k) = Below(swap.ticks, growth, swap.tick, x, k)
    <3> HIDE DEF new, u, n
    <3> QED  BY <1>1, <1>4, <1>6, <2>1
  <2> QED  BY <2>2
<1> QED  BY <1>5, <1>6

\* update_position leaves the growth outside a tick in use alone, as long as the
\* tick stays in use.
LEMMA UpdateOutside ==
    ASSUME TypeOK, NEW p \in PositionInfo, NEW delta \in Int, UpdateOk(p, delta),
           NEW t \in Tick, ticks[t].liquidity_gross # 0
    PROVE  ticks_updated(p, delta)[t].fee_growth_outside = ticks[t].fee_growth_outside
<1>0. /\ p.lower \in Tick /\ p.upper \in Tick /\ ticks \in [Tick -> TickInfo]
      /\ ticks[t].liquidity_gross \in Nat \ {0}
  BY DEF PositionInfo, TypeOK, TickInfo
<1>1. CASE delta = 0
  BY <1>1 DEF ticks_updated
<1>2. CASE delta # 0
  <2> DEFINE low == ticks_lower_updated(p, delta)
             upd == ticks_updated(p, delta)
  <2>1. /\ low = [ticks EXCEPT ![p.lower] = tick_update(ticks[p.lower], p.lower, delta, FALSE)]
        /\ upd = [low EXCEPT ![p.upper] = tick_update(low[p.upper], p.upper, delta, TRUE)]
    BY <1>2 DEF ticks_lower_updated, ticks_updated
  <2>2. low \in [Tick -> TickInfo]
    BY TicksUpdatedType
  <2>3. ASSUME NEW info, info.liquidity_gross # 0
        PROVE  /\ tick_update(info, t, delta, FALSE).fee_growth_outside = info.fee_growth_outside
               /\ tick_update(info, t, delta, TRUE).fee_growth_outside = info.fee_growth_outside
    BY <2>3 DEF tick_update
  <2>4. low[t].liquidity_gross = ticks[t].liquidity_gross + (IF t = p.lower THEN delta ELSE 0)
    BY UpdatedLiquidity
  <2>5. t = p.upper => low[t].liquidity_gross # 0
    <3> SUFFICES ASSUME t = p.upper, low[t].liquidity_gross = 0 PROVE FALSE
      OBVIOUS
    <3>1. tick_update_ok(low[p.upper], delta)
      BY <1>2 DEF UpdateOk
    <3>2. 0 + delta \in 0 .. U128 - 1
      BY <3>1 DEF tick_update_ok, add_delta_ok
    <3> HIDE DEF low
    <3> QED  BY <1>0, <2>4, <3>2, Constants
  <2> HIDE DEF low, upd
  <2>6. low[t].fee_growth_outside = ticks[t].fee_growth_outside
    <3>1. CASE t = p.lower
      <4>1. low[t] = tick_update(ticks[t], t, delta, FALSE)
        BY <1>0, <2>1, <3>1
      <4> QED  BY <2>3, <4>1, Zenon
    <3>2. CASE t # p.lower
      BY <1>0, <2>1, <3>2
    <3> QED  BY <3>1, <3>2
  <2>7. upd[t].fee_growth_outside = low[t].fee_growth_outside
    <3>1. CASE t = p.upper
      <4>1. upd[t] = tick_update(low[t], t, delta, TRUE)
        BY <1>0, <2>1, <2>2, <3>1
      <4> QED  BY <2>3, <2>5, <3>1, <4>1, Zenon
    <3>2. CASE t # p.upper
      BY <1>0, <2>1, <2>2, <3>2
    <3> QED  BY <3>1, <3>2
  <2> QED  BY <2>6, <2>7 DEF upd
<1> QED  BY <1>1, <1>2

\* A tick that is in use after update_position was not cleared.
LEMMA UsedNotCleared ==
    ASSUME TypeOK, NEW p \in PositionInfo, NEW delta \in Int, NEW t \in Tick,
           ticks_cleared(p, delta)[t].liquidity_gross # 0
    PROVE  ticks_cleared(p, delta)[t] = ticks_updated(p, delta)[t]
<1>1. ticks_cleared(p, delta)[t] \in {EmptyTick, ticks_updated(p, delta)[t]}
  BY Zenon DEF ticks_cleared
<1>2. EmptyTick.liquidity_gross = 0
  BY DEF EmptyTick
<1> QED  BY <1>1, <1>2

\* update_position keeps every recorded growth within that inside the range: the
\* updated position records what there is, and the ticks that the others use
\* keep their growth.
LEMMA UpdateKeepsInside ==
    ASSUME PoolInv, TicksInv, InsideOk(positions, ticks, fee_growth_global, cur_tick),
           NEW id \in Id, NEW delta \in Int, UpdatePosition(id, delta)
    PROVE  InsideOk(positions', ticks', fee_growth_global, cur_tick)
<1> DEFINE p == positions[id]
           upd == ticks_updated(p, delta)
           clr == ticks_cleared(p, delta)
           inside == get_fee_growth_inside(upd, p.lower, p.upper)
<1>1. /\ PoolInv' /\ UpdateOk(p, delta)
      /\ \A i \in Id \ {id} : positions'[i] = positions[i]
      /\ positions'[id].lower = p.lower /\ positions'[id].upper = p.upper
      /\ positions'[id].liquidity = p.liquidity + delta
  BY UpdateEffect
<1>2. /\ positions \in [Id -> PositionInfo] /\ positions' \in [Id -> PositionInfo]
      /\ TypeOK /\ p \in PositionInfo
  BY <1>1 DEF PoolInv, TypeOK
<1>3. ticks' = clr /\ positions' = [positions EXCEPT ![id] = position_update(p, delta, inside)]
  BY DEF UpdatePosition, update_position
<1>4. positions'[id].fee_growth_inside = inside
  <2> HIDE DEF inside, p
  <2>1. position_update(p, delta, inside).fee_growth_inside = inside
    BY <1>2 DEF position_update, PositionInfo
  <2> QED  BY <1>2, <1>3, <2>1
<1>5. Matches(positions, ticks) /\ Matches(positions', clr)
  BY <1>1, <1>2, UpdateMatches DEF TicksInv
<1>6. upd \in [Tick -> TickInfo] /\ clr \in [Tick -> TickInfo]
  BY <1>1, <1>2, TicksUpdatedType
<1>7. ASSUME NEW i \in Id, positions'[i].liquidity # 0
      PROVE  /\ clr[positions'[i].lower] = upd[positions'[i].lower]
             /\ clr[positions'[i].upper] = upd[positions'[i].upper]
             /\ positions'[i].lower \in Tick /\ positions'[i].upper \in Tick
  <2>1. positions'[i].lower \in Tick /\ positions'[i].upper \in Tick
    BY <1>2 DEF PositionInfo
  <2> HIDE DEF p, clr
  <2>2. clr[positions'[i].lower].liquidity_gross # 0 /\ clr[positions'[i].upper].liquidity_gross # 0
    BY <1>2, <1>5, <1>7, <2>1, UsedTicks
  <2> QED  BY <1>2, <2>1, <2>2, UsedNotCleared DEF clr
<1> HIDE DEF p, upd, clr, inside
<1> SUFFICES ASSUME NEW i \in Id, NEW k \in Token, positions'[i].liquidity # 0
             PROVE  positions'[i].fee_growth_inside[k] <=
                        Below(clr, fee_growth_global, cur_tick, positions'[i].upper, k)
                        - Below(clr, fee_growth_global, cur_tick, positions'[i].lower, k)
  BY <1>3 DEF InsideOk
<1>8. CASE i = id
  <2>1. inside[k] = Below(upd, fee_growth_global, cur_tick, p.upper, k)
                    - Below(upd, fee_growth_global, cur_tick, p.lower, k)
    BY <1>2, <1>6, InsideIsBelow DEF inside, PositionInfo
  <2>2. clr[p.lower] = upd[p.lower] /\ clr[p.upper] = upd[p.upper]
        /\ p.lower \in Tick /\ p.upper \in Tick
    BY <1>1, <1>7, <1>8
  <2>3. /\ Below(clr, fee_growth_global, cur_tick, p.upper, k)
             = Below(upd, fee_growth_global, cur_tick, p.upper, k)
        /\ Below(clr, fee_growth_global, cur_tick, p.lower, k)
             = Below(upd, fee_growth_global, cur_tick, p.lower, k)
    BY <2>2 DEF Below
  <2>4. /\ Below(upd, fee_growth_global, cur_tick, p.upper, k) \in Int
        /\ Below(upd, fee_growth_global, cur_tick, p.lower, k) \in Int
    <3>1. fee_growth_global \in [Token -> Nat]
      BY <1>2 DEF TypeOK
    <3> QED  BY <1>6, <2>2, <3>1, BelowType
  <2> QED  BY <1>1, <1>4, <1>8, <2>1, <2>3, <2>4
<1>9. CASE i # id
  <2> DEFINE l == positions[i].lower
             u == positions[i].upper
  <2>1. positions'[i] = positions[i]
    BY <1>1, <1>9
  <2>2. l \in Tick /\ u \in Tick /\ clr[l] = upd[l] /\ clr[u] = upd[u] /\ positions[i].liquidity # 0
    BY <1>7, <2>1
  <2>3. ticks[l].liquidity_gross # 0 /\ ticks[u].liquidity_gross # 0
    BY <1>2, <1>5, <2>2, UsedTicks
  <2>4. /\ upd[l].fee_growth_outside = ticks[l].fee_growth_outside
        /\ upd[u].fee_growth_outside = ticks[u].fee_growth_outside
    <3> HIDE DEF l, u
    <3> QED  BY <1>1, <1>2, <2>2, <2>3, UpdateOutside DEF upd
  <2>5. /\ Below(clr, fee_growth_global, cur_tick, u, k) = Below(ticks, fee_growth_global, cur_tick, u, k)
        /\ Below(clr, fee_growth_global, cur_tick, l, k) = Below(ticks, fee_growth_global, cur_tick, l, k)
    BY <2>2, <2>4 DEF Below
  <2>6. positions[i].fee_growth_inside[k] <= Below(ticks, fee_growth_global, cur_tick, u, k)
                                             - Below(ticks, fee_growth_global, cur_tick, l, k)
    BY <2>2 DEF InsideOk
  <2> QED  BY <2>1, <2>5, <2>6
<1> QED  BY <1>8, <1>9

\* Every step keeps every recorded growth within that inside the range.
LEMMA InsideNext ==
    ASSUME OnlySwapsMovePrice, GrowthInWord, PoolInv, PriceInv, TicksInv, BitmapInv, LiquidityInv,
           GrowthInv, InsideInv, [Next]_vars
    PROVE  InsideInv'
<1>0. /\ positions \in [Id -> PositionInfo] /\ ticks \in [Tick -> TickInfo]
      /\ swap.ticks \in [Tick -> TickInfo] /\ fee_growth_global \in [Token -> Nat]
      /\ swap.tick \in Int
  BY DEF PoolInv, TypeOK, SwapInfo
<1>1. CASE UNCHANGED <<fee_growth_global, ticks, swap, fee, cur_tick, positions>>
  BY <1>1 DEF InsideInv, RunningGrowth, Side, InsideOk, Below
<1>2. ASSUME NEW a \in InitParams, InitPool(a[1], a[2], a[3], a[4]) PROVE InsideInv'
  <2>1. ~swap.active /\ sqrt_price = 0 /\ UNCHANGED <<fee_growth_global, ticks, positions, swap>>
    BY <1>2 DEF InitPool
  <2>2. \A id \in Id : positions[id].liquidity = 0
    BY <2>1 DEF PriceInv, StoredPriceOk, LiquidityInv
  <2> QED  BY <2>1, <2>2 DEF InsideInv, InsideOk
<1>3. ASSUME NEW r \in Ranges, CreatePosition(r[1], r[2]) PROVE InsideInv'
  <2>1. /\ ~swap.active /\ next_position_id \in Id
        /\ UNCHANGED <<fee_growth_global, ticks, swap, cur_tick>>
        /\ positions' = [positions EXCEPT ![next_position_id].lower = r[1],
                                          ![next_position_id].upper = r[2]]
    BY <1>3 DEF CreatePosition, config, market
  <2> DEFINE q == [positions[next_position_id] EXCEPT !.lower = r[1], !.upper = r[2]]
  <2>2. positions' = [positions EXCEPT ![next_position_id] = q]
    BY <1>0, <2>1 DEF PositionInfo
  <2>3. q.liquidity = positions[next_position_id].liquidity
    BY <1>0, <2>1 DEF PositionInfo
  <2>4. positions[next_position_id].liquidity = 0
    <3>1. next_position_id \in Int
      BY DEF PoolInv, TypeOK
    <3> QED  BY <2>1, <3>1 DEF TicksInv, UnmintedEmpty
  <2> HIDE DEF q
  <2>5. \A id \in Id : /\ id # next_position_id => positions'[id] = positions[id]
                       /\ id = next_position_id => positions'[id].liquidity = 0
    BY <1>0, <2>1, <2>2, <2>3, <2>4
  <2> QED  BY <2>1, <2>5 DEF InsideInv, InsideOk
<1>4. ASSUME NEW id \in Id, NEW delta \in Int, UpdatePosition(id, delta) PROVE InsideInv'
  <2>1. ~swap.active /\ UNCHANGED <<fee_growth_global, cur_tick, swap>>
    BY <1>4 DEF UpdatePosition, update_position
  <2>2. InsideOk(positions', ticks', fee_growth_global, cur_tick)
    BY <1>4, UpdateKeepsInside DEF InsideInv
  <2> QED  BY <2>1, <2>2 DEF InsideInv
<1>5. ASSUME NEW id \in Id, Collect(id) PROVE InsideInv'
  <2>1. /\ ~swap.active /\ UNCHANGED <<fee_growth_global, ticks, swap, cur_tick>>
        /\ positions' = [positions EXCEPT ![id].token_owed = NoFees]
    BY <1>5 DEF Collect, market
  <2>2. \A i \in Id : /\ positions'[i].liquidity = positions[i].liquidity
                      /\ positions'[i].fee_growth_inside = positions[i].fee_growth_inside
                      /\ positions'[i].lower = positions[i].lower
                      /\ positions'[i].upper = positions[i].upper
    BY <1>0, <2>1 DEF PositionInfo
  <2> QED  BY <2>1, <2>2 DEF InsideInv, InsideOk
<1>6. ASSUME NEW z, NEW a, NEW lim, SwapBegin(z, a, lim) PROVE InsideInv'
  <2>1. /\ swap'.zero_for_one = z /\ swap'.ticks = ticks /\ swap'.tick = cur_tick
        /\ swap'.fee_growth = fee_growth_global[IF z THEN 0 ELSE 1]
        /\ UNCHANGED <<fee_growth_global, ticks, fee, cur_tick, positions>>
    BY <1>6 DEF SwapBegin, swap_start, config, market
  <2>2. Side' \in Token /\ swap'.fee_growth = fee_growth_global[Side']
    BY <2>1 DEF Side, Token
  <2>3. RunningGrowth' = fee_growth_global
    BY <1>0, <2>1, <2>2 DEF RunningGrowth
  <2> QED  BY <2>1, <2>3 DEF InsideInv
<1>7. CASE SwapStep
  <2> DEFINE step == SwapStepResult(swap)
             g == growth_at_cross(swap, step)
             new == ticks_after(swap, step)
             u == tick_after(swap, step)
  <2>1. /\ swap.active /\ SwapContinues /\ ~StepFails(swap, step) /\ swap' = AfterStep(swap, step)
        /\ UNCHANGED <<fee_growth_global, ticks, fee, cur_tick, positions>>
    BY <1>7 DEF SwapStep, config, market
  <2>2. swap'.ticks = new /\ swap'.tick = u
    BY <2>1 DEF AfterStep, PoolInv, TypeOK, SwapInfo
  <2>3. /\ RunningGrowth' = g /\ g \in [Token -> Nat]
        /\ \A k \in Token : g[k] < U256 /\ RunningGrowth[k] <= g[k]
        /\ Bounded(swap.ticks, g)
        /\ fee = 0 => (CrossesTick(swap, step) => g = fee_growth_global)
    BY <1>7, StepCounters
  <2>4. RunningGrowth \in [Token -> Nat]
    BY RunningGrowthAt
  <2>5. step = SwapStepResult(swap)
    OBVIOUS
  <2> HIDE DEF step
  <2>6. ASSUME NEW h \in [Token -> Nat], \A k \in Token : h[k] < U256, Bounded(swap.ticks, h),
               CrossesTick(swap, step) => g = h, InsideOk(positions, swap.ticks, h, swap.tick)
        PROVE  InsideOk(positions, new, h, u)
    <3>1. ASSUME NEW id \in Id, positions[id].liquidity # 0, NEW k \in Token
          PROVE  /\ Below(new, h, u, positions[id].lower, k)
                      = Below(swap.ticks, h, swap.tick, positions[id].lower, k)
                 /\ Below(new, h, u, positions[id].upper, k)
                      = Below(swap.ticks, h, swap.tick, positions[id].upper, k)
      <4> DEFINE a == positions[id].lower
                 b == positions[id].upper
      <4>1. a \in Tick /\ b \in Tick
        BY <1>0 DEF PositionInfo
      <4>2. ticks[a].liquidity_gross # 0 /\ ticks[b].liquidity_gross # 0
        BY <1>0, <3>1, <4>1, UsedTicks DEF TicksInv
      <4> HIDE DEF a, b
      <4>3. /\ Below(new, h, u, a, k) = Below(swap.ticks, h, swap.tick, a, k)
            /\ Below(new, h, u, b, k) = Below(swap.ticks, h, swap.tick, b, k)
        BY <2>1, <2>5, <2>6, <4>1, <4>2, StepBelow
      <4> QED  BY <4>3 DEF a, b
    <3> HIDE DEF g, new, u
    <3> QED  BY <2>6, <3>1, InsideSame
  <2>7. InsideOk(positions, new, g, u)
    <3>1. InsideOk(positions, swap.ticks, RunningGrowth, swap.tick)
      BY <2>1 DEF InsideInv
    <3>2. \A id \in Id : positions[id].lower <= positions[id].upper
      BY DEF LiquidityInv
    <3> HIDE DEF g, new, u
    <3>3. \A k \in Token : RunningGrowth[k] <= g[k]
      BY <2>3
    <3>4. InsideOk(positions, swap.ticks, g, swap.tick)
      BY <1>0, <2>3, <2>4, <3>1, <3>2, <3>3, InsideGrows
    <3> QED  BY <2>3, <2>6, <3>4
  <2>8. fee = 0 => InsideOk(positions, new, fee_growth_global, u)
    <3> SUFFICES ASSUME fee = 0 PROVE InsideOk(positions, new, fee_growth_global, u)
      OBVIOUS
    <3>1. /\ \A k \in Token : fee_growth_global[k] < U256
          /\ Bounded(swap.ticks, fee_growth_global)
          /\ InsideOk(positions, swap.ticks, fee_growth_global, swap.tick)
      BY <2>1 DEF GrowthInv, InsideInv
    <3> HIDE DEF g, new, u
    <3> QED  BY <1>0, <2>3, <2>6, <3>1
  <2> HIDE DEF g, new, u
  <2> QED  BY <2>1, <2>2, <2>3, <2>7, <2>8 DEF InsideInv
<1>8. CASE swap' = NoSwap /\ UNCHANGED <<fee_growth_global, ticks, cur_tick, positions>>
  BY <1>8, EmptyTypes DEF InsideInv
<1>9. CASE SwapCommit
  <2>1. /\ swap.active /\ swap' = NoSwap /\ ticks' = swap.ticks /\ cur_tick' = swap.tick
        /\ fee_growth_global' = IF fee = 0 THEN fee_growth_global ELSE RunningGrowth
        /\ UNCHANGED positions
    BY <1>9 DEF SwapCommit, RunningGrowth, Side
  <2> QED  BY <2>1, EmptyTypes DEF InsideInv
<1>10. CASE SwapLoop
  BY <1>7, <1>8, <1>9, <1>10 DEF SwapLoop, SwapReverts, SwapDiscard, market
<1>11. CASE Admin
  BY <1>1, <1>2, <1>11 DEF Admin, SetEnabled, SetSqrtPrice, config, market
<1>12. CASE Mint
  BY <1>1, <1>3, <1>12 DEF Mint, MintElsewhere, config, market
<1>13. CASE Operate
  BY <1>4, <1>5, <1>6, <1>13, AdjustUpdates, PoolAssumption DEF Operate
<1>14. CASE UNCHANGED vars
  BY <1>1, <1>14 DEF vars, config, market
<1> QED  BY <1>10, <1>11, <1>12, <1>13, <1>14 DEF Next

\* update_position keeps the gross liquidity of every tick within the limit.
LEMMA UpdateKeepsCap ==
    ASSUME TypeOK, NEW p \in PositionInfo, NEW delta \in Int, UpdateOk(p, delta), NEW t \in Tick,
           ticks[t].liquidity_gross <= max_liquidity_per_tick
    PROVE  ticks_cleared(p, delta)[t].liquidity_gross <= max_liquidity_per_tick
<1> DEFINE low == ticks_lower_updated(p, delta)
<1>1. ticks_cleared(p, delta)[t].liquidity_gross = ticks_updated(p, delta)[t].liquidity_gross
  BY ClearedGross
<1>2. /\ ticks_updated(p, delta)[t].liquidity_gross
           = ticks[t].liquidity_gross + (IF t = p.lower THEN delta ELSE 0)
                                      + (IF t = p.upper THEN delta ELSE 0)
      /\ low[t].liquidity_gross = ticks[t].liquidity_gross + (IF t = p.lower THEN delta ELSE 0)
  BY UpdatedLiquidity
<1>3. delta # 0 => /\ ticks[p.lower].liquidity_gross + delta <= max_liquidity_per_tick
                   /\ low[p.upper].liquidity_gross + delta <= max_liquidity_per_tick
  BY DEF UpdateOk, tick_update_ok
<1>4. ticks[t].liquidity_gross \in Nat /\ max_liquidity_per_tick \in Nat
  BY DEF TypeOK, TickInfo
<1> HIDE DEF low
<1> QED  BY <1>1, <1>2, <1>3, <1>4

\* Every step keeps liquidity within its word and the limit of a tick.
LEMMA CapNext ==
    ASSUME OnlySwapsMovePrice, PoolInv, PriceInv, TicksInv, CapInv, [Next]_vars
    PROVE  CapInv'
<1>0. /\ positions \in [Id -> PositionInfo] /\ ticks \in [Tick -> TickInfo]
      /\ liquidity \in Nat /\ U128 \in Nat \ {0}
  BY Constants DEF PoolInv, TypeOK
<1>1. CASE UNCHANGED <<max_liquidity_per_tick, ticks, liquidity, swap>>
  BY <1>1 DEF CapInv
<1>2. ASSUME NEW a \in InitParams, InitPool(a[1], a[2], a[3], a[4]) PROVE CapInv'
  <2>1. /\ ~swap.active /\ sqrt_price = 0 /\ max_liquidity_per_tick' = a[4]
        /\ UNCHANGED <<ticks, liquidity, swap>>
    BY <1>2 DEF InitPool
  <2>2. a[4] \in 0 .. U128 - 1
    BY PoolAssumption
  <2>3. \A t \in Tick : ticks[t].liquidity_gross = 0
    BY <2>1 DEF PriceInv, StoredPriceOk, PoolInv, UninitialisedIsEmpty
  <2> QED  BY <1>0, <2>1, <2>2, <2>3 DEF CapInv
<1>3. ASSUME NEW id \in Id, NEW delta \in Int, UpdatePosition(id, delta) PROVE CapInv'
  <2> DEFINE p == positions[id]
  <2>1. UpdateOk(p, delta) /\ p \in PositionInfo /\ TypeOK
    BY <1>0, <1>3, UpdateEffect DEF PoolInv
  <2>2. /\ ~swap.active /\ UNCHANGED <<max_liquidity_per_tick, swap>>
        /\ ticks' = ticks_cleared(p, delta)
        /\ liquidity' = IF in_range(p, cur_tick) THEN liquidity + delta ELSE liquidity
        /\ (delta # 0 /\ in_range(p, cur_tick)) => add_delta_ok(liquidity, delta)
    BY <1>3 DEF UpdatePosition, update_position, update_position_ok, config
  <2> HIDE DEF p
  <2>3. liquidity' < U128
    BY <1>0, <2>2 DEF add_delta_ok, CapInv
  <2>4. \A t \in Tick : ticks'[t].liquidity_gross <= max_liquidity_per_tick
    BY <2>1, <2>2, UpdateKeepsCap DEF CapInv
  <2> QED  BY <2>2, <2>3, <2>4 DEF CapInv
<1>4. ASSUME NEW z, NEW a, NEW lim, SwapBegin(z, a, lim) PROVE CapInv'
  BY <1>4 DEF SwapBegin, swap_start, config, market, CapInv
<1>5. CASE SwapStep
  <2> DEFINE step == SwapStepResult(swap)
  <2>1. /\ swap.active /\ ~StepFails(swap, step) /\ swap' = AfterStep(swap, step)
        /\ UNCHANGED <<max_liquidity_per_tick, ticks, liquidity>>
    BY <1>5 DEF SwapStep, config, market
  <2>2. swap'.liquidity = liquidity_after(swap, step)
    BY <2>1 DEF AfterStep, PoolInv, TypeOK, SwapInfo
  <2> HIDE DEF step
  <2>3. liquidity_after(swap, step) < U128
    BY <1>0, <2>1 DEF liquidity_after, StepFails, add_delta_ok, CapInv
  <2> QED  BY <2>1, <2>2, <2>3 DEF CapInv
<1>6. CASE swap' = NoSwap /\ UNCHANGED <<max_liquidity_per_tick, ticks, liquidity>>
  BY <1>6, EmptyTypes DEF CapInv
<1>7. CASE SwapCommit
  <2>1. /\ swap.active /\ swap' = NoSwap /\ ticks' = swap.ticks /\ liquidity' = swap.liquidity
        /\ UNCHANGED max_liquidity_per_tick
    BY <1>7 DEF SwapCommit, config
  <2>2. \A t \in Tick : swap.ticks[t].liquidity_gross = ticks[t].liquidity_gross
    BY <2>1 DEF TicksInv, Matches
  <2> QED  BY <2>1, <2>2, EmptyTypes DEF CapInv
<1>8. CASE SwapLoop
  BY <1>5, <1>6, <1>7, <1>8 DEF SwapLoop, SwapReverts, SwapDiscard, market, config
<1>9. CASE Admin
  BY <1>1, <1>2, <1>9 DEF Admin, SetEnabled, SetSqrtPrice, config, market
<1>10. CASE Mint
  BY <1>1, <1>10 DEF Mint, CreatePosition, MintElsewhere, config, market
<1>11. CASE Operate
  <2>1. ASSUME NEW id \in Id, Collect(id) PROVE CapInv'
    BY <1>1, <2>1 DEF Collect, config, market
  <2> QED  BY <1>3, <1>4, <1>11, <2>1, AdjustUpdates, PoolAssumption DEF Operate
<1>12. CASE UNCHANGED vars
  BY <1>1, <1>12 DEF vars, config, market
<1> QED  BY <1>8, <1>9, <1>10, <1>11, <1>12 DEF Next

\* Before init there is nothing to withdraw.
LEMMA WithdrawInit == Init => InsideInv /\ CapInv
<1> SUFFICES ASSUME Init PROVE InsideInv /\ CapInv
  OBVIOUS
<1>1. ~swap.active
  BY EmptyTypes DEF Init
<1>2. \A id \in Id : positions[id].liquidity = 0
  BY DEF Init, EmptyPosition
<1>3. \A t \in Tick : ticks[t].liquidity_gross = 0
  BY DEF Init, EmptyTick
<1> QED  BY <1>1, <1>2, <1>3, Constants DEF Init, InsideInv, InsideOk, CapInv

\* With both its ticks in use and its liquidity counted in them and in the pool,
\* a position passes every check of update_position but the limits on adding.
LEMMA UpdateSucceeds ==
    ASSUME PoolInv, PriceInv, TicksInv, LiquidityInv, GrowthInv, InsideInv, CapInv, enabled,
           NEW id \in Id, positions[id].liquidity > 0, NEW delta \in Int,
           UpdateOk(positions[id], delta), add_delta_ok(positions[id].liquidity, delta),
           in_range(positions[id], cur_tick) => add_delta_ok(liquidity, delta)
    PROVE  update_position_ok(id, delta)
<1> DEFINE p == positions[id]
           upd == ticks_updated(p, delta)
           inside == get_fee_growth_inside(upd, p.lower, p.upper)
<1>1. /\ positions \in [Id -> PositionInfo] /\ TypeOK /\ p \in PositionInfo
      /\ p.lower \in Tick /\ p.upper \in Tick /\ p.liquidity # 0
      /\ fee_growth_global \in [Token -> Nat] /\ ticks \in [Tick -> TickInfo]
  BY DEF PoolInv, TypeOK, PositionInfo
<1>2. ticks[p.lower].liquidity_gross # 0 /\ ticks[p.upper].liquidity_gross # 0
  BY <1>1, UsedTicks DEF TicksInv
<1>3. sqrt_price # 0
  BY <1>1 DEF LiquidityInv, PriceInv, StoredPriceOk
<1>4. upd \in [Tick -> TickInfo]
  BY <1>1, TicksUpdatedType
<1>5. /\ upd[p.lower].fee_growth_outside = ticks[p.lower].fee_growth_outside
      /\ upd[p.upper].fee_growth_outside = ticks[p.upper].fee_growth_outside
  <2> HIDE DEF p
  <2> QED  BY <1>1, <1>2, UpdateOutside DEF p
<1>6. \A k \in Token : p.fee_growth_inside[k] <= Below(ticks, fee_growth_global, cur_tick, p.upper, k)
                                                - Below(ticks, fee_growth_global, cur_tick, p.lower, k)
  BY <1>1 DEF InsideInv, InsideOk
<1> HIDE DEF p, upd
<1>7. ASSUME NEW k \in Token
      PROVE  /\ fee_growth_below(upd, p.lower, k) >= 0 /\ fee_growth_above(upd, p.upper, k) >= 0
             /\ inside[k] >= p.fee_growth_inside[k] /\ inside[k] >= 0
  <2> DEFINE g == fee_growth_global[k]
             o == ticks[p.lower].fee_growth_outside[k]
             q == ticks[p.upper].fee_growth_outside[k]
  <2>1. g \in Nat /\ o \in Nat /\ q \in Nat /\ o <= g /\ q <= g
    BY <1>1 DEF TickInfo, GrowthInv, Bounded
  <2>2. /\ fee_growth_below(upd, p.lower, k) = IF cur_tick >= p.lower THEN o ELSE g - o
        /\ fee_growth_above(upd, p.upper, k) = IF cur_tick < p.upper THEN q ELSE g - q
    BY <1>5 DEF fee_growth_below, fee_growth_above
  <2>3. inside[k] = Below(ticks, fee_growth_global, cur_tick, p.upper, k)
                    - Below(ticks, fee_growth_global, cur_tick, p.lower, k)
    <3>1. inside[k] = Below(upd, fee_growth_global, cur_tick, p.upper, k)
                      - Below(upd, fee_growth_global, cur_tick, p.lower, k)
      BY <1>1, <1>4, InsideIsBelow
    <3> QED  BY <1>5, <3>1 DEF Below
  <2>4. /\ Below(ticks, fee_growth_global, cur_tick, p.upper, k) \in Int
        /\ Below(ticks, fee_growth_global, cur_tick, p.lower, k) \in Int
    BY <1>1, BelowType
  <2>5. p.fee_growth_inside[k] \in Nat
    BY <1>1 DEF PositionInfo
  <2> HIDE DEF g, o, q, inside
  <2>6. fee_growth_below(upd, p.lower, k) >= 0 /\ fee_growth_above(upd, p.upper, k) >= 0
    BY <2>1, <2>2
  <2>7. inside[k] >= p.fee_growth_inside[k] /\ inside[k] >= 0
    BY <1>6, <2>3, <2>4, <2>5
  <2> QED  BY <2>6, <2>7
<1>8. get_fee_growth_inside_ok(upd, p.lower, p.upper)
  BY <1>7 DEF get_fee_growth_inside_ok
<1>9. position_update_ok(p, delta, inside)
  BY <1>7 DEF position_update_ok, p
<1> HIDE DEF inside
<1> QED  BY <1>3, <1>8, <1>9 DEF update_position_ok, UpdateOk, p, upd, inside

\* A position's liquidity is counted at both its ticks, twice if they are one,
\* and in the pool while the range holds the current tick.
LEMMA LiquidityCounted ==
    ASSUME PoolInv, TicksInv, LiquidityInv, CapInv, NEW id \in Id, positions[id].liquidity > 0
    PROVE  /\ UpdateOk(positions[id], -positions[id].liquidity)
           /\ positions[id].liquidity <= ticks[positions[id].lower].liquidity_gross
           /\ in_range(positions[id], cur_tick) => positions[id].liquidity <= liquidity
<1> DEFINE p == positions[id]
           l == p.liquidity
           s(t) == Amount(positions, Starting(positions, t))
           e(t) == Amount(positions, Ending(positions, t))
<1>1. /\ positions \in [Id -> PositionInfo] /\ TypeOK /\ p \in PositionInfo
      /\ p.lower \in Tick /\ p.upper \in Tick /\ l \in Nat \ {0}
  BY DEF PoolInv, TypeOK, PositionInfo
<1>2. ASSUME NEW t \in Tick
      PROVE  /\ s(t) \in Nat /\ e(t) \in Nat /\ ticks[t].liquidity_gross = s(t) + e(t)
             /\ ticks[t].liquidity_gross <= max_liquidity_per_tick
             /\ t = p.lower => l <= s(t)
             /\ t = p.upper => l <= e(t)
  <2>1. Starting(positions, t) \in SUBSET Id /\ Ending(positions, t) \in SUBSET Id
    BY DEF Starting, Ending
  <2>2. t = p.lower => id \in Starting(positions, t)
    BY DEF Starting
  <2>3. t = p.upper => id \in Ending(positions, t)
    BY DEF Ending
  <2>4. s(t) \in Nat /\ e(t) \in Nat
    BY <1>1, <2>1, AmountType
  <2> QED  BY <1>1, <2>1, <2>2, <2>3, <2>4, AmountMember DEF TicksInv, Matches, CapInv
<1>3. in_range(p, cur_tick) => l <= liquidity
  <2>1. InRange(positions, cur_tick) \in SUBSET Id
    BY DEF InRange
  <2>2. in_range(p, cur_tick) => id \in InRange(positions, cur_tick)
    BY DEF InRange
  <2> QED  BY <1>1, <2>1, <2>2, AmountMember DEF LiquidityInv
<1>4. max_liquidity_per_tick \in Nat /\ max_liquidity_per_tick < U128 /\ U128 \in Nat
  BY Constants DEF PoolInv, TypeOK, CapInv
<1>5. ticks_lower_updated(p, -l)[p.upper].liquidity_gross
        = ticks[p.upper].liquidity_gross + (IF p.upper = p.lower THEN -l ELSE 0)
  <2>1. -l \in Int
    BY <1>1
  <2> HIDE DEF l, p
  <2> QED  BY <1>1, <2>1, UpdatedLiquidity
<1>6. /\ s(p.lower) \in Nat /\ e(p.lower) \in Nat
      /\ ticks[p.lower].liquidity_gross = s(p.lower) + e(p.lower)
      /\ ticks[p.lower].liquidity_gross <= max_liquidity_per_tick /\ l <= s(p.lower)
  BY <1>1, <1>2
<1>7. /\ s(p.upper) \in Nat /\ e(p.upper) \in Nat
      /\ ticks[p.upper].liquidity_gross = s(p.upper) + e(p.upper)
      /\ ticks[p.upper].liquidity_gross <= max_liquidity_per_tick /\ l <= e(p.upper)
      /\ p.upper = p.lower => l <= s(p.upper)
  BY <1>1, <1>2
<1> HIDE DEF s, e, l, p
<1>8. tick_update_ok(ticks[p.lower], -l)
  BY <1>1, <1>4, <1>6 DEF tick_update_ok, add_delta_ok
<1>9. tick_update_ok(ticks_lower_updated(p, -l)[p.upper], -l)
  BY <1>1, <1>4, <1>5, <1>7 DEF tick_update_ok, add_delta_ok
<1>10. UpdateOk(p, -l) /\ l <= ticks[p.lower].liquidity_gross
  BY <1>1, <1>6, <1>8, <1>9 DEF UpdateOk
<1> QED  BY <1>3, <1>10 DEF p, l

\* In an enabled pool every position with liquidity can withdraw all of it, and
\* can be added to within the liquidity limits: whatever swaps, deposits and
\* withdrawals came before, no subtraction of fee growths or of liquidity fails.
THEOREM ProvidersCanWithdraw ==
    ASSUME OnlySwapsMovePrice, RangesCounted
    PROVE  Spec /\ []GrowthInWord => []CanWithdraw
<1>1. SpacingIsFixed
  BY DEF OnlySwapsMovePrice, SpacingIsFixed
<1>2. PoolInv /\ TicksInv /\ BitmapInv /\ [Next]_vars => BitmapInv'
  BY <1>1, BitmapNext
<1>3. PoolInv /\ PriceInv /\ TicksInv /\ BitmapInv /\ LiquidityInv /\ [Next]_vars => LiquidityInv'
  BY LiquidityNext
<1>4. (/\ GrowthInWord /\ PoolInv /\ PriceInv /\ TicksInv /\ BitmapInv /\ LiquidityInv
       /\ GrowthInv /\ InsideInv /\ [Next]_vars) => InsideInv'
  BY InsideNext
<1>5. PoolInv /\ PriceInv /\ TicksInv /\ CapInv /\ [Next]_vars => CapInv'
  BY CapNext
<1>6. PoolInv /\ PriceInv /\ TicksInv /\ LiquidityInv /\ GrowthInv /\ InsideInv /\ CapInv =>
          CanWithdraw
  <2> SUFFICES ASSUME PoolInv, PriceInv, TicksInv, LiquidityInv, GrowthInv, InsideInv, CapInv,
                      enabled, NEW id \in Id, positions[id].liquidity > 0
               PROVE  /\ update_position_ok(id, -positions[id].liquidity)
                      /\ \A delta \in Deltas :
                             (/\ delta > 0 /\ add_delta_ok(liquidity, delta)
                              /\ UpdateOk(positions[id], delta)) => update_position_ok(id, delta)
    BY DEF CanWithdraw, UpdateOk
  <2> DEFINE l == positions[id].liquidity
  <2>1. l \in Nat \ {0} /\ U128 \in Nat \ {0} /\ liquidity \in Nat /\ liquidity < U128
        /\ ticks[positions[id].lower].liquidity_gross \in Nat
    <3>1. positions[id] \in PositionInfo /\ ticks \in [Tick -> TickInfo] /\ liquidity \in Nat
      BY DEF PoolInv, TypeOK
    <3>2. l \in Nat \ {0} /\ positions[id].lower \in Tick
      BY <3>1 DEF PositionInfo
    <3>3. ticks[positions[id].lower].liquidity_gross \in Nat
      BY <3>1, <3>2 DEF TickInfo
    <3> QED  BY <3>1, <3>2, <3>3, Constants DEF CapInv
  <2>2. /\ UpdateOk(positions[id], -l)
        /\ l <= ticks[positions[id].lower].liquidity_gross
        /\ in_range(positions[id], cur_tick) => l <= liquidity
    BY LiquidityCounted
  <2>3. update_position_ok(id, -l)
    <3> DEFINE d == -l
    <3>1. /\ d \in Int /\ add_delta_ok(l, d)
          /\ in_range(positions[id], cur_tick) => add_delta_ok(liquidity, d)
      <4> HIDE DEF l
      <4> QED  BY <2>1, <2>2 DEF add_delta_ok
    <3>2. UpdateOk(positions[id], d)
      BY <2>2
    <3> HIDE DEF d
    <3> QED  BY <3>1, <3>2, UpdateSucceeds DEF d
  <2>4. ASSUME NEW delta \in Deltas, delta > 0, add_delta_ok(liquidity, delta),
               UpdateOk(positions[id], delta)
        PROVE  update_position_ok(id, delta)
    <3>1. delta \in Int
      BY PoolAssumption
    <3>2. add_delta_ok(ticks[positions[id].lower].liquidity_gross, delta)
      BY <2>4, <3>1 DEF UpdateOk, tick_update_ok
    <3>3. add_delta_ok(l, delta)
      <4> HIDE DEF l
      <4> QED  BY <2>1, <2>2, <2>4, <3>1, <3>2 DEF add_delta_ok
    <3> QED  BY <2>4, <3>1, <3>3, UpdateSucceeds
  <2> QED  BY <2>3, <2>4
<1> QED  BY <1>2, <1>3, <1>4, <1>5, <1>6, BitmapInit, LiquidityInit, WithdrawInit, TicksInvariant,
            PriceInvariant, GrowthInvariant, PTL DEF Spec

-----------------------------------------------------------------------------
(* Solvency.  The amounts of a pool are quotients, rounded down when they are *)
(* paid out and up when they are taken in.  They are compared without the     *)
(* division: prices of token 0, which are reciprocals, are counted in a unit  *)
(* that every price divides, fees in units of 1 / Q128.                       *)

\* A sum of the values of one function and a multiple of those of another.
LEMMA SumLinear ==
    ASSUME NEW I, IsFiniteSet(I), NEW f \in [I -> Int], NEW g \in [I -> Int], NEW h \in [I -> Int],
           NEW c \in Int, \A x \in I : h[x] = f[x] + c * g[x]
    PROVE  SumFunctionOnSet(h, I) = SumFunctionOnSet(f, I) + c * SumFunctionOnSet(g, I)
<1> DEFINE F(T) == SumFunctionOnSet(f, T)
           G(T) == SumFunctionOnSet(g, T)
           H(T) == SumFunctionOnSet(h, T)
           Bad == {T \in SUBSET I : H(T) # F(T) + c * G(T)}
<1> SUFFICES ASSUME Bad # {} PROVE FALSE
  OBVIOUS
<1>1. PICK T \in Bad : \A U \in SUBSET T : U # T => U \notin Bad
  <2>1. Bad \in SUBSET (SUBSET I)
    OBVIOUS
  <2> HIDE DEF Bad
  <2> QED  BY <2>1, SmallestSubset
<1>2. T \in SUBSET I /\ IsFiniteSet(T)
  BY FS_Subset
<1>3. T # {}
  <2> SUFFICES ASSUME T = {} PROVE FALSE
    OBVIOUS
  <2>1. F(T) = 0 /\ G(T) = 0 /\ H(T) = 0
    BY SumEmpty
  <2>2. H(T) = F(T) + c * G(T)
    BY <2>1
  <2> QED  BY <2>2
<1>4. Pick(T) \in I /\ Rest(T) \in SUBSET I /\ Rest(T) \notin Bad
  BY <1>1, <1>2, <1>3, RestSmaller
<1>5. H(Rest(T)) = F(Rest(T)) + c * G(Rest(T)) /\ h[Pick(T)] = f[Pick(T)] + c * g[Pick(T)]
  BY <1>4
<1>6. /\ F(T) = f[Pick(T)] + F(Rest(T))
      /\ G(T) = g[Pick(T)] + G(Rest(T))
      /\ H(T) = h[Pick(T)] + H(Rest(T))
  BY <1>2, <1>3, SumUnfolds
<1>7. F(Rest(T)) \in Int /\ G(Rest(T)) \in Int /\ f[Pick(T)] \in Int /\ g[Pick(T)] \in Int
  BY <1>4, SumType
<1>8. H(T) # F(T) + c * G(T)
  OBVIOUS
<1> DEFINE a == f[Pick(T)]
           b == g[Pick(T)]
           u == F(Rest(T))
           v == G(Rest(T))
<1>9. a \in Int /\ b \in Int /\ u \in Int /\ v \in Int /\ F(T) = a + u /\ G(T) = b + v
      /\ H(T) = (a + c * b) + (u + c * v)
  BY <1>5, <1>6, <1>7
<1> HIDE DEF F, G, H, Bad, a, b, u, v
<1>10. (a + c * b) + (u + c * v) = (a + u) + c * (b + v)
  BY <1>9
<1> QED  BY <1>8, <1>9, <1>10

\* Larger values have the larger sum.
LEMMA SumOrder ==
    ASSUME NEW I, IsFiniteSet(I), NEW f \in [I -> Int], NEW g \in [I -> Int],
           \A x \in I : f[x] <= g[x]
    PROVE  SumFunctionOnSet(f, I) <= SumFunctionOnSet(g, I)
<1> DEFINE d == [x \in I |-> g[x] - f[x]]
<1>1. d \in [I -> Nat] /\ d \in [I -> Int] /\ \A x \in I : g[x] = f[x] + 1 * d[x]
  OBVIOUS
<1> HIDE DEF d
<1>2. SumFunctionOnSet(d, I) \in Nat /\ SumFunctionOnSet(f, I) \in Int
  BY <1>1, SumType
<1>3. SumFunctionOnSet(g, I) = SumFunctionOnSet(f, I) + 1 * SumFunctionOnSet(d, I)
  BY <1>1, SumLinear
<1> QED  BY <1>2, <1>3

\* The sum of multiples.
LEMMA SumScale ==
    ASSUME NEW I, IsFiniteSet(I), NEW f \in [I -> Int], NEW g \in [I -> Int], NEW c \in Int,
           \A x \in I : g[x] = c * f[x]
    PROVE  SumFunctionOnSet(g, I) = c * SumFunctionOnSet(f, I)
<1> DEFINE zero == [x \in I |-> 0]
<1>1. zero \in [I -> Int] /\ \A x \in I : zero[x] = 0
  OBVIOUS
<1> HIDE DEF zero
<1>2. SumFunctionOnSet(zero, I) = 0
  <2>1. PICK S \in SUBSET I : S = I
    OBVIOUS
  <2>2. Support(zero, S) = {}
    BY <1>1 DEF Support
  <2>3. SumFunctionOnSet(zero, S) = SumFunctionOnSet(zero, Support(zero, S))
    BY <1>1, SumOnSupport
  <2> QED  BY <2>1, <2>2, <2>3, SumEmpty
<1>3. \A x \in I : g[x] = zero[x] + c * f[x]
  <2>1. \A x \in I : c * f[x] \in Int
    OBVIOUS
  <2> QED  BY <1>1, <2>1
<1>4. SumFunctionOnSet(g, I) = SumFunctionOnSet(zero, I) + c * SumFunctionOnSet(f, I)
  BY <1>1, <1>3, SumLinear
<1>5. SumFunctionOnSet(f, I) \in Int
  BY SumType
<1> QED  BY <1>2, <1>4, <1>5

\* Adding to some of the positions a multiple of their liquidity.
LEMMA SumShift ==
    ASSUME NEW pos \in [Id -> PositionInfo], NEW S \in SUBSET Id, NEW c \in Int,
           NEW f \in [Id -> Int], NEW h \in [Id -> Int],
           \A id \in S : h[id] = f[id] + c * pos[id].liquidity,
           \A id \in Id \ S : h[id] = f[id]
    PROVE  SumFunctionOnSet(h, Id) = SumFunctionOnSet(f, Id) + c * Amount(pos, S)
<1> DEFINE l == [id \in Id |-> pos[id].liquidity]
           g == [id \in Id |-> IF id \in S THEN pos[id].liquidity ELSE 0]
<1>1. l \in [Id -> Int] /\ IsFiniteSet(Id) /\ Id \in SUBSET Id
  BY AmountType
<1>2. g \in [Id -> Int] /\ \A id \in Id : g[id] = IF id \in S THEN l[id] ELSE 0
  BY <1>1
<1>3. \A id \in Id : h[id] = f[id] + c * g[id]
  <2> SUFFICES ASSUME NEW id \in Id PROVE h[id] = f[id] + c * g[id]
    OBVIOUS
  <2>1. CASE id \in S
    BY <2>1
  <2>2. CASE id \notin S
    <3>1. g[id] = 0 /\ h[id] = f[id] /\ f[id] \in Int /\ c * 0 = 0
      BY <2>2
    <3> QED  BY <3>1
  <2> QED  BY <2>1, <2>2
<1>4. Amount(pos, S) = SumFunctionOnSet(l, S)
  BY DEF Amount
<1> HIDE DEF l, g
<1>5. SumFunctionOnSet(h, Id) = SumFunctionOnSet(f, Id) + c * SumFunctionOnSet(g, Id)
  <2>1. g \in [Id -> Int] /\ IsFiniteSet(Id)
    BY <1>1, <1>2
  <2> QED  BY <1>3, <2>1, SumLinear
<1>6. SumFunctionOnSet(g, Id) = SumFunctionOnSet(g, S)
  <2>1. Support(g, Id) = Support(g, S)
    BY <1>2 DEF Support
  <2> QED  BY <1>1, <1>2, <2>1, SumSameSupport
<1>7. SumFunctionOnSet(g, S) = SumFunctionOnSet(l, S)
  BY <1>1, <1>2, SumAgree
<1> QED  BY <1>4, <1>5, <1>6, <1>7

\* A number that every price up to MAX_SQRT_RATIO divides, and the quotients.
Price          == 1 .. MAX_SQRT_RATIO
Multiple(m, n) == \A s \in 1 .. n : \E q \in Nat : m = s * q
Whole          == CHOOSE m \in Nat \ {0} : Multiple(m, MAX_SQRT_RATIO)
Recip(x)       == CHOOSE q \in Nat : Whole = x * q

\* Numbers have common multiples.
LEMMA MultipleExists == ASSUME NEW n \in Nat PROVE \E m \in Nat \ {0} : Multiple(m, n)
<1> DEFINE Good(i) == \E m \in Nat \ {0} : Multiple(m, i)
           Bad == {i \in Nat : ~Good(i)}
<1> SUFFICES ASSUME Bad # {} PROVE FALSE
  OBVIOUS
<1>1. PICK i \in Bad : \A j \in Bad : i <= j
  <2>1. Bad \in SUBSET Nat
    OBVIOUS
  <2> HIDE DEF Bad
  <2> QED  BY <2>1, LeastNatural
<1>2. i \in Nat /\ ~Good(i)
  OBVIOUS
<1>3. i # 0
  <2> SUFFICES ASSUME i = 0 PROVE FALSE
    OBVIOUS
  <2>1. Multiple(1, i)
    BY DEF Multiple
  <2> QED  BY <1>2, <2>1
<1> DEFINE j == i - 1
<1>4. j \in Nat /\ i = j + 1 /\ ~(i <= j)
  BY <1>2, <1>3
<1>5. Good(j)
  BY <1>1, <1>4
<1> HIDE DEF j
<1>6. PICK m \in Nat \ {0} : Multiple(m, j)
  BY <1>5
<1>7. m * i \in Nat \ {0}
  <2>1. m * i = m * j + m /\ m * j \in Nat
    BY <1>4, MulType
  <2> QED  BY <2>1
<1>8. ASSUME NEW s \in 1 .. i PROVE \E q \in Nat : m * i = s * q
  <2>1. CASE s = i
    <3>1. m * i = i * m
      BY <1>2
    <3> QED  BY <2>1, <3>1
  <2>2. CASE s # i
    <3>1. s \in 1 .. j /\ s \in Nat
      BY <1>2, <1>4, <2>2
    <3>2. PICK q \in Nat : m = s * q
      BY <1>6, <3>1 DEF Multiple
    <3>3. q * i \in Nat /\ m * i = s * (q * i)
      BY <1>2, <3>1, <3>2, MulType
    <3> QED  BY <3>3
  <2> QED  BY <2>1, <2>2
<1>9. Good(i)
  BY <1>7, <1>8 DEF Multiple
<1> QED  BY <1>2, <1>9

\* Every price has its quotient, the larger price the smaller.
LEMMA RecipFacts ==
    ASSUME NEW x \in Price, NEW y \in Price
    PROVE  /\ x \in Nat \ {0} /\ Whole \in Nat \ {0}
           /\ Recip(x) \in Nat /\ x * Recip(x) = Whole
           /\ x <= y => Recip(y) <= Recip(x)
<1>1. MAX_SQRT_RATIO \in Nat
  BY Constants
<1>2. Whole \in Nat \ {0} /\ Multiple(Whole, MAX_SQRT_RATIO)
  BY <1>1, MultipleExists DEF Whole
<1>3. x \in Nat \ {0} /\ y \in Nat \ {0}
  BY <1>1 DEF Price
<1>4. /\ Recip(x) \in Nat /\ x * Recip(x) = Whole
      /\ Recip(y) \in Nat /\ y * Recip(y) = Whole
  <2>1. (\E q \in Nat : Whole = x * q) /\ (\E q \in Nat : Whole = y * q)
    BY <1>2 DEF Multiple, Price
  <2> QED  BY <2>1 DEF Recip
<1>5. ASSUME x <= y PROVE Recip(y) <= Recip(x)
  <2> DEFINE r == Recip(x)
             s == Recip(y)
  <2> SUFFICES ASSUME r + 1 <= s PROVE FALSE
    BY <1>4
  <2> HIDE DEF r, s
  <2>1. r \in Nat /\ s \in Nat /\ x * r = Whole /\ y * s = Whole
    BY <1>4 DEF r, s
  <2>2. x * s <= y * s
    BY <1>3, <1>5, <2>1, MulOrder
  <2>3. (r + 1) * x <= s * x
    BY <1>3, <2>1, MulOrder
  <2>4. (r + 1) * x = x * r + x /\ s * x = x * s /\ x * s \in Int
    BY <1>3, <2>1
  <2> QED  BY <1>2, <1>3, <2>1, <2>2, <2>3, <2>4
<1> QED  BY <1>2, <1>3, <1>4, <1>5

\* A positive factor cancels.
LEMMA MulCancel ==
    ASSUME NEW x \in Int, NEW y \in Int, NEW w \in Nat \ {0}, x * w <= y * w
    PROVE  x <= y
<1> SUFFICES ASSUME y + 1 <= x PROVE FALSE
  OBVIOUS
<1>1. (y + 1) * w <= x * w
  BY MulOrder
<1>2. (y + 1) * w = y * w + w /\ y * w \in Int /\ x * w \in Int
  OBVIOUS
<1> QED  BY <1>1, <1>2

\* Comparing with a difference of reciprocals.
LEMMA RecipCompare ==
    ASSUME NEW a \in Int, NEW b \in Int, NEW lo \in Nat, NEW hi \in Nat, NEW r \in Nat, NEW s \in Nat,
           NEW w \in Nat \ {0}, lo * r = w, hi * s = w
    PROVE  /\ (a * lo) * hi <= b * (hi - lo) => w * a <= b * (r - s)
           /\ b * (hi - lo) <= (a * lo) * hi => b * (r - s) <= w * a
<1> DEFINE rs == r * s
           A == (a * lo) * hi
           B == b * (hi - lo)
           C == w * a
           D == b * (r - s)
<1>1. rs \in Nat /\ A \in Int /\ B \in Int /\ C \in Int /\ D \in Int
  BY MulType
<1>2. A * rs = C * w
  <2>1. A * rs = (a * (lo * r)) * (hi * s)
    OBVIOUS
  <2>2. (a * w) * w = C * w
    OBVIOUS
  <2> QED  BY <2>1, <2>2
<1>3. B * rs = D * w
  <2>1. B * rs = b * ((hi * s) * r - (lo * r) * s)
    OBVIOUS
  <2>2. b * (w * r - w * s) = D * w
    OBVIOUS
  <2> QED  BY <2>1, <2>2
<1> HIDE DEF rs, A, B, C, D
<1>4. ASSUME A <= B PROVE C <= D
  <2>1. A * rs <= B * rs
    BY <1>1, <1>4, MulOrder
  <2>2. C * w <= D * w
    BY <1>2, <1>3, <2>1
  <2> QED  BY <1>1, <2>2, MulCancel
<1>5. ASSUME B <= A PROVE D <= C
  <2>1. B * rs <= A * rs
    BY <1>1, <1>5, MulOrder
  <2>2. D * w <= C * w
    BY <1>2, <1>3, <2>1
  <2> QED  BY <1>1, <2>2, MulCancel
<1> QED  BY <1>4, <1>5 DEF A, B, C, D

\* What one unit of liquidity is worth at a price is a difference of these: of
\* token 0 the reciprocal, of token 1 the price, counted in 1 / Unit(k) tokens.
Unit(k)     == IF k = 0 THEN Whole ELSE Q96
Scale(k, x) == IF k = 0 THEN Q96 * Recip(x) ELSE x

\* Units and scales are naturals.
LEMMA ScaleType ==
    ASSUME NEW k \in Token, NEW x \in Price
    PROVE  Unit(k) \in Nat \ {0} /\ Scale(k, x) \in Nat
<1>1. Whole \in Nat \ {0} /\ Recip(x) \in Nat /\ x \in Nat /\ Q96 \in Nat \ {0}
  BY RecipFacts, Constants
<1>2. Q96 * Recip(x) \in Nat
  BY <1>1, MulType
<1> QED  BY <1>1, <1>2 DEF Unit, Scale

\* Token 0 falls and token 1 rises with the price.
LEMMA ScaleOrder ==
    ASSUME NEW x \in Price, NEW y \in Price, x <= y
    PROVE  Scale(0, y) <= Scale(0, x) /\ Scale(1, x) <= Scale(1, y)
<1>1. Recip(x) \in Nat /\ Recip(y) \in Nat /\ Recip(y) <= Recip(x) /\ Q96 \in Nat
  BY RecipFacts, Constants
<1>2. Recip(y) * Q96 <= Recip(x) * Q96
  BY <1>1, MulOrder
<1>3. Recip(y) * Q96 = Q96 * Recip(y) /\ Recip(x) * Q96 = Q96 * Recip(x)
  BY <1>1
<1> QED  BY <1>2, <1>3 DEF Scale

\* The amounts between two prices, rounded down and up, enclose the worth of the
\* liquidity.
LEMMA AmountsScaled ==
    ASSUME NEW lo \in Price, NEW hi \in Price, lo <= hi, NEW l \in Nat
    PROVE  /\ Unit(0) * Down0(lo, hi, l) <= l * (Scale(0, lo) - Scale(0, hi))
           /\ l * (Scale(0, lo) - Scale(0, hi)) <= Unit(0) * Up0(lo, hi, l)
           /\ Unit(1) * Down1(lo, hi, l) <= l * (Scale(1, hi) - Scale(1, lo))
           /\ l * (Scale(1, hi) - Scale(1, lo)) <= Unit(1) * Up1(lo, hi, l)
<1> DEFINE r == Recip(lo)
           s == Recip(hi)
           n == l * Q96
<1>1. /\ lo \in Nat \ {0} /\ hi \in Nat \ {0} /\ Whole \in Nat \ {0} /\ r \in Nat /\ s \in Nat
      /\ lo * r = Whole /\ hi * s = Whole /\ Q96 \in Nat \ {0} /\ n \in Nat
  BY RecipFacts, Constants, MulType
<1>2. ASSUME NEW a \in Nat
      PROVE  /\ Up0(lo, hi, l) <= a <=> (l * Q96) * (hi - lo) <= (a * lo) * hi
             /\ a <= Down0(lo, hi, l) <=> (a * lo) * hi <= (l * Q96) * (hi - lo)
             /\ Up1(lo, hi, l) <= a <=> l * (hi - lo) <= a * Q96
             /\ a <= Down1(lo, hi, l) <=> a * Q96 <= l * (hi - lo)
             /\ Down0(lo, hi, l) \in Nat /\ Up0(lo, hi, l) \in Nat
             /\ Down1(lo, hi, l) \in Nat /\ Up1(lo, hi, l) \in Nat
  <2>1. a \in Int
    OBVIOUS
  <2> QED  BY <1>1, <2>1, AmountFacts, Zenon
<1>3. /\ Down0(lo, hi, l) \in Nat /\ Up0(lo, hi, l) \in Nat /\ Down1(lo, hi, l) \in Nat
      /\ Up1(lo, hi, l) \in Nat
  <2>1. 0 \in Nat
    OBVIOUS
  <2> QED  BY <1>2, <2>1
<1>4. l * (Scale(0, lo) - Scale(0, hi)) = n * (r - s)
  <2>1. Scale(0, lo) = Q96 * r /\ Scale(0, hi) = Q96 * s
    BY DEF Scale
  <2> HIDE DEF r, s
  <2>2. l * (Q96 * r - Q96 * s) = (l * Q96) * (r - s)
    BY <1>1
  <2> QED  BY <2>1, <2>2
<1>5. Scale(1, hi) = hi /\ Scale(1, lo) = lo /\ Unit(0) = Whole /\ Unit(1) = Q96
  BY DEF Scale, Unit
<1> HIDE DEF r, s, n
<1>6. ASSUME NEW a \in Nat
      PROVE  /\ (a * lo) * hi <= n * (hi - lo) => Whole * a <= n * (r - s)
             /\ n * (hi - lo) <= (a * lo) * hi => n * (r - s) <= Whole * a
  BY <1>1, RecipCompare
<1>7. ASSUME NEW a \in Nat PROVE a * Q96 = Q96 * a
  BY <1>1
<1>8. Whole * Down0(lo, hi, l) <= n * (r - s) /\ n * (r - s) <= Whole * Up0(lo, hi, l)
  <2>1. /\ (Down0(lo, hi, l) * lo) * hi <= n * (hi - lo)
        /\ n * (hi - lo) <= (Up0(lo, hi, l) * lo) * hi
    BY <1>2, <1>3 DEF n
  <2> QED  BY <1>3, <1>6, <2>1
<1>9. Q96 * Down1(lo, hi, l) <= l * (hi - lo) /\ l * (hi - lo) <= Q96 * Up1(lo, hi, l)
  <2>1. /\ Down1(lo, hi, l) * Q96 <= l * (hi - lo)
        /\ l * (hi - lo) <= Up1(lo, hi, l) * Q96
    BY <1>2, <1>3
  <2> QED  BY <1>3, <1>7, <2>1
<1> QED  BY <1>4, <1>5, <1>8, <1>9

\* The price as a range sees it, and what its liquidity is worth there.
Within(p, x) ==
    IF x <= SqrtRatio[p.lower] THEN SqrtRatio[p.lower]
    ELSE IF x <= SqrtRatio[p.upper] THEN x ELSE SqrtRatio[p.upper]

Worth(p, x, k) ==
    Scale(k, Within(p, x)) - Scale(k, SqrtRatio[IF k = 0 THEN p.upper ELSE p.lower])

\* The prices of ticks, and what a range sees, are prices.
LEMMA WithinType ==
    ASSUME NEW p \in PositionInfo, NEW x \in Nat, p.lower <= p.upper
    PROVE  /\ SqrtRatio[p.lower] \in Price /\ SqrtRatio[p.upper] \in Price
           /\ SqrtRatio[p.lower] <= SqrtRatio[p.upper]
           /\ Within(p, x) \in Price /\ SqrtRatio[p.lower] <= Within(p, x)
           /\ Within(p, x) <= SqrtRatio[p.upper]
<1> DEFINE lo == SqrtRatio[p.lower]
           hi == SqrtRatio[p.upper]
<1>1. p.lower \in Tick /\ p.upper \in Tick /\ MAX_TICK \in Tick
  BY Constants DEF PositionInfo
<1>2. p.lower <= MAX_TICK /\ p.upper <= MAX_TICK
  BY <1>1, Constants DEF Tick
<1>3. lo <= MAX_SQRT_RATIO /\ hi <= MAX_SQRT_RATIO /\ lo <= hi
  BY <1>1, <1>2, RatioOrder DEF MAX_SQRT_RATIO
<1>4. lo \in Nat \ {0} /\ hi \in Nat \ {0} /\ MAX_SQRT_RATIO \in Nat
  BY <1>1, Constants
<1>5. Within(p, x) = IF x <= lo THEN lo ELSE IF x <= hi THEN x ELSE hi
  BY DEF Within
<1> HIDE DEF lo, hi
<1>6. lo \in Price /\ hi \in Price /\ Within(p, x) \in Price /\ lo <= Within(p, x) /\ Within(p, x) <= hi
  BY <1>3, <1>4, <1>5 DEF Price
<1> QED  BY <1>3, <1>6 DEF lo, hi

\* The worth of liquidity is a natural.
LEMMA WorthType ==
    ASSUME NEW p \in PositionInfo, NEW x \in Nat, p.lower <= p.upper, NEW k \in Token
    PROVE  Worth(p, x, k) \in Nat
<1> DEFINE lo == SqrtRatio[p.lower]
           hi == SqrtRatio[p.upper]
           y == Within(p, x)
<1>1. lo \in Price /\ hi \in Price /\ y \in Price /\ lo <= y /\ y <= hi
  BY WithinType
<1>2. Worth(p, x, k) = IF k = 0 THEN Scale(0, y) - Scale(0, hi) ELSE Scale(1, y) - Scale(1, lo)
  BY DEF Worth, Token
<1> HIDE DEF lo, hi, y
<1>3. /\ Scale(0, y) \in Nat /\ Scale(0, hi) \in Nat /\ Scale(1, y) \in Nat /\ Scale(1, lo) \in Nat
      /\ Scale(0, hi) <= Scale(0, y) /\ Scale(1, lo) <= Scale(1, y)
  BY <1>1, ScaleType, ScaleOrder DEF Token
<1> QED  BY <1>2, <1>3

\* A price lies on the side of a tick that its own tick says.
LEMMA TickSide ==
    ASSUME NEW x \in Nat, NEW t, InInterval(x, t), NEW b \in Tick
    PROVE  /\ t < b => x <= SqrtRatio[b]
           /\ b <= t => SqrtRatio[b] <= x
           /\ t \in Int
<1>1. t \in Tick /\ t + 1 \in Tick /\ t \in Int /\ b \in Int
      /\ SqrtRatio[t] <= x /\ x <= SqrtRatio[t + 1]
  BY Constants DEF InInterval, Tick
<1>2. SqrtRatio[t] \in Int /\ SqrtRatio[t + 1] \in Int /\ SqrtRatio[b] \in Int
  BY <1>1, Constants
<1>3. t + 1 <= b => SqrtRatio[t + 1] <= SqrtRatio[b]
  BY <1>1, RatioOrder
<1>4. b <= t => SqrtRatio[b] <= SqrtRatio[t]
  BY <1>1, RatioOrder
<1> QED  BY <1>1, <1>2, <1>3, <1>4

\* A deposit pays at least, and a withdrawal takes at most, what the liquidity
\* is worth.
LEMMA SignedAmounts ==
    ASSUME NEW lo \in Price, NEW hi \in Price, lo <= hi, NEW d \in Int
    PROVE  /\ get_amount_0_delta(lo, hi, d) \in Int /\ get_amount_1_delta(lo, hi, d) \in Int
           /\ d * (Scale(0, lo) - Scale(0, hi)) <= Unit(0) * get_amount_0_delta(lo, hi, d)
           /\ d * (Scale(1, hi) - Scale(1, lo)) <= Unit(1) * get_amount_1_delta(lo, hi, d)
<1> DEFINE v == Scale(0, lo) - Scale(0, hi)
           w == Scale(1, hi) - Scale(1, lo)
<1>1. /\ v \in Int /\ w \in Int /\ Unit(0) \in Nat \ {0} /\ Unit(1) \in Nat \ {0}
      /\ lo \in Nat \ {0} /\ hi \in Nat \ {0}
  BY ScaleType, RecipFacts DEF Token
<1>2. get_amount_0_delta(lo, hi, d) \in Int /\ get_amount_1_delta(lo, hi, d) \in Int
  BY <1>1, AmountDeltaTypes
<1> HIDE DEF v, w
<1>3. CASE d < 0
  <2> DEFINE e == -d
             a == Down0(lo, hi, e)
             b == Down1(lo, hi, e)
  <2>1. e \in Nat /\ d = -e
    BY <1>3
  <2>2. get_amount_0_delta(lo, hi, d) = -a /\ get_amount_1_delta(lo, hi, d) = -b
    BY <1>3, Zenon DEF get_amount_0_delta, get_amount_1_delta, Down0, Down1
  <2> HIDE DEF e
  <2>3. a \in Nat /\ b \in Nat
    <3>1. 0 \in Int
      OBVIOUS
    <3> QED  BY <1>1, <2>1, <3>1, AmountFacts
  <2>4. Unit(0) * a <= e * v /\ Unit(1) * b <= e * w
    BY <2>1, AmountsScaled DEF v, w
  <2> HIDE DEF a, b
  <2>5. /\ d * v = -(e * v) /\ d * w = -(e * w) /\ e * v \in Int /\ e * w \in Int
        /\ Unit(0) * (-a) = -(Unit(0) * a) /\ Unit(1) * (-b) = -(Unit(1) * b)
        /\ Unit(0) * a \in Int /\ Unit(1) * b \in Int
    BY <1>1, <2>1, <2>3
  <2>6. d * v <= Unit(0) * (-a) /\ d * w <= Unit(1) * (-b)
    <3> DEFINE i == e * v
               j == e * w
               m == Unit(0) * a
               n == Unit(1) * b
    <3>1. i \in Int /\ j \in Int /\ m \in Int /\ n \in Int /\ m <= i /\ n <= j
      BY <2>4, <2>5
    <3> HIDE DEF i, j, m, n
    <3>2. -i <= -m /\ -j <= -n
      BY <3>1
    <3> QED  BY <2>5, <3>2 DEF i, j, m, n
  <2> QED  BY <1>2, <2>2, <2>6 DEF v, w
<1>4. CASE ~(d < 0)
  <2>1. d \in Nat
    BY <1>4
  <2>2. get_amount_0_delta(lo, hi, d) = Up0(lo, hi, d) /\ get_amount_1_delta(lo, hi, d) = Up1(lo, hi, d)
    BY <1>4, Zenon DEF get_amount_0_delta, get_amount_1_delta, Up0, Up1
  <2> QED  BY <1>2, <2>1, <2>2, AmountsScaled
<1> QED  BY <1>3, <1>4

\* The amounts of update_position cover the change in what the position is worth.
LEMMA DeltaCovered ==
    ASSUME TypeOK, NEW p \in PositionInfo, p.lower <= p.upper, NEW delta \in Int,
           delta # 0 => InInterval(sqrt_price, cur_tick), NEW k \in Token
    PROVE  /\ amounts_for(p, delta)[k + 1] \in Int
           /\ delta * Worth(p, sqrt_price, k) <= Unit(k) * amounts_for(p, delta)[k + 1]
<1> DEFINE lo == SqrtRatio[p.lower]
           hi == SqrtRatio[p.upper]
           x == sqrt_price
           y == Within(p, x)
           amount == amounts_for(p, delta)
           Zero == Scale(0, y) - Scale(0, hi)
           One  == Scale(1, y) - Scale(1, lo)
<1>1. /\ x \in Nat /\ cur_tick \in Int /\ p.lower \in Tick /\ p.upper \in Tick
      /\ p.lower \in Int /\ p.upper \in Int
  BY Constants DEF TypeOK, PositionInfo
<1>2. lo \in Price /\ hi \in Price /\ y \in Price /\ lo <= y /\ y <= hi
      /\ y = IF x <= lo THEN lo ELSE IF x <= hi THEN x ELSE hi
  BY <1>1, WithinType DEF Within
<1>3. lo \in Nat /\ hi \in Nat /\ y \in Nat
  BY <1>2, RecipFacts
<1>4. /\ k = 0 => Worth(p, x, k) = Zero
      /\ k = 1 => Worth(p, x, k) = One
  BY DEF Worth
<1>5. ASSUME NEW a \in Price, NEW b \in Price, a <= b
      PROVE  /\ get_amount_0_delta(a, b, delta) \in Int /\ get_amount_1_delta(a, b, delta) \in Int
             /\ delta * (Scale(0, a) - Scale(0, b)) <= Unit(0) * get_amount_0_delta(a, b, delta)
             /\ delta * (Scale(1, b) - Scale(1, a)) <= Unit(1) * get_amount_1_delta(a, b, delta)
  BY <1>5, SignedAmounts
<1>6. /\ Scale(0, y) \in Int /\ Scale(1, y) \in Int /\ Scale(0, hi) \in Int /\ Scale(1, lo) \in Int
      /\ Unit(0) \in Nat /\ Unit(1) \in Nat
  BY <1>2, ScaleType DEF Token
<1>7. SUFFICES /\ amount[1] \in Int /\ amount[2] \in Int
               /\ delta * Zero <= Unit(0) * amount[1] /\ delta * One <= Unit(1) * amount[2]
  <2>1. k = 0 \/ k = 1
    BY DEF Token
  <2> HIDE DEF Zero, One, x, amount
  <2> QED  BY <1>4, <1>7, <2>1 DEF amount, x
<1>8. CASE delta = 0
  <2>1. amount = <<0, 0>>
    BY <1>8 DEF amounts_for
  <2>2. Zero \in Int /\ One \in Int
    BY <1>6
  <2> HIDE DEF Zero, One, amount
  <2>3. delta * Zero = 0 /\ delta * One = 0 /\ Unit(0) * 0 = 0 /\ Unit(1) * 0 = 0
    BY <1>6, <1>8, <2>2
  <2> QED  BY <2>1, <2>3
<1>9. CASE delta # 0
  <2>1. ASSUME NEW b \in Tick
        PROVE  (cur_tick < b => x <= SqrtRatio[b]) /\ (b <= cur_tick => SqrtRatio[b] <= x)
    BY <1>1, <1>9, TickSide
  <2>2. /\ cur_tick < p.lower => x <= lo
        /\ p.lower <= cur_tick => lo <= x
        /\ cur_tick < p.upper => x <= hi
        /\ p.upper <= cur_tick => hi <= x
    BY <1>1, <2>1
  <2>3. CASE cur_tick < p.lower
    <3>1. amount = <<get_amount_0_delta(lo, hi, delta), 0>>
      BY <1>9, <2>3, Zenon DEF amounts_for
    <3> HIDE DEF amount, lo, hi, x
    <3>2. y = lo
      BY <1>2, <1>3, <2>2, <2>3
    <3> HIDE DEF y
    <3>3. One = 0
      BY <1>6, <3>2
    <3>4. delta * One = 0 /\ Unit(1) * 0 = 0
      BY <1>6, <3>3
    <3> QED  BY <1>2, <1>3, <1>5, <3>1, <3>2, <3>4
  <2>4. CASE ~(cur_tick < p.lower) /\ cur_tick < p.upper
    <3>1. amount = <<get_amount_0_delta(x, hi, delta), get_amount_1_delta(lo, x, delta)>>
      BY <1>9, <2>4, Zenon DEF amounts_for
    <3> HIDE DEF amount, lo, hi, x
    <3>2. y = x
      BY <1>1, <1>2, <1>3, <2>2, <2>4
    <3> HIDE DEF y
    <3> QED  BY <1>2, <1>3, <1>5, <3>1, <3>2
  <2>5. CASE ~(cur_tick < p.lower) /\ ~(cur_tick < p.upper)
    <3>1. amount = <<0, get_amount_1_delta(lo, hi, delta)>>
      BY <1>9, <2>5, Zenon DEF amounts_for
    <3> HIDE DEF amount, lo, hi, x
    <3>2. y = hi
      BY <1>1, <1>2, <1>3, <2>2, <2>5
    <3> HIDE DEF y
    <3>3. Zero = 0
      BY <1>6, <3>2
    <3>4. delta * Zero = 0 /\ Unit(0) * 0 = 0
      BY <1>6, <3>3
    <3> QED  BY <1>2, <1>3, <1>5, <3>1, <3>2, <3>4
  <2> QED  BY <2>3, <2>4, <2>5
<1> QED  BY <1>8, <1>9

\* What a position is owed per unit of liquidity, and in all, as the counters,
\* the tick and the price stand: the fees since its last update and the worth of
\* its liquidity, unrounded.
Grain(k) == Unit(k) * Q128

Unpaid(p, tks, growth, tick, k) ==
    Below(tks, growth, tick, p.upper, k) - Below(tks, growth, tick, p.lower, k)
    - p.fee_growth_inside[k]

Rate(p, tks, growth, tick, x, k) ==
    Unit(k) * Unpaid(p, tks, growth, tick, k) + Q128 * Worth(p, x, k)

Due(p, tks, growth, tick, x, k) ==
    Grain(k) * p.token_owed[k] + p.liquidity * Rate(p, tks, growth, tick, x, k)

DueTo(pos, tks, growth, tick, x, k) == [id \in Id |-> Due(pos[id], tks, growth, tick, x, k)]

Dues(pos, tks, growth, tick, x, k) == SumFunctionOnSet(DueTo(pos, tks, growth, tick, x, k), Id)

Covered(res, pos, tks, growth, tick, x) ==
    \A k \in Token : Dues(pos, tks, growth, tick, x, k) <= Grain(k) * res[k]

\* The reserve covers what is due, and what the running swap takes and pays
\* keeps it so after every iteration.
SolvencyInv ==
    /\ Covered(reserve, positions, ticks, fee_growth_global, cur_tick, sqrt_price)
    /\ swap.active =>
           Covered([k \in Token |-> reserve[k] + swap_amounts(swap)[k + 1]],
                   positions, swap.ticks, RunningGrowth, swap.tick, swap.price)

\* The common units are positive.
LEMMA GrainType == ASSUME NEW k \in Token PROVE Unit(k) \in Nat \ {0} /\ Grain(k) \in Nat \ {0}
<1>1. MAX_SQRT_RATIO \in Price
  BY Constants DEF Price
<1>2. Unit(k) \in Nat \ {0} /\ Q128 \in Nat \ {0}
  BY <1>1, ScaleType, Constants
<1> QED  BY <1>2 DEF Grain

\* What is due is an integer; without liquidity it is the credited fees.
LEMMA DueType ==
    ASSUME NEW p \in PositionInfo, p.lower <= p.upper, NEW tks \in [Tick -> TickInfo],
           NEW growth \in [Token -> Nat], NEW tick, NEW x \in Nat, NEW k \in Token
    PROVE  /\ Grain(k) \in Nat \ {0} /\ Unit(k) \in Nat \ {0} /\ Worth(p, x, k) \in Nat
           /\ Unpaid(p, tks, growth, tick, k) \in Int
           /\ Rate(p, tks, growth, tick, x, k) \in Int
           /\ Due(p, tks, growth, tick, x, k) \in Int
           /\ p.liquidity = 0 => Due(p, tks, growth, tick, x, k) = Grain(k) * p.token_owed[k]
<1> DEFINE a == Unpaid(p, tks, growth, tick, k)
           w == Worth(p, x, k)
           r == Rate(p, tks, growth, tick, x, k)
           o == p.token_owed[k]
           l == p.liquidity
<1>1. p.lower \in Tick /\ p.upper \in Tick /\ o \in Nat /\ l \in Nat /\ p.fee_growth_inside[k] \in Nat
  BY DEF PositionInfo
<1>2. w \in Nat
  BY WorthType
<1>3. Unit(k) \in Nat \ {0} /\ Q128 \in Nat \ {0}
  BY <1>1, WithinType, ScaleType, Constants
<1>4. a \in Int
  BY <1>1, BelowType DEF Unpaid
<1>5. r = Unit(k) * a + Q128 * w
  BY DEF Rate
<1>6. Due(p, tks, growth, tick, x, k) = Grain(k) * o + l * r
  BY DEF Due
<1> HIDE DEF a, w, r, o, l
<1>7. Unit(k) * a \in Int /\ Q128 * w \in Int
  BY <1>2, <1>3, <1>4
<1>8. r \in Int
  BY <1>5, <1>7
<1>9. Grain(k) \in Nat \ {0}
  BY <1>3 DEF Grain
<1>10. Grain(k) * o \in Int /\ l * r \in Int /\ (l = 0 => l * r = 0)
  BY <1>1, <1>8, <1>9
<1>11. Due(p, tks, growth, tick, x, k) \in Int /\ (l = 0 => Due(p, tks, growth, tick, x, k) = Grain(k) * o)
  BY <1>6, <1>10
<1> QED  BY <1>2, <1>3, <1>4, <1>8, <1>9, <1>11 DEF a, w, r, o, l

\* A used tick stays on its side of the price in an iteration: the price may
\* come to rest on it, never on the other side.
LEMMA UsedTickSide ==
    ASSUME PoolInv, PriceInv, TicksInv, BitmapInv, LiquidityInv, swap.active, SwapContinues,
           NEW step, step = SwapStepResult(swap), ~StepFails(swap, step),
           NEW b \in Tick, ticks[b].liquidity_gross # 0
    PROVE  /\ b <= swap.tick => SqrtRatio[b] <= swap.price /\ SqrtRatio[b] <= step.price
           /\ swap.tick < b => swap.price <= SqrtRatio[b] /\ step.price <= SqrtRatio[b]
<1> DEFINE t == swap.tick
           u == tick_after(swap, step)
           n == step_next_tick(swap)
           r == step.price
           q == swap.price
<1>1. LimitsOk /\ StoredPriceOk /\ q \in Nat /\ r \in Nat
  <2>1. step \in Step
    BY StepResultType
  <2> QED  BY <2>1 DEF PriceInv, PoolInv, TypeOK, SwapInfo, Step
<1>2. InInterval(q, t) /\ InInterval(r, u)
  BY <1>1, StepTick DEF LimitsOk
<1>3. /\ (CrossesTick(swap, step) /\ b = n) => (b <= t <=> ~(b <= u))
      /\ ~(CrossesTick(swap, step) /\ b = n) => (b <= t <=> b <= u)
  BY UsedTickPassed
<1>4. (CrossesTick(swap, step) /\ b = n) => r = SqrtRatio[b]
  BY DEF CrossesTick, ReachedTick, step_next_price
<1>5. b \in Int /\ SqrtRatio[b] \in Int
  BY Constants
<1> HIDE DEF t, u, n, r, q
<1>6. /\ t < b => q <= SqrtRatio[b]
      /\ b <= t => SqrtRatio[b] <= q
      /\ t \in Int
  BY <1>1, <1>2, TickSide
<1>7. /\ u < b => r <= SqrtRatio[b]
      /\ b <= u => SqrtRatio[b] <= r
      /\ u \in Int
  BY <1>1, <1>2, TickSide
<1>8. /\ b <= t => SqrtRatio[b] <= q /\ SqrtRatio[b] <= r
      /\ t < b => q <= SqrtRatio[b] /\ r <= SqrtRatio[b]
  <2>1. CASE CrossesTick(swap, step) /\ b = n
    BY <1>1, <1>4, <1>5, <1>6, <2>1
  <2>2. CASE ~(CrossesTick(swap, step) /\ b = n)
    BY <1>3, <1>5, <1>6, <1>7, <2>2
  <2> QED  BY <2>1, <2>2
<1> QED  BY <1>8 DEF t, r, q

\* In an iteration the worth of the liquidity in range moves with the price, and
\* that of the liquidity out of range stays.
LEMMA StepWorth ==
    ASSUME PoolInv, PriceInv, TicksInv, BitmapInv, LiquidityInv, swap.active, SwapContinues,
           NEW step, step = SwapStepResult(swap), ~StepFails(swap, step),
           NEW id \in Id, positions[id].liquidity # 0, NEW k \in Token
    PROVE  Worth(positions[id], step.price, k)
               = Worth(positions[id], swap.price, k)
                 + IF id \in InRange(positions, swap.tick)
                   THEN Scale(k, step.price) - Scale(k, swap.price) ELSE 0
<1> DEFINE p == positions[id]
           lo == SqrtRatio[p.lower]
           hi == SqrtRatio[p.upper]
           q == swap.price
           r == step.price
           e == SqrtRatio[IF k = 0 THEN p.upper ELSE p.lower]
<1>1. /\ p \in PositionInfo /\ positions \in [Id -> PositionInfo] /\ p.lower \in Tick /\ p.upper \in Tick
      /\ p.lower <= p.upper /\ swap.tick \in Int /\ q \in Nat /\ r \in Nat
      /\ p.lower \in Int /\ p.upper \in Int
  <2>1. step \in Step
    BY StepResultType
  <2> QED  BY <2>1, Constants DEF PoolInv, TypeOK, SwapInfo, Step, PositionInfo, LiquidityInv
<1>2. ticks[p.lower].liquidity_gross # 0 /\ ticks[p.upper].liquidity_gross # 0
  BY <1>1, UsedTicks DEF TicksInv
<1>3. /\ p.lower <= swap.tick => lo <= q /\ lo <= r
      /\ swap.tick < p.lower => q <= lo /\ r <= lo
      /\ p.upper <= swap.tick => hi <= q /\ hi <= r
      /\ swap.tick < p.upper => q <= hi /\ r <= hi
  BY <1>1, <1>2, UsedTickSide
<1>4. lo \in Price /\ hi \in Price /\ lo <= hi /\ Within(p, q) \in Price /\ Within(p, r) \in Price
  BY <1>1, WithinType
<1>5. lo \in Nat /\ hi \in Nat
  BY <1>4, RecipFacts
<1>6. /\ Within(p, q) = IF q <= lo THEN lo ELSE IF q <= hi THEN q ELSE hi
      /\ Within(p, r) = IF r <= lo THEN lo ELSE IF r <= hi THEN r ELSE hi
  BY DEF Within
<1>7. id \in InRange(positions, swap.tick) <=> p.lower <= swap.tick /\ swap.tick < p.upper
  BY DEF InRange, in_range
<1>8. /\ Worth(p, q, k) = Scale(k, Within(p, q)) - Scale(k, e)
      /\ Worth(p, r, k) = Scale(k, Within(p, r)) - Scale(k, e)
  BY DEF Worth
<1>9. e \in Price
  BY <1>4
<1> HIDE DEF lo, hi, q, r, e, p
<1>10. CASE id \in InRange(positions, swap.tick)
  <2>1. Within(p, q) = q /\ Within(p, r) = r
    BY <1>1, <1>3, <1>5, <1>6, <1>7, <1>10
  <2>2. Scale(k, q) \in Nat /\ Scale(k, r) \in Nat /\ Scale(k, e) \in Nat
    BY <1>4, <1>9, <2>1, ScaleType
  <2>3. Worth(p, r, k) = Worth(p, q, k) + (Scale(k, r) - Scale(k, q))
    BY <1>8, <2>1, <2>2
  <2> QED  BY <1>10, <2>3 DEF p, q, r
<1>11. CASE id \notin InRange(positions, swap.tick)
  <2>1. Within(p, q) = Within(p, r)
    <3>1. CASE swap.tick < p.lower
      BY <1>1, <1>3, <1>6, <3>1
    <3>2. CASE p.upper <= swap.tick
      BY <1>1, <1>3, <1>4, <1>5, <1>6, <3>2
    <3> QED  BY <1>1, <1>7, <1>11, <3>1, <3>2
  <2>2. Scale(k, Within(p, q)) \in Nat /\ Scale(k, e) \in Nat
    BY <1>4, <1>9, ScaleType
  <2>3. Worth(p, r, k) = Worth(p, q, k) + 0
    BY <1>8, <2>1, <2>2
  <2> QED  BY <1>11, <2>3 DEF p, q, r
<1> QED  BY <1>10, <1>11

\* In an iteration the growth inside the ranges that hold the tick grows with the
\* counters, and that inside the others stays.
LEMMA StepUnpaid ==
    ASSUME PoolInv, PriceInv, TicksInv, BitmapInv, LiquidityInv, swap.active, SwapContinues,
           NEW step, step = SwapStepResult(swap), ~StepFails(swap, step),
           NEW g \in [Token -> Nat], \A k \in Token : g[k] < U256, Bounded(swap.ticks, g),
           g = growth_at_cross(swap, step),
           NEW id \in Id, positions[id].liquidity # 0, NEW k \in Token
    PROVE  Unpaid(positions[id], ticks_after(swap, step), g, tick_after(swap, step), k)
               = Unpaid(positions[id], swap.ticks, RunningGrowth, swap.tick, k)
                 + IF id \in InRange(positions, swap.tick) THEN g[k] - RunningGrowth[k] ELSE 0
<1> DEFINE p == positions[id]
           a == p.lower
           b == p.upper
           new == ticks_after(swap, step)
           u == tick_after(swap, step)
           t == swap.tick
           o == swap.ticks[a].fee_growth_outside[k]
           v == swap.ticks[b].fee_growth_outside[k]
           c == p.fee_growth_inside[k]
           x == g[k]
           y == RunningGrowth[k]
<1>1. /\ positions \in [Id -> PositionInfo] /\ p \in PositionInfo /\ a \in Tick /\ b \in Tick
      /\ a \in Int /\ b \in Int /\ a <= b /\ t \in Int /\ c \in Nat
      /\ swap.ticks \in [Tick -> TickInfo]
  <2>1. /\ positions \in [Id -> PositionInfo] /\ p \in PositionInfo /\ swap.tick \in Int
        /\ swap.ticks \in [Tick -> TickInfo] /\ a <= b
    BY DEF PoolInv, TypeOK, SwapInfo, LiquidityInv
  <2>2. a \in Tick /\ b \in Tick /\ c \in Nat
    BY <2>1 DEF PositionInfo
  <2> QED  BY <2>1, <2>2, Constants
<1>2. o \in Nat /\ v \in Nat /\ x \in Nat /\ y \in Nat
  BY <1>1, RunningGrowthAt DEF TickInfo
<1>3. ticks[a].liquidity_gross # 0 /\ ticks[b].liquidity_gross # 0
  BY <1>1, UsedTicks DEF TicksInv
<1>4. /\ Below(new, g, u, a, k) = Below(swap.ticks, g, t, a, k)
      /\ Below(new, g, u, b, k) = Below(swap.ticks, g, t, b, k)
  <2> HIDE DEF a, b
  <2> QED  BY <1>1, <1>3, StepBelow
<1>5. /\ Below(swap.ticks, g, t, a, k) = IF a <= t THEN o ELSE x - o
      /\ Below(swap.ticks, g, t, b, k) = IF b <= t THEN v ELSE x - v
      /\ Below(swap.ticks, RunningGrowth, t, a, k) = IF a <= t THEN o ELSE y - o
      /\ Below(swap.ticks, RunningGrowth, t, b, k) = IF b <= t THEN v ELSE y - v
  BY DEF Below
<1>6. /\ Unpaid(p, new, g, u, k) = Below(new, g, u, b, k) - Below(new, g, u, a, k) - c
      /\ Unpaid(p, swap.ticks, RunningGrowth, t, k)
           = Below(swap.ticks, RunningGrowth, t, b, k) - Below(swap.ticks, RunningGrowth, t, a, k) - c
  BY DEF Unpaid
<1>7. id \in InRange(positions, t) <=> a <= t /\ t < b
  BY DEF InRange, in_range
<1> HIDE DEF p, a, b, new, u, t, o, v, c, x, y
<1>8. Unpaid(p, new, g, u, k) = Unpaid(p, swap.ticks, RunningGrowth, t, k)
                                + IF a <= t /\ t < b THEN x - y ELSE 0
  BY <1>1, <1>2, <1>4, <1>5, <1>6
<1> QED  BY <1>7, <1>8 DEF p, new, u, t, x, y

\* The amounts of a step from price c towards t: the amount between the two prices
\* rounded up comes in, at most the amount between them rounded down goes out.
TakesAndPays(c, t, l, step) ==
    /\ step.price \in Nat \ {0} /\ step.amount_out \in Nat /\ step.amount_in \in Nat
    /\ t <= c => /\ step.price <= c /\ step.amount_in = Up0(step.price, c, l)
                 /\ step.amount_out <= Down1(step.price, c, l)
    /\ c < t => /\ c <= step.price /\ step.amount_in = Up1(c, step.price, l)
                /\ step.amount_out <= Down0(c, step.price, l)

\* compute_swap_step computes these amounts.
LEMMA StepTakesAndPays ==
    ASSUME NEW c \in Nat \ {0}, NEW t \in Nat \ {0}, NEW l \in Nat, NEW rem \in Int,
           NEW f \in 0 .. ONE_FEE - 1, NEW step, step = compute_swap_step(c, t, l, rem, f)
    PROVE  TakesAndPays(c, t, l, step)
<1> DEFINE z == c >= t
           exact == rem >= 0
           in(p)  == IF z THEN Up0(p, c, l) ELSE Up1(c, p, l)
           out(p) == IF z THEN Down1(p, c, l) ELSE Down0(c, p, l)
           less == mul_div(rem, ONE_FEE - f, ONE_FEE)
           pay(p) == IF exact THEN out(p) ELSE Lo(out(p), -rem)
           charge(p) == IF exact /\ p # t THEN wrapping_sub(rem, in(p))
                        ELSE mul_div_rounding_up(in(p), f, ONE_FEE - f)
           Input(a)  == get_next_sqrt_price_from_input(c, l, a, z)
           Output(a) == get_next_sqrt_price_from_output(c, l, a, z)
           coded == IF exact THEN IF less >= in(t) THEN t ELSE Input(less)
                             ELSE IF -rem >= out(t) THEN t ELSE Output(-rem)
           result(p) == IF c = 0 \/ p = ErrPrice
             THEN [price |-> ErrPrice, amount_in |-> 0, amount_out |-> 0, fee_amount |-> 0]
             ELSE [price |-> p, amount_in |-> in(p), amount_out |-> pay(p),
                   fee_amount |-> charge(p)]
<1>1. step = result(coded)
  BY Zenon DEF compute_swap_step, Up0, Up1, Down0, Down1
<1>2. /\ t <= c => t <= step.price /\ step.price <= c
      /\ c <= t => c <= step.price /\ step.price <= t
  BY SwapStepBounds
<1>3. step \in Step
  BY SwapStepType
<1>4. step.price \in Nat \ {0} /\ step.amount_out \in Nat /\ step.amount_in \in Nat
  BY <1>2, <1>3 DEF Step
<1> HIDE DEF coded
<1>5. coded # ErrPrice /\ step.price = coded /\ step.amount_in = in(coded) /\ step.amount_out = pay(coded)
  <2> HIDE DEF in, pay, charge
  <2>1. coded # ErrPrice
    BY <1>1, <1>4 DEF ErrPrice
  <2> QED  BY <1>1, <2>1
<1>6. pay(coded) \in {out(coded), Lo(out(coded), -rem)}
  <2> HIDE DEF out
  <2> QED  OBVIOUS
<1>7. out(coded) \in Nat
  <2>1. t <= c => Down1(step.price, c, l) \in Nat
    <3>1. 0 \in Int
      OBVIOUS
    <3> QED  BY <1>2, <1>4, <3>1, AmountFacts
  <2>2. c < t => Down0(c, step.price, l) \in Nat
    <3>1. 0 \in Int /\ (c < t => c <= step.price)
      BY <1>2
    <3> QED  BY <1>4, <3>1, AmountFacts
  <2> QED  BY <1>5, <2>1, <2>2
<1>8. step.amount_out <= out(coded)
  <2> HIDE DEF out, pay
  <2> QED  BY <1>4, <1>5, <1>6, <1>7 DEF Lo
<1> QED  BY <1>2, <1>4, <1>5, <1>8 DEF TakesAndPays

\* What a step takes covers what the liquidity gains in worth in one token, and
\* what it pays is covered by what the liquidity loses in the other.
LEMMA StepFlows ==
    ASSUME NEW c \in Price, NEW t \in Nat \ {0}, NEW l \in Nat, NEW rem \in Int,
           NEW f \in 0 .. ONE_FEE - 1, NEW step, step = compute_swap_step(c, t, l, rem, f),
           step.price \in Price
    PROVE  /\ step.amount_out \in Nat /\ step.amount_in \in Nat
           /\ t <= c => /\ l * (Scale(0, step.price) - Scale(0, c)) <= Unit(0) * step.amount_in
                        /\ l * (Scale(1, step.price) - Scale(1, c)) <= -(Unit(1) * step.amount_out)
           /\ c <= t => /\ l * (Scale(1, step.price) - Scale(1, c)) <= Unit(1) * step.amount_in
                        /\ l * (Scale(0, step.price) - Scale(0, c)) <= -(Unit(0) * step.amount_out)
<1> DEFINE r == step.price
           in == step.amount_in
           out == step.amount_out
           S(k) == Scale(k, r) - Scale(k, c)
           T(k) == Scale(k, c) - Scale(k, r)
<1>1. c \in Nat \ {0} /\ r \in Nat \ {0}
  BY RecipFacts
<1>2. /\ out \in Nat /\ in \in Nat
      /\ t <= c => r <= c /\ in = Up0(r, c, l) /\ out <= Down1(r, c, l)
      /\ c < t => c <= r /\ in = Up1(c, r, l) /\ out <= Down0(c, r, l)
  <2>1. TakesAndPays(c, t, l, step)
    BY <1>1, StepTakesAndPays
  <2> QED  BY <2>1 DEF TakesAndPays
<1>3. /\ \A k \in Token : S(k) \in Int /\ T(k) \in Int /\ T(k) = -S(k)
      /\ Unit(0) \in Nat \ {0} /\ Unit(1) \in Nat \ {0}
  BY ScaleType DEF Token
<1>4. r <= c => /\ l * S(0) <= Unit(0) * Up0(r, c, l) /\ Unit(1) * Down1(r, c, l) <= l * T(1)
                /\ Down1(r, c, l) \in Nat
  <2>1. 0 \in Int
    OBVIOUS
  <2> QED  BY <1>1, <2>1, AmountsScaled, AmountFacts
<1>5. c <= r => /\ l * S(1) <= Unit(1) * Up1(c, r, l) /\ Unit(0) * Down0(c, r, l) <= l * T(0)
                /\ Down0(c, r, l) \in Nat
  <2>1. 0 \in Int
    OBVIOUS
  <2> QED  BY <1>1, <2>1, AmountsScaled, AmountFacts
<1>6. ASSUME NEW k \in Token, NEW d \in Nat, out <= d, Unit(k) * d <= l * T(k)
      PROVE  l * S(k) <= -(Unit(k) * out)
  <2>1. T(k) \in Int /\ S(k) = -T(k) /\ Unit(k) \in Nat
    BY <1>3 DEF Token
  <2> DEFINE w == T(k)
             m == Unit(k)
  <2> HIDE DEF S, T, out
  <2>2. out * m <= d * m
    BY <1>2, <1>6, <2>1, MulOrder
  <2>3. out * m = m * out /\ d * m = m * d /\ m * out \in Int /\ m * d \in Int /\ l * w \in Int
        /\ l * (-w) = -(l * w)
    BY <1>2, <2>1
  <2>4. m * d <= l * w
    BY <1>6
  <2> DEFINE A == m * out
             B == m * d
             C == l * w
  <2>5. A \in Int /\ B \in Int /\ C \in Int /\ A <= B /\ B <= C
    BY <2>2, <2>3, <2>4
  <2> HIDE DEF A, B, C
  <2>6. -C <= -A
    BY <2>5
  <2>7. l * S(k) = -C
    BY <2>1, <2>3 DEF C
  <2> QED  BY <2>6, <2>7 DEF A
<1> HIDE DEF S, T, out, in, r
<1>7. CASE t < c
  <2>1. 0 \in Token /\ 1 \in Token /\ r <= c /\ ~(c <= t)
    BY <1>1, <1>2, <1>7 DEF Token
  <2>2. /\ in = Up0(r, c, l) /\ out <= Down1(r, c, l) /\ l * S(0) <= Unit(0) * Up0(r, c, l)
        /\ Unit(1) * Down1(r, c, l) <= l * T(1) /\ Down1(r, c, l) \in Nat
    <3>1. t <= c
      BY <1>1, <1>7
    <3> QED  BY <1>2, <1>4, <2>1, <3>1
  <2>3. l * S(0) <= Unit(0) * in /\ l * S(1) <= -(Unit(1) * out)
    BY <1>6, <2>1, <2>2
  <2> QED  BY <1>2, <2>1, <2>2, <2>3 DEF S, r, in, out
<1>8. CASE c < t
  <2>1. 0 \in Token /\ 1 \in Token /\ c <= r /\ ~(t <= c)
    BY <1>1, <1>2, <1>8 DEF Token
  <2>2. /\ in = Up1(c, r, l) /\ out <= Down0(c, r, l) /\ l * S(1) <= Unit(1) * Up1(c, r, l)
        /\ Unit(0) * Down0(c, r, l) <= l * T(0) /\ Down0(c, r, l) \in Nat
    BY <1>2, <1>5, <1>8, <2>1
  <2>3. l * S(1) <= Unit(1) * in /\ l * S(0) <= -(Unit(0) * out)
    BY <1>6, <2>1, <2>2
  <2> QED  BY <1>2, <2>1, <2>2, <2>3 DEF S, r, in, out
<1>9. CASE c = t
  <2>1. r = c
    <3>1. t <= c /\ c <= t
      BY <1>1, <1>9
    <3>2. (t <= c => t <= step.price /\ step.price <= c)
      BY <1>1, SwapStepBounds
    <3> QED  BY <1>1, <1>9, <3>1, <3>2 DEF r
  <2>2. S(0) = 0 /\ S(1) = 0 /\ T(1) = 0
    BY <1>3, <2>1 DEF S, T, Token
  <2>3. l * S(0) = 0 /\ l * S(1) = 0 /\ l * T(1) = 0
    BY <2>2
  <2> DEFINE d == Down1(r, c, l)
  <2>4. d \in Nat /\ Unit(1) * d <= 0 /\ out <= d
    BY <1>1, <1>2, <1>4, <1>9, <2>1, <2>3
  <2> HIDE DEF d
  <2>5. d = 0
    BY <1>3, <2>4
  <2>6. out = 0
    BY <1>2, <2>4, <2>5
  <2>7. /\ Unit(0) * in >= 0 /\ Unit(1) * in >= 0 /\ Unit(0) * out = 0 /\ Unit(1) * out = 0
    BY <1>2, <1>3, <2>6
  <2>8. /\ l * S(0) <= Unit(0) * in /\ l * S(1) <= -(Unit(1) * out)
        /\ l * S(1) <= Unit(1) * in /\ l * S(0) <= -(Unit(0) * out)
    BY <2>3, <2>7
  <2> QED  BY <1>2, <2>8 DEF S, r, in, out
<1> QED  BY <1>1, <1>7, <1>8, <1>9

\* A price inside the interval of a tick is a price.
LEMMA IntervalPrice ==
    ASSUME NEW x \in Nat, NEW t, InInterval(x, t)
    PROVE  x \in Price
<1>1. t \in Tick /\ t + 1 \in Tick /\ SqrtRatio[t] <= x /\ x <= SqrtRatio[t + 1]
      /\ MAX_TICK \in Tick /\ t + 1 <= MAX_TICK
  BY Constants DEF InInterval, Tick
<1>2. SqrtRatio[t] \in Nat \ {0} /\ SqrtRatio[t + 1] \in Nat /\ MAX_SQRT_RATIO \in Nat
  BY <1>1, Constants
<1>3. SqrtRatio[t + 1] <= MAX_SQRT_RATIO
  BY <1>1, RatioOrder DEF MAX_SQRT_RATIO
<1> QED  BY <1>1, <1>2, <1>3 DEF Price

\* Two rates that differ by a shift of growth and of worth differ by its value.
LEMMA RateShift ==
    ASSUME NEW m \in Int, NEW n \in Int, NEW a \in Int, NEW w \in Int, NEW d \in Int, NEW e \in Int,
           NEW o \in Int, NEW l \in Int
    PROVE  o + l * (m * (a + d) + n * (w + e)) = (o + l * (m * a + n * w)) + (m * d + n * e) * l
OBVIOUS

\* In an iteration what is due to the positions changes by the liquidity in range
\* times the shift of the counter and of the price.
LEMMA StepDues ==
    ASSUME PoolInv, PriceInv, TicksInv, BitmapInv, LiquidityInv, swap.active, SwapContinues,
           NEW step, step = SwapStepResult(swap), ~StepFails(swap, step),
           NEW g \in [Token -> Nat], \A k \in Token : g[k] < U256, Bounded(swap.ticks, g),
           g = growth_at_cross(swap, step), NEW k \in Token
    PROVE  LET c == Unit(k) * (g[k] - RunningGrowth[k])
                    + Q128 * (Scale(k, step.price) - Scale(k, swap.price))
           IN  /\ Dues(positions, ticks_after(swap, step), g, tick_after(swap, step), step.price, k)
                    = Dues(positions, swap.ticks, RunningGrowth, swap.tick, swap.price, k)
                      + c * swap.liquidity
               /\ Dues(positions, swap.ticks, RunningGrowth, swap.tick, swap.price, k) \in Int
               /\ c \in Int /\ swap.price \in Price /\ step.price \in Price
<1> DEFINE d == g[k] - RunningGrowth[k]
           e == Scale(k, step.price) - Scale(k, swap.price)
           c == Unit(k) * d + Q128 * e
           S == InRange(positions, swap.tick)
           new == ticks_after(swap, step)
           u == tick_after(swap, step)
           q == swap.price
           r == step.price
           f == [id \in Id |-> Due(positions[id], swap.ticks, RunningGrowth, swap.tick, q, k)]
           h == [id \in Id |-> Due(positions[id], new, g, u, r, k)]
<1>1. /\ positions \in [Id -> PositionInfo] /\ q \in Nat /\ r \in Nat /\ step \in Step
      /\ swap.ticks \in [Tick -> TickInfo] /\ LimitsOk /\ StoredPriceOk
      /\ \A id \in Id : positions[id].lower <= positions[id].upper
  <2>1. step \in Step
    BY StepResultType
  <2> QED  BY <2>1 DEF PriceInv, PoolInv, TypeOK, SwapInfo, Step, LiquidityInv
<1>2. q \in Price /\ r \in Price
  <2>1. InInterval(q, swap.tick) /\ InInterval(r, u)
    BY <1>1, StepTick DEF LimitsOk
  <2> HIDE DEF q, r, u
  <2> QED  BY <1>1, <2>1, IntervalPrice
<1>3. RunningGrowth \in [Token -> Nat] /\ d \in Int
  <2>1. RunningGrowth \in [Token -> Nat]
    BY RunningGrowthAt
  <2> QED  BY <2>1
<1>4. new \in [Tick -> TickInfo]
  <2>1. AfterStep(swap, step) \in SwapInfo /\ swap \in SwapInfo
    BY <1>1, AfterStepType DEF PoolInv, TypeOK
  <2>2. AfterStep(swap, step).ticks = new
    BY <2>1 DEF AfterStep, SwapInfo
  <2> HIDE DEF new
  <2> QED  BY <2>1, <2>2 DEF SwapInfo
<1>5. Unit(k) \in Nat /\ Q128 \in Nat /\ e \in Int
  BY <1>2, ScaleType, Constants
<1>6. c \in Int
  <2> HIDE DEF d, e
  <2>1. Unit(k) * d \in Int /\ Q128 * e \in Int
    BY <1>3, <1>5
  <2> QED  BY <2>1
<1>7. S \in SUBSET Id /\ swap.liquidity = Amount(positions, S)
  BY DEF InRange, LiquidityInv
<1>8. ASSUME NEW id \in Id
      PROVE  /\ f[id] \in Int /\ h[id] \in Int
             /\ h[id] = f[id] + IF id \in S THEN c * positions[id].liquidity ELSE 0
  <2> DEFINE p == positions[id]
             l == p.liquidity
             o == Grain(k) * p.token_owed[k]
             a == Unpaid(p, swap.ticks, RunningGrowth, swap.tick, k)
             w == Worth(p, q, k)
             b == Unpaid(p, new, g, u, k)
             v == Worth(p, r, k)
  <2>1. p \in PositionInfo /\ p.lower <= p.upper /\ l \in Nat /\ p.token_owed[k] \in Nat
    BY <1>1 DEF PositionInfo
  <2>2. /\ Grain(k) \in Nat \ {0} /\ a \in Int /\ w \in Nat
        /\ Due(p, swap.ticks, RunningGrowth, swap.tick, q, k) \in Int
        /\ l = 0 => Due(p, swap.ticks, RunningGrowth, swap.tick, q, k) = o
    <3> HIDE DEF p, q
    <3> QED  BY <1>1, <1>3, <2>1, DueType
  <2>3. /\ Due(p, new, g, u, r, k) \in Int /\ (l = 0 => Due(p, new, g, u, r, k) = o)
    <3> HIDE DEF p, r, new, u
    <3> QED  BY <1>1, <1>4, <2>1, DueType
  <2>4. f[id] = Due(p, swap.ticks, RunningGrowth, swap.tick, q, k) /\ h[id] = Due(p, new, g, u, r, k)
    OBVIOUS
  <2>5. CASE l = 0
    <3>1. h[id] = f[id] /\ f[id] \in Int
      <4> HIDE DEF f, h, o
      <4> QED  BY <2>2, <2>3, <2>4, <2>5
    <3>2. c * l = 0
      <4> HIDE DEF c, l
      <4> QED  BY <1>6, <2>5
    <3>3. (IF id \in S THEN c * l ELSE 0) = 0
      BY <3>2, Zenon
    <3> HIDE DEF f, h, c, S, l
    <3>4. h[id] = f[id] + IF id \in S THEN c * l ELSE 0
      BY <3>1, <3>3
    <3> QED  BY <3>1, <3>4 DEF l
  <2>6. CASE l # 0
    <3>1. b = a + IF id \in S THEN d ELSE 0
      BY <1>1, <2>6, StepUnpaid
    <3>2. v = w + IF id \in S THEN e ELSE 0
      BY <1>1, <2>6, StepWorth
    <3>3. /\ Due(p, swap.ticks, RunningGrowth, swap.tick, q, k) = o + l * (Unit(k) * a + Q128 * w)
          /\ Due(p, new, g, u, r, k) = o + l * (Unit(k) * b + Q128 * v)
      BY DEF Due, Rate
    <3>4. o \in Int
      BY <2>1, <2>2
    <3> DEFINE x == IF id \in S THEN d ELSE 0
               y == IF id \in S THEN e ELSE 0
    <3>5. x \in Int /\ y \in Int /\ a \in Int /\ w \in Int /\ l \in Int /\ Unit(k) \in Int /\ Q128 \in Int
          /\ b = a + x /\ v = w + y
      BY <1>3, <1>5, <2>1, <2>2, <3>1, <3>2
    <3>6. h[id] = o + l * (Unit(k) * b + Q128 * v) /\ f[id] = o + l * (Unit(k) * a + Q128 * w)
      BY <2>4, <3>3
    <3>7. (id \in S => x = d /\ y = e) /\ (id \notin S => x = 0 /\ y = 0)
      OBVIOUS
    <3> HIDE DEF a, w, b, v, o, l, f, h, x, y
    <3>8. h[id] = o + l * (Unit(k) * (a + x) + Q128 * (w + y))
      BY <3>5, <3>6
    <3>9. h[id] = f[id] + (Unit(k) * x + Q128 * y) * l
      BY <3>4, <3>5, <3>6, <3>8, RateShift
    <3>10. id \in S => h[id] = f[id] + c * l
      <4> HIDE DEF d, e, S
      <4> QED  BY <3>7, <3>9
    <3>11. id \notin S => h[id] = f[id] + 0
      <4> HIDE DEF d, e, S
      <4> SUFFICES ASSUME id \notin S PROVE h[id] = f[id] + 0
        OBVIOUS
      <4>1. (Unit(k) * x + Q128 * y) * l = 0
        BY <3>5, <3>7
      <4> QED  BY <3>9, <4>1
    <3> HIDE DEF c, S
    <3> QED  BY <2>2, <2>3, <2>4, <3>10, <3>11 DEF l
  <2> QED  BY <2>1, <2>5, <2>6
<1>9. f \in [Id -> Int] /\ h \in [Id -> Int]
  <2>1. \A id \in Id : f[id] \in Int /\ h[id] \in Int
    BY <1>8
  <2> QED  BY <2>1
<1> DEFINE F == SumFunctionOnSet(f, Id)
           H == SumFunctionOnSet(h, Id)
<1>10. /\ F = Dues(positions, swap.ticks, RunningGrowth, swap.tick, q, k)
       /\ H = Dues(positions, new, g, u, r, k)
  BY DEF Dues, DueTo
<1> HIDE DEF f, h, c, S
<1>11. H = F + c * Amount(positions, S)
  <2>1. /\ \A id \in S : h[id] = f[id] + c * positions[id].liquidity
        /\ \A id \in Id \ S : h[id] = f[id]
    <3>1. ASSUME NEW id \in S PROVE h[id] = f[id] + c * positions[id].liquidity
      BY <1>7, <1>8
    <3>2. ASSUME NEW id \in Id \ S PROVE h[id] = f[id]
      <4>1. h[id] = f[id] + 0 /\ f[id] \in Int
        BY <1>8
      <4> QED  BY <4>1
    <3> QED  BY <3>1, <3>2
  <2>2. SumFunctionOnSet(h, Id) = SumFunctionOnSet(f, Id) + c * Amount(positions, S)
    <3>1. positions \in [Id -> PositionInfo]
      BY <1>1
    <3>2. S \in SUBSET Id
      BY <1>7
    <3> QED  BY <1>6, <1>9, <2>1, <3>1, <3>2, SumShift
  <2> QED  BY <2>2
<1>12. F \in Int
  <2>1. IsFiniteSet(Id) /\ Id \in SUBSET Id
    BY <1>1, <1>7, AmountType
  <2> QED  BY <1>9, <2>1, SumType
<1> HIDE DEF F, H
<1>13. H = F + c * swap.liquidity
  BY <1>7, <1>11
<1> QED  BY <1>2, <1>6, <1>10, <1>12, <1>13 DEF c, new, u, q, r, d, e

\* The amounts swap() would return move with every iteration: the token it takes
\* by the input and the fee, the other by the output.
LEMMA StepMoves ==
    ASSUME PoolInv, NEW step \in Step, NEW next, next = AfterStep(swap, step), NEW k \in Token
    PROVE  /\ swap_amounts(swap)[k + 1] \in Int
           /\ swap_amounts(next)[k + 1]
                = swap_amounts(swap)[k + 1]
                  + IF k = Side THEN step.amount_in + step.fee_amount ELSE -step.amount_out
<1> DEFINE z == swap.zero_for_one
           a == swap.amount
           rem == swap.amount_remaining
           cal == swap.amount_calculated
           paid == step.amount_in + step.fee_amount
           out == step.amount_out
<1>1. /\ z \in BOOLEAN /\ a \in Int /\ rem \in Int /\ cal \in Int /\ swap \in SwapInfo
      /\ step.amount_in \in Nat /\ step.fee_amount \in Nat /\ out \in Nat
  BY DEF PoolInv, TypeOK, SwapInfo, Step
<1>2. paid \in Nat
  BY <1>1
<1>3. /\ next.zero_for_one = z /\ next.amount = a
      /\ next.amount_remaining = IF a > 0 THEN rem - paid ELSE rem + out
      /\ next.amount_calculated = IF a > 0 THEN cal - out ELSE cal + paid
  BY <1>1 DEF AfterStep, SwapInfo
<1>4. swap_amounts(swap) = IF z = (a > 0) THEN <<a - rem, cal>> ELSE <<cal, a - rem>>
  BY DEF swap_amounts
<1> DEFINE rem2 == next.amount_remaining
           cal2 == next.amount_calculated
<1>5. swap_amounts(next) = IF z = (a > 0) THEN <<a - rem2, cal2>> ELSE <<cal2, a - rem2>>
  BY <1>3 DEF swap_amounts
<1>6. Side = IF z THEN 0 ELSE 1
  BY DEF Side
<1>7. k \in {0, 1}
  BY DEF Token
<1>8. rem2 = (IF a > 0 THEN rem - paid ELSE rem + out) /\ cal2 = (IF a > 0 THEN cal - out ELSE cal + paid)
  BY <1>3
<1> DEFINE X == swap_amounts(swap)
           Y == swap_amounts(next)
<1> DEFINE P == z = (a > 0)
<1>9. /\ z => (P <=> a > 0)
      /\ ~z => (P <=> ~(a > 0))
  <2> DEFINE b == a > 0
  <2>1. b \in BOOLEAN /\ z \in BOOLEAN
    BY <1>1
  <2> HIDE DEF b, z
  <2>2. (z => ((z = b) <=> b)) /\ (~z => ((z = b) <=> ~b))
    BY <2>1, Zenon
  <2> QED  BY <2>2 DEF b
<1>10. /\ P => X = <<a - rem, cal>> /\ Y = <<a - rem2, cal2>>
       /\ ~P => X = <<cal, a - rem>> /\ Y = <<cal2, a - rem2>>
  BY <1>4, <1>5
<1> HIDE DEF X, Y, z, a, rem, cal, rem2, cal2, paid, out
<1> HIDE DEF P
<1>11. X[k + 1] \in Int
  BY <1>1, <1>7, <1>10
<1>12. Y[k + 1] = X[k + 1] + IF k = Side THEN paid ELSE -out
  <2>1. CASE z
    <3>1. Side = 0 /\ (P <=> a > 0)
      BY <1>6, <1>9, <2>1
    <3>2. CASE a > 0
      BY <1>1, <1>2, <1>7, <1>8, <1>10, <3>1, <3>2
    <3>3. CASE ~(a > 0)
      BY <1>1, <1>2, <1>7, <1>8, <1>10, <3>1, <3>3
    <3> QED  BY <3>2, <3>3
  <2>2. CASE ~z
    <3>1. Side = 1 /\ (P <=> ~(a > 0))
      BY <1>6, <1>9, <2>2
    <3>2. CASE a > 0
      BY <1>1, <1>2, <1>7, <1>8, <1>10, <3>1, <3>2
    <3>3. CASE ~(a > 0)
      BY <1>1, <1>2, <1>7, <1>8, <1>10, <3>1, <3>3
    <3> QED  BY <3>2, <3>3
  <2> QED  BY <2>1, <2>2
<1> QED  BY <1>11, <1>12 DEF X, Y, paid, out

\* The fee an iteration takes covers the growth it spreads over the liquidity.
LEMMA StepCharges ==
    ASSUME PoolInv, LimitsOk, GrowthInWord, swap.active, SwapContinues, swap.fee_growth < U256,
           NEW step, step = SwapStepResult(swap), NEW g, g = growth_at_cross(swap, step),
           NEW k \in Token
    PROVE  /\ g[k] \in Nat /\ RunningGrowth[k] \in Nat
           /\ k # Side => g[k] = RunningGrowth[k]
           /\ k = Side => swap.liquidity * (g[k] - RunningGrowth[k]) <= Q128 * step.fee_amount
<1> DEFINE l == swap.liquidity
           x == mul_div(step.fee_amount, Q128, l)
           y == step_fee_growth(swap, step)
           f == step.fee_amount
<1>1. /\ f \in Nat /\ l \in Nat /\ swap.fee_growth \in Nat /\ Q128 \in Nat /\ U256 \in Nat \ {0}
      /\ fee_growth_global \in [Token -> Nat]
  <2>1. step \in Step
    BY StepResultType
  <2> QED  BY <2>1, Constants DEF Step, PoolInv, TypeOK, SwapInfo
<1>2. /\ RunningGrowth[k] = IF k = Side THEN swap.fee_growth ELSE fee_growth_global[k]
      /\ Side \in Token
  BY RunningGrowthAt
<1>3. g[k] = IF k = Side THEN y ELSE fee_growth_global[k]
  BY <1>1, <1>2 DEF growth_at_cross, Side
<1>4. y \in Nat
  BY StepGrowth
<1>5. l * (y - swap.fee_growth) <= Q128 * f
  <2>1. CASE l > 0
    <3>1. l \in Nat \ {0}
      BY <1>1, <2>1
    <3>2. x \in Nat
      BY <1>1, <3>1, MulDivType
    <3>3. swap.fee_growth + x < U256
      BY <2>1 DEF GrowthInWord
    <3>4. y = (swap.fee_growth + x) % U256
      BY <2>1 DEF step_fee_growth
    <3>5. x = (f * Q128) \div l /\ f * Q128 \in Int
      BY <1>1 DEF mul_div
    <3> HIDE DEF x, y, l, f
    <3>6. y = swap.fee_growth + x
      BY <1>1, <3>2, <3>3, <3>4
    <3>6a. y - swap.fee_growth = x
      BY <1>1, <3>2, <3>6
    <3> DEFINE m == f * Q128
    <3>7. m \in Int /\ x = m \div l
      BY <3>5
    <3> HIDE DEF m
    <3>8. x \in Int /\ x <= m \div l
      BY <3>2, <3>7
    <3>9. x * l <= m
      BY <3>1, <3>7, <3>8, FloorAtLeast
    <3> QED  BY <1>1, <3>2, <3>6a, <3>9 DEF m
  <2>2. CASE ~(l > 0)
    <3>1. y = swap.fee_growth /\ l = 0
      BY <1>1, <2>2 DEF step_fee_growth
    <3>2. Q128 * f \in Nat
      BY <1>1, MulType
    <3> HIDE DEF y, l, f
    <3> QED  BY <1>1, <3>1, <3>2
  <2> QED  BY <2>1, <2>2
<1> QED  BY <1>1, <1>2, <1>3, <1>4, <1>5

\* What an iteration takes and pays covers the change of what is due.
LEMMA StepPays ==
    ASSUME PoolInv, LimitsOk, GrowthInWord, swap.active, SwapContinues, swap.fee_growth < U256,
           swap.price \in Price, NEW step, step = SwapStepResult(swap), step.price \in Price,
           NEW g, g = growth_at_cross(swap, step), NEW k \in Token
    PROVE  /\ swap_amounts(swap)[k + 1] \in Int /\ swap_amounts(AfterStep(swap, step))[k + 1] \in Int
           /\ (Unit(k) * (g[k] - RunningGrowth[k])
               + Q128 * (Scale(k, step.price) - Scale(k, swap.price))) * swap.liquidity
                <= Grain(k) * (swap_amounts(AfterStep(swap, step))[k + 1] - swap_amounts(swap)[k + 1])
<1> DEFINE l == swap.liquidity
           d == g[k] - RunningGrowth[k]
           e == Scale(k, step.price) - Scale(k, swap.price)
           X == swap_amounts(swap)[k + 1]
           Y == swap_amounts(AfterStep(swap, step))[k + 1]
           in == step.amount_in
           out == step.amount_out
           f == step.fee_amount
           m == Unit(k)
           n == Q128
           M == IF k = Side THEN in + f ELSE -out
<1>1. /\ step \in Step /\ in \in Nat /\ out \in Nat /\ f \in Nat /\ l \in Nat
      /\ swap.amount_remaining \in Int /\ fee \in 0 .. ONE_FEE - 1 /\ swap.zero_for_one \in BOOLEAN
  BY StepResultType DEF Step, PoolInv, TypeOK, SwapInfo
<1>2. m \in Nat /\ n \in Nat /\ e \in Int
  BY ScaleType, Constants
<1>3. X \in Int /\ Y = X + M
  BY <1>1, StepMoves
<1>4. /\ d \in Int
      /\ k # Side => d = 0
      /\ k = Side => l * d <= n * f
  <2>1. /\ g[k] \in Nat /\ RunningGrowth[k] \in Nat
        /\ k # Side => g[k] = RunningGrowth[k]
        /\ k = Side => swap.liquidity * (g[k] - RunningGrowth[k]) <= Q128 * step.fee_amount
    BY StepCharges
  <2> QED  BY <2>1
<1>5. /\ k = Side => l * e <= m * in
      /\ k # Side => l * e <= -(m * out)
  <2> DEFINE c == swap.price
             t == step_clamped_price(swap)
             rem == swap.amount_remaining
  <2>1. t \in Nat \ {0} /\ step = compute_swap_step(c, t, l, rem, fee)
    BY StepTargetType DEF SwapStepResult
  <2>2. /\ swap.zero_for_one => t <= c
        /\ ~swap.zero_for_one => c <= t
    BY StepTarget
  <2>3. c \in Price /\ step.price \in Price /\ l \in Nat /\ rem \in Int /\ fee \in 0 .. ONE_FEE - 1
    BY <1>1
  <2> HIDE DEF c, t, rem, l
  <2>4. /\ t <= c => /\ l * (Scale(0, step.price) - Scale(0, c)) <= Unit(0) * step.amount_in
                     /\ l * (Scale(1, step.price) - Scale(1, c)) <= -(Unit(1) * step.amount_out)
        /\ c <= t => /\ l * (Scale(1, step.price) - Scale(1, c)) <= Unit(1) * step.amount_in
                     /\ l * (Scale(0, step.price) - Scale(0, c)) <= -(Unit(0) * step.amount_out)
    BY <2>1, <2>3, StepFlows
  <2>5. k \in {0, 1} /\ Side = IF swap.zero_for_one THEN 0 ELSE 1
    BY DEF Token, Side
  <2>6. e = Scale(k, step.price) - Scale(k, c)
    BY DEF c
  <2>7. CASE k = 0
    BY <1>1, <2>2, <2>4, <2>5, <2>6, <2>7
  <2>8. CASE k = 1
    BY <1>1, <2>2, <2>4, <2>5, <2>6, <2>8
  <2> QED  BY <2>5, <2>7, <2>8
<1>6. Grain(k) = m * n
  BY DEF Grain
<1> HIDE DEF l, d, e, X, Y, in, out, f, m, n
<1>7. (m * d + n * e) * l = m * (l * d) + n * (l * e)
  BY <1>1, <1>2, <1>4
<1>8. (m * d + n * e) * l <= (m * n) * M
  <2>1. l * d \in Int /\ l * e \in Int /\ n * f \in Int /\ m * in \in Int /\ m * out \in Int
    BY <1>1, <1>2, <1>4
  <2>2. CASE k = Side
    <3>1. (l * d) * m <= (n * f) * m
      BY <1>2, <1>4, <2>1, <2>2, MulOrder
    <3>2. (l * e) * n <= (m * in) * n
      BY <1>2, <1>5, <2>1, <2>2, MulOrder
    <3>3. /\ m * (l * d) = (l * d) * m /\ n * (l * e) = (l * e) * n
          /\ (m * n) * (in + f) = (n * f) * m + (m * in) * n
      BY <1>1, <1>2, <1>4, <2>1
    <3>4. /\ (l * d) * m \in Int /\ (l * e) * n \in Int /\ (n * f) * m \in Int /\ (m * in) * n \in Int
      BY <1>2, <2>1
    <3>5. M = in + f
      BY <2>2
    <3> DEFINE A == (l * d) * m
               B == (l * e) * n
               C == (n * f) * m
               D == (m * in) * n
    <3>6. A \in Int /\ B \in Int /\ C \in Int /\ D \in Int /\ A <= C /\ B <= D
      BY <3>1, <3>2, <3>4
    <3> HIDE DEF A, B, C, D
    <3>7. A + B <= C + D
      BY <3>6
    <3> QED  BY <1>7, <3>3, <3>5, <3>7 DEF A, B, C, D
  <2>3. CASE k # Side
    <3>1. (l * e) * n <= (-(m * out)) * n
      BY <1>2, <1>5, <2>1, <2>3, MulOrder
    <3>2. l * d = 0 /\ m * 0 = 0
      BY <1>1, <1>2, <1>4, <2>3
    <3>3. n * (l * e) = (l * e) * n /\ (m * n) * (-out) = (-(m * out)) * n /\ (l * e) * n \in Int
      BY <1>1, <1>2, <2>1
    <3>4. M = -out
      BY <2>3
    <3>5. (m * d + n * e) * l = (l * e) * n
      BY <1>7, <3>2, <3>3
    <3> QED  BY <3>1, <3>3, <3>4, <3>5
  <2> QED  BY <2>2, <2>3
<1>9. Y - X = M /\ Y \in Int
  BY <1>1, <1>3
<1> QED  BY <1>3, <1>6, <1>8, <1>9 DEF l, d, e, X, Y, m, n

\* What is due to all positions is an integer.
LEMMA DuesType ==
    ASSUME NEW pos \in [Id -> PositionInfo], \A id \in Id : pos[id].lower <= pos[id].upper,
           NEW tks \in [Tick -> TickInfo], NEW growth \in [Token -> Nat], NEW tick, NEW x \in Nat,
           NEW k \in Token
    PROVE  /\ DueTo(pos, tks, growth, tick, x, k) \in [Id -> Int]
           /\ \A id \in Id : DueTo(pos, tks, growth, tick, x, k)[id]
                                = Due(pos[id], tks, growth, tick, x, k)
           /\ Dues(pos, tks, growth, tick, x, k) \in Int /\ IsFiniteSet(Id)
<1> DEFINE f == DueTo(pos, tks, growth, tick, x, k)
<1>1. ASSUME NEW id \in Id PROVE Due(pos[id], tks, growth, tick, x, k) \in Int
  <2> DEFINE p == pos[id]
  <2>1. p \in PositionInfo /\ p.lower <= p.upper
    OBVIOUS
  <2> HIDE DEF p
  <2>2. Due(p, tks, growth, tick, x, k) \in Int
    BY <2>1, DueType
  <2> QED  BY <2>2 DEF p
<1>2. f \in [Id -> Int] /\ \A id \in Id : f[id] = Due(pos[id], tks, growth, tick, x, k)
  BY <1>1 DEF DueTo
<1>3. IsFiniteSet(Id) /\ Id \in SUBSET Id
  <2>1. {} \in SUBSET Id
    OBVIOUS
  <2> QED  BY <2>1, AmountType
<1>4. Dues(pos, tks, growth, tick, x, k) = SumFunctionOnSet(f, Id)
  BY DEF Dues
<1> HIDE DEF f
<1>5. SumFunctionOnSet(f, Id) \in Int
  BY <1>2, <1>3, SumType
<1> QED  BY <1>2, <1>3, <1>4, <1>5 DEF f

\* If no position is due more, all of them are not.
LEMMA DuesOrder ==
    ASSUME NEW pos \in [Id -> PositionInfo], \A id \in Id : pos[id].lower <= pos[id].upper,
           NEW tks \in [Tick -> TickInfo], NEW g \in [Token -> Nat], NEW h \in [Token -> Nat],
           \A k \in Token : g[k] <= h[k], NEW tick \in Int, NEW x \in Nat, NEW k \in Token
    PROVE  Dues(pos, tks, g, tick, x, k) <= Dues(pos, tks, h, tick, x, k)
<1> DEFINE a == DueTo(pos, tks, g, tick, x, k)
           b == DueTo(pos, tks, h, tick, x, k)
<1>1. a \in [Id -> Int] /\ b \in [Id -> Int] /\ IsFiniteSet(Id)
  BY DuesType
<1>2. ASSUME NEW id \in Id PROVE a[id] <= b[id]
  <2> DEFINE p == pos[id]
             l == p.liquidity
             m == Unit(k)
             w == Q128 * Worth(p, x, k)
             o == Grain(k) * p.token_owed[k]
             y == Unpaid(p, tks, g, tick, k)
             z == Unpaid(p, tks, h, tick, k)
  <2>1. p \in PositionInfo /\ p.lower <= p.upper /\ l \in Nat /\ p.token_owed[k] \in Nat
        /\ p.lower \in Tick /\ p.upper \in Tick /\ p.fee_growth_inside[k] \in Nat
    BY DEF PositionInfo
  <2>2. m \in Nat /\ Grain(k) \in Nat /\ Worth(p, x, k) \in Nat /\ y \in Int /\ z \in Int
    <3> HIDE DEF p
    <3> QED  BY <2>1, DueType
  <2>3. y <= z
    <3> DEFINE u == tks[p.lower].fee_growth_outside[k]
               v == tks[p.upper].fee_growth_outside[k]
               c == p.fee_growth_inside[k]
               G == g[k]
               H == h[k]
               lower == p.lower
               upper == p.upper
    <3>1. /\ u \in Nat /\ v \in Nat /\ c \in Nat /\ G \in Nat /\ H \in Nat /\ G <= H
          /\ lower \in Int /\ upper \in Int /\ lower <= upper
      BY <2>1, Constants DEF TickInfo
    <3>2. /\ y = (IF upper <= tick THEN v ELSE G - v) - (IF lower <= tick THEN u ELSE G - u) - c
          /\ z = (IF upper <= tick THEN v ELSE H - v) - (IF lower <= tick THEN u ELSE H - u) - c
      BY DEF Unpaid, Below
    <3> HIDE DEF u, v, c, G, H, lower, upper, y, z
    <3> QED  BY <3>1, <3>2
  <2>4. a[id] = o + l * (m * y + w) /\ b[id] = o + l * (m * z + w)
    BY DEF DueTo, Due, Rate
  <2>5. o \in Int /\ w \in Int
    BY <2>1, <2>2, Constants
  <2> HIDE DEF l, m, w, o, y, z, a, b, p
  <2>6. y * m <= z * m /\ y * m \in Int /\ z * m \in Int /\ y * m = m * y /\ z * m = m * z
    BY <2>2, <2>3, MulOrder
  <2> DEFINE s == m * y + w
             t == m * z + w
  <2>7. s \in Int /\ t \in Int /\ s <= t
    BY <2>5, <2>6
  <2> HIDE DEF s, t
  <2>8. s * l <= t * l /\ s * l = l * s /\ t * l = l * t /\ s * l \in Int /\ t * l \in Int
    BY <2>1, <2>7, MulOrder
  <2>9. o + l * s <= o + l * t
    BY <2>5, <2>8
  <2> QED  BY <2>4, <2>9 DEF s, t
<1>3. /\ Dues(pos, tks, g, tick, x, k) = SumFunctionOnSet(a, Id)
      /\ Dues(pos, tks, h, tick, x, k) = SumFunctionOnSet(b, Id)
  BY DEF Dues
<1> HIDE DEF a, b
<1>4. SumFunctionOnSet(a, Id) <= SumFunctionOnSet(b, Id)
  BY <1>1, <1>2, SumOrder
<1> QED  BY <1>3, <1>4

\* An iteration keeps what the positions are due covered by the reserve and the
\* amounts the swap has taken and paid so far.
LEMMA StepCovers ==
    ASSUME GrowthInWord, PoolInv, PriceInv, TicksInv, BitmapInv, LiquidityInv, GrowthInv, SwapStep,
           Covered([k \in Token |-> reserve[k] + swap_amounts(swap)[k + 1]],
                   positions, swap.ticks, RunningGrowth, swap.tick, swap.price)
    PROVE  Covered([k \in Token |-> reserve[k] + swap_amounts(swap')[k + 1]],
                   positions, swap'.ticks, RunningGrowth', swap'.tick, swap'.price)
<1> DEFINE step == SwapStepResult(swap)
           g == growth_at_cross(swap, step)
           new == ticks_after(swap, step)
           u == tick_after(swap, step)
<1>1. /\ swap.active /\ SwapContinues /\ ~StepFails(swap, step) /\ swap' = AfterStep(swap, step)
      /\ LimitsOk /\ swap.fee_growth < U256
  BY DEF SwapStep, PriceInv, GrowthInv
<1>2. swap'.ticks = new /\ swap'.tick = u /\ swap'.price = step.price
  BY <1>1 DEF AfterStep, PoolInv, TypeOK, SwapInfo
<1>3. /\ RunningGrowth' = g /\ g \in [Token -> Nat] /\ \A k \in Token : g[k] < U256
      /\ Bounded(swap.ticks, g)
  BY StepCounters
<1>4. step = SwapStepResult(swap) /\ g = growth_at_cross(swap, step)
  OBVIOUS
<1> HIDE DEF step, g
<1> SUFFICES ASSUME NEW k \in Token
             PROVE  Dues(positions, new, g, u, step.price, k)
                      <= Grain(k) * (reserve[k] + swap_amounts(AfterStep(swap, step))[k + 1])
  BY <1>1, <1>2, <1>3 DEF Covered
<1> DEFINE c == Unit(k) * (g[k] - RunningGrowth[k])
                + Q128 * (Scale(k, step.price) - Scale(k, swap.price))
           D == Dues(positions, swap.ticks, RunningGrowth, swap.tick, swap.price, k)
           X == swap_amounts(swap)[k + 1]
           Y == swap_amounts(AfterStep(swap, step))[k + 1]
           R == reserve[k]
           G == Grain(k)
           l == swap.liquidity
<1>5. /\ Dues(positions, new, g, u, step.price, k) = D + c * l
      /\ D \in Int /\ c \in Int /\ swap.price \in Price /\ step.price \in Price
  BY <1>1, <1>3, <1>4, StepDues
<1>6. X \in Int /\ Y \in Int /\ c * l <= G * (Y - X)
  BY <1>1, <1>4, <1>5, StepPays
<1>7. D <= G * (R + X)
  BY DEF Covered
<1>8. R \in Int /\ l \in Nat
  BY DEF PoolInv, TypeOK, SwapInfo
<1>9. G \in Nat
  <2>1. Unit(k) \in Nat \ {0}
    BY <1>5, ScaleType
  <2> QED  BY <2>1, MulType, Constants DEF Grain
<1> HIDE DEF c, D, X, Y, R, G, l
<1>10. /\ G * (R + X) \in Int /\ G * (Y - X) \in Int /\ c * l \in Int
       /\ G * (R + Y) = G * (R + X) + G * (Y - X)
  BY <1>5, <1>6, <1>8, <1>9
<1>11. D + c * l <= G * (R + Y)
  <2> DEFINE A == G * (R + X)
             B == G * (Y - X)
             C == c * l
  <2>1. A \in Int /\ B \in Int /\ C \in Int /\ D <= A /\ C <= B /\ G * (R + Y) = A + B
    BY <1>6, <1>7, <1>10
  <2> HIDE DEF A, B, C
  <2>2. D + C <= A + B
    BY <1>5, <2>1
  <2> QED  BY <2>1, <2>2 DEF C
<1> QED  BY <1>5, <1>11 DEF G, R, Y

\* The fees that an update credits are at most those the position has earned.
LEMMA CreditCovered ==
    ASSUME NEW owed \in Nat, NEW a \in Nat, NEW l \in Nat, NEW m \in Nat
    PROVE  /\ (owed + mul_div(a, l, Q128)) % U128 \in Nat
           /\ (m * Q128) * ((owed + mul_div(a, l, Q128)) % U128) <= (m * Q128) * owed + m * (a * l)
<1> DEFINE F == mul_div(a, l, Q128)
           n == Q128
           y == a * l
           z == (owed + F) % U128
<1>1. n \in Nat \ {0} /\ U128 \in Nat \ {0} /\ y \in Nat
  BY MulType, Constants
<1>2. F \in Nat
  BY <1>1, MulDivType
<1>3. F = y \div n
  BY DEF mul_div
<1> HIDE DEF F, n, y
<1>4. F * n <= y
  <2>1. y \in Int /\ F \in Int /\ F <= y \div n
    BY <1>1, <1>2, <1>3
  <2> QED  BY <1>1, <2>1, FloorAtLeast
<1>5. z \in Nat /\ z <= owed + F
  <2> DEFINE s == owed + F
  <2>1. s \in Nat
    BY <1>2
  <2> HIDE DEF s
  <2>2. s % U128 \in Nat /\ s % U128 <= s
    BY <1>1, <2>1
  <2> QED  BY <2>2 DEF s
<1> HIDE DEF z
<1>6. m * n \in Nat
  BY <1>1, MulType
<1>7. z * (m * n) <= (owed + F) * (m * n)
  <2>1. owed + F \in Int /\ z \in Int
    BY <1>2, <1>5
  <2> QED  BY <1>5, <1>6, <2>1, MulOrder
<1>8. (F * n) * m <= y * m
  <2>1. F * n \in Int
    BY <1>1, <1>2
  <2> QED  BY <1>1, <1>4, <2>1, MulOrder
<1>9. /\ (owed + F) * (m * n) = (m * n) * owed + (F * n) * m
      /\ z * (m * n) = (m * n) * z /\ y * m = m * y
  BY <1>1, <1>2, <1>5
<1>10. /\ (m * n) * owed \in Int /\ (F * n) * m \in Int /\ m * y \in Int /\ (m * n) * z \in Int
  <2>1. F * n \in Int
    BY <1>1, <1>2
  <2> QED  BY <1>1, <1>5, <1>6, <2>1
<1>11. (m * n) * z <= (m * n) * owed + m * y
  <2> DEFINE A == (m * n) * z
             B == (m * n) * owed
             C == (F * n) * m
             D == m * y
  <2>1. A \in Int /\ B \in Int /\ C \in Int /\ D \in Int /\ A <= B + C /\ C <= D
    BY <1>7, <1>8, <1>9, <1>10
  <2> HIDE DEF A, B, C, D
  <2>2. A <= B + D
    BY <2>1
  <2> QED  BY <2>2 DEF A, B, D
<1> QED  BY <1>5, <1>11 DEF z, n, F, y

\* update_position leaves what is due to the other positions as it is.
LEMMA UpdateKeepsDues ==
    ASSUME PoolInv, TicksInv, LiquidityInv, NEW id \in Id, NEW delta \in Int,
           UpdatePosition(id, delta), NEW i \in Id, i # id, NEW k \in Token
    PROVE  Due(positions'[i], ticks', fee_growth_global, cur_tick, sqrt_price, k)
             = Due(positions[i], ticks, fee_growth_global, cur_tick, sqrt_price, k)
<1> DEFINE p == positions[id]
           q == positions[i]
           upd == ticks_updated(p, delta)
           clr == ticks_cleared(p, delta)
           g == fee_growth_global
<1>1. /\ PoolInv' /\ UpdateOk(p, delta) /\ positions'[i] = q
      /\ \A j \in Id \ {id} : positions'[j] = positions[j]
      /\ positions'[id].lower = p.lower /\ positions'[id].upper = p.upper
      /\ positions'[id].liquidity = p.liquidity + delta
  BY UpdateEffect
<1>2. /\ positions \in [Id -> PositionInfo] /\ positions' \in [Id -> PositionInfo]
      /\ TypeOK /\ p \in PositionInfo /\ q \in PositionInfo /\ q.lower <= q.upper
      /\ ticks \in [Tick -> TickInfo] /\ ticks' \in [Tick -> TickInfo]
      /\ g \in [Token -> Nat] /\ sqrt_price \in Nat
  BY <1>1 DEF PoolInv, TypeOK, LiquidityInv
<1>3. ticks' = clr
  BY DEF UpdatePosition, update_position
<1>4. CASE q.liquidity = 0
  <2> HIDE DEF q, g
  <2>1. /\ Due(q, ticks, g, cur_tick, sqrt_price, k) = Grain(k) * q.token_owed[k]
        /\ Due(q, ticks', g, cur_tick, sqrt_price, k) = Grain(k) * q.token_owed[k]
    BY <1>2, <1>4, DueType
  <2> QED  BY <1>1, <2>1 DEF q, g
<1>5. CASE q.liquidity # 0
  <2> DEFINE a == q.lower
             b == q.upper
  <2>1. a \in Tick /\ b \in Tick
    BY <1>2 DEF PositionInfo
  <2>2. Matches(positions, ticks) /\ Matches(positions', clr)
    BY <1>1, <1>2, UpdateMatches DEF TicksInv
  <2>3. ticks[a].liquidity_gross # 0 /\ ticks[b].liquidity_gross # 0
    BY <1>2, <1>5, <2>1, <2>2, UsedTicks
  <2>4. clr[a].liquidity_gross # 0 /\ clr[b].liquidity_gross # 0
    <3> HIDE DEF clr
    <3> QED  BY <1>1, <1>2, <1>5, <2>1, <2>2, UsedTicks
  <2> HIDE DEF p, a, b
  <2>5. clr[a] = upd[a] /\ clr[b] = upd[b]
    BY <1>2, <2>1, <2>4, UsedNotCleared
  <2>6. /\ upd[a].fee_growth_outside = ticks[a].fee_growth_outside
        /\ upd[b].fee_growth_outside = ticks[b].fee_growth_outside
    BY <1>1, <1>2, <2>1, <2>3, UpdateOutside
  <2> HIDE DEF clr, upd
  <2>7. /\ Below(clr, g, cur_tick, a, k) = Below(ticks, g, cur_tick, a, k)
        /\ Below(clr, g, cur_tick, b, k) = Below(ticks, g, cur_tick, b, k)
    BY <2>5, <2>6 DEF Below
  <2>8. Unpaid(q, clr, g, cur_tick, k) = Unpaid(q, ticks, g, cur_tick, k)
    BY <2>7 DEF Unpaid, a, b
  <2> HIDE DEF q, g
  <2>9. Due(q, clr, g, cur_tick, sqrt_price, k) = Due(q, ticks, g, cur_tick, sqrt_price, k)
    BY <2>8 DEF Due, Rate
  <2> QED  BY <1>1, <1>3, <2>9 DEF q, g
<1> QED  BY <1>4, <1>5

\* To the updated position, update_position adds no more than it charges for the
\* added liquidity: the fees it credits were due before.
LEMMA UpdateCharges ==
    ASSUME PoolInv, PriceInv, TicksInv, LiquidityInv, NEW id \in Id, NEW delta \in Int,
           UpdatePosition(id, delta), NEW k \in Token
    PROVE  /\ amounts_for(positions[id], delta)[k + 1] \in Int
           /\ Due(positions'[id], ticks', fee_growth_global, cur_tick, sqrt_price, k)
                <= Due(positions[id], ticks, fee_growth_global, cur_tick, sqrt_price, k)
                   + Grain(k) * amounts_for(positions[id], delta)[k + 1]
<1> DEFINE p == positions[id]
           q == positions'[id]
           upd == ticks_updated(p, delta)
           clr == ticks_cleared(p, delta)
           inside == get_fee_growth_inside(upd, p.lower, p.upper)
           g == fee_growth_global
           a == inside[k] - p.fee_growth_inside[k]
           l == p.liquidity
           o == p.token_owed[k]
           c == (o + mul_div(a, l, Q128)) % U128
           w == Worth(p, sqrt_price, k)
           m == Unit(k)
           n == Q128
           amount == amounts_for(p, delta)[k + 1]
<1>1. /\ PoolInv' /\ UpdateOk(p, delta)
      /\ \A i \in Id \ {id} : positions'[i] = positions[i]
      /\ q.lower = p.lower /\ q.upper = p.upper /\ q.liquidity = l + delta
  BY UpdateEffect
<1>2. /\ positions \in [Id -> PositionInfo] /\ positions' \in [Id -> PositionInfo]
      /\ TypeOK /\ p \in PositionInfo /\ q \in PositionInfo /\ p.lower <= p.upper
      /\ ticks \in [Tick -> TickInfo] /\ g \in [Token -> Nat] /\ sqrt_price \in Nat
  BY <1>1 DEF PoolInv, TypeOK, LiquidityInv
<1>3. /\ p.lower \in Tick /\ p.upper \in Tick /\ l \in Nat /\ o \in Nat
      /\ p.fee_growth_inside[k] \in Nat /\ q.liquidity \in Nat
  BY <1>2 DEF PositionInfo
<1>4. ticks' = clr /\ positions' = [positions EXCEPT ![id] = position_update(p, delta, inside)]
  BY DEF UpdatePosition, update_position
<1>5. q.fee_growth_inside[k] = inside[k] /\ q.token_owed[k] = c
  <2> HIDE DEF inside, p
  <2>1. /\ position_update(p, delta, inside).fee_growth_inside = inside
        /\ position_update(p, delta, inside).token_owed[k] = c
    BY <1>2 DEF position_update, PositionInfo
  <2>2. q = position_update(p, delta, inside)
    BY <1>2, <1>4
  <2> QED  BY <2>1, <2>2
<1>6. upd \in [Tick -> TickInfo] /\ clr \in [Tick -> TickInfo]
  BY <1>1, <1>2, TicksUpdatedType
<1>7. inside[k] = Below(upd, g, cur_tick, p.upper, k) - Below(upd, g, cur_tick, p.lower, k)
  BY <1>2, <1>3, <1>6, InsideIsBelow
<1>8. inside[k] \in Int
  <2> HIDE DEF upd, inside, g
  <2> QED  BY <1>2, <1>3, <1>6, <1>7, BelowType
<1>9. a \in Nat
  <2>1. inside[k] >= p.fee_growth_inside[k]
    BY DEF UpdatePosition, update_position_ok, position_update_ok
  <2> HIDE DEF inside
  <2> QED  BY <1>3, <1>8, <2>1
<1>10. Matches(positions, ticks) /\ Matches(positions', clr)
  BY <1>1, <1>2, UpdateMatches DEF TicksInv
<1>11. l # 0 => Unpaid(p, ticks, g, cur_tick, k) = a
  <2> SUFFICES ASSUME l # 0 PROVE Unpaid(p, ticks, g, cur_tick, k) = a
    OBVIOUS
  <2>1. ticks[p.lower].liquidity_gross # 0 /\ ticks[p.upper].liquidity_gross # 0
    BY <1>2, <1>3, <1>10, UsedTicks
  <2>2. /\ upd[p.lower].fee_growth_outside = ticks[p.lower].fee_growth_outside
        /\ upd[p.upper].fee_growth_outside = ticks[p.upper].fee_growth_outside
    BY <1>1, <1>2, <1>3, <2>1, UpdateOutside
  <2> HIDE DEF upd, inside
  <2>3. /\ Below(upd, g, cur_tick, p.lower, k) = Below(ticks, g, cur_tick, p.lower, k)
        /\ Below(upd, g, cur_tick, p.upper, k) = Below(ticks, g, cur_tick, p.upper, k)
    BY <2>2 DEF Below
  <2> QED  BY <1>7, <2>3 DEF Unpaid
<1>12. q.liquidity # 0 => Unpaid(q, clr, g, cur_tick, k) = 0
  <2> SUFFICES ASSUME q.liquidity # 0 PROVE Unpaid(q, clr, g, cur_tick, k) = 0
    OBVIOUS
  <2>1. clr[p.lower].liquidity_gross # 0 /\ clr[p.upper].liquidity_gross # 0
    <3> HIDE DEF clr
    <3>1. clr[q.lower].liquidity_gross # 0 /\ clr[q.upper].liquidity_gross # 0
      BY <1>1, <1>2, <1>3, <1>10, UsedTicks
    <3> QED  BY <1>1, <3>1
  <2>2. clr[p.lower] = upd[p.lower] /\ clr[p.upper] = upd[p.upper]
    BY <1>2, <1>3, <2>1, UsedNotCleared
  <2> HIDE DEF clr, upd, inside, q
  <2>3. /\ Below(clr, g, cur_tick, p.lower, k) = Below(upd, g, cur_tick, p.lower, k)
        /\ Below(clr, g, cur_tick, p.upper, k) = Below(upd, g, cur_tick, p.upper, k)
    BY <2>2 DEF Below
  <2>4. Unpaid(q, clr, g, cur_tick, k) = inside[k] - inside[k]
    BY <1>1, <1>5, <1>7, <2>3 DEF Unpaid
  <2> QED  BY <1>8, <2>4
<1>13. Worth(q, sqrt_price, k) = w
  <2> HIDE DEF p, q
  <2> QED  BY <1>1 DEF Worth, Within
<1>14. amount \in Int /\ delta * w <= m * amount
  <2>1. delta # 0 => InInterval(sqrt_price, cur_tick)
    <3> SUFFICES ASSUME delta # 0 PROVE InInterval(sqrt_price, cur_tick)
      OBVIOUS
    <3>1. tick_spacing \in Nat \ {0}
      BY <1>1, <1>2, NoSpacingNoDelta
    <3> QED  BY <3>1 DEF PriceInv, StoredPriceOk
  <2> HIDE DEF p
  <2> QED  BY <1>2, <2>1, DeltaCovered
<1> HIDE DEF p, q, upd, clr, inside, g
<1>15. /\ m \in Nat \ {0} /\ n \in Nat \ {0} /\ w \in Nat /\ Grain(k) = m * n
       /\ l = 0 => Due(p, ticks, g, cur_tick, sqrt_price, k) = Grain(k) * o
  <2>1. /\ m \in Nat \ {0} /\ w \in Nat
        /\ l = 0 => Due(p, ticks, g, cur_tick, sqrt_price, k) = Grain(k) * o
    <3> HIDE DEF l, o, w, m
    <3>1. p.liquidity = 0 =>
              Due(p, ticks, g, cur_tick, sqrt_price, k) = Grain(k) * p.token_owed[k]
      BY <1>2, DueType
    <3>2. Unit(k) \in Nat \ {0} /\ Worth(p, sqrt_price, k) \in Nat
      BY <1>2, DueType
    <3> QED  BY <3>1, <3>2 DEF l, o, w, m
  <2>2. n \in Nat \ {0} /\ Grain(k) = m * n
    BY Constants DEF Grain
  <2> QED  BY <2>1, <2>2
<1>16. q.liquidity = 0 => Due(q, clr, g, cur_tick, sqrt_price, k) = Grain(k) * c
  <2>1. q.lower <= q.upper
    BY <1>1, <1>2
  <2> HIDE DEF c
  <2> QED  BY <1>2, <1>5, <1>6, <2>1, DueType
<1>17. c \in Nat /\ (m * n) * c <= (m * n) * o + m * (a * l)
  <2> HIDE DEF a, l, o, m
  <2>1. m \in Nat
    BY <1>15
  <2> QED  BY <1>3, <1>9, <2>1, CreditCovered
<1>18. Due(p, ticks, g, cur_tick, sqrt_price, k) = (m * n) * o + l * (m * a + n * w)
  <2>1. CASE l = 0
    <3>1. l * (m * a + n * w) = 0
      <4> DEFINE r == m * a + n * w
      <4>1. r \in Int
        <5> HIDE DEF a, m, n, w
        <5> QED  BY <1>9, <1>15
      <4> HIDE DEF r, l
      <4>2. l * r = 0
        BY <2>1, <4>1
      <4> QED  BY <4>2 DEF r
    <3> HIDE DEF l, o, a, w, m, n
    <3>2. (m * n) * o \in Int
      BY <1>3, <1>15
    <3> QED  BY <1>15, <2>1, <3>1, <3>2
  <2>2. CASE l # 0
    BY <1>11, <1>15, <2>2 DEF Due, Rate
  <2> QED  BY <2>1, <2>2
<1>19. Due(q, clr, g, cur_tick, sqrt_price, k) = (m * n) * c + (l + delta) * (n * w)
  <2>1. CASE q.liquidity = 0
    <3> HIDE DEF l, o, a, w, m, n, c
    <3>1. (l + delta) * (n * w) = 0
      <4> DEFINE r == n * w
      <4>1. r \in Int
        BY <1>15
      <4> HIDE DEF r
      <4>2. l + delta = 0
        BY <1>1, <2>1
      <4>3. (l + delta) * r = 0
        BY <4>1, <4>2
      <4> QED  BY <4>3 DEF r
    <3>2. (m * n) * c \in Int
      BY <1>15, <1>17
    <3> QED  BY <1>15, <1>16, <2>1, <3>1, <3>2
  <2>2. CASE q.liquidity # 0
    <3>1. m * 0 + n * w = n * w
      <4> HIDE DEF m, n, w
      <4>1. m * 0 = 0 /\ n * w \in Int
        BY <1>15
      <4> QED  BY <4>1
    <3>2. Rate(q, clr, g, cur_tick, sqrt_price, k) = n * w
      BY <1>12, <1>13, <2>2, <3>1 DEF Rate
    <3> HIDE DEF l, o, a, w, m, n, c
    <3> QED  BY <1>1, <1>5, <1>15, <3>2 DEF Due
  <2> QED  BY <2>1, <2>2
<1>20. (m * n) * c + (l + delta) * (n * w) <= (m * n) * o + l * (m * a + n * w) + (m * n) * amount
  <2> HIDE DEF l, o, a, w, m, n, c, amount
  <2>1. (delta * w) * n <= (m * amount) * n
    <3>1. delta * w \in Int /\ m * amount \in Int /\ n \in Nat
      BY <1>14, <1>15
    <3> QED  BY <1>14, <3>1, MulOrder
  <2>2. (l + delta) * (n * w) = l * (n * w) + (delta * w) * n
    BY <1>3, <1>15
  <2>3. l * (m * a + n * w) = m * (a * l) + l * (n * w)
    BY <1>3, <1>9, <1>15
  <2>4. (m * n) * amount = (m * amount) * n
    BY <1>14, <1>15
  <2>5. /\ (delta * w) * n \in Int /\ (m * amount) * n \in Int /\ l * (n * w) \in Int
    <3>1. delta * w \in Int /\ m * amount \in Int /\ n * w \in Int
      BY <1>14, <1>15
    <3> QED  BY <1>3, <1>15, <3>1
  <2>6. m * (a * l) \in Int /\ (m * n) * c \in Int /\ (m * n) * o \in Int
    <3>1. a * l \in Int /\ m * n \in Int
      BY <1>3, <1>9, <1>15
    <3> QED  BY <1>3, <1>15, <1>17, <3>1
  <2> DEFINE A == (m * n) * c
             B == (m * n) * o
             C == m * (a * l)
             D == l * (n * w)
             E == (delta * w) * n
             F == (m * amount) * n
  <2>7. A \in Int /\ B \in Int /\ C \in Int /\ D \in Int /\ E \in Int /\ F \in Int
        /\ A <= B + C /\ E <= F
    BY <1>17, <2>1, <2>5, <2>6
  <2>8. (m * n) * c + (l + delta) * (n * w) = A + (D + E)
    BY <2>2
  <2>9. (m * n) * o + l * (m * a + n * w) + (m * n) * amount = B + (C + D) + F
    BY <2>3, <2>4
  <2> HIDE DEF A, B, C, D, E, F
  <2>10. A + (D + E) <= B + (C + D) + F
    BY <2>7
  <2> QED  BY <2>8, <2>9, <2>10
<1>21. Grain(k) * amount = (m * n) * amount
  BY <1>15
<1>22. Due(q, ticks', g, cur_tick, sqrt_price, k)
         <= Due(p, ticks, g, cur_tick, sqrt_price, k) + Grain(k) * amount
  BY <1>4, <1>18, <1>19, <1>20, <1>21
<1> QED  BY <1>14, <1>22 DEF p, q, g

\* update_position leaves the reserve covering what is due.
LEMMA UpdateCovers ==
    ASSUME PoolInv, PriceInv, TicksInv, LiquidityInv, NEW id \in Id, NEW delta \in Int,
           UpdatePosition(id, delta),
           Covered(reserve, positions, ticks, fee_growth_global, cur_tick, sqrt_price)
    PROVE  Covered(reserve', positions', ticks', fee_growth_global, cur_tick, sqrt_price)
<1> SUFFICES ASSUME NEW k \in Token
             PROVE  Dues(positions', ticks', fee_growth_global, cur_tick, sqrt_price, k)
                      <= Grain(k) * reserve'[k]
  BY DEF Covered
<1> DEFINE f == DueTo(positions, ticks, fee_growth_global, cur_tick, sqrt_price, k)
           h == DueTo(positions', ticks', fee_growth_global, cur_tick, sqrt_price, k)
           amount == amounts_for(positions[id], delta)[k + 1]
           D == Dues(positions, ticks, fee_growth_global, cur_tick, sqrt_price, k)
           E == Dues(positions', ticks', fee_growth_global, cur_tick, sqrt_price, k)
<1>1. /\ PoolInv' /\ \A i \in Id \ {id} : positions'[i] = positions[i]
      /\ positions'[id].lower = positions[id].lower /\ positions'[id].upper = positions[id].upper
  BY UpdateEffect
<1>2. /\ positions \in [Id -> PositionInfo] /\ positions' \in [Id -> PositionInfo]
      /\ ticks \in [Tick -> TickInfo] /\ ticks' \in [Tick -> TickInfo]
      /\ fee_growth_global \in [Token -> Nat] /\ sqrt_price \in Nat /\ reserve[k] \in Int
      /\ \A i \in Id : positions[i].lower <= positions[i].upper
  BY <1>1 DEF PoolInv, TypeOK, LiquidityInv
<1>3. \A i \in Id : positions'[i].lower <= positions'[i].upper
  BY <1>1, <1>2
<1>4. /\ f \in [Id -> Int] /\ D \in Int /\ IsFiniteSet(Id)
      /\ f[id] = Due(positions[id], ticks, fee_growth_global, cur_tick, sqrt_price, k)
  BY <1>2, DuesType
<1>5. /\ h \in [Id -> Int] /\ E \in Int
      /\ h[id] = Due(positions'[id], ticks', fee_growth_global, cur_tick, sqrt_price, k)
  BY <1>2, <1>3, DuesType
<1>6. amount \in Int /\ h[id] <= f[id] + Grain(k) * amount
  BY <1>4, <1>5, UpdateCharges
<1>7. \A i \in Id \ {id} : f[i] = h[i]
  BY UpdateKeepsDues DEF DueTo
<1>8. D = SumFunctionOnSet(f, Id) /\ E = SumFunctionOnSet(h, Id)
  BY DEF Dues
<1> HIDE DEF f, h, D, E
<1>9. E = D + (h[id] - f[id])
  <2>1. Id \in SUBSET Id
    OBVIOUS
  <2> QED  BY <1>4, <1>5, <1>7, <1>8, <2>1, SumChange
<1>10. D <= Grain(k) * reserve[k]
  BY DEF Covered, D
<1>11. reserve'[k] = reserve[k] + amount
  BY DEF UpdatePosition, update_position
<1>12. Grain(k) \in Nat \ {0}
  BY GrainType
<1> HIDE DEF amount
<1>13. /\ Grain(k) * (reserve[k] + amount) = Grain(k) * reserve[k] + Grain(k) * amount
       /\ Grain(k) * reserve[k] \in Int /\ Grain(k) * amount \in Int
  BY <1>2, <1>6, <1>12
<1>14. f[id] \in Int /\ h[id] \in Int
  BY <1>4, <1>5
<1>15. E <= Grain(k) * (reserve[k] + amount)
  <2> DEFINE R == Grain(k) * reserve[k]
             A == Grain(k) * amount
             u == f[id]
             v == h[id]
  <2>1. /\ R \in Int /\ A \in Int /\ u \in Int /\ v \in Int /\ D \in Int /\ E \in Int
        /\ E = D + (v - u) /\ v <= u + A /\ D <= R
    BY <1>4, <1>5, <1>6, <1>9, <1>10, <1>13, <1>14
  <2> HIDE DEF R, A, u, v
  <2>2. E <= R + A
    BY <2>1
  <2> QED  BY <1>13, <2>2 DEF R, A
<1> QED  BY <1>11, <1>15 DEF E

\* Equal dues are covered by the same reserve.
LEMMA CoveredSame ==
    ASSUME NEW res, NEW pos, NEW new, NEW tks, NEW new_tks, NEW g, NEW tick, NEW u, NEW x, NEW y,
           Covered(res, pos, tks, g, tick, x),
           \A id \in Id, k \in Token : Due(new[id], new_tks, g, u, y, k) = Due(pos[id], tks, g, tick, x, k)
    PROVE  Covered(res, new, new_tks, g, u, y)
<1>1. ASSUME NEW k \in Token
      PROVE  DueTo(new, new_tks, g, u, y, k) = DueTo(pos, tks, g, tick, x, k)
  BY <1>1 DEF DueTo
<1> QED  BY <1>1 DEF Covered, Dues

\* collect pays the credited fees of a position from the reserve and takes them
\* off what is due.
LEMMA CollectCovers ==
    ASSUME PoolInv, LiquidityInv, NEW id \in Id, Collect(id),
           Covered(reserve, positions, ticks, fee_growth_global, cur_tick, sqrt_price)
    PROVE  Covered(reserve', positions', ticks, fee_growth_global, cur_tick, sqrt_price)
<1> SUFFICES ASSUME NEW k \in Token
             PROVE  Dues(positions', ticks, fee_growth_global, cur_tick, sqrt_price, k)
                      <= Grain(k) * reserve'[k]
  BY DEF Covered
<1> DEFINE p == positions[id]
           q == positions'[id]
           f == DueTo(positions, ticks, fee_growth_global, cur_tick, sqrt_price, k)
           h == DueTo(positions', ticks, fee_growth_global, cur_tick, sqrt_price, k)
           o == p.token_owed[k]
           D == Dues(positions, ticks, fee_growth_global, cur_tick, sqrt_price, k)
           E == Dues(positions', ticks, fee_growth_global, cur_tick, sqrt_price, k)
           z == p.liquidity * Rate(p, ticks, fee_growth_global, cur_tick, sqrt_price, k)
<1>1. /\ positions' = [positions EXCEPT ![id].token_owed = NoFees]
      /\ reserve' = [j \in Token |-> reserve[j] - positions[id].token_owed[j]]
  BY DEF Collect
<1>0. /\ positions \in [Id -> PositionInfo] /\ ticks \in [Tick -> TickInfo]
      /\ fee_growth_global \in [Token -> Nat] /\ sqrt_price \in Nat
      /\ \A i \in Id : positions[i].lower <= positions[i].upper
  BY DEF PoolInv, TypeOK, LiquidityInv
<1>2. /\ positions \in [Id -> PositionInfo] /\ p \in PositionInfo /\ NoFees \in [Token -> Nat]
      /\ reserve \in [Token -> Int] /\ p.lower <= p.upper
  BY <1>0, EmptyTypes DEF PoolInv, TypeOK
<1>3. /\ q = [p EXCEPT !.token_owed = NoFees] /\ \A i \in Id \ {id} : positions'[i] = positions[i]
  BY <1>1, <1>2
<1>4. /\ q.lower = p.lower /\ q.upper = p.upper /\ q.liquidity = p.liquidity
      /\ q.fee_growth_inside = p.fee_growth_inside /\ q.token_owed[k] = 0
      /\ q \in PositionInfo /\ o \in Nat
  BY <1>2, <1>3 DEF PositionInfo, NoFees
<1>5. /\ positions' \in [Id -> PositionInfo]
      /\ \A i \in Id : positions'[i].lower <= positions'[i].upper
  <2>1. positions' = [positions EXCEPT ![id] = q]
    BY <1>1, <1>2, <1>3
  <2> HIDE DEF p, q
  <2>2. positions' \in [Id -> PositionInfo]
    BY <1>2, <1>4, <2>1
  <2> QED  BY <1>0, <1>3, <1>4, <2>2 DEF p, q
<1>6. /\ f \in [Id -> Int] /\ D \in Int /\ IsFiniteSet(Id)
  BY <1>0, DuesType
<1>7. h \in [Id -> Int] /\ E \in Int
  BY <1>0, <1>5, DuesType
<1>8. Grain(k) \in Nat \ {0}
  BY GrainType
<1>9. f[id] = Grain(k) * o + z /\ h[id] = Grain(k) * 0 + z
  <2> HIDE DEF p, q, f, h
  <2>1. /\ f[id] = Due(p, ticks, fee_growth_global, cur_tick, sqrt_price, k)
        /\ h[id] = Due(q, ticks, fee_growth_global, cur_tick, sqrt_price, k)
    BY DEF p, q, f, h, DueTo
  <2>2. Worth(q, sqrt_price, k) = Worth(p, sqrt_price, k)
    BY <1>4 DEF Worth, Within
  <2>3. Unpaid(q, ticks, fee_growth_global, cur_tick, k)
          = Unpaid(p, ticks, fee_growth_global, cur_tick, k)
    BY <1>4 DEF Unpaid
  <2>4. Rate(q, ticks, fee_growth_global, cur_tick, sqrt_price, k)
          = Rate(p, ticks, fee_growth_global, cur_tick, sqrt_price, k)
    BY <2>2, <2>3 DEF Rate
  <2> QED  BY <1>4, <2>1, <2>4 DEF Due
<1>10. z \in Int
  <2>1. p.lower <= p.upper /\ p.liquidity \in Nat
    BY <1>2 DEF PositionInfo
  <2> HIDE DEF p
  <2>2. Rate(p, ticks, fee_growth_global, cur_tick, sqrt_price, k) \in Int
    BY <1>0, <1>2, <2>1, DueType
  <2> DEFINE r == Rate(p, ticks, fee_growth_global, cur_tick, sqrt_price, k)
  <2> HIDE DEF r
  <2>3. p.liquidity * r \in Int
    BY <2>1, <2>2 DEF r
  <2> QED  BY <2>3 DEF r
<1>11. \A i \in Id \ {id} : f[i] = h[i]
  BY <1>3 DEF DueTo
<1>12. D = SumFunctionOnSet(f, Id) /\ E = SumFunctionOnSet(h, Id)
  BY DEF Dues
<1>13. D <= Grain(k) * reserve[k]
  BY DEF Covered
<1>14. reserve'[k] = reserve[k] - o /\ reserve[k] \in Int
  BY <1>1, <1>2
<1> HIDE DEF f, h, D, E, z, o
<1>15. E = D + (h[id] - f[id])
  <2>1. Id \in SUBSET Id
    OBVIOUS
  <2> QED  BY <1>6, <1>7, <1>11, <1>12, <2>1, SumChange
<1>16. /\ Grain(k) * o \in Int /\ Grain(k) * 0 = 0 /\ Grain(k) * reserve[k] \in Int
       /\ Grain(k) * (reserve[k] - o) = Grain(k) * reserve[k] - Grain(k) * o
  BY <1>4, <1>8, <1>14
<1>17. E <= Grain(k) * reserve[k] - Grain(k) * o
  BY <1>6, <1>9, <1>10, <1>13, <1>15, <1>16
<1> QED  BY <1>14, <1>16, <1>17 DEF E

\* Without liquidity the range, the tick and the price make no difference.
LEMMA DueOfEmpty ==
    ASSUME NEW p \in PositionInfo, p.lower <= p.upper, p.liquidity = 0,
           NEW q \in PositionInfo, q.lower <= q.upper, q.liquidity = 0, q.token_owed = p.token_owed,
           NEW tks \in [Tick -> TickInfo], NEW g \in [Token -> Nat],
           NEW tick, NEW x \in Nat, NEW u, NEW y \in Nat, NEW k \in Token
    PROVE  Due(q, tks, g, u, y, k) = Due(p, tks, g, tick, x, k)
<1>1. Due(p, tks, g, tick, x, k) = Grain(k) * p.token_owed[k]
  BY DueType
<1>2. Due(q, tks, g, u, y, k) = Grain(k) * q.token_owed[k]
  BY DueType
<1> QED  BY <1>1, <1>2

\* init sets the price of a pool without liquidity.
LEMMA InitCovers ==
    ASSUME PoolInv, PoolInv', PriceInv, LiquidityInv,
           NEW a \in InitParams, InitPool(a[1], a[2], a[3], a[4]),
           Covered(reserve, positions, ticks, fee_growth_global, cur_tick, sqrt_price)
    PROVE  Covered(reserve, positions, ticks, fee_growth_global, cur_tick', sqrt_price')
<1>1. \A id \in Id : positions[id].liquidity = 0
  BY DEF InitPool, PriceInv, StoredPriceOk, LiquidityInv
<1>2. /\ positions \in [Id -> PositionInfo] /\ ticks \in [Tick -> TickInfo]
      /\ fee_growth_global \in [Token -> Nat] /\ sqrt_price \in Nat /\ sqrt_price' \in Nat
      /\ \A id \in Id : positions[id].lower <= positions[id].upper
  BY DEF PoolInv, TypeOK, LiquidityInv
<1>3. ASSUME NEW id \in Id, NEW k \in Token
      PROVE  Due(positions[id], ticks, fee_growth_global, cur_tick', sqrt_price', k)
               = Due(positions[id], ticks, fee_growth_global, cur_tick, sqrt_price, k)
  <2> DEFINE p == positions[id]
             g == fee_growth_global
             y == sqrt_price'
             u == cur_tick'
  <2>1. p \in PositionInfo /\ p.lower <= p.upper /\ p.liquidity = 0 /\ y \in Nat
    BY <1>1, <1>2
  <2>2. ticks \in [Tick -> TickInfo] /\ g \in [Token -> Nat] /\ sqrt_price \in Nat
    BY <1>2
  <2> HIDE DEF p, g, y, u
  <2>3. Due(p, ticks, g, u, y, k) = Due(p, ticks, g, cur_tick, sqrt_price, k)
    BY <2>1, <2>2, DueOfEmpty
  <2> QED  BY <2>3 DEF p, g, y, u
<1> QED  BY <1>3, CoveredSame

\* A new position has no liquidity, so its range adds nothing to what is due.
LEMMA CreateCovers ==
    ASSUME PoolInv, PoolInv', TicksInv, LiquidityInv, LiquidityInv',
           NEW low, NEW up, CreatePosition(low, up),
           Covered(reserve, positions, ticks, fee_growth_global, cur_tick, sqrt_price)
    PROVE  Covered(reserve, positions', ticks, fee_growth_global, cur_tick, sqrt_price)
<1> DEFINE n == next_position_id
<1>1. /\ positions \in [Id -> PositionInfo] /\ positions' \in [Id -> PositionInfo]
      /\ n \in Id /\ n \in Nat
      /\ positions' = [positions EXCEPT ![n].lower = low, ![n].upper = up]
  BY DEF PoolInv, TypeOK, CreatePosition
<1>2. /\ \A id \in Id \ {n} : positions'[id] = positions[id]
      /\ positions'[n] = [positions[n] EXCEPT !.lower = low, !.upper = up]
  BY <1>1
<1>3. positions[n].liquidity = 0
  BY <1>1 DEF TicksInv, UnmintedEmpty
<1>4. /\ positions'[n].liquidity = 0 /\ positions'[n].token_owed = positions[n].token_owed
  <2> DEFINE p == positions[n]
             q == positions'[n]
  <2>1. p \in PositionInfo /\ q = [p EXCEPT !.lower = low, !.upper = up] /\ p.liquidity = 0
    BY <1>1, <1>2, <1>3
  <2> HIDE DEF p, q
  <2>2. q.liquidity = 0 /\ q.token_owed = p.token_owed
    BY <2>1 DEF PositionInfo
  <2> QED  BY <2>2 DEF p, q
<1>5. ASSUME NEW id \in Id, NEW k \in Token
      PROVE  Due(positions'[id], ticks, fee_growth_global, cur_tick, sqrt_price, k)
               = Due(positions[id], ticks, fee_growth_global, cur_tick, sqrt_price, k)
  <2>1. CASE id # n
    BY <1>2, <2>1
  <2>2. CASE id = n
    <3> DEFINE p == positions[n]
               q == positions'[n]
               g == fee_growth_global
    <3>1. /\ p \in PositionInfo /\ p.lower <= p.upper /\ p.liquidity = 0
          /\ q \in PositionInfo /\ q.lower <= q.upper /\ q.liquidity = 0
          /\ q.token_owed = p.token_owed
      BY <1>1, <1>3, <1>4 DEF LiquidityInv
    <3>2. ticks \in [Tick -> TickInfo] /\ g \in [Token -> Nat] /\ sqrt_price \in Nat
      BY DEF PoolInv, TypeOK
    <3> HIDE DEF p, q, g
    <3>3. Due(q, ticks, g, cur_tick, sqrt_price, k) = Due(p, ticks, g, cur_tick, sqrt_price, k)
      BY <3>1, <3>2, DueOfEmpty
    <3> QED  BY <2>2, <3>3 DEF p, q, g
  <2> QED  BY <2>1, <2>2
<1> DEFINE new == positions'
<1>6. \A id \in Id, k \in Token :
          Due(new[id], ticks, fee_growth_global, cur_tick, sqrt_price, k)
            = Due(positions[id], ticks, fee_growth_global, cur_tick, sqrt_price, k)
  BY <1>5
<1> HIDE DEF new
<1>7. Covered(reserve, new, ticks, fee_growth_global, cur_tick, sqrt_price)
  BY <1>6, CoveredSame
<1> QED  BY <1>7 DEF new

\* A commit stores what the iterations left; a pool without fee keeps its
\* counters, which are then behind the swap's.
LEMMA CommitCovers ==
    ASSUME PoolInv, LiquidityInv, GrowthInv, SwapCommit,
           Covered([k \in Token |-> reserve[k] + swap_amounts(swap)[k + 1]],
                   positions, swap.ticks, RunningGrowth, swap.tick, swap.price)
    PROVE  Covered(reserve', positions', ticks', fee_growth_global', cur_tick', sqrt_price')
<1>1. /\ swap.active /\ ticks' = swap.ticks /\ cur_tick' = swap.tick /\ sqrt_price' = swap.price
      /\ reserve' = [k \in Token |-> reserve[k] + swap_amounts(swap)[k + 1]] /\ positions' = positions
      /\ fee_growth_global' = IF fee = 0 THEN fee_growth_global ELSE RunningGrowth
  BY DEF SwapCommit, RunningGrowth, Side
<1> DEFINE res == [k \in Token |-> reserve[k] + swap_amounts(swap)[k + 1]]
           tks == swap.ticks
           tick == swap.tick
           x == swap.price
           g == fee_growth_global
           h == RunningGrowth
<1>2. Covered(res, positions, tks, h, tick, x)
  OBVIOUS
<1>3. /\ positions \in [Id -> PositionInfo] /\ tks \in [Tick -> TickInfo] /\ g \in [Token -> Nat]
      /\ tick \in Int /\ x \in Nat /\ \A id \in Id : positions[id].lower <= positions[id].upper
  BY DEF PoolInv, TypeOK, SwapInfo, LiquidityInv
<1>4. h \in [Token -> Nat] /\ \A k \in Token : g[k] <= h[k]
  <2>1. /\ Side \in Token /\ h \in [Token -> Nat]
        /\ \A k \in Token : h[k] = IF k = Side THEN swap.fee_growth ELSE g[k]
    BY RunningGrowthAt
  <2>2. g[Side] <= swap.fee_growth
    BY <1>1 DEF GrowthInv
  <2> HIDE DEF g, h
  <2> QED  BY <1>3, <2>1, <2>2
<1>5. \A k \in Token : res[k] \in Int
  <2> SUFFICES ASSUME NEW k \in Token PROVE res[k] \in Int
    OBVIOUS
  <2>1. reserve' \in [Token -> Int]
    <3>1. [Next]_vars
      BY DEF Next, SwapLoop
    <3> QED  BY <3>1, PoolNext DEF PoolInv, TypeOK
  <2> QED  BY <1>1, <2>1
<1>6. reserve' = res /\ ticks' = tks /\ cur_tick' = tick /\ sqrt_price' = x
  BY <1>1
<1> HIDE DEF res, tks, tick, x, g, h
<1>7. Covered(res, positions, tks, g, tick, x)
  <2> SUFFICES ASSUME NEW k \in Token
               PROVE  Dues(positions, tks, g, tick, x, k) <= Grain(k) * res[k]
    BY DEF Covered
  <2>1. Dues(positions, tks, h, tick, x, k) <= Grain(k) * res[k]
    BY <1>2 DEF Covered
  <2>2. Dues(positions, tks, g, tick, x, k) <= Dues(positions, tks, h, tick, x, k)
    BY <1>3, <1>4, DuesOrder
  <2>3. Dues(positions, tks, g, tick, x, k) \in Int
    BY <1>3, DuesType
  <2>4. Dues(positions, tks, h, tick, x, k) \in Int
    BY <1>3, <1>4, DuesType
  <2>5. Grain(k) * res[k] \in Int
    BY <1>5, GrainType
  <2> QED  BY <2>1, <2>2, <2>3, <2>4, <2>5
<1>8. Covered(res, positions, tks, fee_growth_global', tick, x)
  BY <1>1, <1>2, <1>7 DEF g, h
<1> QED  BY <1>1, <1>6, <1>8

\* Nothing is due and nothing is held before init.
LEMMA SolvencyInit == Init => SolvencyInv
<1> SUFFICES ASSUME Init PROVE SolvencyInv
  OBVIOUS
<1>1. ~swap.active
  BY EmptyTypes DEF Init
<1>2. TypeOK /\ reserve = NoFees /\ positions = [id \in Id |-> EmptyPosition]
  BY PoolInit DEF PoolInv, Init
<1> SUFFICES ASSUME NEW k \in Token
             PROVE  Dues(positions, ticks, fee_growth_global, cur_tick, sqrt_price, k)
                      <= Grain(k) * reserve[k]
  BY <1>1 DEF SolvencyInv, Covered
<1> DEFINE f == DueTo(positions, ticks, fee_growth_global, cur_tick, sqrt_price, k)
<1>3. Grain(k) \in Nat \ {0} /\ reserve[k] = 0
  BY <1>2, GrainType DEF NoFees
<1>4. /\ positions \in [Id -> PositionInfo] /\ ticks \in [Tick -> TickInfo]
      /\ fee_growth_global \in [Token -> Nat] /\ sqrt_price \in Nat
  BY <1>2 DEF TypeOK
<1>5. ASSUME NEW id \in Id PROVE f[id] = 0
  <2> DEFINE p == positions[id]
             g == fee_growth_global
  <2>1. /\ p \in PositionInfo /\ p.lower <= p.upper /\ p.liquidity = 0 /\ p.token_owed[k] = 0
    BY <1>2, <1>4 DEF EmptyPosition, NoFees
  <2>2. g \in [Token -> Nat]
    BY <1>4
  <2>3. f[id] = Due(p, ticks, g, cur_tick, sqrt_price, k)
    BY DEF DueTo
  <2> HIDE DEF f, p, g
  <2>4. Due(p, ticks, g, cur_tick, sqrt_price, k) = Grain(k) * p.token_owed[k]
    BY <1>4, <2>1, <2>2, DueType
  <2>5. Grain(k) * p.token_owed[k] = 0
    BY <1>3, <2>1
  <2> QED  BY <2>3, <2>4, <2>5
<1>6. \A id \in Id : positions[id].lower <= positions[id].upper
  BY <1>2 DEF EmptyPosition
<1>7. f \in [Id -> Int] /\ IsFiniteSet(Id)
  BY <1>4, <1>6, DuesType
<1>8. Dues(positions, ticks, fee_growth_global, cur_tick, sqrt_price, k) = SumFunctionOnSet(f, Id)
  BY DEF Dues
<1> HIDE DEF f
<1>9. SumFunctionOnSet(f, Id) = 0 * SumFunctionOnSet(f, Id) /\ SumFunctionOnSet(f, Id) \in Int
  <2>1. \A id \in Id : f[id] = 0 * f[id]
    BY <1>5
  <2>2. Id \in SUBSET Id
    OBVIOUS
  <2> QED  BY <1>7, <2>1, <2>2, SumScale, SumType
<1> QED  BY <1>3, <1>8, <1>9

\* Every step keeps what is due covered.
LEMMA SolvencyNext ==
    ASSUME OnlySwapsMovePrice, RangesCounted, GrowthInWord, PoolInv, PriceInv, TicksInv, BitmapInv,
           LiquidityInv, GrowthInv, SolvencyInv, [Next]_vars
    PROVE  SolvencyInv'
<1>0. PoolInv' /\ LiquidityInv'
  BY PoolNext, LiquidityNext
<1>1. CASE UNCHANGED <<reserve, fee_growth_global, ticks, swap, cur_tick, sqrt_price, positions>>
  BY <1>1 DEF SolvencyInv, RunningGrowth, Side
<1>2. ASSUME NEW a \in InitParams, InitPool(a[1], a[2], a[3], a[4]) PROVE SolvencyInv'
  <2>1. ~swap.active /\ UNCHANGED <<reserve, fee_growth_global, ticks, positions, swap>>
    BY <1>2 DEF InitPool
  <2>2. Covered(reserve, positions, ticks, fee_growth_global, cur_tick', sqrt_price')
    BY <1>0, <1>2, InitCovers DEF SolvencyInv
  <2> QED  BY <2>1, <2>2 DEF SolvencyInv
<1>3. ASSUME NEW r \in Ranges, CreatePosition(r[1], r[2]) PROVE SolvencyInv'
  <2>1. ~swap.active /\ UNCHANGED <<reserve, fee_growth_global, ticks, swap, cur_tick, sqrt_price>>
    BY <1>3 DEF CreatePosition, config, market
  <2>2. Covered(reserve, positions', ticks, fee_growth_global, cur_tick, sqrt_price)
    BY <1>0, <1>3, CreateCovers DEF SolvencyInv
  <2> QED  BY <2>1, <2>2 DEF SolvencyInv
<1>4. ASSUME NEW id \in Id, NEW delta \in Int, UpdatePosition(id, delta) PROVE SolvencyInv'
  <2>1. ~swap.active /\ UNCHANGED <<fee_growth_global, cur_tick, sqrt_price, swap>>
    BY <1>4 DEF UpdatePosition, update_position
  <2>2. Covered(reserve', positions', ticks', fee_growth_global, cur_tick, sqrt_price)
    BY <1>4, UpdateCovers DEF SolvencyInv
  <2> QED  BY <2>1, <2>2 DEF SolvencyInv
<1>5. ASSUME NEW id \in Id, Collect(id) PROVE SolvencyInv'
  <2>1. ~swap.active /\ UNCHANGED <<fee_growth_global, ticks, swap, cur_tick, sqrt_price>>
    BY <1>5 DEF Collect, market
  <2>2. Covered(reserve', positions', ticks, fee_growth_global, cur_tick, sqrt_price)
    BY <1>5, CollectCovers DEF SolvencyInv
  <2> QED  BY <2>1, <2>2 DEF SolvencyInv
<1>6. ASSUME NEW z \in BOOLEAN, NEW a \in SwapAmounts, NEW lim, SwapBegin(z, a, lim)
      PROVE  SolvencyInv'
  <2>1. /\ swap'.zero_for_one = z /\ swap'.ticks = ticks /\ swap'.tick = cur_tick
        /\ swap'.fee_growth = fee_growth_global[IF z THEN 0 ELSE 1] /\ swap'.price = sqrt_price
        /\ swap'.amount = a /\ swap'.amount_remaining = a /\ swap'.amount_calculated = 0
        /\ UNCHANGED <<reserve, fee_growth_global, ticks, cur_tick, sqrt_price, positions>>
    BY <1>6 DEF SwapBegin, swap_start, config, market
  <2>2. /\ fee_growth_global \in [Token -> Nat] /\ reserve \in [Token -> Int] /\ a \in Int
    BY PoolAssumption DEF PoolInv, TypeOK
  <2>3. Side' \in Token /\ swap'.fee_growth = fee_growth_global[Side']
    BY <2>1 DEF Side, Token
  <2>4. RunningGrowth' = fee_growth_global
    BY <2>1, <2>2, <2>3 DEF RunningGrowth
  <2>5. swap_amounts(swap') = <<0, 0>>
    BY <2>1, <2>2 DEF swap_amounts
  <2>6. [k \in Token |-> reserve[k] + swap_amounts(swap')[k + 1]] = reserve
    BY <2>2, <2>5 DEF Token
  <2>7. [k \in Token |-> reserve'[k] + swap_amounts(swap')[k + 1]] = reserve
    BY <2>1, <2>6
  <2> QED  BY <2>1, <2>4, <2>7 DEF SolvencyInv
<1>7. CASE SwapStep
  <2>1. /\ swap.active
        /\ UNCHANGED <<reserve, fee_growth_global, ticks, cur_tick, sqrt_price, positions>>
    BY <1>7 DEF SwapStep, config, market
  <2>2. Covered([k \in Token |-> reserve[k] + swap_amounts(swap)[k + 1]],
                positions, swap.ticks, RunningGrowth, swap.tick, swap.price)
    BY <2>1 DEF SolvencyInv
  <2>3. Covered([k \in Token |-> reserve[k] + swap_amounts(swap')[k + 1]],
                positions, swap'.ticks, RunningGrowth', swap'.tick, swap'.price)
    BY <1>7, <2>2, StepCovers
  <2>4. [k \in Token |-> reserve'[k] + swap_amounts(swap')[k + 1]]
          = [k \in Token |-> reserve[k] + swap_amounts(swap')[k + 1]]
    BY <2>1
  <2> QED  BY <2>1, <2>3, <2>4 DEF SolvencyInv
<1>8. CASE swap' = NoSwap /\ UNCHANGED <<reserve, fee_growth_global, ticks, cur_tick, sqrt_price, positions>>
  BY <1>8, EmptyTypes DEF SolvencyInv
<1>9. CASE SwapCommit
  <2>1. swap.active /\ swap' = NoSwap
    BY <1>9 DEF SwapCommit
  <2>2. Covered(reserve', positions', ticks', fee_growth_global', cur_tick', sqrt_price')
    BY <1>9, <2>1, CommitCovers DEF SolvencyInv
  <2> QED  BY <2>1, <2>2, EmptyTypes DEF SolvencyInv
<1>10. CASE SwapLoop
  BY <1>7, <1>8, <1>9, <1>10 DEF SwapLoop, SwapReverts, SwapDiscard, market
<1>11. CASE Admin
  BY <1>1, <1>2, <1>11 DEF Admin, SetEnabled, SetSqrtPrice, OnlySwapsMovePrice, config, market
<1>12. CASE Mint
  BY <1>1, <1>3, <1>12 DEF Mint, MintElsewhere, config, market
<1>13. CASE Operate
  BY <1>4, <1>5, <1>6, <1>13, AdjustUpdates, PoolAssumption DEF Operate
<1>14. CASE UNCHANGED vars
  BY <1>1, <1>14 DEF vars, config, market
<1> QED  BY <1>10, <1>11, <1>12, <1>13, <1>14 DEF Next

\* What a position can take out is at most what is due to it: fees and amounts
\* are rounded down.
LEMMA ClaimCovered ==
    ASSUME PoolInv, PriceInv, LiquidityInv, NEW id \in Id, NEW k \in Token
    PROVE  /\ Claim(id, k) \in Int
           /\ Grain(k) * Claim(id, k)
                <= Due(positions[id], ticks, fee_growth_global, cur_tick, sqrt_price, k)
<1> DEFINE p == positions[id]
           g == fee_growth_global
           l == p.liquidity
           d == -l
           o == p.token_owed[k]
           a == get_fee_growth_inside(ticks, p.lower, p.upper)[k] - p.fee_growth_inside[k]
           e == mul_div(a, l, Q128)
           amount == amounts_for(p, d)[k + 1]
           w == Worth(p, sqrt_price, k)
           m == Unit(k)
           n == Q128
<1>1. /\ TypeOK /\ p \in PositionInfo /\ p.lower <= p.upper /\ ticks \in [Tick -> TickInfo]
      /\ g \in [Token -> Nat] /\ sqrt_price \in Nat
  BY DEF PoolInv, TypeOK, LiquidityInv
<1>2. p.lower \in Tick /\ p.upper \in Tick /\ l \in Nat /\ o \in Nat
  BY <1>1 DEF PositionInfo
<1>3. Claim(id, k) = o + e - amount
  BY DEF Claim, EarnedFees
<1>4. a = Unpaid(p, ticks, g, cur_tick, k)
  <2> HIDE DEF p
  <2> QED  BY <1>1, <1>2, InsideIsBelow DEF Unpaid
<1>5. l # 0 => InInterval(sqrt_price, cur_tick)
  BY DEF LiquidityInv, PriceInv, StoredPriceOk
<1>6. e = (a * l) \div n
  BY DEF mul_div
<1> HIDE DEF p, g
<1>7. /\ m \in Nat \ {0} /\ w \in Nat /\ Unpaid(p, ticks, g, cur_tick, k) \in Int
  BY <1>1, DueType
<1>8. Due(p, ticks, g, cur_tick, sqrt_price, k) = Grain(k) * o + l * (m * a + n * w)
  BY <1>4 DEF Due, Rate
<1>9. amount \in Int /\ d * w <= m * amount
  <2>1. d \in Int /\ (d # 0 => InInterval(sqrt_price, cur_tick))
    <3> HIDE DEF l
    <3> QED  BY <1>2, <1>5
  <2> HIDE DEF d
  <2> QED  BY <1>1, <2>1, DeltaCovered
<1>10. Grain(k) = m * n /\ n \in Nat \ {0} /\ a \in Int
  BY <1>4, <1>7, Constants DEF Grain
<1> HIDE DEF l, o, a, e, amount, w, m, n
<1>11. a * l \in Int
  BY <1>2, <1>10
<1>12. e \in Int /\ e * n <= a * l
  <2> DEFINE y == a * l
  <2>1. y \in Int /\ e = y \div n
    BY <1>6, <1>11
  <2> HIDE DEF y
  <2>2. e \in Int /\ e <= y \div n
    BY <1>10, <2>1
  <2>3. e * n <= y
    BY <1>10, <2>1, <2>2, FloorAtLeast
  <2> QED  BY <2>2, <2>3 DEF y
<1>13. (m * n) * (o + e - amount) = (m * n) * o + (e * n) * m - (m * amount) * n
  BY <1>2, <1>7, <1>9, <1>10, <1>12
<1>14. l * (m * a + n * w) = (a * l) * m - (d * w) * n
  BY <1>2, <1>7, <1>10
<1>15. (e * n) * m <= (a * l) * m
  <2>1. e * n \in Int /\ m \in Nat
    BY <1>7, <1>10, <1>12
  <2> QED  BY <1>11, <1>12, <2>1, MulOrder
<1>16. (d * w) * n <= (m * amount) * n
  <2>1. d * w \in Int /\ m * amount \in Int /\ n \in Nat
    BY <1>2, <1>7, <1>9, <1>10
  <2> QED  BY <1>9, <2>1, MulOrder
<1>17. /\ (m * n) * o \in Int /\ (e * n) * m \in Int /\ (a * l) * m \in Int
       /\ (d * w) * n \in Int /\ (m * amount) * n \in Int
  <2>1. /\ m * n \in Int /\ e * n \in Int /\ d * w \in Int /\ m * amount \in Int
    BY <1>2, <1>7, <1>9, <1>10, <1>12
  <2> QED  BY <1>2, <1>7, <1>10, <1>11, <2>1
<1>18. (m * n) * (o + e - amount) <= (m * n) * o + l * (m * a + n * w)
  <2> DEFINE A == (m * n) * o
             B == (e * n) * m
             C == (a * l) * m
             D == (d * w) * n
             E == (m * amount) * n
  <2>1. A \in Int /\ B \in Int /\ C \in Int /\ D \in Int /\ E \in Int /\ B <= C /\ D <= E
    BY <1>15, <1>16, <1>17
  <2>2. (m * n) * (o + e - amount) = A + B - E /\ l * (m * a + n * w) = C - D
    BY <1>13, <1>14
  <2> HIDE DEF A, B, C, D, E
  <2>3. A + B - E <= A + (C - D)
    BY <2>1
  <2> QED  BY <2>2, <2>3 DEF A
<1>19. o + e - amount \in Int
  BY <1>2, <1>9, <1>12
<1> QED  BY <1>3, <1>8, <1>10, <1>18, <1>19 DEF p, g

\* A covered pool is solvent.
LEMMA CoveredIsSolvent ==
    ASSUME PoolInv, PriceInv, LiquidityInv, SolvencyInv PROVE Solvent
<1> SUFFICES ASSUME NEW k \in Token PROVE Claims(k) <= reserve[k] /\ Claims(k) \in Int /\ reserve[k] \in Int
  BY DEF Solvent
<1> DEFINE c == [id \in Id |-> Claim(id, k)]
           s == [id \in Id |-> Grain(k) * Claim(id, k)]
           f == DueTo(positions, ticks, fee_growth_global, cur_tick, sqrt_price, k)
           D == Dues(positions, ticks, fee_growth_global, cur_tick, sqrt_price, k)
<1>1. Grain(k) \in Nat \ {0} /\ Grain(k) \in Int
  BY GrainType
<1>2. ASSUME NEW id \in Id PROVE Claim(id, k) \in Int /\ Grain(k) * Claim(id, k) <= f[id]
  <2>1. f[id] = Due(positions[id], ticks, fee_growth_global, cur_tick, sqrt_price, k)
    BY DEF DueTo
  <2> QED  BY <2>1, ClaimCovered
<1>3. /\ positions \in [Id -> PositionInfo] /\ ticks \in [Tick -> TickInfo]
      /\ fee_growth_global \in [Token -> Nat] /\ sqrt_price \in Nat
      /\ \A i \in Id : positions[i].lower <= positions[i].upper
  BY DEF PoolInv, TypeOK, LiquidityInv
<1>4. f \in [Id -> Int] /\ D \in Int /\ IsFiniteSet(Id)
  BY <1>3, DuesType
<1>5. D = SumFunctionOnSet(f, Id)
  BY DEF Dues
<1>6. Claims(k) = SumFunctionOnSet(c, Id)
  BY DEF Claims, SumOf
<1>7. D <= Grain(k) * reserve[k] /\ reserve[k] \in Int
  BY DEF SolvencyInv, Covered, PoolInv, TypeOK
<1> HIDE DEF f, D
<1>8. c \in [Id -> Int] /\ s \in [Id -> Int] /\ \A id \in Id : s[id] = Grain(k) * c[id] /\ s[id] <= f[id]
  BY <1>1, <1>2
<1> HIDE DEF c, s
<1>9. SumFunctionOnSet(c, Id) \in Int /\ SumFunctionOnSet(s, Id) \in Int
  <2>1. Id \in SUBSET Id
    OBVIOUS
  <2> QED  BY <1>4, <1>8, <2>1, SumType
<1>10. SumFunctionOnSet(s, Id) = Grain(k) * SumFunctionOnSet(c, Id)
  BY <1>1, <1>4, <1>8, SumScale
<1>11. SumFunctionOnSet(s, Id) <= D
  BY <1>4, <1>5, <1>8, SumOrder
<1>12. Claims(k) * Grain(k) <= reserve[k] * Grain(k)
  <2> DEFINE u == Claims(k)
             v == reserve[k]
             t == SumFunctionOnSet(s, Id)
             G == Grain(k)
  <2>1. u \in Int /\ v \in Int /\ t \in Int /\ G \in Nat /\ D \in Int /\ t = G * u /\ t <= D /\ D <= G * v
    BY <1>1, <1>4, <1>6, <1>7, <1>9, <1>10, <1>11
  <2> HIDE DEF u, v, t, G
  <2>2. G * v \in Int /\ G * v = v * G /\ G * u = u * G
    BY <2>1
  <2>3. u * G <= v * G
    BY <2>1, <2>2
  <2> QED  BY <2>3 DEF u, v, G
<1>13. Claims(k) <= reserve[k]
  BY <1>1, <1>6, <1>7, <1>9, <1>12, MulCancel
<1> QED  BY <1>6, <1>7, <1>9, <1>13

\* At rest the reserve covers all that the positions together can take out, of
\* either token, whatever deposits, withdrawals, collections and swaps came
\* before: no rounding of mul_div, of the amounts or of the fee growth, and no
\* order of calls, ever pays out more than came in.
THEOREM PoolStaysSolvent ==
    ASSUME OnlySwapsMovePrice, RangesCounted
    PROVE  Spec /\ []GrowthInWord => []Solvent
<1>1. SpacingIsFixed
  BY DEF OnlySwapsMovePrice, SpacingIsFixed
<1>2. PoolInv /\ TicksInv /\ BitmapInv /\ [Next]_vars => BitmapInv'
  BY <1>1, BitmapNext
<1>3. PoolInv /\ PriceInv /\ TicksInv /\ BitmapInv /\ LiquidityInv /\ [Next]_vars => LiquidityInv'
  BY LiquidityNext
<1>4. (/\ GrowthInWord /\ PoolInv /\ PriceInv /\ TicksInv /\ BitmapInv /\ LiquidityInv
       /\ GrowthInv /\ SolvencyInv /\ [Next]_vars) => SolvencyInv'
  BY SolvencyNext
<1>5. PoolInv /\ PriceInv /\ LiquidityInv /\ SolvencyInv => Solvent
  BY CoveredIsSolvent
<1> QED  BY <1>2, <1>3, <1>4, <1>5, BitmapInit, LiquidityInit, SolvencyInit, TicksInvariant,
            PriceInvariant, GrowthInvariant, PTL DEF Spec

=============================================================================
