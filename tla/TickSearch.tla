----------------------------- MODULE TickSearch -----------------------------
(***************************************************************************)
(* The loop of get_tick_at_sqrt_ratio (pkg/seawater/src/maths/tick_math.rs) *)
(* step by step: the binary search for the tick of a price, over a price   *)
(* table that is computed one tick at a time.  PoolMath defines the tick   *)
(* the pool model uses as a maximum; this module shows that the search     *)
(* returns it, and how fast.                                               *)
(***************************************************************************)
EXTENDS PoolMath

VARIABLES
    price,          \* the argument
    low_bound, high_bound, closest,
    returned,       \* the function has returned
    result          \* what it returned

vars == <<price, low_bound, high_bound, closest, returned, result>>

\* Prices outside these bounds return Err before the search.
Init ==
    /\ price \in MIN_SQRT_RATIO .. MAX_SQRT_RATIO - 1
    /\ low_bound = MIN_TICK /\ high_bound = MAX_TICK
    /\ closest = MIN_TICK
    /\ returned = FALSE
    /\ result = MIN_TICK

\* Mutant of mid: the lowest tick is tried, one at a time.
mid_below == low_bound

\* i32 division truncates towards zero.
mid ==
    LET sum == low_bound + high_bound
    IN  IF sum >= 0 THEN sum \div 2 ELSE -((-sum) \div 2)

Lower ==
    /\ ~returned /\ low_bound <= high_bound
    /\ SqrtRatio[mid] > price
    /\ high_bound' = mid - 1
    /\ UNCHANGED <<price, low_bound, closest, returned, result>>

\* Mutant of Raise: the closest tick is not remembered.
RaiseForgetful ==
    /\ ~returned /\ low_bound <= high_bound
    /\ SqrtRatio[mid] < price
    /\ low_bound' = mid + 1
    /\ UNCHANGED <<price, high_bound, closest, returned, result>>

Raise ==
    /\ ~returned /\ low_bound <= high_bound
    /\ SqrtRatio[mid] < price
    /\ closest' = mid
    /\ low_bound' = mid + 1
    /\ UNCHANGED <<price, high_bound, returned, result>>

Hit ==
    /\ ~returned /\ low_bound <= high_bound
    /\ SqrtRatio[mid] = price
    /\ returned' = TRUE /\ result' = mid
    /\ UNCHANGED <<price, low_bound, high_bound, closest>>

Exhausted ==
    /\ ~returned /\ low_bound > high_bound
    /\ returned' = TRUE /\ result' = closest
    /\ UNCHANGED <<price, low_bound, high_bound, closest>>

Next == Lower \/ Raise \/ Hit \/ Exhausted

Spec == Init /\ [][Next]_vars

-----------------------------------------------------------------------------
(* Properties *)

\* get_tick_at_sqrt_ratio returns the highest tick whose price does not exceed
\* the argument, for every price, on either side of tick 0 where the truncated
\* division changes its rounding.
SearchCorrect == returned => result = get_tick_at_sqrt_ratio(price)

\* Every iteration at least halves the interval, so the loop looks at no more
\* than 21 of the 1774545 ticks.
SearchHalves ==
    [][<<low_bound, high_bound>>' # <<low_bound, high_bound>> =>
           2 * (high_bound' - low_bound' + 1) <= high_bound - low_bound + 1]_vars

\* The inductive invariant behind SearchCorrect: the ticks above the interval
\* are too high, and `closest' is the tick just below it.
SearchInv ==
    /\ price \in MIN_SQRT_RATIO .. MAX_SQRT_RATIO - 1
    /\ low_bound \in MIN_TICK .. MAX_TICK + 1
    /\ high_bound \in MIN_TICK - 1 .. MAX_TICK
    /\ low_bound <= high_bound + 1
    /\ closest \in Tick /\ SqrtRatio[closest] <= price
    /\ low_bound = closest + 1 \/ (low_bound = MIN_TICK /\ closest = MIN_TICK)
    /\ \A t \in Tick : t > high_bound => SqrtRatio[t] > price
    /\ returned \in BOOLEAN
    /\ returned => result \in Tick /\ SqrtRatio[result] <= price
                   /\ \A t \in Tick : t > result => SqrtRatio[t] > price

=============================================================================
