-------------------------- MODULE TickSearchProofs --------------------------
(***************************************************************************)
(* The search of get_tick_at_sqrt_ratio is correct for every price table   *)
(* that grows with the tick, whatever its length.                          *)
(***************************************************************************)
EXTENDS TickSearch, TLAPS

\* The probed tick lies in the interval, and neither side of it is longer than
\* half of the interval, although the division rounds towards zero.
LEMMA MidInInterval ==
    ASSUME low_bound \in Int, high_bound \in Int, low_bound <= high_bound
    PROVE  /\ mid \in Int
           /\ low_bound <= mid /\ mid <= high_bound
           /\ 2 * (mid - low_bound) <= high_bound - low_bound + 1
           /\ 2 * (high_bound - mid) <= high_bound - low_bound + 1
<1> DEFINE sum == low_bound + high_bound
<1>1. CASE sum >= 0
  BY <1>1 DEF mid
<1>2. CASE sum < 0
  <2> DEFINE neg == -sum
  <2>1. neg \in Nat /\ mid = -(neg \div 2)
    BY <1>2 DEF mid
  <2>2. 2 * (neg \div 2) <= neg /\ neg <= 2 * (neg \div 2) + 1
    BY <2>1
  <2> QED  BY <2>1, <2>2
<1> QED  BY <1>1, <1>2

\* The tick that the pool model calls get_tick_at_sqrt_ratio is the only one
\* below whose price, and at or above the next one's, the price lies.
LEMMA TickIsUnique ==
    ASSUME NEW t \in Tick, NEW p \in Int,
           SqrtRatio[t] <= p,
           \A u \in Tick : u > t => SqrtRatio[u] > p
    PROVE  t = get_tick_at_sqrt_ratio(p)
<1> DEFINE S == {u \in Tick : SqrtRatio[u] <= p}
<1>1. t \in S /\ \A u \in S : t >= u
  BY MathAssumption DEF Tick, MIN_TICK
<1>2. \A u \in S : (\A v \in S : u >= v) => u = t
  BY <1>1, MathAssumption DEF Tick, MIN_TICK
<1> QED  BY <1>1, <1>2 DEF get_tick_at_sqrt_ratio, Max

-----------------------------------------------------------------------------
\* The search starts with all ticks in its interval.
LEMMA SearchInit == Init => SearchInv
<1> SUFFICES ASSUME Init PROVE SearchInv
  OBVIOUS
<1>1. MIN_TICK \in Tick /\ MAX_TICK \in Tick /\ MIN_TICK < MAX_TICK
  BY MathAssumption DEF Tick, MIN_TICK
<1>2. MIN_SQRT_RATIO \in Nat /\ MAX_SQRT_RATIO \in Nat
  BY <1>1, MathAssumption DEF MIN_SQRT_RATIO, MAX_SQRT_RATIO
<1>3. SqrtRatio[closest] <= price
  BY <1>2 DEF Init, MIN_SQRT_RATIO
<1>4. \A t \in Tick : ~(t > high_bound)
  BY MathAssumption DEF Init, Tick, MIN_TICK
<1>5. low_bound \in MIN_TICK .. MAX_TICK + 1 /\ high_bound \in MIN_TICK - 1 .. MAX_TICK
  BY <1>1, MathAssumption DEF Init, MIN_TICK
<1>6. low_bound <= high_bound + 1
  BY <1>1, MathAssumption DEF Init, MIN_TICK
<1>7. returned = FALSE /\ closest = MIN_TICK /\ low_bound = MIN_TICK
      /\ price \in MIN_SQRT_RATIO .. MAX_SQRT_RATIO - 1
  BY DEF Init
<1> QED  BY <1>1, <1>3, <1>4, <1>5, <1>6, <1>7, Zenon DEF SearchInv

\* Every iteration of the search keeps the invariant.
LEMMA SearchNext == SearchInv /\ [Next]_vars => SearchInv'
<1> SUFFICES ASSUME SearchInv, [Next]_vars PROVE SearchInv'
  OBVIOUS
<1>types. /\ price \in Int /\ low_bound \in Int /\ high_bound \in Int /\ closest \in Int
          /\ MAX_TICK \in Nat /\ MIN_TICK = -MAX_TICK
          /\ \A t \in Tick : t \in Int /\ SqrtRatio[t] \in Int
  BY MathAssumption DEF SearchInv, Tick, MIN_TICK
<1>mid. ASSUME low_bound <= high_bound
        PROVE  mid \in Tick /\ mid \in Int /\ low_bound <= mid /\ mid <= high_bound
  BY <1>types, <1>mid, MidInInterval DEF SearchInv, Tick
<1>1. CASE Lower
  <2>1. \A t \in Tick : t > high_bound' => SqrtRatio[t] > price
    BY <1>1, <1>mid, <1>types, RatioAssumption DEF Lower
  <2> QED  BY <1>1, <2>1, <1>mid, <1>types DEF Lower, SearchInv
<1>2. CASE Raise
  BY <1>2, <1>mid, <1>types DEF Raise, SearchInv
<1>3. CASE Hit
  <2>1. \A t \in Tick : t > mid => SqrtRatio[t] > price
    BY <1>3, <1>mid, <1>types, RatioAssumption DEF Hit
  <2> QED  BY <1>3, <2>1, <1>mid, <1>types DEF Hit, SearchInv
<1>4. CASE Exhausted
  <2>1. \A t \in Tick : t > closest => SqrtRatio[t] > price
    BY <1>4, <1>types DEF Exhausted, SearchInv
  <2> QED  BY <1>4, <2>1, <1>types DEF Exhausted, SearchInv
<1>5. CASE UNCHANGED vars
  BY <1>5 DEF vars, SearchInv
<1> QED  BY <1>1, <1>2, <1>3, <1>4, <1>5 DEF Next

\* Whatever it returns, get_tick_at_sqrt_ratio returns the highest tick whose
\* price is at most the argument: the inductive invariant SearchInv holds.
THEOREM SearchIsCorrect == Spec => []SearchCorrect
<1>1. SearchInv => SearchCorrect
  BY TickIsUnique DEF SearchInv, SearchCorrect
<1> QED  BY <1>1, SearchInit, SearchNext, PTL DEF Spec

\* Every iteration of get_tick_at_sqrt_ratio at least halves the interval.
THEOREM SearchIsLogarithmic == Spec => SearchHalves
<1> DEFINE Halves == <<low_bound, high_bound>>' # <<low_bound, high_bound>> =>
                         2 * (high_bound' - low_bound' + 1) <= high_bound - low_bound + 1
<1>1. SearchInv /\ [Next]_vars => [Halves]_vars
  <2> SUFFICES ASSUME SearchInv, Next PROVE Halves
    BY DEF vars
  <2>1. low_bound \in Int /\ high_bound \in Int
    BY MathAssumption DEF SearchInv, MIN_TICK
  <2>2. CASE Lower
    BY <2>1, <2>2, MidInInterval DEF Lower
  <2>3. CASE Raise
    BY <2>1, <2>3, MidInInterval DEF Raise
  <2>4. CASE Hit \/ Exhausted
    BY <2>4 DEF Hit, Exhausted
  <2> QED  BY <2>2, <2>3, <2>4 DEF Next
<1> QED  BY <1>1, SearchInit, SearchNext, PTL DEF Spec, SearchHalves

=============================================================================
