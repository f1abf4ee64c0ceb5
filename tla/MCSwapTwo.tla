----------------------------- MODULE MCSwapTwo -----------------------------
(***************************************************************************)
(* A small instance of SwapTwo for TLC: two pools on the price table of    *)
(* MCPool, one free of fees, and a bound on the number of calls.           *)
(***************************************************************************)
EXTENDS SwapTwo

CONSTANTS
    MaxCalls,   \* bound: update, collect and swap_2 calls
    A, B        \* the two pools

VARIABLE calls

mcvars == <<vars, calls>>

\* Prices at the ticks -2 .. 2 with Q96 = 8: each is about 1.4 times the last.
Ratios == [t \in -2 .. 2 |-> CASE t = -2 -> 4 [] t = -1 -> 6 [] t = 0 -> 8
                               [] t = 1 -> 11 [] t = 2 -> 16]

BothPools == {A, B}

\* A charges 1/4 and starts inside tick 0, B is free and starts at tick 1.
Params == [a \in BothPools |-> IF a = A THEN <<9, 1, 1, 100>> ELSE <<11, 0, 1, 100>>]

ProviderRanges == {<<0, 1>>, <<0, 2>>}
ProviderDeltas == {48, -48}
Offers         == {3, 25}
Accepted       == {0, 2}

MCInit == Init /\ calls = 0

MCNext ==
    \/ Transact /\ UNCHANGED calls
    \/ calls < MaxCalls /\ (Provide \/ Request) /\ calls' = calls + 1

MCSpec == MCInit /\ [][MCNext]_mcvars

=============================================================================
