------------------------------- MODULE MCPool -------------------------------
(***************************************************************************)
(* Small instances of Pool for TLC: a price table of five ticks around 1,  *)
(* fixed-point units of one or two digits, and a bound on the number of    *)
(* calls that move liquidity or tokens.                                    *)
(***************************************************************************)
EXTENDS Pool

CONSTANT MaxCalls   \* bound: update, adjust, collect and swap calls

VARIABLE calls

mcvars == <<vars, calls>>

\* Prices at the ticks -2 .. 2 with Q96 = 8: each is about 1.4 times the last.
Ratios == [t \in -2 .. 2 |-> CASE t = -2 -> 4 [] t = -1 -> 6 [] t = 0 -> 8
                               [] t = 1 -> 11 [] t = 2 -> 16]

\* A pool that starts inside tick 0, with fee 1/4, spacing 1 and room for two
\* deposits on a tick.
Params == {<<9, 1, 1, 48>>}

\* Ranges that share a tick, overlap or touch; one below 0; one out of order,
\* and ticks that create_position refuses.
OrderedRanges  == {<<0, 1>>, <<1, 2>>, <<0, 2>>}
NegativeRanges == {<<-1, 1>>}
AnyRanges      == {<<0, 2>>, <<2, 0>>, <<-1, 1>>, <<1, 3>>}

ProviderDeltas == {24, -24, 0}
Wanted         == {<<0, 0>>, <<2, 3>>}
MostlyToken0   == {<<0, 0>>, <<12, 1>>}
NoAmounts      == {}
BothAmounts    == {20, -5}
Limits         == {NoLimit, 10}
FreeLimits     == {NoLimit}
NoPrices       == {}
SomePrices     == {0, 8, 12}

MCInit == Init /\ calls = 0

MCNext ==
    \/ (Admin \/ Mint \/ SwapLoop) /\ UNCHANGED calls
    \/ calls < MaxCalls /\ Operate /\ calls' = calls + 1

MCSpec == MCInit /\ [][MCNext]_mcvars

\* Bound on the rounding loss of one call, in units of either token.
DustPerCall == 2

\* Nothing but rounding stays behind: what came in exceeds what the positions
\* can take out by at most DustPerCall for every call made, so no fee and no
\* principal is stranded when ticks are crossed, cleared and reused.
NothingStranded ==
    ~swap.active => \A k \in Token : reserve[k] - Claims(k) <= DustPerCall * calls

=============================================================================
