------------------------------ MODULE MCGraph --------------------------------
(***************************************************************************)
(* GraphExec on every pair of fields of every type of the two schemas, and *)
(* on a few deeper operations.                                             *)
(***************************************************************************)
EXTENDS GraphExec

\* A way to reach an object of each type.
PathTo ==
    [Query |-> <<>>, Mutation |-> <<>>, FaucetQuery |-> <<>>,
     Amount |-> <<"getPool", "amounts", "fusdc">>, GetSwaps |-> <<"getSwaps">>,
     GetSwapsForUser |-> <<"getSwapsForUser">>, LiquidityCampaign |-> <<"activeLiquidityCampaigns">>,
     LiquidityOverTime |-> <<"getPool", "liquidityOverTime">>,
     PairAmount |-> <<"getPoolPositions", "sum">>, PriceOverTime |-> <<"getPool", "priceOverTime">>,
     SeawaterConfig |-> <<"getPool", "config">>, SeawaterLiquidity |-> <<"getPool", "liquidity">>,
     SeawaterPool |-> <<"getPool">>, SeawaterPosition |-> <<"getPosition">>,
     SeawaterPositionsGlobal |-> <<"getPoolPositions">>,
     SeawaterPositionsUser |-> <<"getPositions">>, SeawaterSwap |-> <<"getSwaps", "data", "swaps">>,
     SeawaterSwaps |-> <<"getSwaps", "data">>, Served |-> <<"served">>, Token |-> <<"fusdc">>,
     TvlOverTime |-> <<"getPool", "tvlOverTime">>, VolumeOverTime |-> <<"getPool", "volumeOverTime">>,
     Wallet |-> <<"getWallet">>, YieldOverTime |-> <<"getPool", "yieldOverTime">>,
     __Directive |-> <<"__schema", "directives">>, __EnumValue |-> <<"__type", "enumValues">>,
     __Field |-> <<"__type", "fields">>, __InputValue |-> <<"__type", "inputFields">>,
     __Schema |-> <<"__schema">>, __Type |-> <<"__type">>]
RootOf(t) == IF t \in {"Mutation", "FaucetQuery"} THEN t ELSE "Query"

Down(path) == {SubSeq(path, 1, i) : i \in 1..Len(path)}
Pairs ==
    UNION {{[root |-> RootOf(t), sel |-> Down(Append(PathTo[t], f)) \cup Down(Append(PathTo[t], g)),
             dfr |-> {}] : f, g \in FieldsOf(t)} : t \in Types}

\* Operations with deferred fields: one, two of one object, one below another,
\* one beside a field that may fail.
Operation(sel, dfr) == [root |-> "Query", sel |-> UNION {Down(p) : p \in sel \cup dfr}, dfr |-> dfr]
Deep ==
    {Operation({}, {<<"getPool", "amounts">>}),
     Operation({<<"getPool", "id">>}, {<<"getPool", "token">>, <<"getPool", "price">>}),
     Operation({<<"getPool", "positions", "positions", "id">>},
               {<<"getPool", "positions">>, <<"getPool", "positions", "positions", "pool">>}),
     Operation({<<"getPosition", "pool", "token">>, <<"getPosition", "lower">>},
               {<<"getPosition", "pool", "price">>}),
     Operation({<<"pools", "amounts", "token1", "token", "name">>}, {<<"pools", "amounts">>}),
     Operation({<<"getSwaps", "data", "swaps", "pool", "config", "displayed">>,
                <<"getWallet", "positions", "sum">>}, {}),
     Operation({<<"getPool", "token", "image">>, <<"getPosition", "owner", "balances">>}, {})}
MCQueries == Pairs \cup Deep
=============================================================================
