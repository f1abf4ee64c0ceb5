----------------------------- MODULE GraphSchema -----------------------------
(***************************************************************************)
(* The GraphQL schema of the two services as the generated code carries    *)
(* it, in four tables that come from four places of the source:            *)
(*                                                                         *)
(*   - <Type>_fields    what a field function (_Type_field) does: whether  *)
(*                      it reads a property or calls a resolver, the type  *)
(*                      it marshals, and whether it refuses a null;        *)
(*   - <Type>_exec      what the executor of the type (_Type) does with    *)
(*                      the fields: which it runs concurrently, and which  *)
(*                      it does not count when they are null;              *)
(*   - <Type>Resolver   how a resolver of schema.resolvers.go may end;     *)
(*   - Nullable         the fields that the schema text declares nullable. *)
(*                                                                         *)
(* Nothing makes the four agree but the generator and the hand that edits  *)
(* the resolvers; GraphExec runs requests over them.  __Type and the other *)
(* introspection types are of both services; the faucet's Query is called  *)
(* FaucetQuery here, since the two services have one table.                *)
(***************************************************************************)
EXTENDS Naturals, Sequences

\* A property of the object, and a call of a resolver, of a given type.
Prop(t) == [resolver |-> FALSE, type |-> t, list |-> FALSE, refusesNull |-> TRUE]
Call(t) == [Prop(t) EXCEPT !.resolver = TRUE]
\* The same, as a list; the same, when the function lets a null through.
Many(row)  == [row EXCEPT !.list = TRUE]
Maybe(row) == [row EXCEPT !.refusesNull = FALSE]

\* How a resolver may end: always with a value; with a value or the error of
\* the database, the chain or a conversion; with nothing found; by a panic.
Sure   == {"value"}
Fails  == {"value", "error"}
Finds  == {"value", "error", "nil"}
Panics == {"panic"}

(***************************************************************************)
(* The field functions.                                                    *)
(***************************************************************************)
Amount_fields ==
    [token |-> Call("Token"), decimals |-> Prop("Int"), timestamp |-> Prop("Int"),
     valueUnscaled |-> Call("String"), valueScaled |-> Call("String"), valueUsd |-> Call("String")]
GetSwaps_fields == [data |-> Prop("SeawaterSwaps")]
GetSwapsForUser_fields == [data |-> Prop("SeawaterSwaps")]
LiquidityCampaign_terms ==
    [campaignId |-> Call("String"), owner |-> Call("SeawaterPositionsUser"),
     tickLower |-> Prop("Int"), tickUpper |-> Prop("Int"),
     perSecond |-> Call("Amount"), maximumAmount |-> Call("Amount")]
LiquidityCampaign_period ==
    [fromTimestamp |-> Call("Int"), endTimestamp |-> Call("Int"), pool |-> Call("SeawaterPool")]
LiquidityOverTime_fields == [daily |-> Many(Prop("PairAmount")), monthly |-> Many(Prop("PairAmount"))]
PairAmount_fields == [timestamp |-> Prop("Int"), fusdc |-> Prop("Amount"), token1 |-> Prop("Amount")]
PriceOverTime_fields == [daily |-> Many(Prop("String")), monthly |-> Many(Prop("String"))]
Query_market ==
    [served |-> Call("Served"), fusdc |-> Call("Token"), pools |-> Many(Call("SeawaterPool")),
     activeLiquidityCampaigns |-> Many(Call("LiquidityCampaign")),
     upcomingLiquidityCampaigns |-> Many(Call("LiquidityCampaign"))]
Query_pool ==
    [getPool |-> Maybe(Call("SeawaterPool")), getPoolPositions |-> Call("SeawaterPositionsGlobal")]
Query_positions ==
    [getPosition |-> Maybe(Call("SeawaterPosition")), getPositions |-> Call("SeawaterPositionsUser")]
Query_wallet ==
    [getWallet |-> Maybe(Call("Wallet")), getSwaps |-> Call("GetSwaps"),
     getSwapsForUser |-> Call("GetSwapsForUser"), getSmartAccount |-> Many(Call("Wallet"))]
Query_introspection == [__type |-> Maybe(Prop("__Type")), __schema |-> Maybe(Prop("__Schema"))]
SeawaterConfig_fields ==
    [id |-> Call("ID"), pool |-> Call("SeawaterPool"),
     displayed |-> Prop("Boolean"), classification |-> Prop("SeawaterPoolClassification")]
SeawaterLiquidity_fields ==
    [id |-> Prop("ID"), tickLower |-> Call("Int"), tickUpper |-> Call("Int"),
     price |-> Prop("String"), liquidity |-> Prop("String")]
SeawaterPool_identity ==
    [served |-> Call("Served"), id |-> Call("ID"), fee |-> Call("Int"),
     address |-> Call("String"), tickSpacing |-> Call("String")]
SeawaterPool_price ==
    [token |-> Call("Token"), price |-> Call("String"), priceOverTime |-> Call("PriceOverTime")]
SeawaterPool_history ==
    [volumeOverTime |-> Call("VolumeOverTime"), liquidityOverTime |-> Call("LiquidityOverTime"),
     tvlOverTime |-> Call("TvlOverTime"), yieldOverTime |-> Call("YieldOverTime")]
SeawaterPool_earnings ==
    [earnedFeesAPRFUSDC |-> Many(Call("String")), earnedFeesAPRToken1 |-> Many(Call("String")),
     liquidityCampaigns |-> Many(Call("LiquidityCampaign"))]
SeawaterPool_positions ==
    [positions |-> Call("SeawaterPositionsGlobal"), positionsForUser |-> Call("SeawaterPositionsUser")]
SeawaterPool_trading ==
    [liquidity |-> Many(Call("SeawaterLiquidity")), swaps |-> Call("SeawaterSwaps")]
SeawaterPool_totals == [amounts |-> Call("PairAmount"), config |-> Call("SeawaterConfig")]
SeawaterPosition_identity ==
    [served |-> Call("Served"), id |-> Call("ID"), created |-> Call("Int"), positionId |-> Call("Int")]
SeawaterPosition_links == [owner |-> Call("Wallet"), pool |-> Call("SeawaterPool")]
SeawaterPosition_range ==
    [lower |-> Call("Int"), upper |-> Call("Int"), liquidity |-> Call("PairAmount")]
SeawaterPositionsGlobal_fields ==
    [id |-> Call("ID"), positions |-> Many(Prop("SeawaterPosition")),
     sum |-> Maybe(Many(Call("PairAmount"))), next |-> Call("SeawaterPositionsGlobal")]
SeawaterPositionsUser_fields ==
    [id |-> Call("ID"), positions |-> Many(Prop("SeawaterPosition")),
     sum |-> Maybe(Many(Call("PairAmount"))), next |-> Call("SeawaterPositionsUser")]
SeawaterSwap_identity ==
    [served |-> Call("Served"), timestamp |-> Call("Int"), pool |-> Call("SeawaterPool"),
     transactionHash |-> Call("String")]
SeawaterSwap_amounts ==
    [sender |-> Call("Wallet"), amountIn |-> Call("Amount"), amountOut |-> Call("Amount")]
SeawaterSwaps_fields ==
    [sum |-> Maybe(Many(Call("PairAmount"))), swaps |-> Many(Prop("SeawaterSwap")),
     next |-> Call("SeawaterSwaps")]
Served_fields == [timestamp |-> Prop("Int")]
Token_fields ==
    [id |-> Call("ID"), address |-> Call("String"), name |-> Prop("String"), image |-> Call("String"),
     totalSupply |-> Call("String"), decimals |-> Prop("Int"), symbol |-> Prop("String")]
TvlOverTime_fields == [daily |-> Many(Prop("String")), monthly |-> Many(Prop("String"))]
VolumeOverTime_fields == [daily |-> Many(Prop("PairAmount")), monthly |-> Many(Prop("PairAmount"))]
Wallet_fields ==
    [id |-> Call("ID"), address |-> Call("String"), balances |-> Many(Call("Amount")),
     positions |-> Call("SeawaterPositionsUser")]
YieldOverTime_fields == [daily |-> Many(Prop("PairAmount")), monthly |-> Many(Prop("PairAmount"))]
FaucetQuery_fields ==
    [healthcheck |-> Call("Int"), __type |-> Maybe(Prop("__Type")), __schema |-> Maybe(Prop("__Schema"))]
Mutation_fields == [requestTokens |-> Call("String")]

\* The introspection types; the library answers their properties.
__Directive_fields ==
    [name |-> Prop("String"), description |-> Maybe(Prop("String")), locations |-> Many(Prop("String")),
     args |-> Many(Prop("__InputValue")), isRepeatable |-> Prop("Boolean")]
__EnumValue_fields ==
    [name |-> Prop("String"), description |-> Maybe(Prop("String")),
     isDeprecated |-> Prop("Boolean"), deprecationReason |-> Maybe(Prop("String"))]
__Field_fields ==
    [name |-> Prop("String"), description |-> Maybe(Prop("String")), args |-> Many(Prop("__InputValue")),
     type |-> Prop("__Type"), isDeprecated |-> Prop("Boolean"), deprecationReason |-> Maybe(Prop("String"))]
__InputValue_fields ==
    [name |-> Prop("String"), description |-> Maybe(Prop("String")), type |-> Prop("__Type"),
     defaultValue |-> Maybe(Prop("String"))]
__Schema_fields ==
    [description |-> Maybe(Prop("String")), types |-> Many(Prop("__Type")), queryType |-> Prop("__Type"),
     mutationType |-> Maybe(Prop("__Type")), subscriptionType |-> Maybe(Prop("__Type")),
     directives |-> Many(Prop("__Directive"))]
__Type_names ==
    [kind |-> Prop("String"), name |-> Maybe(Prop("String")), description |-> Maybe(Prop("String"))]
__Type_members ==
    [fields |-> Maybe(Many(Prop("__Field"))), interfaces |-> Maybe(Many(Prop("__Type"))),
     possibleTypes |-> Maybe(Many(Prop("__Type")))]
__Type_values ==
    [enumValues |-> Maybe(Many(Prop("__EnumValue"))), inputFields |-> Maybe(Many(Prop("__InputValue"))),
     ofType |-> Maybe(Prop("__Type")), specifiedByURL |-> Maybe(Prop("String"))]

(***************************************************************************)
(* The executors: the fields handed to out.Concurrently, and the fields    *)
(* whose null is not added to Invalids.  A field that is not concurrent    *)
(* runs in place, before the others are dispatched; a concurrent one may   *)
(* be deferred, except under Query and Mutation.                           *)
(***************************************************************************)
Executor(concurrently, uncounted) ==
    [concurrently |-> concurrently, uncounted |-> uncounted, defers |-> TRUE]
RootExecutor(concurrently, uncounted) ==
    [Executor(concurrently, uncounted) EXCEPT !.defers = FALSE]

Amount_exec == Executor({"token", "valueUnscaled", "valueScaled", "valueUsd"}, {})
GetSwaps_exec == Executor({}, {})
GetSwapsForUser_exec == Executor({}, {})
LiquidityCampaign_exec ==
    Executor({"campaignId", "owner", "perSecond", "maximumAmount", "fromTimestamp",
              "endTimestamp", "pool"}, {})
LiquidityOverTime_exec == Executor({}, {})
PairAmount_exec == Executor({}, {})
PriceOverTime_exec == Executor({}, {})
\* Mutant of Query_exec: a pool that is not found counts.
Query_exec_pool_counted ==
    RootExecutor({"served", "fusdc", "pools", "activeLiquidityCampaigns",
                  "upcomingLiquidityCampaigns", "getPool", "getPoolPositions", "getPosition",
                  "getPositions", "getWallet", "getSwaps", "getSwapsForUser", "getSmartAccount"},
                 {"getPosition", "getWallet", "__type", "__schema"})
Query_exec ==
    RootExecutor({"served", "fusdc", "pools", "activeLiquidityCampaigns",
                  "upcomingLiquidityCampaigns", "getPool", "getPoolPositions", "getPosition",
                  "getPositions", "getWallet", "getSwaps", "getSwapsForUser", "getSmartAccount"},
                 {"getPool", "getPosition", "getWallet", "__type", "__schema"})
SeawaterConfig_exec == Executor({"id", "pool"}, {})
SeawaterLiquidity_exec == Executor({"tickLower", "tickUpper"}, {})
SeawaterPool_exec ==
    Executor({"served", "id", "fee", "address", "tickSpacing", "token", "price", "priceOverTime",
              "volumeOverTime", "liquidityOverTime", "tvlOverTime", "yieldOverTime",
              "earnedFeesAPRFUSDC", "earnedFeesAPRToken1", "liquidityCampaigns", "positions",
              "positionsForUser", "liquidity", "swaps", "amounts", "config"}, {})
\* Mutant of SeawaterPosition_exec: a position without its pool is answered.
SeawaterPosition_exec_no_pool ==
    Executor({"served", "id", "created", "positionId", "owner", "pool", "lower", "upper",
              "liquidity"}, {"pool"})
SeawaterPosition_exec ==
    Executor({"served", "id", "created", "positionId", "owner", "pool", "lower", "upper",
              "liquidity"}, {})
SeawaterPositionsGlobal_exec == Executor({"id", "sum", "next"}, {"sum"})
SeawaterPositionsUser_exec == Executor({"id", "sum", "next"}, {"sum"})
SeawaterSwap_exec ==
    Executor({"served", "timestamp", "pool", "transactionHash", "sender", "amountIn", "amountOut"}, {})
SeawaterSwaps_exec == Executor({"sum", "next"}, {"sum"})
Served_exec == Executor({}, {})
Token_exec == Executor({"id", "address", "image", "totalSupply"}, {})
TvlOverTime_exec == Executor({}, {})
VolumeOverTime_exec == Executor({}, {})
Wallet_exec == Executor({"id", "address", "balances", "positions"}, {})
YieldOverTime_exec == Executor({}, {})
FaucetQuery_exec == RootExecutor({"healthcheck"}, {"__type", "__schema"})
Mutation_exec == RootExecutor({}, {})
__Directive_exec == Executor({}, {"description"})
__EnumValue_exec == Executor({}, {"description", "deprecationReason"})
__Field_exec == Executor({}, {"description", "deprecationReason"})
__InputValue_exec == Executor({}, {"description", "defaultValue"})
__Schema_exec == Executor({}, {"description", "mutationType", "subscriptionType"})
__Type_exec ==
    Executor({}, {"name", "description", "fields", "interfaces", "possibleTypes", "enumValues",
                  "inputFields", "ofType", "specifiedByURL"})

(***************************************************************************)
(* The resolvers.  The object they are given is never nil, so their check  *)
(* of it does not fail.                                                    *)
(***************************************************************************)
AmountResolver ==
    [token |-> Fails, valueUnscaled |-> Sure, valueScaled |-> Sure, valueUsd |-> Fails]
LiquidityCampaignResolver ==
    [f \in {"campaignId", "owner", "perSecond", "maximumAmount", "fromTimestamp", "endTimestamp",
            "pool"} |-> Panics]
\* getPositions takes the last row of the page without asking whether there is
\* one: Scan may have left an empty slice that is not nil.
QueryResolver ==
    [served |-> Sure, fusdc |-> Sure, pools |-> Fails, activeLiquidityCampaigns |-> Sure,
     upcomingLiquidityCampaigns |-> Sure, getPool |-> Finds, getPoolPositions |-> Fails,
     getPosition |-> Finds, getPositions |-> Fails \cup Panics, getWallet |-> Sure]
SwapsQueryResolver == [getSwaps |-> Fails, getSwapsForUser |-> Fails, getSmartAccount |-> Fails]
SeawaterConfigResolver == [id |-> Sure, pool |-> Fails]
SeawaterLiquidityResolver == [tickLower |-> Fails, tickUpper |-> Fails]
\* fee has no number in the empty pool that Scan leaves where it finds no row.
PoolStateResolver ==
    [served |-> Sure, id |-> Sure, fee |-> Sure \cup Panics, address |-> Sure,
     tickSpacing |-> Sure, token |-> Fails, price |-> Fails]
PoolHistoryResolver == [priceOverTime |-> Fails, volumeOverTime |-> Fails]
PoolYieldResolver ==
    [liquidityOverTime |-> Sure, tvlOverTime |-> Fails, yieldOverTime |-> Sure,
     earnedFeesAPRFUSDC |-> Sure, earnedFeesAPRToken1 |-> Sure, liquidityCampaigns |-> Panics]
\* positions reads the first row of the page, which may be empty.
PoolPositionsResolver ==
    [positions |-> Fails \cup Panics, positionsForUser |-> Fails, liquidity |-> Fails, swaps |-> Fails,
     amounts |-> Fails, config |-> Sure]
\* created answers 0 where the database fails.
SeawaterPositionResolver ==
    [served |-> Sure, id |-> Sure, created |-> Sure, positionId |-> Sure, owner |-> Sure,
     pool |-> Fails, lower |-> Sure, upper |-> Sure, liquidity |-> Fails]
\* sum is nil for a page that names neither a pool nor a wallet: an empty one.
SeawaterPositionsGlobalResolver == [id |-> Sure, sum |-> Finds, next |-> Fails]
SeawaterPositionsUserResolver == [id |-> Sure, sum |-> Finds, next |-> Fails]
\* pool reads through the pointer that GetPool returned, nil for no such pool.
SeawaterSwapResolver ==
    [served |-> Sure, timestamp |-> Sure, pool |-> Fails \cup Panics, transactionHash |-> Sure,
     sender |-> Sure, amountIn |-> Sure, amountOut |-> Sure]
SeawaterSwapsResolver == [sum |-> Finds, next |-> Panics]
TokenResolver == [id |-> Sure, address |-> Sure, image |-> Panics, totalSupply |-> Sure]
WalletResolver == [id |-> Sure, address |-> Sure, balances |-> Panics, positions |-> Fails]
FaucetResolver == [requestTokens |-> Fails, healthcheck |-> Sure]

(***************************************************************************)
(* The nullable fields of the schema text.  Every list of it has elements  *)
(* that are not nullable.                                                  *)
(***************************************************************************)
Nullable ==
    [Query |-> {"getPool", "getPosition", "getWallet"}, SeawaterSwaps |-> {"sum"},
     SeawaterPositionsGlobal |-> {"sum"}, SeawaterPositionsUser |-> {"sum"}]
\* The same of the specification of GraphQL, for the introspection fields.
IntrospectionNullable ==
    [Query |-> {"__type", "__schema"}, FaucetQuery |-> {"__type", "__schema"},
     __Directive |-> {"description"}, __EnumValue |-> {"description", "deprecationReason"},
     __Field |-> {"description", "deprecationReason"},
     __InputValue |-> {"description", "defaultValue"},
     __Schema |-> {"description", "mutationType", "subscriptionType"},
     __Type |-> {"name", "description", "fields", "interfaces", "possibleTypes", "enumValues",
                 "inputFields", "ofType", "specifiedByURL"}]

\* The fields with arguments.  Arguments that do not unmarshal are an error of
\* the field before anything is called.
WithArgs ==
    [Query |-> {"__type", "getPoolPositions", "getPool", "getPosition", "getPositions",
                "getSmartAccount", "getSwapsForUser", "getSwaps", "getWallet"},
     SeawaterPool |-> {"positionsForUser", "positions", "swaps"},
     SeawaterPositionsGlobal |-> {"next"}, SeawaterPositionsUser |-> {"next"},
     SeawaterSwaps |-> {"next"}, Wallet |-> {"positions"}, __Type |-> {"enumValues", "fields"}]
FaucetWithArgs == [Mutation |-> {"requestTokens"}, FaucetQuery |-> {"__type"}]

(***************************************************************************)
(* The tables put together: by the type, the field table, the executor and *)
(* the resolvers.                                                          *)
(***************************************************************************)
\* Two tables as one.
Join(a, b) == [x \in (DOMAIN a) \cup DOMAIN b |-> IF x \in DOMAIN a THEN a[x] ELSE b[x]]

Fields ==
    [Amount |-> Amount_fields, GetSwaps |-> GetSwaps_fields,
     GetSwapsForUser |-> GetSwapsForUser_fields,
     LiquidityCampaign |-> Join(LiquidityCampaign_terms, LiquidityCampaign_period),
     LiquidityOverTime |-> LiquidityOverTime_fields, PairAmount |-> PairAmount_fields,
     PriceOverTime |-> PriceOverTime_fields,
     Query |-> Join(Join(Join(Join(Query_market, Query_pool), Query_positions), Query_wallet),
                    Query_introspection),
     SeawaterConfig |-> SeawaterConfig_fields, SeawaterLiquidity |-> SeawaterLiquidity_fields,
     SeawaterPool |-> Join(Join(Join(Join(Join(Join(SeawaterPool_identity, SeawaterPool_price),
                          SeawaterPool_history), SeawaterPool_earnings), SeawaterPool_positions),
                          SeawaterPool_trading), SeawaterPool_totals),
     SeawaterPosition |-> Join(Join(SeawaterPosition_identity, SeawaterPosition_links),
                               SeawaterPosition_range),
     SeawaterPositionsGlobal |-> SeawaterPositionsGlobal_fields,
     SeawaterPositionsUser |-> SeawaterPositionsUser_fields,
     SeawaterSwap |-> Join(SeawaterSwap_identity, SeawaterSwap_amounts),
     SeawaterSwaps |-> SeawaterSwaps_fields, Served |-> Served_fields, Token |-> Token_fields,
     TvlOverTime |-> TvlOverTime_fields, VolumeOverTime |-> VolumeOverTime_fields,
     Wallet |-> Wallet_fields, YieldOverTime |-> YieldOverTime_fields,
     FaucetQuery |-> FaucetQuery_fields, Mutation |-> Mutation_fields,
     __Directive |-> __Directive_fields, __EnumValue |-> __EnumValue_fields,
     __Field |-> __Field_fields, __InputValue |-> __InputValue_fields,
     __Schema |-> __Schema_fields,
     __Type |-> Join(Join(__Type_names, __Type_members), __Type_values)]
Exec ==
    [Amount |-> Amount_exec, GetSwaps |-> GetSwaps_exec, GetSwapsForUser |-> GetSwapsForUser_exec,
     LiquidityCampaign |-> LiquidityCampaign_exec, LiquidityOverTime |-> LiquidityOverTime_exec,
     PairAmount |-> PairAmount_exec, PriceOverTime |-> PriceOverTime_exec, Query |-> Query_exec,
     SeawaterConfig |-> SeawaterConfig_exec, SeawaterLiquidity |-> SeawaterLiquidity_exec,
     SeawaterPool |-> SeawaterPool_exec, SeawaterPosition |-> SeawaterPosition_exec,
     SeawaterPositionsGlobal |-> SeawaterPositionsGlobal_exec,
     SeawaterPositionsUser |-> SeawaterPositionsUser_exec, SeawaterSwap |-> SeawaterSwap_exec,
     SeawaterSwaps |-> SeawaterSwaps_exec, Served |-> Served_exec, Token |-> Token_exec,
     TvlOverTime |-> TvlOverTime_exec, VolumeOverTime |-> VolumeOverTime_exec,
     Wallet |-> Wallet_exec, YieldOverTime |-> YieldOverTime_exec,
     FaucetQuery |-> FaucetQuery_exec, Mutation |-> Mutation_exec,
     __Directive |-> __Directive_exec, __EnumValue |-> __EnumValue_exec, __Field |-> __Field_exec,
     __InputValue |-> __InputValue_exec, __Schema |-> __Schema_exec, __Type |-> __Type_exec]
Resolvers ==
    [Amount |-> AmountResolver, LiquidityCampaign |-> LiquidityCampaignResolver,
     Query |-> Join(QueryResolver, SwapsQueryResolver), SeawaterConfig |-> SeawaterConfigResolver,
     SeawaterLiquidity |-> SeawaterLiquidityResolver,
     SeawaterPool |-> Join(Join(Join(PoolStateResolver, PoolHistoryResolver), PoolYieldResolver),
                           PoolPositionsResolver),
     SeawaterPosition |-> SeawaterPositionResolver,
     SeawaterPositionsGlobal |-> SeawaterPositionsGlobalResolver,
     SeawaterPositionsUser |-> SeawaterPositionsUserResolver, SeawaterSwap |-> SeawaterSwapResolver,
     SeawaterSwaps |-> SeawaterSwapsResolver, Token |-> TokenResolver, Wallet |-> WalletResolver,
     FaucetQuery |-> FaucetResolver, Mutation |-> FaucetResolver]

Types == DOMAIN Fields
FieldsOf(t) == DOMAIN Fields[t]
IsObject(t) == t \in Types
NullableIn(t) ==
    (IF t \in DOMAIN Nullable THEN Nullable[t] ELSE {})
    \cup (IF t \in DOMAIN IntrospectionNullable THEN IntrospectionNullable[t] ELSE {})

HasArgs(t, f) ==
    \/ t \in DOMAIN WithArgs /\ f \in WithArgs[t]
    \/ t \in DOMAIN FaucetWithArgs /\ f \in FaucetWithArgs[t]

\* What may come out of a field function's call: a property is a value, and
\* one that may be missing may be nil.
OutcomesOf(t, f) ==
    (IF Fields[t][f].resolver THEN Resolvers[t][f]
     ELSE IF Fields[t][f].refusesNull THEN {"value"} ELSE {"value", "nil"})
    \cup (IF HasArgs(t, f) THEN {"error"} ELSE {})
=============================================================================
