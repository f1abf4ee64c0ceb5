# Verification of Superposition's Longtail AMM (Seawater)

TLA+ models of the on-chain core of this repository and of its services, the
TLC runs that check them on small instances and TLAPS proofs of the results
that hold for every instance. `PROJECT.json` lists components, runs, mutants, the map from
definitions to source lines, findings, hazards and theorems.

## 1. The system

| Component | Source | State | Operations |
|---|---|---|---|
| Pool | `pkg/seawater/src/{pool,tick,position}.rs` | price, tick, active liquidity, global fee growth, ticks, tick bitmap, positions | init, create/update/adjust position, swap, collect, enable, set price |
| Maths | `pkg/seawater/src/maths/` | none | prices, amounts, liquidity, fees, tick search, bitmap search |
| Entry points | `pkg/seawater/src/lib.rs` | map of pools, position counter | swap, swap_2, quote, mint, burn, update, incr/decr, collect; ERC-20 transfers |
| Roles and ownership | `pkg/seawater/src/lib.rs` | admin, NFT manager, council, enablers, owner of each id, count per owner | ctor, role setters, enable/disable, mint, burn, transfer |
| OwnershipNFTs | `pkg/sol/OwnershipNFTs.sol` | approvals | ERC-721 transfers and approvals, which call into Seawater |
| SeawaterAMM | `pkg/sol/SeawaterAMM.sol` | executor addresses | dispatch by `delegatecall`; swapIn/swapOut with a minimum |
| Leo | `pkg/leo/src/` | vested positions, campaigns and their balances | vest, divest, create/update/cancel campaign, collect rewards |
| Ingestor | `cmd/ingestor.logs.ethereum` | block checkpoint, event tables | poll a window of logs, write logs and checkpoint in one transaction |
| Snapshot | `cmd/snapshot.ethereum` | worker pool over unbuffered channels | query the liquidity of all positions in batches, store amounts |
| Faucet | `cmd/faucet.superposition`, `pkg/sol/Faucet.sol` | table of requests | captcha, staker list, look for recent requests, insert; send a batch |
| GraphQL | `cmd/graphql.ethereum` | none of its own | generated executor and resolvers over the database: pools, positions, swaps, paging |
| Database | `db/migrations` | event tables, copied tables | views of positions, swaps, ticks; jobs that copy views into tables |
| Web, libraries | `web`, `lib` | none | presentation, decoding, configuration |

How they interact: users call the SeawaterAMM proxy, which delegates to the
Stylus executors compiled from `lib.rs`; these work on the storage of one
`Pools` struct with a `StoragePool` per token. OwnershipNFTs is a separate
contract that Seawater trusts as `nft_manager`; it keeps the approvals, while
Seawater keeps the owners. Leo takes positions through OwnershipNFTs. The
ingestor copies the contracts' events into the database, from which snapshot,
GraphQL and the web read.

Where it is hard:

* On chain everything is sequential and atomic per transaction. The difficulty
  is in long sequences of legal calls (ticks crossed, cleared and reused;
  pokes; disabled pools; admin prices; reversed ranges) and in rounding,
  wrapping and boundary arithmetic, inside a loop of unbounded length.
* Between contracts: owners and approvals live in different storages and are
  changed by different calls.
* Off chain: polling against a growing chain, crashes between read and
  commit, a worker pool with error paths, check-then-insert, a table replaced
  between the pages of a walk, and an executor in which fields, list elements
  and deferred groups run concurrently while resolvers fail and panic.

`PROJECT.json` "hazards" gives each of these at the line where it bites.

## 2. Modules

| Module | Models | Kind |
|---|---|---|
| `PoolMath` | `maths/`: `mul_div`, amounts, next prices, `compute_swap_step`, liquidity for amounts, bitmap search | operators, parameterised by units and word sizes |
| `Pool` (extends `PoolMath`) | one `StoragePool` with the entry points that act on it | state machine |
| `MCPool` | instances of `Pool`, bound on calls, `NothingStranded` | TLC |
| `TickSearch` (extends `PoolMath`) | the loop of `get_tick_at_sqrt_ratio`; shown to compute the abstract definition in `PoolMath` | state machine |
| `MCTickSearch` | 25 ticks | TLC |
| `Ownership` | roles and ownership tables of `lib.rs` composed with `OwnershipNFTs.sol` | state machine |
| `MCOwnership` | two accounts and the NFT contract | TLC |
| `EventMirror` | what the ingestor promises: tables that mirror the chain up to a checkpoint | abstract specification |
| `Ingestor` (instantiates `EventMirror`) | `cmd/ingestor.logs.ethereum`, with the chain and the database | state machine, refinement |
| `MCIngestor` | chains of three and five blocks, a bound on crashes | TLC |
| `Snapshot` | `cmd/snapshot.ethereum`: sender, workers, caller, stored rows | state machine |
| `MCSnapshot` | up to five positions | TLC |
| `SwapTwo` (instantiates `Pool`) | several pools of one AMM, `swap_2` and `quote_2` through two of them, the AMM's token balances | composition |
| `MCSwapTwo` | two pools, six calls | TLC |
| `GraphSchema` | the generated field functions and executors, the resolvers' outcomes and the schema text, of both GraphQL servers | tables |
| `GraphExec` (extends `GraphSchema`) | the generated execution of one operation | state machine |
| `MCGraph` | every pair of fields of every type, deeper operations | TLC |
| `Positions` | position events, views, the copying job and the resolvers that page through it | state machine |
| `MCPositions` | three positions, three instants | TLC |
| `Faucet` | `RequestTokens` as concurrent processes over one table | state machine |
| `MCFaucet` | three requests | TLC |
| `PoolProofs` (extends `Pool`) | types, prices, limits, progress, fee growth, amounts of a pool; ticks, bitmap and liquidity against the positions; withdrawals; solvency | TLAPS |
| `GraphProofs` (extends `GraphExec`) | responses, failures and deferred groups of an operation | TLAPS |
| `TickSearchProofs`, `OwnershipProofs`, `IngestorProofs`, `SnapshotProofs`, `PositionsProofs`, `FaucetProofs` | lemmas and theorems about the module of that name | TLAPS |

### Pool

Every entry point is one transaction, so an operation whose checks fail is no
step. The variables carry the names of the storage fields. The pairs `_0`,
`_1` are functions over `Token == {0, 1}`; `tick_bitmap` is the set of
compressed ticks whose bit is set; `reserve` is the net of the ERC-20
transfers that the entry points attach to the pool's operations.

`swap` is split: `SwapBegin` is the code before the loop, `SwapStep` one
iteration, `SwapReverts` an iteration that returns an error, `SwapCommit` the
write-back with the transfers of `swap_internal`, `SwapDiscard` a result that
`swap_internal` refuses or a `quote`, which always reverts. The record `swap`
holds the arguments, the `SwapState` and the ticks written so far. Invariants
are therefore checked after every iteration, while no other call can run in
between (Stylus denies reentrancy).

`update_position_ok` collects all error paths of `update_position` and the
functions it calls; `update_position` has its writes and the caller's
transfers. A caller is the owner of an id, represented by `id <
next_position_id`: who that is belongs to `Ownership`. An owner may name any
pool, so an id minted elsewhere is the empty range at tick 0 here
(`MintElsewhere`, `UpdatePosition`).

Abstractions:

* `get_sqrt_ratio_at_tick` is the constant table `SqrtRatio`, assumed strictly
  increasing (`RatioAssumption`). The code's function has this property over
  all ticks from -887272 to 887272, evaluated outside TLA+, and takes the
  values `MIN_SQRT_RATIO` and `MAX_SQRT_RATIO` at its ends.
* Q96, Q128, the fee denominator, the bitmap word and the word sizes are
  constants. The 512-bit overflow errors of `mul_div`, the 160-bit price
  checks and the overflow of the signed net liquidity are left out.
* `fee_protocol` has no writer, so protocol fees stay 0 and `collect_protocol`
  moves nothing; both are left out, as are the oracle fields of a tick and its
  `initialised`, which nothing reads.
* ERC-20 tokens behave: a transfer moves the stated amount or reverts.

### Ownership

One action per external function of either contract, with `msg.sender` as its
first parameter. `TransferFrom` spans both contracts: `_requireAuthorised`
reads Seawater's owner, then Seawater checks that its caller is the NFT manager
and rewrites the tables; that is the only way in which `Nft` calls Seawater.
Counts are 256-bit words that wrap. `Zero` owns burnt and unminted ids, so its
count wraps below zero when a burnt id is moved, as in the code.

`transfer_position` compares `from` with nothing, and neither does
`TransferPosition`. Its documentation (`lib.rs:549`) asks callers for the owner;
`CallingRequirement` restricts the arguments of direct calls in `Own` to that.
Without it an NFT manager that is an ordinary account could make the counts
wrong at will.

Three history variables serve the properties: `caller`, `approver` (who gave
the approval in force, which tells a stale one) and `named_council` (whom the
admin last named). `Appointees` bounds whom the setters are given.

### TickSearch

The loop of `get_tick_at_sqrt_ratio` with its truncating division. The pool
uses the declarative `get_tick_at_sqrt_ratio` of `PoolMath` (the maximum of the
ticks whose price does not exceed the argument); `SearchCorrect` says that the
code's loop returns exactly that.

### Ingestor and EventMirror

`pc` is where the process is: `Start` (main picks the window size once),
`Poll` (the loop of `IngestPolling` reads the checkpoint and fixes the
window), `FilterLogs` (the query, on the chain as it is at that moment),
`HandleLog` for each log, `Commit` (rows and checkpoint), `Sleep`. The chain
grows between any two of them (`NewBlock`, external). `Crash` stands for every
exit, by `Exitf` or from outside: the window is gone and an open transaction
rolls back. `UnpackFails` is the exit that the code takes for certain.

`rows` counts how often each log is stored, so that a repeated window would
show. A log's kind is its topic group, its emitter and whether its data can be
unpacked; `ofEmitter` is the switch of `handleLogCallback` with the three
checks of the emitter. The order of the logs in an answer does not matter to
the result: rows are a count, `biggestBlockNo` is a maximum and a failing log
rolls everything back, so `HandleLog` takes any of them. The chain is
append-only: the code has no handling of reorganisations.

`EventMirror` has the chain, the tables and the checkpoint only. Its step
`Mirror(c)` moves the checkpoint forward to `c` and stores the wanted logs of
the blocks jumped over. `MirrorsChain` says that every commit of the ingestor
is such a step or changes nothing.

### Snapshot

The goroutines of `reqPositions` meet on unbuffered channels, so a send and
its receive are one step of two processes: `Dispatch` (`chanReqs`), `TakeResp`
(`chanResps`), `TakeErr` (`chanErrs`), `SenderStops` and `WorkerStops`
(`chanDone`). A worker's state is where it stands (waiting, requesting,
replying, blocked with an error, gone) and the requests it holds. `Answer`
lets the node leave any requests of a batch out, `Fail` covers every error
path. The node answers only what it was asked, each request at most once. The
rows and their storage follow in the caller; a snapshot without any row is a
statement that the database refuses (`StoreFails`).

Abstractions: the amounts of a position at its liquidity are a constant; the
context is `Background`, so its branch is never taken; a worker closes its
response bodies when it ends, which no property is about.

### SwapTwo

A pool's storage is a record with one field per variable of `Pool`, and
`P(r)` is module `Pool` over the record `r`: the ticks, fees, steps and checks
of a pool are `Pool`'s own operators. `trade` is the running transaction: the
leg it is in, the swapper's arguments, and `trade.pools`, the storage as the
transaction sees it, so that a second leg through the same pool starts where
the first left it. `TradeBegin`, `LegStep`, `SecondLegBegin` and `TradeCommit`
follow `swap_2_internal` and `swap_2_internal_erc20`; `TradeReverts` is every
failing check of either leg and, at the end, a `quote_2`. `balance` is what the
AMM's address holds of each token; a payment it cannot make fails in the
token's contract. `swap_2` takes all that was offered even if the first pool
could not use it, and the rest stays in `balance` (`SwapTwoOffer.cfg`, section 6).
So `BalanceIsReserves` is about fUSDC, and of a pool's own token `PoolsSolvent`
asks that the AMM holds at least what the pool's operations brought in. Pools
start as `create_pool` and `enable_pool` leave them; single swaps, adjustments
by amount and admin prices are `Pool`'s.

### GraphSchema and GraphExec

The nullability of a field stands in four places that nothing keeps in step
but the generator and the hand that edits the resolvers: the schema text, the
field function (`if !graphql.HasFieldError ... "must not be null"`), the
executor of the type (which counts a null in `Invalids`), and what the resolver
returns. `GraphSchema` has one table for each, `GraphExec` runs an operation
over them: `InPlace` fields one after another, `Dispatched` ones concurrently,
the elements of a list concurrently, and deferred ones in a group that ends by
sending its result on an unbuffered channel. The response handler receives a
group per call as long as the counter of pending groups is positive.

An executor that defers a field puts `graphql.Null` in its place
(`generated.go:10400` and the same line for every such field): `Slot` is what
the object has there. `ResponseConforms` says that these nulls are the only ones
in the place of a field that may not be null, and that the group of each was
given when a response says that nothing follows; that they are there at all is
shown by `GraphDeferred.cfg` (section 6). How often the handler is called is
left open: the servers use `handler.NewDefaultServer` of gqlgen 0.17.49, which
is outside this repository. If its transports call the handler once per
operation, the nulls are all that a client is given of a deferred field.

Data is abstracted to how a field ended ("value", "nil", "null" after an error
or panic) and the length of a list. Prices, volumes and yields computed by the
resolvers, arguments and scalar formats are left out; mocked data is one more
way for a resolver to end with a value.

### Positions

`minted`, `transfers` and `burned` are the event tables. `created_by` of a row
is the start of the ingestor's transaction, so all rows of one window have the
same. `SnapshotActivePositions` is the job that replaces the table
`seawater_active_positions_2` by the view. A client holds one `page`; `NextPage`
continues from its cursor, a time in whole seconds (an id after
`getPositions`). `walk` is history. A request that fails or panics is no step;
page sizes below 1 are excluded, since the resolvers do not cut them. One clock
serves process and database.

### Faucet

A request is a process with a program counter: captcha, staker list, query,
insert, each of which may fail (`Fail`). Time passes between any two steps.
The query and the insert are separate statements without a constraint on the
table. Nothing is said of liveness: the HTTP calls have no timeout.
`DoublesOverlap` says which requests can both be stored; that any can is shown
by `FaucetOverlap.cfg` (section 6).

## 3. Runs

| Run | What it shows | Distinct states |
|---|---|---|
| `pool` | active liquidity is the sum over positions in range, the price is in the current tick's interval, swaps respect limits and amounts, outside growth stays within global growth, withdrawal never fails, the pool is solvent and strands nothing but rounding dust, a disabled pool is frozen except for removals of liquidity, every iteration of a swap gets on | 134,967 |
| `pool_any_input` | tick table and bitmap agree with the positions for every range the code accepts, with admin prices and re-initialisation; an adjustment of an ordered range at the price of a tick stays within the desired amounts | 518,384 |
| `ownership` | counts match owners, unminted ids are free, positions without a stale approval move by consent | 311,945 |
| `tick_search` | the search is right and halves its interval | 442 |
| `ingestor` | each accepted log up to the checkpoint is stored once, the abstract mirror is implemented, ingestion catches up | 245,796 |
| `snapshot` | a result is complete, the stored rows are the positions with an amount, main ends | 33,486 |
| `swap_two` | trades through two pools, or twice through one, leave each pool solvent with its tokens in the AMM, and no fUSDC over; a round trip never gains | 235,041 |
| `graph` | responses conform to the schema text but for the nulls in the place of deferred fields, whose groups follow; a failure goes as far as the schema says and no further; no group is left behind and no call waits but for a resolver | 68,138 |
| `positions` | a walk shows no position twice, skips only ties with the end of a page, and ends; the copied table shows who holds a position | 881,598 |
| `faucet` | only eligible requests are stored; a wallet or address is served twice in a window only by overlapping requests | 317,920 |
| `pool_negative`, `ingestor_gap` | expected violations, one property each: what a text of the repository says and the code does not do (section 6) | |

Bounds. `MAX_TICK = 2` with five prices about a factor 1.4 apart, words of two
ticks (so that the bitmap search changes word inside every range), Q96 = 8,
Q128 = 32, fee 1/4: small units make every rounding visible, and a swap of 20
crosses zero, one or two ticks depending on liquidity. Two positions with
liquidity 24 and a per-tick maximum of 48 reach the limit of a tick. `MaxCalls`
(update, adjust, collect, swap) is 5 in `pool`: deposit, deposit, swap across,
swap back, withdraw. Mints and admin calls are not bounded by it.
`DustPerCall = 2` bounds rounding loss per call and token. `pool` uses ranges
from tick 0 upwards in order, because reversed ranges and negative
ticks would otherwise hide everything else; `pool_any_input` lifts this for
the properties that hold regardless. In `ownership` the number of ids (2) is
the only bound; call sequences have any length. `Appointees` are the NFT
contract and one account, so that the manager changes to and fro
(`OwnershipCouncil.cfg` starts with the admin as its own council). U256 = 3 makes the count of
the zero address wrap. No symmetry is used: the roles tell the accounts apart.

`ingestor` has three blocks with up to two logs of three kinds (stored,
skipped, cannot be unpacked), windows of two or three blocks and one crash: a
window can end before, at and beyond the head, hold several logs of one block,
and be repeated. `MaxGap` bounds the blocks in a row without a log; below the
smallest window ingestion catches up, at the smallest window it does not
(`ingestor_gap`). `snapshot` has zero to five positions in batches of two, so
no batch, a full last batch and a short one, and three workers; their names
are kept apart because liveness is checked, so no symmetry.

`swap_two` has two pools with one position each (or both in one), one pool with
a fee of 1/4 and one without, so that rounding is not hidden by fees, and
offers that one pool can absorb and that exhaust it; six calls are two mints,
two deposits, a trade and one more call of any kind. `graph` runs every pair of
fields of every type of both schemas (so every field beside every other, each
failing), lists of up to two elements, and seven deeper operations with one and
two groups, a group below a group, and a group beside a failing field.
`positions` has three positions over two seconds, two instants of the first, pages of one
and two rows, two moves. `faucet` has three requests over two wallets and two
addresses, a window of two and a clock of three; requests are symmetric and no
liveness is checked.

Deadlock is checked except where the program or the client really stops:
`tick_search`, `snapshot`, `graph` (the transport stops asking), `positions`
(the walk is over), `faucet` and `swap_two` (the bounds are used up).

Fairness. No call by a user is assumed to happen. That a swap ends is stated
without fairness: by `SwapProgress` each iteration moves amount, price or tick
and none of them back. `CatchesUp` assumes that the ingestor runs on and is started again after an
exit (its loop never ends and it is deployed as a service) and that crashes
are finitely many (`MaxCrashes`); blocks need not arrive. `MainReturns` assumes
that goroutines which can go on do, and that a request is answered or fails;
it does not assume that answers are complete. `Answered` assumes that the
goroutines of an operation and a handler that was called go on, and that a
field without a resolver is read. It assumes nothing of resolvers: their
database calls carry no context, and `IsUserStaker` posts without a timeout
(`stakers.go:20`). So it says that a call of the handler returns or waits for a
resolver of the response or of the groups it is to give (`WaitsForResolver`).
How often the transport calls it is open. `WalkEnds` assumes only that a client which has
begun asks for the next page.

## 4. Proofs

All theorems hold for every value of the constants under the named assumptions
(`MathAssumption`, `RatioAssumption`, `PoolAssumption`, `OwnershipAssumption`,
`IngestorAssumption`, `SnapshotAssumption`, `PositionsAssumption`,
`FaucetAssumption`, `GraphAssumption`), which TLC evaluates on each run. Most of them say what the source's
types and checks say: units are positive, prices increase with the tick, amounts
fit their word. Two parts of `PoolAssumption` are assumptions about the admin: a fee
below `ONE_FEE` and a positive tick spacing, neither of which `create_pool`
checks (`lib.rs:999-1030`). `CallingRequirement` is one about an NFT manager
that is an ordinary account. Eight theorems about the pool need more, and say so:

| Hypothesis | Theorems | Why it is needed |
|---|---|---|
| `OnlySwapsMovePrice` (no admin price) | `PriceAgreesWithTick`, `SwapsStayWithinLimits`, `SwapsMakeProgress`, `OutsideNeverExceedsGlobal`, `PoolLiquidityIsInRange`, `ProvidersCanWithdraw`, `PoolStaysSolvent` | `set_sqrt_price` writes the price and leaves the tick behind |
| `RangesCounted` (ranges from tick 0 upwards, ends in order) | `PoolLiquidityIsInRange`, `ProvidersCanWithdraw`, `PoolStaysSolvent` | `flip` misses negative ticks (finding `pool_negative`); a range with swapped ends holds no tick, yet crossing its ends moves the liquidity |
| `SpacingIsFixed` | `BitmapMatches` | after an admin price of 0 a pool can be initialised again; another spacing renumbers the bits |
| `[]GrowthInWord` | `OutsideNeverExceedsGlobal`, `ProvidersCanWithdraw`, `PoolStaysSolvent` | the counters wrap at 2^256. TLC finds the formula true in every state of the `pool` run |

These are the conditions of the `pool` run, in which TLC checks the same
properties, and of `pool_any_input` for `BitmapMatches`; the other theorems
about the pool hold without them.

* `PoolProofs`. The first part types every operator of `PoolMath`. Next come
  `PoolTypeOK` and `DisabledPoolIsFrozen` (which is silent on removals of
  liquidity, as its property is) from `PoolInv`, which adds to the
  types that a running swap has an enabled pool, a tick spacing and a price
  limit (else the loop divides by zero) and that an uninitialised pool has no
  room on its ticks. `PriceAgreesWithTick`, `SwapsStayWithinLimits` and
  `SwapsMakeProgress` rest on `PriceInv`: price and tick of the pool and of the
  running swap agree, the limit lies ahead and the amount left is between 0 and
  the amount. That an iteration keeps it is an argument about rounding:
  `AmountsCompared`, `FloorAtLeast` and `CeilAtMost` compare the amount needed
  to reach a price, rounded one way, with the price reached by an amount,
  rounded the other way, in all eight cases of direction, exactness and target
  reached. `OutsideNeverExceedsGlobal` rests on `GrowthInv`, which holds the
  ticks of a running swap against the counters with which it runs; a pool
  without a fee does not store its running counter, and there the invariant
  also holds them against the stored ones. `IncreasesWithinDesired` follows
  from `LiquidityCosts`: liquidity that `get_liquidity_for_amounts` grants
  costs no more than what it was granted for. Its proof showed that the
  property had to be about ranges with their ends in order, and the run now
  has a range with swapped ends around a tick.
* `PoolProofs`, the ledger. `TicksMatch` (for any calls at all),
  `BitmapMatches`, `PoolLiquidityIsInRange`, `ProvidersCanWithdraw` and
  `PoolStaysSolvent`. The first lemmas prove what is needed of sums over finite
  sets (adding, changing and dropping one summand, comparing sums), because
  gross, net and active liquidity are sums over any number of positions.
  `TicksInv` has the sums for the pool's ticks and for those of the running
  swap, since a swap writes ticks and must not touch their liquidity.
  `BitmapInv` numbers the ticks in use by the spacing. `LiquidityInv` adds that
  every position is empty or has an ordered range on the grid; crossing a tick
  changes the set of positions in range by exactly those that start or end
  there, and the bitmap search passes over no tick in use, so that the net
  liquidity is the difference. `ProvidersCanWithdraw` is about the growth below
  a tick, `Below`: crossing a tick does not change it, and a fee raises it for
  the ticks above the price only, so between the ends of a range it never
  shrinks and what a position recorded as growth inside (`InsideInv`) never
  exceeds what is there now, which is what `checked_sub` needs. `CapInv` bounds
  the liquidities by the room on a tick. `PoolStaysSolvent` counts what is owed
  without rounding, in a common unit `Grain`: the growth inside a range since
  the last update times the liquidity, the fees already credited, and what the
  liquidity is worth at the price. (A price of token 0 is a reciprocal; `Whole`
  is a common multiple of the prices, so that all of them are whole multiples
  of a unit.) `SolvencyInv` says that the reserve covers these `Dues`, and that
  in every iteration of a swap so does the reserve with the running amounts
  added; a sum of claims rounded one by one is not inductive, the exact dues
  are. An iteration moves no more out than the active liquidity loses in worth,
  takes in no less than it gains, and adds at most the fee to the growth
  (`StepCovers`); crossing a tick changes no position's worth at that price. An
  update pays and charges with the pool's roundings (`UpdateKeepsDues`), and at
  rest every claim is a due rounded down (`CoveredIsSolvent`).
* `TickSearchProofs`: `SearchIsCorrect`, `SearchIsLogarithmic`. The inductive
  invariant `SearchInv` says that all ticks above the interval are too high and
  that `closest` is the tick just below the interval (or nothing has been
  raised yet). Correctness of the returned value is not inductive alone:
  without the relation of `closest` and `low_bound` an exhausted search could
  return anything.
* `OwnershipProofs`: `OwnershipTypeOK`, `BalancesAlwaysMatch`, `MintsAreFresh`,
  `PositionsMoveByConsent` (of positions without a stale approval). The invariant is the
  conjunction of the types, `UnmintedIsFree` and `BalancesMatchOwners`:
  counting a mint needs that the id had no owner, and the absence of wrapping
  needs that a count is the cardinality of a set of at most `MaxPositions` ids.
  `Reowned` is the cardinality argument, used by the three `Counted` lemmas.
* `IngestorProofs`: `IngestorTypeOK`, `StoredExactlyOnce`,
  `IngestorImplementsMirror`. `ExactlyOnce` speaks of committed state only; the
  invariant adds `ChainInv` (no log is above the head), that an open window
  starts right after the checkpoint, and `TxInv`: every accepted log of a block
  that the transaction covers (one up to the checkpoint it will save, `Covered`)
  is inserted or still to be handled. This is why the checkpoint may move to
  the biggest block seen although the chain has grown since the query. The
  refinement follows from the same invariant, because at the commit the
  inserted logs are the wanted ones between old and new checkpoint.
* `SnapshotProofs`: `AnswersAreComplete`, `SnapshotIsComplete`. `SnapshotInv`
  says where a request is: not yet sent, held by one worker, left out by the
  node, or collected once (`OnlySent`, `OnePlace`). `reqPositions` only counts
  answers; that as many different answers as there are positions are all of
  them, and that no worker then holds anything, is the pigeonhole in
  `AllAnswered`. The rows follow by induction over the answers (`RowsAreKept`).
* `PositionsProofs`: `JobShowsHolder`, `WalkSkipsOnlyTies`, `WalkNeverRepeats`.
  `EventsInv` numbers mints and transfers, so that the last transfer of a
  position is unique; `TableInv` ties the copied table to the events; `WalkInv`
  says that the cursor of a walk lies between what was shown and what is still
  to come, whatever the job has put in the table since, because the creation
  time of a row never changes.
* `FaucetProofs`: `FaucetServesEligible`, `WindowHoldsUnlessOverlap`.
  `DoublesOverlap` compares two stored rows, and is inductive only with what a
  request saw when it asked: each of the rows that were there then and are for
  the same wallet or address was already older than the window (`SawOld`), and
  time does not undo that.
* `GraphProofs`: `ResponsesConform`, `FailuresAreContained`,
  `NoGroupIsLeftBehind`. `ExecInv` says who waits for whom. Every object but the
  root is below a field, which waits as long as the object is open; a field that
  waits holds up its object or keeps its deferred group running; the counter is
  the number of groups not yet received. So if the counter is 0 and the root is
  done, no object is open: a shortest path to an open one would have an open
  object above it (`OpenHasCause`). `NothingLeftBehind` alone is not inductive,
  since a group that runs may still start others. `FieldInv` adds that a finished
  object or group has all its fields, and no counted null when its counter is 0;
  the responses conform because executors leave out of the count exactly the
  fields that the schema text declares nullable (`UncountedIsNullable`). `GroupInv`
  adds that a finished object with deferred fields has its group, so that a
  counter of 0 means that it was given.
  `FailuresAreContained` needs `ErrorInv`: errors are of answered fields, and an
  object has counted a null only if a binding field of it is null. An error goes
  up through an object by a binding field (`ForcesDown`, `ForcesThrough`), and
  one reported now reaches no field that was answered before, because every field
  above one that runs is waiting, up to a nullable or deferred one
  (`ErrorsStop`). That a null without an error is let through by field function
  and executor alike (`NilIsAllowed`) is a comparison of the tables, row by row
  for each type.

Induction. The library's induction theorems take an operator as a parameter,
which the installed provers cannot instantiate. Where a proof needs induction
(sums, rows, types along a path, least elements) it takes a smallest
counterexample instead, with `WFMin` over the naturals or over the finite
subsets of a set; the folds and the recursive functions involved are unfolded
once in a lemma of their own (`SumIsSolution`, `RowEquation`, `TypeChosen`). No
module with a theorem reaches a `RECURSIVE` operator.

Only model-checked:

* liveness (`CatchesUp`, `MainReturns`, `Answered`, `WalkEnds`): the prover has
  no fairness reasoning;
* `NothingStranded`: it bounds what a reserve keeps beyond the claims by the
  number of calls, which only the `pool` run counts. `PoolStaysSolvent` needs a
  sign for each remainder, this needs a bound on each of them;
* `SwapTwo` (`PoolsSolvent`, `BalanceIsReserves`, `RoundTripLoses`).

## 5. The plan, and what is not modelled

Next, in this order:

1. Proofs: `BalanceIsReserves` of `SwapTwo`, for which the amounts of a leg may
   stay uninterpreted.
2. `MathReference`: the maths against reference definitions over bounded
   inputs, boundary fees included, and the Go maths (`lib/math`) against it.
3. The proxy `SeawaterAMM.sol`: dispatch by selector to the executors, their
   replacement, and the minimums of `swapIn` and `swapOut`.

Not modelled:

* Leo (`pkg/leo`) is unfinished at this commit. In the contract build reading a
  position's liquidity or lower tick from Seawater ends in `panic!("TODO")`
  (`seawater.rs:52`, `:82`), so no position can be vested; `erc20.rs` transfers
  nothing; and the owner of a campaign's balance must equal the caller before
  anyone has been made owner (`lib.rs:195`), which only the zero address
  satisfies. What its tests run is a host with stubs. A model of it would state
  properties of a program that does not exist yet.
* Resolvers' numbers, the views of swaps, volumes and ticks, decoding and
  configuration: no state and no protocol of their own.
* The faucet contract (a batch of transfers by an operator) and the web front
  end.

## 6. Findings

Each line is a property that states the text and that TLC finds violated by what
the code does. The first two are runs of `PROJECT.json`. The others are the
configurations of that name, each with the one property, for the MC module of
their component. Where a passing run has a property on the same subject, that
one says what holds and is silent where code and text disagree.

| Run or configuration | The code | The text |
|---|---|---|
| `pool_negative` | the bit of a negative tick is a negative remainder, and the mask becomes 0 (`tick.rs:29`) | `tick.rs:23` "Toggles a tick on the bitmap." |
| `ingestor_gap` | the checkpoint is saved only if the window held a log (`func.go:117`), so after a gap as long as the window the same window is asked for ever | `func.go:92` "Also updates the underlying last block it saw into the database checkpoints." |
| `PoolDisabled.cfg` | `update_position` requires an enabled pool for every delta (`pool.rs:92`), so liquidity cannot be removed from a disabled one; `DisabledIsFrozen` is what is left to say | `lib.rs:687` "Requires the pool to be enabled unless removing liquidity." |
| `PoolAdjust.cfg` | `adjust_position` computes liquidity at the current tick's price, the amounts are charged at the actual price and compared with minimums only (`pool.rs:265`); `AdjustsWithinDesired` holds at the price of a tick for a range with its ends in order | `lib.rs:911` "transferring tokens from the user with a restriction on the amount taken." |
| `OwnershipStale.cfg` | transfers do not clear `getApproved` (`OwnershipNFTs.sol:115`), so a spender approved by an earlier owner moves the position | `README.md:148` "Only the owner can modify their positions." |
| `OwnershipBurnt.cfg` | a burnt id is taken again with an approval given before the burn (`OwnershipNFTs.sol:109` with the zero address as owner) | `lib.rs:524` "Calling this function leaves any liquidity or fees left in the position inaccessible." |
| `OwnershipCouncil.cfg` | `update_emergency_council` writes `nft_manager` (`lib.rs:1121`) | `lib.rs:1109` "Update the emergency council that can disable the pools." |
| `SwapTwoOffer.cfg` | `swap_2` takes the whole offer even if the first pool could use only a part (`lib.rs:290`), and nothing gives the rest back | `lib.rs:305` "return amount - amount_in to the user" |
| `FaucetOverlap.cfg` | the look for earlier rows (`schema.resolvers.go:89`) and the insert are two statements, so two overlapping requests are both stored | `schema.resolvers.go:109` "Mark that the request was serviced so we don't double up." |
| `GraphDeferred.cfg` | a deferred field is null in the first response (`generated.go:12347`), also where the schema has no null | `schema.graphqls:251` "amounts: PairAmount!" |

Further differences have no configuration of their own. All but the first are
modelled as the code has them:

* `create_pool` checks neither the fee nor the tick spacing (`lib.rs:999-1030`);
  `README.md:149` says "Only valid tick ranges, and fee structures, are
  accessible." The models assume a fee below the denominator and a positive
  spacing.
* `create_position` does not compare `low` and `up` (`pool.rs:75`);
  `position.rs:32` says "`low` and `up` are in the correct order". `pool_any_input`
  includes such ranges.
* `_onTransferReceived` requires the answer to differ from the selector
  (`OwnershipNFTs.sol:93`); `OwnershipNFTs.sol:66` says "if the callback
  doesn't return the selector, revert!"
* After the first error `reqPositions` offers `chanDone` for ever but no longer
  receives from `chanErrs`, so a second worker that fails never ends
  (`rpc.go:205`); `rpc.go:88` says that it "sends a done message to all the
  Goroutines after attempting to drain them for 5 seconds". The only caller
  exits on the error.
* `reqPositions` waits for ever when the node leaves a request of a batch
  unanswered (`rpc.go:198`); `MainReturns` excludes this case.
* Fee growths are subtracted with `checked_sub` (`tick.rs:238`,
  `position.rs:54`), so the first deposit into a range whose inside growth is
  only meaningful modulo 2^256 fails; `README.md:152` says "We should follow
  Uniswap V3's math faithfully." `CanWithdraw` states what holds once both
  ticks of a range are in use.
* The cursor of a page of positions is a time (`schema.resolvers.go:294`), while
  `graph/model/pagination.go:12` says "We use the position id for everything."
  Rows that tie with the last row of a page are skipped; the cursor that
  `getPositions` sets is an id, which `next` reads as a time in 1970, so that
  its next page is empty; and `getPositions` panics on an empty page
  (recovered to null).
* The view of positions joins every transfer
  (`1713545565-seawater_positions.sql:15`), so after two transfers of a position
  both recipients are shown to hold it.
