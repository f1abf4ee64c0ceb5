------------------------------ MODULE Positions ------------------------------
(***************************************************************************)
(* How a client walks through the positions of a pool or a wallet.         *)
(*                                                                         *)
(* The ingestor writes mint, transfer and burn events; created_by of an    *)
(* event is CURRENT_TIMESTAMP, the start of the ingestor's transaction, so *)
(* that all the events of one window have the same.  Every minute a job    *)
(* replaces the table seawater_active_positions_2 by what the views make   *)
(* of the events.  The resolvers of the GraphQL service read pages of that *)
(* table, newest first, and a page knows the cursor from which `next'      *)
(* continues: a time in whole seconds.                                     *)
(*                                                                         *)
(* Time is counted in fractions of a second, so that a second has several  *)
(* transactions.  A result that fails or panics is no step.                *)
(***************************************************************************)
EXTENDS Integers, FiniteSets, FiniteSetsExt

CONSTANTS Wallet, Pool,
          None,           \* no cursor, no argument
          PerSecond,      \* the instants of a second that are told apart
          Epoch,          \* the Unix time at which the model starts
          PageSize,       \* PoolPositionsPageSize
          Firsts,         \* the page sizes that clients ask for; None is no size
          Afters,         \* the ids after which they start; None is no argument
          MaxPositions,   \* bound: positions ever minted
          MaxMoves,       \* bound: transfers and burns
          MaxTime         \* bound: the clock

ASSUME PositionsAssumption ==
    /\ PerSecond \in Nat \ {0} /\ PageSize \in Nat \ {0}
    /\ MaxPositions \in Nat /\ MaxMoves \in Nat /\ MaxTime \in Nat
    /\ Epoch \in Nat /\ MaxPositions < Epoch
    /\ Firsts \ {None} \subseteq Nat \ {0} /\ Afters \ {None} \subseteq Nat
    /\ None \notin Wallet \cup Pool \cup Nat

VARIABLES now,
          minted,      \* events_seawater_mintPosition: [pos_id, owner, pool, created_by]
          transfers,   \* events_seawater_transferPosition: [n, pos_id, to]
          burned,      \* events_seawater_burnPosition
          active,      \* seawater_active_positions_2
          page,        \* the page that the client holds; by says what its cursor is
                       \* (a time or an id), "none" that there is no page
          walk         \* history of the client's walk: the cursors and positions it saw, and
                       \* the rows in its way that have been in the table since its start

events == <<minted, transfers, burned>>
vars == <<now, events, active, page, walk>>
-----------------------------------------------------------------------------
Id == 1..MaxPositions
Unix(t) == Epoch + t \div PerSecond
NextId == Cardinality(minted) + 1
Moves == Cardinality(transfers) + Cardinality(burned)

NoPage == [by |-> "none", wallet |-> None, pool |-> None, rows |-> {}, to |-> None]
NoWalk == [cursors |-> {}, seen |-> {}, stable |-> {}]

Init ==
    /\ now = 0
    /\ minted = {} /\ transfers = {} /\ burned = {}
    /\ active = {}
    /\ page = NoPage /\ walk = NoWalk

(***************************************************************************)
(* The ingestor's transactions.                                            *)
(***************************************************************************)
\* One transaction stores the mints of a window, to a wallet in a pool each.
IngestMints(n, owner, pool) ==
    /\ NextId + n - 1 <= MaxPositions
    /\ minted' = minted \cup
        {[pos_id |-> i, owner |-> owner[i], pool |-> pool, created_by |-> now]
            : i \in NextId..NextId + n - 1}
    /\ UNCHANGED <<now, transfers, burned, active, page, walk>>

\* The owner on chain: the recipient of the last transfer.
holder_of(p) ==
    LET of == {t \in transfers : t.pos_id = p}
        mint == CHOOSE m \in minted : m.pos_id = p
    IN  IF of = {} THEN mint.owner ELSE (CHOOSE t \in of : \A u \in of : u.n <= t.n).to

IngestTransfer(p, to) ==
    /\ p \in 1..NextId - 1 /\ p \notin burned /\ to # holder_of(p)
    /\ Moves < MaxMoves
    /\ transfers' = transfers \cup {[n |-> Cardinality(transfers) + 1, pos_id |-> p, to |-> to]}
    /\ UNCHANGED <<now, minted, burned, active, page, walk>>

IngestBurn(p) ==
    /\ p \in 1..NextId - 1 /\ p \notin burned
    /\ Moves < MaxMoves
    /\ burned' = burned \cup {p}
    /\ UNCHANGED <<now, minted, transfers, active, page, walk>>

Tick ==
    /\ now < MaxTime
    /\ now' = now + 1
    /\ UNCHANGED <<events, active, page, walk>>

(***************************************************************************)
(* The views and the job.                                                  *)
(***************************************************************************)
Row(m, owner, n) ==
    [pos_id |-> m.pos_id, owner |-> owner, pool |-> m.pool, created_by |-> m.created_by, n |-> n]

\* Mutant of seawater_positions_1: an inner join.
seawater_positions_joined ==
    {Row(mt[1], mt[2].to, mt[2].n) :
        mt \in {x \in minted \X transfers : x[2].pos_id = x[1].pos_id}}

\* A mint with each of its transfers, or alone if it has none.
seawater_positions_1 ==
    {Row(mt[1], mt[2].to, mt[2].n) :
        mt \in {x \in minted \X transfers : x[2].pos_id = x[1].pos_id}}
    \cup {Row(m, m.owner, 0) : m \in {m \in minted : \A t \in transfers : t.pos_id # m.pos_id}}

seawater_active_positions_1 == {r \in seawater_positions_1 : r.pos_id \notin burned}

\* DELETE and INSERT ... SELECT in one transaction.
SnapshotActivePositions ==
    /\ active' = seawater_active_positions_1
    /\ walk' = [walk EXCEPT !.stable = @ \cap active']
    /\ UNCHANGED <<now, events, page>>

(***************************************************************************)
(* The resolvers.                                                          *)
(***************************************************************************)
limit(first) == IF first = None \/ first > PageSize THEN PageSize ELSE first

\* The results of ORDER BY created_by DESC LIMIT n: ties come in any order.
Pages(rows, n) ==
    {P \in SUBSET rows :
        /\ Cardinality(P) = Min({n, Cardinality(rows)})
        /\ \A r \in P, q \in rows \ P : r.created_by >= q.created_by}

oldest(rows) == Min({r.created_by : r \in rows})

\* The time of the last row in whole seconds; none for an empty page.
cursor(rows) == IF rows = {} THEN None ELSE Unix(oldest(rows))

\* The client starts a walk; the cursor is a time or an id.
Begin(by, wallet, pool, rows, to) ==
    /\ page' = [by |-> by, wallet |-> wallet, pool |-> pool, rows |-> rows, to |-> to]
    /\ walk' = [cursors |-> {to}, seen |-> {r.pos_id : r \in rows},
                stable |-> {r \in active : /\ wallet # None => r.owner = wallet
                                           /\ pool # None => r.pool = pool
                                           /\ \A q \in rows : r.created_by <= q.created_by}]
    /\ UNCHANGED <<now, events, active>>

GetPoolPositions(pool, first, after) ==
    \E P \in Pages({r \in active : r.pool = pool /\ (after # None => r.pos_id > after)},
                   limit(first)) :
        Begin("time", None, pool, P, cursor(P))

WalletPositions(wallet, first, after) ==
    \E P \in Pages({r \in active : r.owner = wallet /\ (after # None => r.pos_id > after)},
                   limit(first)) :
        Begin("time", wallet, None, P, cursor(P))

\* It reads the first row, so that an empty page panics.  With `after' it
\* compares a time with a number, which the database refuses.
PoolPositions(pool, first) ==
    \E P \in Pages({r \in active : r.pool = pool}, limit(first)) :
        P # {} /\ Begin("time", None, pool, P, cursor(P))

\* The cursor is the id of the last row, and an empty page panics.
GetPositions(wallet, first, after) ==
    \E P \in Pages({r \in active : r.owner = wallet /\ (after # None => r.pos_id < after)},
                   limit(first)) :
        \E last \in P :
            /\ last.created_by = oldest(P)
            /\ Begin("id", wallet, None, P, last.pos_id)

\* Mutant of older: rows of the cursor's second are taken again.
older_or_equal(r, to) == Unix(r.created_by) <= to
\* Mutant of older: a second too early.
older_by_a_second(r, to) == Unix(r.created_by) < to - 1

\* created_by < time.Unix(to)
older(r, to) == Unix(r.created_by) < to

\* `next' of either type of page: by wallet if the page has one, else by pool.
\* A page without a cursor is its own next page.
NextPage(first) ==
    /\ page.by # "none" /\ page.to # None
    /\ \E P \in Pages({r \in active :
                         /\ older(r, page.to)
                         /\ IF page.wallet # None THEN r.owner = page.wallet
                                                  ELSE r.pool = page.pool}, limit(first)) :
        /\ page' = [page EXCEPT !.rows = P, !.to = cursor(P)]
        /\ walk' = [walk EXCEPT !.seen = @ \cup {r.pos_id : r \in P},
                                !.cursors = @ \cup {cursor(P)}]
    /\ UNCHANGED <<now, events, active>>
-----------------------------------------------------------------------------
Ingest ==
    \/ \E n \in 1..MaxPositions, pool \in Pool :
        \E owner \in [NextId..NextId + n - 1 -> Wallet] : IngestMints(n, owner, pool)
    \/ \E p \in Id, to \in Wallet : IngestTransfer(p, to)
    \/ \E p \in Id : IngestBurn(p)

FirstPage ==
    \E first \in Firsts :
        \/ \E pool \in Pool : PoolPositions(pool, first)
        \/ \E after \in Afters :
            \/ \E pool \in Pool : GetPoolPositions(pool, first, after)
            \/ \E wallet \in Wallet :
                WalletPositions(wallet, first, after) \/ GetPositions(wallet, first, after)

Client == \E first \in Firsts : NextPage(first)

Next ==
    \/ Ingest \/ Tick \/ SnapshotActivePositions
    \/ page.by = "none" /\ FirstPage
    \/ Client

\* A client that has begun asks for the next page; nothing else need happen.
Spec == Init /\ [][Next]_vars /\ WF_vars(Client)
-----------------------------------------------------------------------------
\* A walk never shows a position on two pages, whatever the ingestor and the job
\* do between them.
NeverTwice ==
    [][(page.by # "none" /\ page' # page) =>
        \A r \in page'.rows : r.pos_id \notin walk.seen]_vars

\* When a walk by cursors of time is over, a row that was in the table all along
\* and is not newer than the first page was shown, unless it was stored in the
\* same second as the last row of some page: only such ties are skipped.
SkipsOnlyTies ==
    (page.by \notin {"none", "id"} /\ page.to = None) =>
        walk.seen = {} \/ \A r \in walk.stable :
            r.pos_id \in walk.seen \/ Unix(r.created_by) \in walk.cursors

\* When the job has run, every position that is not burnt has a row with the
\* wallet that holds it, and no other if it was transferred at most once.  (After
\* a second transfer the recipient of the first is shown too.)
SnapshotShowsHolder ==
    [][active' # active =>
        /\ \A r \in active' : r.pos_id \notin burned
        /\ \A p \in 1..NextId - 1 \ burned :
            LET rows == {r \in active' : r.pos_id = p} IN
            /\ \E r \in rows : r.owner = holder_of(p)
            /\ Cardinality({t \in transfers : t.pos_id = p}) <= 1 => Cardinality(rows) = 1]_vars

\* A client that keeps asking comes to a page without a cursor, even while
\* positions are being added: their time is later than the cursor.
WalkEnds == [](page.by # "none" => <>(page.to = None))
=============================================================================
