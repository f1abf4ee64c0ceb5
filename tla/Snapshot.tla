------------------------------ MODULE Snapshot ------------------------------
(***************************************************************************)
(* cmd/snapshot.ethereum: one pass over all positions.  reqPositions asks  *)
(* an RPC node for the liquidity of every position in batches: a sender, a *)
(* pool of workers and the collecting caller meet on unbuffered channels,  *)
(* so that a send and its receive are one step of both.  The caller then   *)
(* stores the amounts.                                                     *)
(***************************************************************************)
EXTENDS Integers, Sequences

CONSTANTS
    MaxPositions,   \* bound on the number of positions
    Amounts,        \* the two amounts of each position at its liquidity
    BatchLimit,     \* requests per batch
    Worker          \* the goroutines of the pool

Req == 1 .. MaxPositions

ASSUME SnapshotAssumption ==
    /\ MaxPositions \in Nat
    /\ Amounts \in [Req -> Nat \X Nat]
    /\ BatchLimit \in Nat \ {0}
    /\ Worker # {}

VARIABLES
    total,      \* active positions found, one request each
    sender,     \* the first request of the next batch; above total: returned
    worker,     \* each worker's state and the requests it holds
    unanswered, \* requests that the node left out of an answer
    main,       \* where the caller is
    resps,      \* the answers collected
    done,       \* sleepRoutines offers chanDone to everyone, for ever
    stored      \* the latest snapshot in the database

vars == <<total, sender, worker, unanswered, main, resps, done, stored>>

Idle == [state |-> "wait", holds |-> {}]
Gone == [state |-> "exit", holds |-> {}]

\* The order of the requests is that of a Go map; they are named by it.
Init ==
    /\ total \in 0 .. MaxPositions
    /\ sender = 1
    /\ worker = [w \in Worker |-> Idle]
    /\ unanswered = {}
    /\ main = IF total = 0 THEN "ok" ELSE "collect"
    /\ resps = <<>>
    /\ done = FALSE
    /\ stored = <<>>

-----------------------------------------------------------------------------
(* The sender *)

\* Mutant of batch: the last batch is sent at full length, with the entries
\* that the batch before left in the buffer.
batch_full(n) ==
    {r \in 1 .. total : r \in n .. n + BatchLimit - 1
                        \/ (r < n /\ r + BatchLimit > total)}

\* The batch that starts with request n; the last one may be shorter.
batch(n) == {r \in n .. n + BatchLimit - 1 : r <= total}

SenderOffers == sender <= total

\* chanReqs: a waiting worker takes the next batch.
Dispatch(w) ==
    /\ SenderOffers /\ worker[w].state = "wait"
    /\ worker' = [worker EXCEPT ![w] = [state |-> "request", holds |-> batch(sender)]]
    /\ sender' = sender + BatchLimit
    /\ UNCHANGED <<total, unanswered, main, resps, done, stored>>

SenderStops ==
    /\ SenderOffers /\ done
    /\ sender' = total + 1
    /\ UNCHANGED <<total, worker, unanswered, main, resps, done, stored>>

-----------------------------------------------------------------------------
(* The workers *)

\* Mutant of on_failure: the worker returns and reports nothing.
leave_silently(w) == [worker EXCEPT ![w] = Gone]

\* A worker that met an error waits to hand it to the caller.
on_failure(w) == [worker EXCEPT ![w].state = "error"]

\* The node answers with a list that leaves the requests `missing' out.
Answer(w, missing) ==
    /\ worker[w].state = "request"
    /\ worker' = [worker EXCEPT ![w] =
           IF missing = @.holds THEN Idle
           ELSE [state |-> "reply", holds |-> @.holds \ missing]]
    /\ unanswered' = unanswered \cup missing
    /\ UNCHANGED <<total, sender, main, resps, done, stored>>

\* Encoding, request or decoding fails, or the next answer of the list is an
\* error or no number.
Fail(w) ==
    /\ worker[w].state \in {"request", "reply"}
    /\ worker' = on_failure(w)
    /\ UNCHANGED <<total, sender, unanswered, main, resps, done, stored>>

\* chanDone is received where the worker selects on it.
WorkerStops(w) ==
    /\ done /\ worker[w].state \in {"wait", "reply"}
    /\ worker' = [worker EXCEPT ![w] = Gone]
    /\ UNCHANGED <<total, sender, unanswered, main, resps, done, stored>>

-----------------------------------------------------------------------------
(* The caller *)

\* chanResps: the caller takes an answer; the worker takes its next one or
\* goes back to waiting.
TakeResp(w, r) ==
    /\ main = "collect" /\ worker[w].state = "reply" /\ r \in worker[w].holds
    /\ resps' = Append(resps, r)
    /\ worker' = [worker EXCEPT ![w] =
           IF @.holds = {r} THEN Idle
           ELSE [state |-> "reply", holds |-> @.holds \ {r}]]
    /\ main' = IF Len(resps) + 1 = total THEN "ok" ELSE main
    /\ UNCHANGED <<total, sender, unanswered, done, stored>>

\* chanErrs: the caller takes an error, returns it and leaves sleepRoutines behind.
TakeErr(w) ==
    /\ main = "collect" /\ worker[w].state = "error"
    /\ worker' = [worker EXCEPT ![w] = Gone]
    /\ main' = "err"
    /\ done' = TRUE
    /\ UNCHANGED <<total, sender, unanswered, resps, stored>>

\* Mutant of has_amounts: a position with one empty side is dropped.
has_both_amounts(r) == Amounts[r][1] # 0 /\ Amounts[r][2] # 0

\* A position without either amount is not stored.
has_amounts(r) == Amounts[r][1] # 0 \/ Amounts[r][2] # 0

\* The rows to store after the first n answers, in the order of the answers.
row[n \in 0 .. Len(resps)] ==
    IF n = 0 THEN <<>>
    ELSE IF has_amounts(resps[n]) THEN Append(row[n - 1], resps[n]) ELSE row[n - 1]

Rows == row[Len(resps)]

NothingFound ==
    /\ main = "ok" /\ total = 0
    /\ main' = "nothing"
    /\ UNCHANGED <<total, sender, worker, unanswered, resps, done, stored>>

\* The rows replace the latest snapshot.
StorePositions ==
    /\ main = "ok" /\ Rows # <<>>
    /\ main' = "stored"
    /\ stored' = Rows
    /\ UNCHANGED <<total, sender, worker, unanswered, resps, done>>

\* The database refuses; without a row it always does, since the statement's
\* empty arrays have no type.
StoreFails ==
    /\ main = "ok" /\ total # 0
    /\ main' = "failed"
    /\ UNCHANGED <<total, sender, worker, unanswered, resps, done, stored>>

-----------------------------------------------------------------------------
WorkerStep(w) ==
    \/ \E missing \in SUBSET worker[w].holds : Answer(w, missing)
    \/ Fail(w) \/ WorkerStops(w)

Caller ==
    \/ \E w \in Worker : TakeErr(w) \/ \E r \in worker[w].holds : TakeResp(w, r)
    \/ NothingFound \/ StorePositions \/ StoreFails

Next ==
    \/ \E w \in Worker : Dispatch(w) \/ WorkerStep(w)
    \/ SenderStops \/ Caller

Spec == Init /\ [][Next]_vars

\* Every goroutine that can go on does; the node answers every request or the
\* request fails.
FairSpec ==
    /\ Spec
    /\ WF_vars(\E w \in Worker : Dispatch(w)) /\ WF_vars(SenderStops)
    /\ \A w \in Worker : WF_vars(WorkerStep(w))
    /\ WF_vars(Caller)

-----------------------------------------------------------------------------
(* Properties *)

\* When reqPositions returns its answers there is exactly one for every
\* position: no error of a worker and no gap in an answer is swallowed, and no
\* position is counted twice, however batches and answers interleave.
ResultsComplete ==
    main \notin {"collect", "err"} =>
        /\ Len(resps) = total
        /\ \A r \in 1 .. total : \E i \in 1 .. total : resps[i] = r
        /\ unanswered = {}
        /\ \A w \in Worker : worker[w] = Idle

\* The stored snapshot has every position with an amount, once, and no other.
StoredIsSnapshot ==
    main = "stored" =>
        \A r \in 1 .. total :
            LET at == {i \in DOMAIN stored : stored[i] = r}
            IN  IF Amounts[r] = <<0, 0>> THEN at = {} ELSE \E i \in at : at = {i}

\* reqPositions returns, with answers or an error, and main ends, unless the node
\* left a request of a batch unanswered: the first error reaches the caller, and
\* the caller waits on no channel for ever.  (A second worker that fails may wait
\* on chanErrs until main's exit ends it.)
MainReturns == <>(main \in {"err", "nothing", "stored", "failed"} \/ unanswered # {})

=============================================================================
