--------------------------- MODULE SnapshotProofs ----------------------------
(***************************************************************************)
(* The snapshot of the positions is complete: for any number of positions, *)
(* any length of a batch and any pool of workers, reqPositions returns     *)
(* without an error only with exactly one answer for every position, and   *)
(* main stores the positions with an amount, each once.                    *)
(***************************************************************************)
EXTENDS Snapshot, TLAPS, FiniteSetTheorems, SequenceTheorems, WellFoundedInduction

\* Before an error nothing is told to stop and no worker has left.
SnapshotTypes ==
    /\ total \in Nat /\ total <= MaxPositions
    /\ sender \in Nat \ {0}
    /\ worker \in [Worker -> [state : {"wait", "request", "reply", "error"},
                              holds : SUBSET Nat]]
    /\ unanswered \in SUBSET Nat
    /\ resps \in Seq(Nat)
    /\ done = FALSE

\* A request that the sender has handed to a worker.
Sent(r) == r \in 1 .. total /\ r < sender

OnlySent ==
    /\ \A r \in unanswered : Sent(r)
    /\ \A w \in Worker : \A r \in worker[w].holds : Sent(r)
    /\ \A i \in 1 .. Len(resps) : Sent(resps[i])

\* A request is held by one worker, left out of an answer or collected, and
\* collected once.
OnePlace ==
    /\ \A w \in Worker : \A r \in worker[w].holds :
           /\ \A v \in Worker : r \in worker[v].holds => v = w
           /\ r \notin unanswered
           /\ \A i \in 1 .. Len(resps) : resps[i] # r
    /\ \A i \in 1 .. Len(resps) : resps[i] \notin unanswered
    /\ \A i, j \in 1 .. Len(resps) : resps[i] = resps[j] => i = j

\* A worker with nothing left to hand over waits for a batch.
BusyWorkersHold ==
    \A w \in Worker : worker[w] = Idle \/ (worker[w].state # "wait" /\ worker[w].holds # {})

CollectedAll == main # "collect" => Len(resps) = total

\* After an error the answers are dropped, and so is what is known of them.
SnapshotInv ==
    main # "err" =>
        SnapshotTypes /\ OnlySent /\ OnePlace /\ BusyWorkersHold /\ CollectedAll

-----------------------------------------------------------------------------
\* As many different answers as requests are answers to all of them.
LEMMA AllAnswered ==
    ASSUME SnapshotTypes, OnlySent, OnePlace, Len(resps) = total, NEW r \in 1 .. total
    PROVE  \E i \in 1 .. total : resps[i] = r
<1>1. SUFFICES ASSUME \A i \in 1 .. total : resps[i] # r
               PROVE  FALSE
  OBVIOUS
<1> DEFINE S == 1 .. total
           T == S \ {r}
           f == [i \in S |-> resps[i]]
<1>2. f \in [S -> T]
  BY <1>1 DEF OnlySent, Sent
<1>3. IsFiniteSet(S) /\ Cardinality(S) = total
  BY FS_Interval DEF SnapshotTypes
<1>4. IsFiniteSet(T) /\ Cardinality(T) = total - 1
  BY <1>3, FS_RemoveElement
<1>5. Cardinality(T) < Cardinality(S)
  BY <1>3, <1>4 DEF SnapshotTypes
<1>6. \E i, j \in S : i # j /\ f[i] = f[j]
  <2> HIDE DEF f, S, T
  <2> QED BY <1>2, <1>3, <1>4, <1>5, FS_PigeonHole
<1> QED BY <1>6 DEF OnePlace

\* Then no request is with a worker or without an answer, and the sender is
\* at the end.
LEMMA NothingLeft ==
    ASSUME SnapshotTypes, OnlySent, OnePlace, BusyWorkersHold, Len(resps) = total
    PROVE  /\ unanswered = {}
           /\ \A w \in Worker : worker[w] = Idle
           /\ ~SenderOffers
<1>1. \A r \in 1 .. total : \E i \in 1 .. Len(resps) : resps[i] = r
  BY AllAnswered
<1>2. unanswered = {}
  BY <1>1 DEF OnlySent, Sent, OnePlace
<1>3. ASSUME NEW w \in Worker
      PROVE  worker[w] = Idle
  <2>1. worker[w].holds = {}
    BY <1>1 DEF OnlySent, Sent, OnePlace
  <2> QED BY <2>1 DEF BusyWorkersHold
<1>4. ~SenderOffers
  <2>1. SUFFICES ASSUME SenderOffers PROVE FALSE
    OBVIOUS
  <2>2. total \in 1 .. total
    BY <2>1 DEF SenderOffers, SnapshotTypes
  <2>3. PICK i \in 1 .. Len(resps) : resps[i] = total
    BY <1>1, <2>2
  <2> QED BY <2>1, <2>3 DEF OnlySent, Sent, SenderOffers, SnapshotTypes
<1> QED BY <1>2, <1>3, <1>4

\* The invariant is about answers in flight; without an error it gives the
\* property.
LEMMA InvComplete ==
    ASSUME SnapshotInv
    PROVE  ResultsComplete
<1> SUFFICES ASSUME main \notin {"collect", "err"}
             PROVE  /\ Len(resps) = total
                    /\ \A r \in 1 .. total : \E i \in 1 .. total : resps[i] = r
                    /\ unanswered = {}
                    /\ \A w \in Worker : worker[w] = Idle
  BY DEF ResultsComplete
<1>1. SnapshotTypes /\ OnlySent /\ OnePlace /\ BusyWorkersHold /\ Len(resps) = total
  BY DEF SnapshotInv, CollectedAll
<1> QED BY <1>1, AllAnswered, NothingLeft

-----------------------------------------------------------------------------
\* Nothing is sent yet; without a position there is nothing to wait for.
LEMMA SnapshotInit == Init => SnapshotInv
<1> SUFFICES ASSUME Init PROVE SnapshotInv
  OBVIOUS
<1> USE SnapshotAssumption DEF Init
<1>1. SnapshotTypes
  BY DEF SnapshotTypes, Idle
<1>2. OnlySent /\ OnePlace /\ BusyWorkersHold
  BY DEF OnlySent, Sent, OnePlace, BusyWorkersHold, Idle
<1>3. CollectedAll
  BY DEF CollectedAll
<1> QED BY <1>1, <1>2, <1>3 DEF SnapshotInv

\* The next batch is of requests that are nowhere yet.
LEMMA DispatchKeeps ==
    ASSUME SnapshotInv, main # "err", NEW w \in Worker, Dispatch(w)
    PROVE  SnapshotInv'
<1> USE SnapshotAssumption DEF SnapshotInv, Dispatch
<1> DEFINE b == batch(sender)
<1>1. /\ b \subseteq 1 .. total /\ b # {}
      /\ \A r \in b : sender <= r /\ r < sender + BatchLimit
  <2>1. sender \in b
    BY DEF batch, SenderOffers, SnapshotTypes
  <2> QED BY <2>1 DEF batch, SnapshotTypes
<1>2. \A v \in Worker : worker'[v] = IF v = w THEN [state |-> "request", holds |-> b] ELSE worker[v]
  BY DEF SnapshotTypes
<1> HIDE DEF b
<1>3. SnapshotTypes'
  BY <1>1 DEF SnapshotTypes, b
<1>4. OnlySent'
  <2>1. \A r \in Nat : Sent(r) => Sent(r)'
    BY DEF Sent, SnapshotTypes
  <2>2. ASSUME NEW v \in Worker, NEW r \in worker'[v].holds PROVE Sent(r)'
    <3>1. CASE v = w
      <4>1. r \in b
        BY <3>1, <1>2
      <4> QED BY <4>1, <1>1 DEF Sent, SnapshotTypes
    <3>2. CASE v # w
      BY <3>2, <1>2, <2>1 DEF OnlySent, SnapshotTypes
    <3> QED BY <3>1, <3>2
  <2> QED BY <2>1, <2>2 DEF OnlySent, SnapshotTypes
<1>5. OnePlace'
  BY <1>1, <1>2 DEF OnePlace, OnlySent, Sent, SnapshotTypes
<1>6. BusyWorkersHold'
  BY <1>1, <1>2 DEF BusyWorkersHold, Idle
<1>7. CollectedAll'
  BY DEF CollectedAll
<1> QED BY <1>3, <1>4, <1>5, <1>6, <1>7

\* What the node leaves out moves from the worker to the unanswered.
LEMMA AnswerKeeps ==
    ASSUME SnapshotInv, main # "err", NEW w \in Worker,
           NEW missing \in SUBSET worker[w].holds, Answer(w, missing)
    PROVE  SnapshotInv'
<1> USE DEF SnapshotInv, Answer
<1> DEFINE h == worker[w].holds \ missing
<1>1. \A v \in Worker :
          worker'[v] = IF v # w THEN worker[v]
                       ELSE IF missing = worker[w].holds THEN Idle
                       ELSE [state |-> "reply", holds |-> h]
  BY DEF SnapshotTypes
<1>2. /\ worker'[w].holds = h
      /\ worker'[w] = Idle \/ (worker'[w].state # "wait" /\ worker'[w].holds # {})
  BY <1>1 DEF Idle
<1>3. SnapshotTypes'
  BY <1>1 DEF SnapshotTypes, Idle
<1>4. OnlySent'
  BY <1>1, <1>2 DEF OnlySent, Sent
<1>5. OnePlace'
  BY <1>1, <1>2 DEF OnePlace
<1>6. BusyWorkersHold'
  BY <1>1, <1>2 DEF BusyWorkersHold
<1>7. CollectedAll'
  BY DEF CollectedAll
<1> QED BY <1>3, <1>4, <1>5, <1>6, <1>7

\* A worker that fails keeps what it holds.
LEMMA FailKeeps ==
    ASSUME SnapshotInv, main # "err", NEW w \in Worker, Fail(w)
    PROVE  SnapshotInv'
<1> USE DEF SnapshotInv, Fail, on_failure
<1>1. \A v \in Worker : worker'[v].holds = worker[v].holds
  BY DEF SnapshotTypes
<1>2. \A v \in Worker : v # w => worker'[v] = worker[v]
  BY DEF SnapshotTypes
<1>3. worker'[w].state = "error" /\ worker'[w].holds # {}
  BY DEF SnapshotTypes, BusyWorkersHold, Idle
<1>4. SnapshotTypes'
  BY DEF SnapshotTypes
<1>5. OnlySent' /\ OnePlace'
  BY <1>1 DEF OnlySent, Sent, OnePlace
<1>6. BusyWorkersHold'
  BY <1>2, <1>3 DEF BusyWorkersHold
<1>7. CollectedAll'
  BY DEF CollectedAll
<1> QED BY <1>4, <1>5, <1>6, <1>7

\* An answer moves from its worker to the caller.
LEMMA TakeRespKeeps ==
    ASSUME SnapshotInv, main # "err", NEW w \in Worker,
           NEW r \in worker[w].holds, TakeResp(w, r)
    PROVE  SnapshotInv'
<1> USE DEF SnapshotInv, TakeResp
<1>1. /\ \A v \in Worker : v # w => worker'[v] = worker[v]
      /\ worker'[w].holds = worker[w].holds \ {r}
      /\ worker'[w] = Idle \/ (worker'[w].state # "wait" /\ worker'[w].holds # {})
  BY DEF SnapshotTypes, Idle
<1>2. r \in Nat /\ Sent(r)
  BY DEF SnapshotTypes, OnlySent
<1>3. /\ Len(resps) \in Nat
      /\ resps' \in Seq(Nat) /\ Len(resps') = Len(resps) + 1
      /\ \A i \in 1 .. Len(resps) : resps'[i] = resps[i]
      /\ resps'[Len(resps) + 1] = r
  BY <1>2, AppendProperties, LenProperties DEF SnapshotTypes
<1>4. SnapshotTypes'
  BY <1>2, <1>3 DEF SnapshotTypes, Idle
<1>5. \A i \in 1 .. Len(resps') : i \in 1 .. Len(resps) \/ i = Len(resps) + 1
  BY <1>3
<1>6. OnlySent'
  BY <1>1, <1>2, <1>3, <1>5 DEF OnlySent, Sent
<1>7. OnePlace'
  <2>1. ASSUME NEW v \in Worker, NEW q \in worker'[v].holds
        PROVE  /\ q \in worker[v].holds /\ q # r
               /\ \A u \in Worker : q \in worker'[u].holds => u = v
               /\ q \notin unanswered
               /\ \A i \in 1 .. Len(resps') : resps'[i] # q
    BY <1>1, <1>3, <1>5 DEF OnePlace
  <2>2. ASSUME NEW i \in 1 .. Len(resps')
        PROVE  resps'[i] \notin unanswered
    BY <1>3, <1>5 DEF OnePlace
  <2>3. ASSUME NEW i \in 1 .. Len(resps'), NEW j \in 1 .. Len(resps'), resps'[i] = resps'[j]
        PROVE  i = j
    BY <1>3, <1>5, <2>3 DEF OnePlace
  <2> QED BY <2>1, <2>2, <2>3 DEF OnePlace
<1>8. BusyWorkersHold'
  BY <1>1 DEF BusyWorkersHold
<1>9. CollectedAll'
  BY <1>3 DEF CollectedAll
<1> QED BY <1>4, <1>6, <1>7, <1>8, <1>9

\* Steps that leave the requests alone keep the invariant.
LEMMA SnapshotFrame ==
    ASSUME SnapshotInv, main # "err", main # "collect" \/ main' = main,
           UNCHANGED <<total, sender, worker, unanswered, resps, done>>
    PROVE  SnapshotInv'
BY DEF SnapshotInv, SnapshotTypes, OnlySent, Sent, OnePlace, BusyWorkersHold, CollectedAll

\* One step per action; an error ends what the invariant speaks of.
LEMMA SnapshotNext == SnapshotInv /\ [Next]_vars => SnapshotInv'
<1> SUFFICES ASSUME SnapshotInv, [Next]_vars PROVE SnapshotInv'
  OBVIOUS
<1>1. CASE main = "err"
  <2>1. main' = "err"
    BY <1>1 DEF Next, vars, Dispatch, WorkerStep, Answer, Fail, WorkerStops, SenderStops,
                Caller, TakeErr, TakeResp, NothingFound, StorePositions, StoreFails
  <2> QED BY <2>1 DEF SnapshotInv
<1>2. CASE main # "err"
  <2> USE <1>2
  <2>1. done = FALSE
    BY DEF SnapshotInv, SnapshotTypes
  <2>2. ASSUME NEW w \in Worker, Dispatch(w) PROVE SnapshotInv'
    BY <2>2, DispatchKeeps
  <2>3. ASSUME NEW w \in Worker, WorkerStep(w) PROVE SnapshotInv'
    BY <2>1, <2>3, AnswerKeeps, FailKeeps DEF WorkerStep, WorkerStops
  <2>4. CASE SenderStops
    BY <2>1, <2>4 DEF SenderStops
  <2>5. CASE Caller
    <3>1. ASSUME NEW w \in Worker, TakeErr(w) PROVE SnapshotInv'
      BY <3>1 DEF TakeErr, SnapshotInv
    <3>2. ASSUME NEW w \in Worker, NEW r \in worker[w].holds, TakeResp(w, r) PROVE SnapshotInv'
      BY <3>2, TakeRespKeeps
    <3>3. CASE NothingFound
      BY <3>3, SnapshotFrame DEF NothingFound
    <3>4. CASE StorePositions
      BY <3>4, SnapshotFrame DEF StorePositions
    <3>5. CASE StoreFails
      BY <3>5, SnapshotFrame DEF StoreFails
    <3> QED BY <2>5, <3>1, <3>2, <3>3, <3>4, <3>5 DEF Caller
  <2>6. CASE UNCHANGED vars
    BY <2>6, SnapshotFrame DEF vars
  <2> QED BY <2>2, <2>3, <2>4, <2>5, <2>6 DEF Next
<1> QED BY <1>1, <1>2

\* When reqPositions returns without an error it has exactly one answer for
\* every position, nothing was left out and no worker is busy, however the
\* sender, the workers and the caller interleave on their channels.
THEOREM AnswersAreComplete == Spec => []ResultsComplete
<1>1. SnapshotInv => ResultsComplete
  BY InvComplete
<1> QED BY SnapshotInit, SnapshotNext, <1>1, PTL DEF Spec

-----------------------------------------------------------------------------
(* The rows.  They are computed one answer at a time; what holds of the rows *)
(* after n answers is shown by looking at the first n at which it fails.   *)

\* A set of natural numbers has a least one.
LEMMA LeastOf ==
    ASSUME NEW T, T \subseteq Nat, T # {}
    PROVE  \E n \in T : \A m \in T : n <= m
<1> DEFINE R == {ss \in Nat \X Nat : ss[1] < ss[2]}
<1>1. IsWellFoundedOn(R, Nat)
  BY NatLessThanWellFounded DEF OpToRel
<1>2. PICK n \in T : \A m \in T : ~(<<m, n>> \in R)
  <2> HIDE DEF R
  <2> QED BY <1>1, WFMin
<1>3. ASSUME NEW m \in T PROVE n <= m
  <2>1. m \in Nat /\ n \in Nat /\ ~(<<m, n>> \in R)
    BY <1>2
  <2>2. m < n => <<m, n>> \in R
    BY <2>1
  <2> HIDE DEF R
  <2> QED BY <2>1, <2>2
<1> QED BY <1>3

\* What the loop does with the nth answer, and the rows as a function up to n.
AddRow(rows, n) == IF has_amounts(resps[n]) THEN Append(rows, resps[n]) ELSE rows
RowsTo(f, n) == f = [m \in 0 .. n |-> IF m = 0 THEN <<>> ELSE AddRow(f[m - 1], m)]

\* The loop over the answers defines a function: one for n - 1 answers is
\* extended by the nth.
LEMMA RowsExist == \A n \in Nat : \E f : RowsTo(f, n)
<1> DEFINE Bad == {m \in Nat : ~\E f : RowsTo(f, m)}
<1> SUFFICES ASSUME Bad # {} PROVE FALSE
  OBVIOUS
<1>1. PICK m \in Bad : \A k \in Bad : m <= k
  <2>1. Bad \subseteq Nat
    OBVIOUS
  <2> HIDE DEF Bad
  <2> QED BY <2>1, LeastOf
<1>2. CASE m = 0
  <2> DEFINE f == [k \in 0 .. 0 |-> <<>>]
  <2>1. RowsTo(f, 0)
    BY DEF RowsTo
  <2> QED BY <1>2, <2>1
<1>3. CASE m # 0
  <2>1. PICK g : RowsTo(g, m - 1)
    BY <1>1, <1>3
  <2>2. /\ DOMAIN g = 0 .. m - 1
        /\ \A k \in 0 .. m - 1 : g[k] = IF k = 0 THEN <<>> ELSE AddRow(g[k - 1], k)
    BY <2>1 DEF RowsTo
  <2> DEFINE last == AddRow(g[m - 1], m)
             f == [k \in 0 .. m |-> IF k = m THEN last ELSE g[k]]
  <2> HIDE DEF last
  <2>3. f[m] = last /\ \A k \in 0 .. m : k # m => f[k] = g[k]
    OBVIOUS
  <2>4. \A k \in 0 .. m : k # 0 => f[k - 1] = g[k - 1]
    OBVIOUS
  <2>5. \A k \in 0 .. m : f[k] = IF k = 0 THEN <<>> ELSE AddRow(f[k - 1], k)
    <3> TAKE k \in 0 .. m
    <3>1. CASE k = m
      BY <1>3, <2>3, <2>4, <3>1 DEF last
    <3>2. CASE k # m
      <4>1. k \in 0 .. m - 1
        BY <3>2
      <4> QED BY <2>2, <2>3, <2>4, <3>2, <4>1
    <3> QED BY <3>1, <3>2
  <2>6. RowsTo(f, m)
    <3>1. f = [k \in 0 .. m |-> f[k]]
      OBVIOUS
    <3> HIDE DEF f
    <3> QED BY <2>5, <3>1 DEF RowsTo
  <2> QED BY <2>6
<1> QED BY <1>2, <1>3

\* So the rows satisfy the equation that defines them.
LEMMA RowEquation ==
    ASSUME resps \in Seq(Nat), NEW n \in 0 .. Len(resps)
    PROVE  row[n] = IF n = 0 THEN <<>> ELSE AddRow(row[n - 1], n)
<1>1. Len(resps) \in Nat
  BY LenProperties
<1>2. row = CHOOSE f : RowsTo(f, Len(resps))
  BY DEF row, RowsTo, AddRow
<1>3. RowsTo(row, Len(resps))
  BY <1>1, <1>2, RowsExist, Zenon
<1> QED BY <1>3 DEF RowsTo

\* The answers whose position has an amount.
Kept == {i \in 1 .. Len(resps) : has_amounts(resps[i])}

\* The rows after n answers: one for each of them that is kept, and no other.
RowsOf(rows, n) ==
    /\ rows \in Seq(Nat)
    /\ \A j \in 1 .. Len(rows) : \E i \in 1 .. n : i \in Kept /\ rows[j] = resps[i]
    /\ \A i \in 1 .. n : i \in Kept => \E j \in 1 .. Len(rows) : rows[j] = resps[i]
    /\ \A j, k \in 1 .. Len(rows) : rows[j] = rows[k] => j = k

\* One pass of the loop keeps that, since no answer comes twice.
LEMMA AddRowKeeps ==
    ASSUME resps \in Seq(Nat), OnePlace, NEW n \in 1 .. Len(resps),
           NEW rows, RowsOf(rows, n - 1)
    PROVE  RowsOf(AddRow(rows, n), n)
<1>0. Len(resps) \in Nat /\ resps[n] \in Nat /\ rows \in Seq(Nat) /\ Len(rows) \in Nat
  BY LenProperties, ElementOfSeq DEF RowsOf
<1>1. CASE n \in Kept
  <2> DEFINE new == Append(rows, resps[n])
  <2>1. AddRow(rows, n) = new
    BY <1>1 DEF AddRow, Kept
  <2>2. /\ new \in Seq(Nat) /\ Len(new) = Len(rows) + 1
        /\ \A j \in 1 .. Len(rows) : new[j] = rows[j]
        /\ new[Len(rows) + 1] = resps[n]
    BY <1>0, AppendProperties
  <2> HIDE DEF new
  <2>3. \A j \in 1 .. Len(new) : j \in 1 .. Len(rows) \/ j = Len(rows) + 1
    BY <1>0, <2>2
  <2>4. \A j \in 1 .. Len(rows) : rows[j] # resps[n]
    <3> SUFFICES ASSUME NEW j \in 1 .. Len(rows), rows[j] = resps[n] PROVE FALSE
      OBVIOUS
    <3>1. PICK i \in 1 .. n - 1 : rows[j] = resps[i]
      BY DEF RowsOf
    <3>2. i \in 1 .. Len(resps) /\ i # n /\ resps[i] = resps[n]
      BY <1>0, <3>1
    <3> QED BY <3>2 DEF OnePlace
  <2>5. \A j \in 1 .. Len(new) : \E i \in 1 .. n : i \in Kept /\ new[j] = resps[i]
    <3> TAKE j \in 1 .. Len(new)
    <3>1. CASE j = Len(rows) + 1
      BY <1>1, <2>2, <3>1
    <3>2. CASE j \in 1 .. Len(rows)
      <4>1. PICK i \in 1 .. n - 1 : i \in Kept /\ rows[j] = resps[i]
        BY <3>2 DEF RowsOf
      <4> QED BY <2>2, <3>2, <4>1
    <3> QED BY <2>3, <3>1, <3>2
  <2>6. \A i \in 1 .. n : i \in Kept => \E j \in 1 .. Len(new) : new[j] = resps[i]
    <3> SUFFICES ASSUME NEW i \in 1 .. n, i \in Kept
                 PROVE  \E j \in 1 .. Len(new) : new[j] = resps[i]
      OBVIOUS
    <3>1. CASE i = n
      <4>1. Len(rows) + 1 \in 1 .. Len(new)
        BY <1>0, <2>2
      <4> QED BY <2>2, <3>1, <4>1
    <3>2. CASE i # n
      <4>1. i \in 1 .. n - 1
        BY <3>2
      <4>2. PICK j \in 1 .. Len(rows) : rows[j] = resps[i]
        BY <4>1 DEF RowsOf
      <4> QED BY <1>0, <2>2, <4>2
    <3> QED BY <3>1, <3>2
  <2>7. \A j, k \in 1 .. Len(new) : new[j] = new[k] => j = k
    <3> SUFFICES ASSUME NEW j \in 1 .. Len(new), NEW k \in 1 .. Len(new), new[j] = new[k]
                 PROVE  j = k
      OBVIOUS
    <3> QED BY <2>2, <2>3, <2>4 DEF RowsOf
  <2> QED BY <2>1, <2>2, <2>5, <2>6, <2>7 DEF RowsOf
<1>2. CASE n \notin Kept
  <2>1. AddRow(rows, n) = rows
    BY <1>2 DEF AddRow, Kept
  <2>2. \A i \in 1 .. n : i \in Kept => i \in 1 .. n - 1
    BY <1>2
  <2>3. \A i \in 1 .. n - 1 : i \in 1 .. n
    OBVIOUS
  <2> QED BY <2>1, <2>2, <2>3 DEF RowsOf
<1> QED BY <1>1, <1>2

\* The rows to store are one for each answer that is kept.
LEMMA RowsAreKept ==
    ASSUME resps \in Seq(Nat), OnePlace
    PROVE  RowsOf(Rows, Len(resps))
<1>0. Len(resps) \in Nat
  BY LenProperties
<1> DEFINE Bad == {n \in 0 .. Len(resps) : ~RowsOf(row[n], n)}
<1>1. Bad = {}
  <2> SUFFICES ASSUME Bad # {} PROVE FALSE
    OBVIOUS
  <2>1. PICK n \in Bad : \A m \in Bad : n <= m
    <3>1. Bad \subseteq Nat
      BY <1>0
    <3> HIDE DEF Bad
    <3> QED BY <3>1, LeastOf
  <2>2. CASE n = 0
    <3>1. row[0] = <<>>
      BY <1>0, RowEquation
    <3>2. RowsOf(<<>>, 0)
      BY DEF RowsOf
    <3> QED BY <2>2, <3>1, <3>2
  <2>3. CASE n # 0
    <3>1. n \in 1 .. Len(resps) /\ n - 1 \in 0 .. Len(resps) /\ n - 1 \notin Bad
      BY <1>0, <2>1, <2>3
    <3>2. RowsOf(row[n - 1], n - 1)
      BY <3>1
    <3>3. row[n] = AddRow(row[n - 1], n)
      BY <2>3, RowEquation
    <3>4. RowsOf(AddRow(row[n - 1], n), n)
      BY <3>1, <3>2, AddRowKeeps
    <3> QED BY <3>3, <3>4
  <2> QED BY <2>2, <2>3
<1> QED BY <1>0, <1>1 DEF Rows

\* What storePositions stores when the answers are complete.
LEMMA RowsAreSnapshot ==
    ASSUME SnapshotInv, main = "ok", NEW r \in 1 .. total
    PROVE  LET at == {j \in DOMAIN Rows : Rows[j] = r}
           IN  IF Amounts[r] = <<0, 0>> THEN at = {} ELSE \E j \in at : at = {j}
<1> DEFINE at == {j \in DOMAIN Rows : Rows[j] = r}
<1>1. SnapshotTypes /\ OnlySent /\ OnePlace /\ Len(resps) = total
  BY DEF SnapshotInv, CollectedAll
<1>2. RowsOf(Rows, total)
  BY <1>1, RowsAreKept DEF SnapshotTypes
<1>3. DOMAIN Rows = 1 .. Len(Rows)
  BY <1>2, LenProperties DEF RowsOf
<1>4. Amounts[r] \in Nat \X Nat
  BY <1>1, SnapshotAssumption DEF SnapshotTypes, Req
<1>5. has_amounts(r) <=> Amounts[r] # <<0, 0>>
  BY <1>4 DEF has_amounts
<1>6. CASE Amounts[r] = <<0, 0>>
  <2> SUFFICES ASSUME NEW j \in 1 .. Len(Rows), Rows[j] = r PROVE FALSE
    BY <1>3, <1>6
  <2>1. PICK i \in 1 .. total : i \in Kept /\ Rows[j] = resps[i]
    BY <1>2 DEF RowsOf
  <2> QED BY <1>5, <1>6, <2>1 DEF Kept
<1>7. CASE Amounts[r] # <<0, 0>>
  <2>1. PICK i \in 1 .. total : resps[i] = r
    BY <1>1, AllAnswered
  <2>2. i \in Kept
    BY <1>1, <1>5, <1>7, <2>1 DEF Kept
  <2>3. PICK j \in 1 .. Len(Rows) : Rows[j] = r
    BY <1>2, <2>1, <2>2 DEF RowsOf
  <2>4. \A k \in 1 .. Len(Rows) : Rows[k] = r => k = j
    BY <1>2, <2>3 DEF RowsOf
  <2>5. j \in at /\ at = {j}
    BY <1>3, <2>3, <2>4
  <2> QED BY <1>7, <2>5
<1> QED BY <1>6, <1>7

\* Only storePositions writes the snapshot, and it ends the pass.
LEMMA StoredNext == SnapshotInv /\ StoredIsSnapshot /\ [Next]_vars => StoredIsSnapshot'
<1> SUFFICES ASSUME SnapshotInv, StoredIsSnapshot, [Next]_vars PROVE StoredIsSnapshot'
  OBVIOUS
<1>1. CASE StorePositions
  <2>1. main = "ok" /\ stored' = Rows /\ total' = total
    BY <1>1 DEF StorePositions
  <2> QED BY <2>1, RowsAreSnapshot DEF StoredIsSnapshot
<1>2. CASE ~StorePositions
  <2>1. main' = "stored" => main = "stored" /\ total' = total /\ stored' = stored
    BY <1>2 DEF Next, vars, Dispatch, WorkerStep, Answer, Fail, WorkerStops, SenderStops,
                Caller, TakeErr, TakeResp, NothingFound, StoreFails
  <2> QED BY <2>1 DEF StoredIsSnapshot
<1> QED BY <1>1, <1>2

\* The snapshot in the database has every position with an amount once and no
\* other, whatever order the answers came in.
THEOREM SnapshotIsComplete == Spec => []StoredIsSnapshot
<1>1. Init => StoredIsSnapshot
  BY DEF Init, StoredIsSnapshot
<1> QED BY SnapshotInit, SnapshotNext, StoredNext, <1>1, PTL DEF Spec

=============================================================================
