--------------------------- MODULE PositionsProofs ---------------------------
(***************************************************************************)
(* Proofs about Positions for every number of positions, wallets and       *)
(* pools, every page size and every resolution of the clock.               *)
(***************************************************************************)
EXTENDS Positions, TLAPS, FiniteSetTheorems, FunctionTheorems, WellFoundedInduction

-----------------------------------------------------------------------------
(* Arithmetic and counting *)

\* A non-empty set of naturals has a least element.
LEMMA LeastTime ==
    ASSUME NEW S \in SUBSET Nat, S # {}
    PROVE  Min(S) \in S /\ \A y \in S : Min(S) <= y
<1> DEFINE R == OpToRel(<, Nat)
<1>1. IsWellFoundedOn(R, Nat)
  BY NatLessThanWellFounded
<1>2. \E x \in S : \A y \in S : ~(<<y, x>> \in R)
  <2> HIDE DEF R
  <2> QED  BY <1>1, WFMin
<1>3. \A x, y \in Nat : <<y, x>> \in R <=> y < x
  BY DEF OpToRel
<1>4. \E x \in S : \A y \in S : x <= y
  <2>1. PICK x \in S : \A y \in S : ~(<<y, x>> \in R)
    BY <1>2
  <2>2. ASSUME NEW y \in S PROVE x <= y
    <3>1. ~(<<y, x>> \in R) /\ x \in Nat /\ y \in Nat
      BY <2>1, Zenon
    <3> HIDE DEF R
    <3>2. ~(y < x)
      BY <1>3, <3>1
    <3> QED  BY <3>1, <3>2
  <2> QED  BY <2>2
<1> QED  BY <1>4 DEF Min

\* Whole seconds: a later time is never in an earlier second, and the Unix
\* time is at least that of the start.
LEMMA UnixOrder ==
    ASSUME NEW s \in Nat, NEW t \in Nat
    PROVE  /\ Unix(s) \in Nat /\ Epoch <= Unix(s)
           /\ s <= t => Unix(s) <= Unix(t)
<1> DEFINE n == PerSecond
           q == s \div n
           r == t \div n
<1>1. n \in Nat \ {0} /\ Epoch \in Nat
  BY PositionsAssumption
<1>2. q \in Nat /\ r \in Nat /\ s % n \in 0..n - 1 /\ t % n \in 0..n - 1
      /\ s = n * q + (s % n) /\ t = n * r + (t % n)
  BY <1>1
<1>3. ASSUME s <= t PROVE q <= r
  <2> HIDE DEF q, r, n
  <2> SUFFICES ASSUME r + 1 <= q PROVE FALSE
    BY <1>2
  <2>1. PICK k \in Nat : q = r + 1 + k
    <3>1. q - (r + 1) \in Nat
      BY <1>2
    <3> QED  BY <1>2, <3>1
  <2>2. n * q = n * r + n + n * k /\ n * k \in Nat /\ n * r \in Nat
    BY <1>1, <1>2, <2>1
  <2> QED  BY <1>1, <1>2, <1>3, <2>2
<1>4. Unix(s) = Epoch + q /\ Unix(t) = Epoch + r
  BY DEF Unix
<1> HIDE DEF q, r
<1> QED  BY <1>1, <1>2, <1>3, <1>4

\* The positions are numbered without gaps.
Numbered(S, k) ==
    /\ \A m \in S : m.pos_id \in 1..k
    /\ \A m, n \in S : m.pos_id = n.pos_id => m = n
    /\ \A i \in 1..k : \E m \in S : m.pos_id = i

\* The number of the last of them is how many there are.
LEMMA CountNumbered ==
    ASSUME NEW S, NEW k \in Nat, Numbered(S, k)
    PROVE  IsFiniteSet(S) /\ Cardinality(S) = k
<1> DEFINE f == [i \in 1..k |-> CHOOSE m \in S : m.pos_id = i]
<1>1. \A i \in 1..k : f[i] \in S /\ f[i].pos_id = i
  BY DEF Numbered
<1>2. f \in [1..k -> S]
  BY <1>1
<1>3. \A m \in S : m.pos_id \in 1..k /\ f[m.pos_id] = m
  <2> SUFFICES ASSUME NEW m \in S PROVE m.pos_id \in 1..k /\ f[m.pos_id] = m
    OBVIOUS
  <2>1. m.pos_id \in 1..k
    BY DEF Numbered
  <2>2. f[m.pos_id] \in S /\ f[m.pos_id].pos_id = m.pos_id
    BY <1>1, <2>1
  <2> HIDE DEF f
  <2> QED  BY <2>1, <2>2 DEF Numbered
<1> HIDE DEF f
<1>4. f \in Bijection(1..k, S)
  BY <1>1, <1>2, <1>3, Fun_IsBij
<1>5. IsFiniteSet(1..k) /\ Cardinality(1..k) = k
  BY FS_Interval
<1> QED  BY <1>4, <1>5, FS_Bijection DEF ExistsBijection

\* A page is empty only if there is nothing to show.
LEMMA PageOfSome ==
    ASSUME NEW rows, IsFiniteSet(rows), NEW n \in Nat \ {0}, NEW P \in Pages(rows, n)
    PROVE  /\ P \subseteq rows
           /\ \A r \in P, q \in rows \ P : r.created_by >= q.created_by
           /\ P = {} => rows = {}
<1>1. P \subseteq rows /\ Cardinality(P) = Min({n, Cardinality(rows)})
      /\ \A r \in P, q \in rows \ P : r.created_by >= q.created_by
  BY DEF Pages
<1>2. Cardinality(rows) \in Nat
  BY FS_CardinalityType
<1>3. Min({n, Cardinality(rows)}) \in {n, Cardinality(rows)}
  <2>1. {n, Cardinality(rows)} \in SUBSET Nat /\ {n, Cardinality(rows)} # {}
    BY <1>2
  <2> QED  BY <2>1, LeastTime
<1>4. P = {} => Cardinality(rows) = 0
  BY <1>1, <1>2, <1>3, FS_EmptySet
<1> QED  BY <1>1, <1>4, FS_EmptySet

\* Clients get at least one row per page.
LEMMA LimitType ==
    ASSUME NEW first \in Firsts
    PROVE  limit(first) \in Nat \ {0}
BY PositionsAssumption DEF limit

-----------------------------------------------------------------------------
(* The events.  The mint of a position is unique and transfers are numbered  *)
(* in the order of their arrival, so that the last one is well defined.      *)

EventsInv ==
    /\ now \in Nat
    /\ Cardinality(minted) \in 0..MaxPositions /\ Numbered(minted, Cardinality(minted))
    /\ \A m \in minted : m.created_by \in Nat
    /\ IsFiniteSet(transfers) /\ \A t \in transfers : t.n \in 1..Cardinality(transfers)

\* A window's mints continue the numbering.
LEMMA MintsNumbered ==
    ASSUME EventsInv, NEW n \in 1..MaxPositions, NEW pool \in Pool,
           NEW owner \in [NextId..NextId + n - 1 -> Wallet], IngestMints(n, owner, pool)
    PROVE  /\ EventsInv' /\ Cardinality(minted') = Cardinality(minted) + n
           /\ \A m \in minted' : m \in minted \/ m.pos_id > Cardinality(minted)
<1> DEFINE k == Cardinality(minted)
           new(i) == [pos_id |-> i, owner |-> owner[i], pool |-> pool, created_by |-> now]
           added == {new(i) : i \in k + 1..k + n}
<1>1. k \in Nat /\ n \in Nat /\ now \in Nat /\ MaxPositions \in Nat /\ Numbered(minted, k)
  BY PositionsAssumption DEF EventsInv
<1>2. k + n <= MaxPositions
  BY <1>1 DEF IngestMints, NextId
<1>3. NextId..NextId + n - 1 = k + 1..k + n
  BY <1>1 DEF NextId
<1>4. minted' = minted \cup added
  BY <1>3 DEF IngestMints
<1> HIDE DEF k
<1>5. /\ \A m \in added : m.pos_id \in k + 1..k + n /\ m = new(m.pos_id) /\ m.created_by = now
      /\ \A i \in k + 1..k + n : new(i) \in added /\ new(i).pos_id = i
  OBVIOUS
<1> HIDE DEF added, new
<1>6. \A m \in minted : m.pos_id \in 1..k
  BY <1>1 DEF Numbered
<1>7. Numbered(minted', k + n)
  <2>1. \A m \in minted' : m.pos_id \in 1..k + n
    BY <1>1, <1>4, <1>5, <1>6
  <2>2. ASSUME NEW m \in minted', NEW o \in minted', m.pos_id = o.pos_id PROVE m = o
    <3>1. CASE m \in minted /\ o \in minted
      BY <1>1, <2>2, <3>1 DEF Numbered
    <3>2. CASE m \in added /\ o \in added
      BY <1>5, <2>2, <3>2
    <3>3. CASE (m \in minted /\ o \in added) \/ (m \in added /\ o \in minted)
      BY <1>1, <1>5, <1>6, <2>2, <3>3
    <3> QED  BY <1>4, <3>1, <3>2, <3>3
  <2>3. ASSUME NEW i \in 1..k + n PROVE \E m \in minted' : m.pos_id = i
    <3>1. CASE i <= k
      <4>1. i \in 1..k
        BY <1>1, <3>1
      <4> QED  BY <1>1, <1>4, <4>1 DEF Numbered
    <3>2. CASE ~(i <= k)
      <4>1. i \in k + 1..k + n
        BY <1>1, <3>2
      <4> QED  BY <1>4, <1>5, <4>1
    <3> QED  BY <3>1, <3>2
  <2> QED  BY <2>1, <2>2, <2>3 DEF Numbered
<1>8. Cardinality(minted') = k + n
  BY <1>1, <1>7, CountNumbered
<1>9. \A m \in minted' : m.created_by \in Nat
  BY <1>1, <1>4, <1>5 DEF EventsInv
<1>10. \A m \in minted' : m \in minted \/ m.pos_id > k
  BY <1>1, <1>4, <1>5
<1>11. EventsInv'
  <2>1. now' = now /\ transfers' = transfers
    BY DEF IngestMints
  <2>2. Cardinality(minted') \in 0..MaxPositions
    BY <1>1, <1>2, <1>8
  <2> QED  BY <1>1, <1>7, <1>8, <1>9, <2>1, <2>2 DEF EventsInv
<1> QED  BY <1>8, <1>10, <1>11 DEF k

\* Steps that leave the mints alone keep the invariant of the events.
LEMMA EventsNext == EventsInv /\ [Next]_vars => EventsInv'
<1> SUFFICES ASSUME EventsInv, [Next]_vars PROVE EventsInv'
  OBVIOUS
<1>1. ASSUME NEW p \in Id, NEW to \in Wallet, IngestTransfer(p, to) PROVE EventsInv'
  <2> DEFINE k == Cardinality(transfers)
             t == [n |-> k + 1, pos_id |-> p, to |-> to]
  <2>1. IsFiniteSet(transfers) /\ k \in Nat /\ \A u \in transfers : u.n \in 1..k
    BY FS_CardinalityType DEF EventsInv
  <2>2. transfers' = transfers \cup {t} /\ now' = now /\ minted' = minted
    BY <1>1 DEF IngestTransfer
  <2>3. t.n = k + 1
    OBVIOUS
  <2> HIDE DEF k, t
  <2>4. t \notin transfers
    BY <2>1, <2>3
  <2>5. IsFiniteSet(transfers') /\ Cardinality(transfers') = k + 1
    BY <2>1, <2>2, <2>4, FS_AddElement DEF k
  <2>6. \A u \in transfers' : u.n \in 1..k + 1
    BY <2>1, <2>2, <2>3
  <2> QED  BY <2>2, <2>5, <2>6 DEF EventsInv
<1>2. ASSUME UNCHANGED <<minted, transfers>>, now' \in {now, now + 1} PROVE EventsInv'
  <2>1. now' \in Nat
    BY <1>2 DEF EventsInv
  <2> QED  BY <1>2, <2>1 DEF EventsInv
<1>3. ASSUME NEW p \in Id, IngestBurn(p) PROVE EventsInv'
  BY <1>2, <1>3 DEF IngestBurn
<1>4. CASE Ingest
  BY <1>1, <1>3, <1>4, MintsNumbered DEF Ingest
<1>5. CASE Tick
  BY <1>2, <1>5 DEF Tick, events
<1>6. CASE SnapshotActivePositions
  BY <1>2, <1>6 DEF SnapshotActivePositions, events
<1>7. CASE FirstPage
  BY <1>2, <1>7 DEF FirstPage, PoolPositions, GetPoolPositions, WalletPositions, GetPositions,
                    Begin, events
<1>8. CASE Client
  BY <1>2, <1>8 DEF Client, NextPage, events
<1>9. CASE UNCHANGED vars
  BY <1>2, <1>9 DEF vars, events
<1> QED  BY <1>4, <1>5, <1>6, <1>7, <1>8, <1>9 DEF Next

\* The invariant of the events holds in every state.
LEMMA EventsInvariant == Spec => []EventsInv
<1>1. Init => EventsInv
  <2> SUFFICES ASSUME Init PROVE EventsInv
    OBVIOUS
  <2>1. minted = {} /\ transfers = {} /\ now = 0 /\ MaxPositions \in Nat
    BY PositionsAssumption DEF Init
  <2>2. IsFiniteSet({}) /\ Cardinality({}) = 0
    BY FS_EmptySet
  <2>3. Numbered(minted, 0)
    BY <2>1 DEF Numbered
  <2> QED  BY <2>1, <2>2, <2>3 DEF EventsInv
<1> QED  BY <1>1, EventsNext, PTL DEF Spec

-----------------------------------------------------------------------------
(* The job *)

\* A position with transfers has a last one.
LEMMA LastTransfer ==
    ASSUME EventsInv, NEW of \in SUBSET transfers, of # {},
           NEW last, last = CHOOSE t \in of : \A u \in of : u.n <= t.n
    PROVE  last \in of
<1> DEFINE k == Cardinality(transfers)
           S == {k - t.n : t \in of}
<1>1. k \in Nat /\ \A t \in of : t.n \in 1..k
  BY FS_CardinalityType DEF EventsInv
<1> HIDE DEF k
<1>2. S \in SUBSET Nat /\ S # {}
  BY <1>1
<1>3. Min(S) \in S /\ \A y \in S : Min(S) <= y
  <2> HIDE DEF S
  <2> QED  BY <1>2, LeastTime
<1>4. PICK t \in of : Min(S) = k - t.n
  BY <1>3
<1>5. \A u \in of : u.n <= t.n
  <2> SUFFICES ASSUME NEW u \in of PROVE u.n <= t.n
    OBVIOUS
  <2>1. k - u.n \in S
    OBVIOUS
  <2>2. k - t.n <= k - u.n
    <3> HIDE DEF S
    <3> QED  BY <1>3, <1>4, <2>1
  <2> QED  BY <1>1, <2>2
<1> QED  BY <1>5

\* A row of the view is a mint with one of its transfers, or a mint alone.
LEMMA ViewRows ==
    ASSUME NEW r
    PROVE  r \in seawater_positions_1 <=>
               \/ \E m \in minted, t \in transfers : t.pos_id = m.pos_id /\ r = Row(m, t.to, t.n)
               \/ \E m \in minted :
                      (\A t \in transfers : t.pos_id # m.pos_id) /\ r = Row(m, m.owner, 0)
<1> DEFINE pairs == {x \in minted \X transfers : x[2].pos_id = x[1].pos_id}
           alone == {m \in minted : \A t \in transfers : t.pos_id # m.pos_id}
<1>1. r \in seawater_positions_1 <=>
          \/ \E x \in pairs : r = Row(x[1], x[2].to, x[2].n)
          \/ \E m \in alone : r = Row(m, m.owner, 0)
  BY Zenon DEF seawater_positions_1
<1>2. (\E x \in pairs : r = Row(x[1], x[2].to, x[2].n))
          <=> \E m \in minted, t \in transfers : t.pos_id = m.pos_id /\ r = Row(m, t.to, t.n)
  <2>1. ASSUME NEW x \in pairs, r = Row(x[1], x[2].to, x[2].n)
        PROVE  \E m \in minted, t \in transfers : t.pos_id = m.pos_id /\ r = Row(m, t.to, t.n)
    <3>1. x[1] \in minted /\ x[2] \in transfers /\ x[2].pos_id = x[1].pos_id
      OBVIOUS
    <3> QED  BY <2>1, <3>1
  <2>2. ASSUME NEW m \in minted, NEW t \in transfers, t.pos_id = m.pos_id, r = Row(m, t.to, t.n)
        PROVE  \E x \in pairs : r = Row(x[1], x[2].to, x[2].n)
    <3> DEFINE x == <<m, t>>
    <3>1. x \in pairs /\ x[1] = m /\ x[2] = t
      BY <2>2
    <3> HIDE DEF x
    <3> QED  BY <2>2, <3>1
  <2> QED  BY <2>1, <2>2
<1> QED  BY <1>1, <1>2

\* What the view shows of a position that exists: its transfers, if it has any.
LEMMA ViewOf ==
    ASSUME EventsInv, NEW mint \in minted, NEW p, p = mint.pos_id, p \notin burned,
           NEW r
    PROVE  (r \in seawater_active_positions_1 /\ r.pos_id = p) <=>
               \/ \E t \in transfers : t.pos_id = p /\ r = Row(mint, t.to, t.n)
               \/ (\A t \in transfers : t.pos_id # p) /\ r = Row(mint, mint.owner, 0)
<1> DEFINE of == {t \in transfers : t.pos_id = p}
<1>1. mint \in minted /\ mint.pos_id = p /\ \A m \in minted : m.pos_id = p => m = mint
  BY DEF EventsInv, Numbered
<1>2. \A m, o, n : Row(m, o, n).pos_id = m.pos_id
  BY DEF Row
<1>3. (r \in seawater_active_positions_1 /\ r.pos_id = p)
          <=> r \in seawater_positions_1 /\ r.pos_id = p
  BY DEF seawater_active_positions_1
<1>4. ASSUME r \in seawater_positions_1, r.pos_id = p
      PROVE  \/ \E t \in of : r = Row(mint, t.to, t.n)
             \/ of = {} /\ r = Row(mint, mint.owner, 0)
  <2>1. ASSUME NEW m \in minted, NEW t \in transfers, t.pos_id = m.pos_id, r = Row(m, t.to, t.n)
        PROVE  \E u \in of : r = Row(mint, u.to, u.n)
    <3>1. m.pos_id = p
      BY <1>2, <1>4, <2>1
    <3>2. m = mint /\ t \in of
      BY <1>1, <2>1, <3>1
    <3> QED  BY <2>1, <3>2
  <2>2. ASSUME NEW m \in minted, \A t \in transfers : t.pos_id # m.pos_id,
               r = Row(m, m.owner, 0)
        PROVE  of = {} /\ r = Row(mint, mint.owner, 0)
    <3>1. m.pos_id = p
      BY <1>2, <1>4, <2>2
    <3>2. m = mint /\ of = {}
      BY <1>1, <2>2, <3>1
    <3> QED  BY <2>2, <3>2
  <2> QED  BY <1>4, <2>1, <2>2, ViewRows
<1>5. ASSUME NEW t \in of, r = Row(mint, t.to, t.n)
      PROVE  r \in seawater_positions_1 /\ r.pos_id = p
  BY <1>1, <1>2, <1>5, ViewRows
<1>6. ASSUME of = {}, r = Row(mint, mint.owner, 0)
      PROVE  r \in seawater_positions_1 /\ r.pos_id = p
  BY <1>1, <1>2, <1>6, ViewRows
<1> QED  BY <1>3, <1>4, <1>5, <1>6

\* After each run of the job the table has a row for every position that is not
\* burnt, under the wallet that holds it and, if it was transferred at most
\* once, under no other: mints and transfers join right for any number of both.
THEOREM JobShowsHolder == Spec => SnapshotShowsHolder
<1> DEFINE Shows ==
        active' # active =>
            /\ \A r \in active' : r.pos_id \notin burned
            /\ \A p \in 1..NextId - 1 \ burned :
                LET rows == {r \in active' : r.pos_id = p} IN
                /\ \E r \in rows : r.owner = holder_of(p)
                /\ Cardinality({t \in transfers : t.pos_id = p}) <= 1 => Cardinality(rows) = 1
<1>1. ASSUME EventsInv, Next, active' # active PROVE active' = seawater_active_positions_1
  BY <1>1 DEF Next, Ingest, IngestMints, IngestTransfer, IngestBurn, Tick, SnapshotActivePositions,
              FirstPage, PoolPositions, GetPoolPositions, WalletPositions, GetPositions, Begin,
              Client, NextPage
<1>2. ASSUME EventsInv, active' = seawater_active_positions_1,
             NEW p \in 1..NextId - 1 \ burned, NEW rows, rows = {r \in active' : r.pos_id = p}
      PROVE  /\ \E r \in rows : r.owner = holder_of(p)
             /\ Cardinality({t \in transfers : t.pos_id = p}) <= 1 => Cardinality(rows) = 1
  <2> DEFINE mint == CHOOSE m \in minted : m.pos_id = p
             of   == {t \in transfers : t.pos_id = p}
             last == CHOOSE t \in of : \A u \in of : u.n <= t.n
  <2>1. p \in 1..Cardinality(minted) /\ p \notin burned
    BY <1>2 DEF NextId, EventsInv
  <2>2. holder_of(p) = IF of = {} THEN mint.owner ELSE last.to
    BY DEF holder_of
  <2>3. IsFiniteSet(of) /\ Cardinality(of) \in Nat
    BY <1>2, FS_Subset, FS_CardinalityType DEF EventsInv
  <2>4. of # {} => last \in of
    BY <1>2, LastTransfer
  <2>5. \A r : r \in rows <=>
            \/ \E t \in of : r = Row(mint, t.to, t.n)
            \/ of = {} /\ r = Row(mint, mint.owner, 0)
    <3>1. \A r : r \in rows <=> r \in seawater_active_positions_1 /\ r.pos_id = p
      BY <1>2
    <3>0. mint \in minted /\ mint.pos_id = p /\ of = {t \in transfers : t.pos_id = p}
      BY <1>2, <2>1 DEF EventsInv, Numbered
    <3> HIDE DEF mint, of
    <3>2. ASSUME NEW r
          PROVE  (r \in seawater_active_positions_1 /\ r.pos_id = p) <=>
                     \/ \E t \in of : r = Row(mint, t.to, t.n)
                     \/ of = {} /\ r = Row(mint, mint.owner, 0)
      <4>1. (r \in seawater_active_positions_1 /\ r.pos_id = p) <=>
                \/ \E t \in transfers : t.pos_id = p /\ r = Row(mint, t.to, t.n)
                \/ (\A t \in transfers : t.pos_id # p) /\ r = Row(mint, mint.owner, 0)
        BY <1>2, <2>1, <3>0, ViewOf
      <4> QED  BY <3>0, <4>1
    <3> QED  BY <3>1, <3>2, Zenon
  <2>6. \A m, o, n : Row(m, o, n).owner = o
    BY DEF Row
  <2> HIDE DEF mint, of, last
  <2>7. \E r \in rows : r.owner = holder_of(p)
    <3>1. CASE of = {}
      BY <2>2, <2>5, <2>6, <3>1
    <3>2. CASE of # {}
      <4>1. Row(mint, last.to, last.n) \in rows
        BY <2>4, <2>5, <3>2
      <4> QED  BY <2>2, <2>6, <3>2, <4>1
    <3> QED  BY <3>1, <3>2
  <2>8. ASSUME Cardinality(of) <= 1 PROVE Cardinality(rows) = 1
    <3>1. CASE of = {}
      <4>1. rows = {Row(mint, mint.owner, 0)}
        BY <2>5, <3>1
      <4> QED  BY <4>1, FS_Singleton
    <3>2. CASE of # {}
      <4>1. Cardinality(of) = 1
        BY <2>3, <2>8, <3>2, FS_EmptySet
      <4>2. PICK t : of = {t}
        BY <2>3, <4>1, FS_Singleton
      <4>3. rows = {Row(mint, t.to, t.n)}
        BY <2>5, <3>2, <4>2
      <4> QED  BY <4>3, FS_Singleton
    <3> QED  BY <3>1, <3>2
  <2> QED  BY <2>7, <2>8 DEF of
<1>3. EventsInv /\ [Next]_vars => [Shows]_vars
  <2> SUFFICES ASSUME EventsInv, Next, active' # active PROVE Shows
    BY DEF vars
  <2>1. active' = seawater_active_positions_1
    BY <1>1
  <2>2. \A r \in active' : r.pos_id \notin burned
    BY <2>1 DEF seawater_active_positions_1
  <2> QED  BY <1>2, <2>1, <2>2
<1> HIDE DEF Shows
<1>4. Spec => [][Shows]_vars
  BY <1>3, EventsInvariant, PTL DEF Spec
<1> QED  BY <1>4, PTL DEF SnapshotShowsHolder, Shows

-----------------------------------------------------------------------------
(* The walk.  The cursor of a page lies between what was shown and what is   *)
(* still to come: every position shown was minted in its second or later,    *)
(* and every row that has been in the table since the start was shown, lies  *)
(* before the cursor, or ties with the end of some page.                     *)

TableInv ==
    /\ IsFiniteSet(active)
    /\ \A r \in active : \E m \in minted : m.pos_id = r.pos_id /\ m.created_by = r.created_by

Wanted(r) == IF page.wallet # None THEN r.owner = page.wallet ELSE r.pool = page.pool

Ahead(r) == page.to # None /\ Unix(r.created_by) < page.to

WalkInv ==
    /\ DOMAIN page = {"by", "wallet", "pool", "rows", "to"}
    /\ DOMAIN walk = {"cursors", "seen", "stable"}
    /\ walk.stable \subseteq active
    /\ walk.seen \subseteq 1..Cardinality(minted)
    /\ page.by \in {"none", "time", "id"}
    /\ page.by = "id" => page.to \in {None} \cup 1..MaxPositions
    /\ page.by = "time" =>
        /\ page.to \in {None} \cup Nat
        /\ \A r \in walk.stable : Wanted(r)
        /\ \A m \in minted :
            (m.pos_id \in walk.seen /\ page.to # None) => page.to <= Unix(m.created_by)
        /\ \/ page.to = None /\ walk.seen = {}
           \/ \A r \in walk.stable :
                r.pos_id \in walk.seen \/ Unix(r.created_by) \in walk.cursors \/ Ahead(r)

\* The view is finite, and its rows have the number and time of their mint.
LEMMA ViewIsTable ==
    ASSUME EventsInv
    PROVE  /\ IsFiniteSet(seawater_active_positions_1)
           /\ \A r \in seawater_active_positions_1 :
                  \E m \in minted : m.pos_id = r.pos_id /\ m.created_by = r.created_by
<1> DEFINE pairs == {x \in minted \X transfers : x[2].pos_id = x[1].pos_id}
           alone == {m \in minted : \A t \in transfers : t.pos_id # m.pos_id}
           f == [x \in pairs |-> Row(x[1], x[2].to, x[2].n)]
           g == [m \in alone |-> Row(m, m.owner, 0)]
           F == {Row(x[1], x[2].to, x[2].n) : x \in pairs}
           G == {Row(m, m.owner, 0) : m \in alone}
<1>1. IsFiniteSet(minted) /\ IsFiniteSet(transfers)
  BY CountNumbered DEF EventsInv
<1>2. IsFiniteSet(pairs) /\ IsFiniteSet(alone)
  <2>1. IsFiniteSet(minted \X transfers)
    BY <1>1, FS_Product
  <2> QED  BY <1>1, <2>1, FS_Subset
<1>3. f \in Surjection(pairs, F) /\ g \in Surjection(alone, G)
  <2> HIDE DEF pairs, alone
  <2>1. f \in [pairs -> F] /\ \A y \in F : \E x \in pairs : f[x] = y
    OBVIOUS
  <2>2. g \in [alone -> G] /\ \A y \in G : \E x \in alone : g[x] = y
    OBVIOUS
  <2> HIDE DEF f, g, F, G
  <2> QED  BY <2>1, <2>2, Fun_IsSurj
<1>4. IsFiniteSet(F) /\ IsFiniteSet(G)
  <2> HIDE DEF pairs, alone, f, g, F, G
  <2> QED  BY <1>2, <1>3, FS_Surjection
<1>5. seawater_positions_1 = F \cup G
  BY DEF seawater_positions_1
<1> HIDE DEF pairs, alone, f, g, F, G
<1>6. IsFiniteSet(seawater_positions_1)
  BY <1>4, <1>5, FS_Union
<1>7. seawater_active_positions_1 \subseteq seawater_positions_1
  BY DEF seawater_active_positions_1
<1>8. IsFiniteSet(seawater_active_positions_1)
  BY <1>6, <1>7, FS_Subset
<1>9. ASSUME NEW r \in seawater_active_positions_1
      PROVE  \E m \in minted : m.pos_id = r.pos_id /\ m.created_by = r.created_by
  <2>1. \A m, o, n : Row(m, o, n).pos_id = m.pos_id /\ Row(m, o, n).created_by = m.created_by
    BY DEF Row
  <2>2. \E m \in minted : \E o, n : r = Row(m, o, n)
    BY <1>7, ViewRows
  <2> QED  BY <2>1, <2>2
<1> QED  BY <1>8, <1>9

\* The cursor of a page is the second of its oldest row.
LEMMA CursorOf ==
    ASSUME NEW P, P # {}, \A r \in P : r.created_by \in Nat
    PROVE  /\ cursor(P) \in Nat /\ cursor(P) # None
           /\ \A r \in P : cursor(P) <= Unix(r.created_by)
           /\ \E r \in P : cursor(P) = Unix(r.created_by)
           /\ \A s \in Nat : (\A r \in P : s <= r.created_by) => Unix(s) <= cursor(P)
<1> DEFINE S == {r.created_by : r \in P}
<1>1. S \in SUBSET Nat /\ S # {}
  OBVIOUS
<1>2. oldest(P) = Min(S)
  BY DEF oldest
<1>3. Min(S) \in S /\ \A y \in S : Min(S) <= y
  <2> HIDE DEF S
  <2> QED  BY <1>1, LeastTime
<1>4. PICK q \in P : oldest(P) = q.created_by
  BY <1>2, <1>3
<1>5. \A r \in P : oldest(P) <= r.created_by
  BY <1>2, <1>3
<1>6. cursor(P) = Unix(q.created_by)
  BY <1>4 DEF cursor
<1>7. Unix(q.created_by) \in Nat /\ None \notin Nat
  BY UnixOrder, PositionsAssumption
<1>8. \A r \in P : Unix(q.created_by) <= Unix(r.created_by)
  BY <1>4, <1>5, UnixOrder
<1>9. \A s \in Nat : s <= q.created_by => Unix(s) <= Unix(q.created_by)
  BY UnixOrder
<1> QED  BY <1>6, <1>7, <1>8, <1>9

\* The rows of the table have times and known numbers.
LEMMA TableRows ==
    ASSUME EventsInv, TableInv, NEW r \in active
    PROVE  /\ r.created_by \in Nat /\ r.pos_id \in 1..Cardinality(minted)
           /\ \A m \in minted : m.pos_id = r.pos_id => m.created_by = r.created_by
<1>1. PICK m \in minted : m.pos_id = r.pos_id /\ m.created_by = r.created_by
  BY DEF TableInv
<1> QED  BY <1>1 DEF EventsInv, Numbered

\* The first page of a walk by time.
LEMMA BeginKeeps ==
    ASSUME EventsInv, TableInv, NEW wallet, NEW pool,
           \/ wallet \in Wallet /\ pool = None
           \/ wallet = None /\ pool \in Pool,
           NEW P, P \subseteq active, Begin("time", wallet, pool, P, cursor(P))
    PROVE  WalkInv'
<1>1. None \notin Wallet /\ None \notin Pool
  BY PositionsAssumption
<1>2. /\ page' = [by |-> "time", wallet |-> wallet, pool |-> pool, rows |-> P, to |-> cursor(P)]
      /\ walk' = [cursors |-> {cursor(P)}, seen |-> {r.pos_id : r \in P},
                  stable |-> {r \in active : /\ wallet # None => r.owner = wallet
                                             /\ pool # None => r.pool = pool
                                             /\ \A q \in P : r.created_by <= q.created_by}]
      /\ active' = active /\ minted' = minted
  BY DEF Begin, events
<1>3. /\ DOMAIN page' = {"by", "wallet", "pool", "rows", "to"}
      /\ DOMAIN walk' = {"cursors", "seen", "stable"}
      /\ page'.by = "time" /\ page'.wallet = wallet /\ page'.pool = pool /\ page'.to = cursor(P)
      /\ walk'.cursors = {cursor(P)} /\ walk'.seen = {r.pos_id : r \in P}
      /\ walk'.stable \subseteq active
      /\ \A r \in walk'.stable : /\ wallet # None => r.owner = wallet
                                 /\ pool # None => r.pool = pool
                                 /\ \A q \in P : r.created_by <= q.created_by
  BY <1>2
<1>4. \A r \in P : r.created_by \in Nat /\ r.pos_id \in 1..Cardinality(minted)
                   /\ \A m \in minted : m.pos_id = r.pos_id => m.created_by = r.created_by
  BY TableRows
<1>5. walk'.seen \subseteq 1..Cardinality(minted)
  BY <1>3, <1>4
<1>6. \A r \in walk'.stable : Wanted(r)'
  BY <1>1, <1>3 DEF Wanted
<1>7. CASE P = {}
  <2>1. cursor(P) = None /\ walk'.seen = {}
    BY <1>3, <1>7 DEF cursor
  <2> QED  BY <1>2, <1>3, <1>5, <1>6, <2>1 DEF WalkInv
<1>8. CASE P # {}
  <2>1. /\ cursor(P) \in Nat /\ cursor(P) # None
        /\ \A r \in P : cursor(P) <= Unix(r.created_by)
        /\ \A s \in Nat : (\A r \in P : s <= r.created_by) => Unix(s) <= cursor(P)
    BY <1>4, <1>8, CursorOf
  <2>2. ASSUME NEW m \in minted, m.pos_id \in walk'.seen PROVE cursor(P) <= Unix(m.created_by)
    BY <1>3, <1>4, <2>1, <2>2
  <2>3. ASSUME NEW r \in walk'.stable
        PROVE  Unix(r.created_by) \in walk'.cursors \/ Ahead(r)'
    <3>1. r.created_by \in Nat
      BY <1>3, TableRows
    <3>2. Unix(r.created_by) <= cursor(P) /\ Unix(r.created_by) \in Nat
      BY <1>3, <2>1, <3>1, UnixOrder
    <3>3. Unix(r.created_by)' = Unix(r.created_by)
      BY DEF Unix
    <3> QED  BY <1>3, <2>1, <3>2, <3>3 DEF Ahead
  <2>4. \A r \in walk'.stable : Unix(r.created_by) \in walk'.cursors \/ Ahead(r)'
    BY <2>3
  <2> QED  BY <1>2, <1>3, <1>5, <1>6, <2>1, <2>2, <2>4 DEF WalkInv
<1> QED  BY <1>7, <1>8

\* The first page of a walk by id: its cursor is an id, and no Unix time is.
LEMMA BeginIdKeeps ==
    ASSUME EventsInv, TableInv, NEW wallet, NEW P, P \subseteq active, NEW last \in P,
           Begin("id", wallet, None, P, last.pos_id)
    PROVE  WalkInv'
<1>1. /\ page' = [by |-> "id", wallet |-> wallet, pool |-> None, rows |-> P, to |-> last.pos_id]
      /\ DOMAIN walk' = {"cursors", "seen", "stable"} /\ walk'.seen = {r.pos_id : r \in P}
      /\ walk'.stable \subseteq active /\ active' = active /\ minted' = minted
  BY DEF Begin, events
<1>2. \A r \in P : r.pos_id \in 1..Cardinality(minted)
  BY TableRows
<1>3. last.pos_id \in 1..MaxPositions
  BY <1>2, PositionsAssumption DEF EventsInv
<1>4. walk'.seen \subseteq 1..Cardinality(minted)
  BY <1>1, <1>2
<1>5. /\ DOMAIN page' = {"by", "wallet", "pool", "rows", "to"}
      /\ page'.by = "id" /\ page'.to = last.pos_id
  BY <1>1
<1> QED  BY <1>1, <1>3, <1>4, <1>5 DEF WalkInv

\* What `next' reads: nothing of what was shown, and all that lies ahead.
LEMMA NextRows ==
    ASSUME EventsInv, TableInv, WalkInv, NEW first \in Firsts, NextPage(first)
    PROVE  \E P \in SUBSET active :
               /\ page' = [page EXCEPT !.rows = P, !.to = cursor(P)]
               /\ walk' = [walk EXCEPT !.seen = @ \cup {r.pos_id : r \in P},
                                       !.cursors = @ \cup {cursor(P)}]
               /\ \A r \in P : Unix(r.created_by) < page.to
               /\ \A r \in active \ P : (Wanted(r) /\ Unix(r.created_by) < page.to) =>
                      P # {} /\ \A q \in P : r.created_by <= q.created_by
<1> DEFINE rows == {r \in active : older(r, page.to) /\ Wanted(r)}
<1>1. PICK P \in Pages(rows, limit(first)) :
          /\ page' = [page EXCEPT !.rows = P, !.to = cursor(P)]
          /\ walk' = [walk EXCEPT !.seen = @ \cup {r.pos_id : r \in P},
                                  !.cursors = @ \cup {cursor(P)}]
  BY DEF NextPage, Wanted
<1>2. IsFiniteSet(rows)
  BY FS_Subset DEF TableInv
<1>3. \A r : r \in rows <=> r \in active /\ Unix(r.created_by) < page.to /\ Wanted(r)
  BY DEF older
<1> HIDE DEF rows
<1>4. /\ P \subseteq rows /\ (P = {} => rows = {})
      /\ \A r \in P, q \in rows \ P : r.created_by >= q.created_by
  BY <1>2, LimitType, PageOfSome
<1>5. \A r \in rows : r.created_by \in Nat
  BY <1>3, TableRows
<1>6. ASSUME NEW r \in active \ P, Wanted(r), Unix(r.created_by) < page.to
      PROVE  P # {} /\ \A q \in P : r.created_by <= q.created_by
  BY <1>3, <1>4, <1>5, <1>6
<1>7. P \in SUBSET active /\ \A r \in P : Unix(r.created_by) < page.to
  BY <1>3, <1>4
<1> QED  BY <1>1, <1>6, <1>7

\* The cursor moves back to the end of the new page.
LEMMA NextKeeps ==
    ASSUME EventsInv, TableInv, WalkInv, NEW first \in Firsts, NextPage(first)
    PROVE  WalkInv' /\ \A r \in page'.rows : r.pos_id \notin walk.seen
<1>1. PICK P \in SUBSET active :
          /\ page' = [page EXCEPT !.rows = P, !.to = cursor(P)]
          /\ walk' = [walk EXCEPT !.seen = @ \cup {r.pos_id : r \in P},
                                  !.cursors = @ \cup {cursor(P)}]
          /\ \A r \in P : Unix(r.created_by) < page.to
          /\ \A r \in active \ P : (Wanted(r) /\ Unix(r.created_by) < page.to) =>
                 P # {} /\ \A q \in P : r.created_by <= q.created_by
  BY NextRows
<1>2. /\ page.by # "none" /\ page.to # None /\ active' = active /\ minted' = minted
      /\ page.by \in {"time", "id"}
  BY DEF NextPage, events, WalkInv
<1>3. /\ DOMAIN page' = {"by", "wallet", "pool", "rows", "to"}
      /\ DOMAIN walk' = {"cursors", "seen", "stable"}
      /\ page'.by = page.by /\ page'.wallet = page.wallet /\ page'.pool = page.pool
      /\ page'.rows = P /\ page'.to = cursor(P)
      /\ walk'.cursors = walk.cursors \cup {cursor(P)}
      /\ walk'.seen = walk.seen \cup {r.pos_id : r \in P}
      /\ walk'.stable = walk.stable
  BY <1>1 DEF WalkInv
<1>4. \A r \in active :
          /\ r.created_by \in Nat /\ r.pos_id \in 1..Cardinality(minted)
          /\ Unix(r.created_by) \in Nat /\ Epoch <= Unix(r.created_by)
          /\ \A m \in minted : m.pos_id = r.pos_id => m.created_by = r.created_by
  BY TableRows, UnixOrder
<1>5. walk'.stable \subseteq active' /\ walk'.seen \subseteq 1..Cardinality(minted')
      /\ page'.by \in {"none", "time", "id"}
  BY <1>1, <1>2, <1>3, <1>4 DEF WalkInv
<1>6. CASE page.by = "id"
  <2>1. page.to \in Nat /\ page.to < Epoch
    BY <1>2, <1>6, PositionsAssumption DEF WalkInv
  <2>2. P = {}
    BY <1>1, <1>4, <2>1, PositionsAssumption
  <2>3. cursor(P) = None
    BY <2>2 DEF cursor
  <2> QED  BY <1>3, <1>5, <1>6, <2>2, <2>3 DEF WalkInv
<1>7. CASE page.by = "time"
  <2>1. /\ page.to \in Nat /\ \A r \in walk.stable : Wanted(r)
        /\ \A m \in minted : m.pos_id \in walk.seen => page.to <= Unix(m.created_by)
        /\ \A r \in walk.stable :
              r.pos_id \in walk.seen \/ Unix(r.created_by) \in walk.cursors \/ Ahead(r)
    BY <1>2, <1>7 DEF WalkInv
  <2>2. ASSUME NEW r \in P, r.pos_id \in walk.seen PROVE FALSE
    <3>1. PICK m \in minted : m.pos_id = r.pos_id /\ m.created_by = r.created_by
      BY <1>1 DEF TableInv
    <3>2. page.to <= Unix(r.created_by)
      BY <2>1, <2>2, <3>1
    <3> QED  BY <1>1, <1>4, <2>1, <3>2
  <2>3. \A r \in walk'.stable : Wanted(r)'
    BY <1>3, <2>1 DEF Wanted
  <2>4. CASE P = {}
    <3>1. cursor(P) = None
      BY <2>4 DEF cursor
    <3>2. \A r \in walk.stable : ~Ahead(r)
      BY <1>1, <2>1, <2>4 DEF Ahead, WalkInv
    <3>3. \A r \in walk'.stable : r.pos_id \in walk'.seen \/ Unix(r.created_by) \in walk'.cursors
      BY <1>3, <2>1, <3>2
    <3> QED  BY <1>2, <1>3, <1>5, <1>7, <2>2, <2>3, <3>1, <3>3 DEF WalkInv
  <2>5. CASE P # {}
    <3>1. /\ cursor(P) \in Nat /\ cursor(P) # None
          /\ \A r \in P : cursor(P) <= Unix(r.created_by)
          /\ \E r \in P : cursor(P) = Unix(r.created_by)
          /\ \A s \in Nat : (\A r \in P : s <= r.created_by) => Unix(s) <= cursor(P)
      BY <1>1, <1>4, <2>5, CursorOf
    <3>2. cursor(P) < page.to
      BY <1>1, <3>1
    <3>3. ASSUME NEW m \in minted, m.pos_id \in walk'.seen PROVE cursor(P) <= Unix(m.created_by)
      <4>1. CASE m.pos_id \in walk.seen
        <5>1. page.to <= Unix(m.created_by) /\ Unix(m.created_by) \in Nat
          BY <2>1, <4>1, UnixOrder DEF EventsInv
        <5> QED  BY <2>1, <3>1, <3>2, <5>1
      <4>2. CASE \E r \in P : m.pos_id = r.pos_id
        BY <1>1, <1>4, <3>1, <4>2
      <4> QED  BY <1>3, <3>3, <4>1, <4>2
    <3>4. ASSUME NEW r \in walk'.stable
          PROVE  r.pos_id \in walk'.seen \/ Unix(r.created_by) \in walk'.cursors \/ Ahead(r)'
      <4>1. r \in walk.stable /\ r \in active /\ Wanted(r)
        BY <1>3, <2>1 DEF WalkInv
      <4>2. CASE r.pos_id \in walk.seen \/ Unix(r.created_by) \in walk.cursors \/ r \in P
        BY <1>3, <4>2
      <4>3. CASE Ahead(r) /\ r \notin P
        <5>1. \A q \in P : r.created_by <= q.created_by
          BY <1>1, <4>1, <4>3 DEF Ahead
        <5>2. Unix(r.created_by) <= cursor(P) /\ Unix(r.created_by) \in Nat
          BY <1>4, <3>1, <4>1, <5>1
        <5> QED  BY <1>3, <3>1, <5>2 DEF Ahead
      <4> QED  BY <2>1, <4>1, <4>2, <4>3
    <3>5. WalkInv'
      <4>1. \A r \in walk'.stable :
                r.pos_id \in walk'.seen \/ Unix(r.created_by) \in walk'.cursors \/ Ahead(r)'
        BY <3>4
      <4> QED  BY <1>2, <1>3, <1>5, <1>7, <2>3, <3>1, <3>3, <4>1 DEF WalkInv
    <3> QED  BY <1>3, <2>2, <3>5
  <2> QED  BY <2>4, <2>5
<1> QED  BY <1>2, <1>6, <1>7

\* The table only changes when the job runs, and the walk with the client's calls.
LEMMA WalkNext ==
    EventsInv /\ TableInv /\ WalkInv /\ [Next]_vars => TableInv' /\ WalkInv'
<1> SUFFICES ASSUME EventsInv, TableInv, WalkInv, [Next]_vars PROVE TableInv' /\ WalkInv'
  OBVIOUS
<1>1. ASSUME UNCHANGED <<minted, active, page, walk>> PROVE TableInv' /\ WalkInv'
  <2>1. TableInv'
    BY <1>1 DEF TableInv
  <2>2. WalkInv'
    BY <1>1 DEF WalkInv, Wanted, Ahead
  <2> QED  BY <2>1, <2>2
<1>2. ASSUME NEW n \in 1..MaxPositions, NEW pool \in Pool,
             NEW owner \in [NextId..NextId + n - 1 -> Wallet], IngestMints(n, owner, pool)
      PROVE  TableInv' /\ WalkInv'
  <2>1. /\ Cardinality(minted') = Cardinality(minted) + n
        /\ \A m \in minted' : m \in minted \/ m.pos_id > Cardinality(minted)
    BY <1>2, MintsNumbered
  <2>2. minted \subseteq minted' /\ UNCHANGED <<active, page, walk>>
    BY <1>2 DEF IngestMints
  <2>3. Cardinality(minted) \in Nat
    BY DEF EventsInv
  <2>4. walk.seen \subseteq 1..Cardinality(minted)
    BY DEF WalkInv
  <2>5. walk'.seen \subseteq 1..Cardinality(minted')
    BY <2>1, <2>2, <2>3, <2>4
  <2>6. \A m \in minted' : m.pos_id \in walk.seen => m \in minted
    BY <2>1, <2>3, <2>4
  <2>7. TableInv'
    BY <2>2 DEF TableInv
  <2>8. WalkInv'
    BY <2>2, <2>5, <2>6 DEF WalkInv, Wanted, Ahead
  <2> QED  BY <2>7, <2>8
<1>3. CASE Ingest
  BY <1>1, <1>2, <1>3 DEF Ingest, IngestTransfer, IngestBurn
<1>4. CASE Tick
  BY <1>1, <1>4 DEF Tick, events
<1>5. CASE SnapshotActivePositions
  <2>1. active' = seawater_active_positions_1 /\ minted' = minted /\ page' = page
        /\ walk' = [walk EXCEPT !.stable = @ \cap active']
    BY <1>5 DEF SnapshotActivePositions, events
  <2>2. TableInv'
    BY <2>1, ViewIsTable DEF TableInv
  <2>3. DOMAIN walk' = DOMAIN walk /\ walk'.stable = walk.stable \cap active'
        /\ walk'.seen = walk.seen /\ walk'.cursors = walk.cursors
    BY <2>1 DEF WalkInv
  <2>4. WalkInv'
    BY <2>1, <2>3 DEF WalkInv, Wanted, Ahead
  <2> QED  BY <2>2, <2>4
<1>6. CASE FirstPage
  <2>0. \A rows, n : \A P \in Pages(rows, n) : P \subseteq rows
    BY DEF Pages
  <2>1. ASSUME NEW pool \in Pool, NEW first \in Firsts, PoolPositions(pool, first) PROVE WalkInv'
    <3>1. PICK P : P \subseteq active /\ Begin("time", None, pool, P, cursor(P))
      BY <2>0, <2>1 DEF PoolPositions
    <3> QED  BY <3>1, BeginKeeps
  <2>2. ASSUME NEW pool \in Pool, NEW first \in Firsts, NEW after \in Afters,
               GetPoolPositions(pool, first, after)
        PROVE  WalkInv'
    <3>1. PICK P : P \subseteq active /\ Begin("time", None, pool, P, cursor(P))
      BY <2>0, <2>2 DEF GetPoolPositions
    <3> QED  BY <3>1, BeginKeeps
  <2>3. ASSUME NEW wallet \in Wallet, NEW first \in Firsts, NEW after \in Afters,
               WalletPositions(wallet, first, after)
        PROVE  WalkInv'
    <3>1. PICK P : P \subseteq active /\ Begin("time", wallet, None, P, cursor(P))
      BY <2>0, <2>3 DEF WalletPositions
    <3> QED  BY <3>1, BeginKeeps
  <2>4. ASSUME NEW wallet \in Wallet, NEW first \in Firsts, NEW after \in Afters,
               GetPositions(wallet, first, after)
        PROVE  WalkInv'
    <3>1. PICK P : P \subseteq active
                   /\ \E last \in P : Begin("id", wallet, None, P, last.pos_id)
      BY <2>0, <2>4 DEF GetPositions
    <3> QED  BY <3>1, BeginIdKeeps
  <2>5. minted' = minted /\ active' = active
    BY <1>6 DEF FirstPage, PoolPositions, GetPoolPositions, WalletPositions, GetPositions,
                Begin, events
  <2>6. TableInv'
    BY <2>5 DEF TableInv
  <2> QED  BY <1>6, <2>1, <2>2, <2>3, <2>4, <2>6 DEF FirstPage
<1>7. CASE Client
  <2>1. PICK first \in Firsts : NextPage(first)
    BY <1>7 DEF Client
  <2>2. minted' = minted /\ active' = active
    BY <2>1 DEF NextPage, events
  <2>3. TableInv'
    BY <2>2 DEF TableInv
  <2> QED  BY <2>1, <2>3, NextKeeps
<1>8. CASE UNCHANGED vars
  BY <1>1, <1>8 DEF vars, events
<1> QED  BY <1>3, <1>4, <1>5, <1>6, <1>7, <1>8 DEF Next

\* The invariants hold in every state.
LEMMA WalkInvariant == Spec => [](EventsInv /\ TableInv /\ WalkInv)
<1>1. Init => TableInv /\ WalkInv
  <2> SUFFICES ASSUME Init PROVE TableInv /\ WalkInv
    OBVIOUS
  <2>1. active = {} /\ page = NoPage /\ walk = NoWalk
    BY DEF Init
  <2>2. TableInv
    BY <2>1, FS_EmptySet DEF TableInv
  <2>3. WalkInv
    BY <2>1 DEF WalkInv, NoPage, NoWalk
  <2> QED  BY <2>2, <2>3
<1> QED  BY <1>1, WalkNext, EventsInvariant, PTL DEF Spec

\* When a walk by time is over, every row that was in the table all along and
\* not newer than the first page was shown, unless it was stored in the second
\* in which some page ended, whatever the ingestor and the job did between the
\* pages and however large the pages are.
THEOREM WalkSkipsOnlyTies == Spec => []SkipsOnlyTies
<1>1. WalkInv => SkipsOnlyTies
  BY DEF WalkInv, SkipsOnlyTies, Ahead
<1> QED  BY <1>1, WalkInvariant, PTL

\* A walk never shows a position on two pages: the cursor moves strictly back,
\* and a position keeps the time of its mint in every version of the table.
THEOREM WalkNeverRepeats == Spec => NeverTwice
<1> DEFINE Fresh == (page.by # "none" /\ page' # page) =>
                        \A r \in page'.rows : r.pos_id \notin walk.seen
<1>1. EventsInv /\ TableInv /\ WalkInv /\ [Next]_vars => [Fresh]_vars
  <2> SUFFICES ASSUME EventsInv, TableInv, WalkInv, Next, page.by # "none", page' # page
               PROVE  \A r \in page'.rows : r.pos_id \notin walk.seen
    BY DEF vars
  <2>1. Client
    BY DEF Next, Ingest, IngestMints, IngestTransfer, IngestBurn, Tick, SnapshotActivePositions
  <2> QED  BY <2>1, NextKeeps DEF Client
<1> HIDE DEF Fresh
<1>2. Spec => [][Fresh]_vars
  BY <1>1, WalkInvariant, PTL DEF Spec
<1> QED  BY <1>2, PTL DEF NeverTwice, Fresh

=============================================================================
