---------------------------- MODULE FaucetProofs -----------------------------
(***************************************************************************)
(* The faucet serves eligible requests only, and a wallet or an address    *)
(* twice within the window only to requests that overlap: for any number   *)
(* of requests, wallets, addresses and hours.                              *)
(***************************************************************************)
EXTENDS Faucet, TLAPS

\* A request that RequestTokens has taken up, and a row of faucet_requests.
Open == [pc : Pc \ {"idle"}, addr : Wallet, ip_addr : Address,
         is_fly_staker : BOOLEAN, attempts : SUBSET Request]
Row  == [by : Request, addr : Wallet, ip_addr : Address,
         updated_by : Nat, is_fly_staker : BOOLEAN]

FaucetTypes ==
    /\ now \in Nat
    /\ rows \subseteq Row
    /\ req \in [Request -> {Idle} \cup Open]

\* What a request has passed by the time it waits for the next answer.
PassedTurnstile(r) ==
    req[r].pc \in {"staker", "attempts", "insert", "served"} =>
        "faucet enabled" \in features /\ req[r].addr \in ValidWallet

PassedStaker(r) ==
    (req[r].pc \in {"attempts", "insert", "served"} /\ "faucet stakers only" \in features)
        => req[r].is_fly_staker

\* Each row is that of a served request, and of no time to come.
RowsAreServed ==
    \A row \in rows :
        LET r == req[row.by]
        IN  /\ r.pc = "served" /\ row.addr = r.addr /\ row.ip_addr = r.ip_addr
            /\ row.is_fly_staker = r.is_fly_staker
            /\ row.updated_by <= now

ServedHaveRows == \A r \in Request : req[r].pc = "served" => \E row \in rows : row.by = r

\* A request saw rows that are still there, ...
SawRows ==
    \A r \in Request : req[r].pc \in {"insert", "served"} =>
        \A x \in req[r].attempts : \E row \in rows : row.by = x

\* ... and goes on to the INSERT only if those of its wallet or address are
\* older than the window, which time cannot undo.
SawOld ==
    \A r \in Request : req[r].pc = "insert" =>
        \A row \in rows :
            (row.by \in req[r].attempts /\ Same(row, req[r])) => row.updated_by + Window <= now

FaucetInv ==
    /\ FaucetTypes
    /\ \A r \in Request : PassedTurnstile(r) /\ PassedStaker(r)
    /\ RowsAreServed /\ ServedHaveRows
    /\ SawRows /\ SawOld
    /\ DoublesOverlap

-----------------------------------------------------------------------------
\* Without a request and a row there is nothing to violate.
LEMMA FaucetInit == Init => FaucetInv
<1> SUFFICES ASSUME Init PROVE FaucetInv
  OBVIOUS
<1>1. FaucetTypes
  BY DEF Init, FaucetTypes
<1>2. \A r \in Request : req[r].pc = "idle"
  BY DEF Init, Idle
<1> QED  BY <1>1, <1>2 DEF Init, FaucetInv, PassedTurnstile, PassedStaker, RowsAreServed,
                           ServedHaveRows, SawRows, SawOld, DoublesOverlap

\* The invariant reads the clock only where a later hour makes it weaker.
LEMMA TickKeeps == ASSUME FaucetInv, Tick PROVE FaucetInv'
<1>1. now \in Nat /\ now' = now + 1 /\ UNCHANGED <<features, rows, req>>
  BY DEF Tick, FaucetInv, FaucetTypes
<1>2. \A row \in rows : row.updated_by \in Nat
  BY DEF FaucetInv, FaucetTypes, Row
<1>3. FaucetTypes' /\ \A r \in Request : PassedTurnstile(r)' /\ PassedStaker(r)'
  <2>1. FaucetTypes'
    BY <1>1 DEF FaucetInv, FaucetTypes
  <2>2. \A r \in Request : PassedTurnstile(r)' /\ PassedStaker(r)'
    BY <1>1 DEF FaucetInv, PassedTurnstile, PassedStaker
  <2> QED  BY <2>1, <2>2
<1>4. RowsAreServed'
  BY <1>1, <1>2 DEF FaucetInv, RowsAreServed
<1>5. SawOld'
  BY <1>1, <1>2, FaucetAssumption DEF FaucetInv, SawOld, Same
<1>6. ServedHaveRows' /\ SawRows' /\ DoublesOverlap'
  BY <1>1 DEF FaucetInv, ServedHaveRows, SawRows, DoublesOverlap, Same
<1> QED  BY <1>3, <1>4, <1>5, <1>6 DEF FaucetInv

\* A step of one request before its INSERT: the rows stay, and no row is this
\* request's, so only what the request itself has passed must be shown.
LEMMA RequestKeeps ==
    ASSUME FaucetInv, UNCHANGED <<now, features, rows>>,
           NEW r \in Request, req[r].pc # "served",
           NEW new \in Open, new.pc # "served", req' = [req EXCEPT ![r] = new],
           new.pc \in {"staker", "attempts", "insert"} =>
               "faucet enabled" \in features /\ new.addr \in ValidWallet,
           (new.pc \in {"attempts", "insert"} /\ "faucet stakers only" \in features)
               => new.is_fly_staker,
           new.pc = "insert" =>
               /\ \A x \in new.attempts : \E row \in rows : row.by = x
               /\ \A row \in rows : Same(row, new) => row.updated_by + Window <= now
    PROVE  FaucetInv'
<1>1. req'[r] = new /\ \A q \in Request \ {r} : req'[q] = req[q]
  BY DEF FaucetInv, FaucetTypes
<1>2. \A row \in rows : row.by \in Request /\ row.by # r /\ req'[row.by] = req[row.by]
  <2>1. \A row \in rows : row.by \in Request /\ req[row.by].pc = "served"
    BY DEF FaucetInv, FaucetTypes, Row, RowsAreServed
  <2> QED  BY <1>1, <2>1
<1>3. FaucetTypes'
  BY DEF FaucetInv, FaucetTypes
<1>4. \A q \in Request : PassedTurnstile(q)' /\ PassedStaker(q)'
  <2> SUFFICES ASSUME NEW q \in Request PROVE PassedTurnstile(q)' /\ PassedStaker(q)'
    OBVIOUS
  <2>1. CASE q = r
    BY <1>1, <2>1 DEF PassedTurnstile, PassedStaker
  <2>2. CASE q # r
    BY <1>1, <2>2 DEF FaucetInv, PassedTurnstile, PassedStaker
  <2> QED  BY <2>1, <2>2
<1>5. RowsAreServed'
  <2>1. RowsAreServed
    BY DEF FaucetInv
  <2>2. rows' = rows /\ now' = now
    OBVIOUS
  <2> SUFFICES ASSUME NEW row \in rows
               PROVE  LET q == req'[row.by]
                      IN  /\ q.pc = "served" /\ row.addr = q.addr /\ row.ip_addr = q.ip_addr
                          /\ row.is_fly_staker = q.is_fly_staker
                          /\ row.updated_by <= now
    BY <2>2 DEF RowsAreServed
  <2>3. req'[row.by] = req[row.by]
    BY <1>2
  <2> QED  BY <2>1, <2>3, Zenon DEF RowsAreServed
<1>6. ServedHaveRows'
  BY <1>1 DEF FaucetInv, ServedHaveRows
<1>7. SawRows'
  BY <1>1 DEF FaucetInv, SawRows
<1>8. SawOld'
  <2> SUFFICES ASSUME NEW q \in Request, req'[q].pc = "insert", NEW row \in rows,
                      row.by \in req'[q].attempts, Same(row, req'[q])
               PROVE  row.updated_by + Window <= now
    BY DEF SawOld, Same
  <2>1. CASE q = r
    BY <1>1, <2>1
  <2>2. CASE q # r
    BY <1>1, <2>2 DEF FaucetInv, SawOld
  <2> QED  BY <2>1, <2>2
<1>9. DoublesOverlap'
  BY <1>2 DEF FaucetInv, DoublesOverlap, Same
<1> QED  BY <1>3, <1>4, <1>5, <1>6, <1>7, <1>8, <1>9 DEF FaucetInv

\* A request that was taken up is a record of Open.
LEMMA TakenUp ==
    ASSUME FaucetTypes, NEW r \in Request, req[r].pc # "idle"
    PROVE  req[r] \in Open
<1>1. req[r] # Idle
  BY DEF Idle
<1> QED  BY <1>1 DEF FaucetTypes

\* The steps of a request up to its INSERT.
LEMMA AskKeeps ==
    ASSUME FaucetInv, NEW r \in Request,
           \/ \E wallet \in Wallet, address \in Address : RequestTokens(r, wallet, address)
           \/ Fail(r) \/ Attempts(r)
           \/ \E success \in BOOLEAN : VerifyTurnstile(r, success)
           \/ \E staker \in BOOLEAN : IsUserStaker(r, staker)
    PROVE  FaucetInv'
<1>0. FaucetTypes /\ PassedTurnstile(r) /\ PassedStaker(r) /\ req \in [Request -> {Idle} \cup Open]
  BY DEF FaucetInv, FaucetTypes
<1>1. ASSUME NEW wallet \in Wallet, NEW address \in Address, RequestTokens(r, wallet, address)
      PROVE  FaucetInv'
  <2> DEFINE new == [pc |-> "turnstile", addr |-> wallet, ip_addr |-> address,
                     is_fly_staker |-> FALSE, attempts |-> {}]
  <2>1. new \in Open /\ new.pc = "turnstile"
    BY DEF Open, Pc
  <2>2. req[r].pc = "idle" /\ req' = [req EXCEPT ![r] = new] /\ UNCHANGED <<now, features, rows>>
    BY <1>1 DEF RequestTokens
  <2> HIDE DEF new
  <2> QED  BY <2>1, <2>2, RequestKeeps
<1>2. CASE Fail(r)
  <2> DEFINE new == [req[r] EXCEPT !.pc = "refused"]
  <2>1. req[r].pc \in {"turnstile", "staker", "attempts", "insert"} /\ req' = [req EXCEPT ![r] = new]
        /\ UNCHANGED <<now, features, rows>>
    BY <1>2 DEF Fail, Goto
  <2>2. req[r] \in Open
    BY <1>0, <2>1, TakenUp
  <2>3. new \in Open /\ new.pc = "refused"
    BY <2>2 DEF Open, Pc
  <2> HIDE DEF new
  <2> QED  BY <2>1, <2>3, RequestKeeps
<1>3. CASE Attempts(r)
  <2> DEFINE pc == IF \E row \in rows : recent(row, r) THEN "refused" ELSE "insert"
             seen == {row.by : row \in rows}
             new == [req[r] EXCEPT !.pc = pc, !.attempts = seen]
  <2>1. req[r].pc = "attempts" /\ req' = [req EXCEPT ![r] = new] /\ UNCHANGED <<now, features, rows>>
    BY <1>3 DEF Attempts
  <2>2. req[r] \in Open
    BY <1>0, <2>1, TakenUp
  <2>3. seen \subseteq Request /\ \A row \in rows : row \in Row
    BY <1>0 DEF FaucetTypes, Row
  <2>4. pc \in {"refused", "insert"}
    OBVIOUS
  <2>5. /\ new \in Open /\ new.pc = pc /\ new.attempts = seen /\ new.addr = req[r].addr
        /\ new.ip_addr = req[r].ip_addr /\ new.is_fly_staker = req[r].is_fly_staker
    <3> HIDE DEF pc, seen
    <3> QED  BY <2>2, <2>3, <2>4 DEF Open, Pc
  <2>6. new.pc = "insert" =>
            \A row \in rows : Same(row, new) => row.updated_by + Window <= now
    <3> SUFFICES ASSUME pc = "insert", NEW row \in rows, Same(row, new)
                 PROVE  row.updated_by + Window <= now
      BY <2>5
    <3>1. ~recent(row, r)
      OBVIOUS
    <3>2. row.updated_by \in Nat /\ now \in Nat
      BY <1>0, <2>3 DEF FaucetTypes, Row
    <3> QED  BY <2>5, <3>1, <3>2, FaucetAssumption DEF recent, Same
  <2>7. "faucet enabled" \in features /\ new.addr \in ValidWallet
        /\ ("faucet stakers only" \in features => new.is_fly_staker)
    BY <1>0, <2>1, <2>5 DEF PassedTurnstile, PassedStaker
  <2>8. \A x \in new.attempts : \E row \in rows : row.by = x
    BY <2>5
  <2> HIDE DEF new, pc
  <2> QED  BY <2>1, <2>4, <2>5, <2>6, <2>7, <2>8, RequestKeeps
<1>4. ASSUME NEW success \in BOOLEAN, VerifyTurnstile(r, success) PROVE FaucetInv'
  <2> DEFINE pc == IF success /\ "faucet enabled" \in features /\ req[r].addr \in ValidWallet
                   THEN "staker" ELSE "refused"
             new == [req[r] EXCEPT !.pc = pc]
  <2>1. req[r].pc = "turnstile" /\ req' = [req EXCEPT ![r] = new] /\ UNCHANGED <<now, features, rows>>
    BY <1>4 DEF VerifyTurnstile, Goto
  <2>2. req[r] \in Open
    BY <1>0, <2>1, TakenUp
  <2>3. pc \in {"refused", "staker"}
        /\ (pc = "staker" => "faucet enabled" \in features /\ req[r].addr \in ValidWallet)
    OBVIOUS
  <2> HIDE DEF pc
  <2>4. new \in Open /\ new.pc = pc /\ new.addr = req[r].addr
    BY <2>2, <2>3 DEF Open, Pc
  <2> HIDE DEF new
  <2> QED  BY <2>1, <2>3, <2>4, RequestKeeps
<1>5. ASSUME NEW staker \in BOOLEAN, IsUserStaker(r, staker) PROVE FaucetInv'
  <2> DEFINE pc == IF "faucet stakers only" \in features /\ ~staker THEN "refused" ELSE "attempts"
             new == [req[r] EXCEPT !.pc = pc, !.is_fly_staker = staker]
  <2>1. req[r].pc = "staker" /\ req' = [req EXCEPT ![r] = new] /\ UNCHANGED <<now, features, rows>>
    BY <1>5 DEF IsUserStaker
  <2>2. req[r] \in Open
    BY <1>0, <2>1, TakenUp
  <2>3. pc \in {"refused", "attempts"} /\ ((pc = "attempts" /\ "faucet stakers only" \in features) => staker)
    OBVIOUS
  <2> HIDE DEF pc
  <2>4. new \in Open /\ new.pc = pc /\ new.addr = req[r].addr /\ new.is_fly_staker = staker
    BY <2>2, <2>3 DEF Open, Pc
  <2>5. "faucet enabled" \in features /\ req[r].addr \in ValidWallet
    BY <1>0, <2>1 DEF PassedTurnstile
  <2> HIDE DEF new
  <2> QED  BY <2>1, <2>3, <2>4, <2>5, RequestKeeps
<1> QED  BY <1>1, <1>2, <1>3, <1>4, <1>5

\* The INSERT: the new row is nobody's that another request has seen, and all
\* rows like it that its own request saw are older than the window.
LEMMA CreateKeeps == ASSUME FaucetInv, NEW r \in Request, Create(r) PROVE FaucetInv'
<1> DEFINE new == [by |-> r, addr |-> req[r].addr, ip_addr |-> req[r].ip_addr,
                   updated_by |-> now, is_fly_staker |-> req[r].is_fly_staker]
           after == [req[r] EXCEPT !.pc = "served"]
<1>0. FaucetTypes /\ req \in [Request -> {Idle} \cup Open] /\ now \in Nat
      /\ \A row \in rows : row \in Row /\ row.updated_by \in Nat
  BY DEF FaucetInv, FaucetTypes, Row
<1>1. req[r].pc = "insert" /\ req' = [req EXCEPT ![r] = after] /\ rows' = rows \cup {new}
      /\ UNCHANGED <<now, features>>
  BY DEF Create, Goto
<1>2. req[r] \in Open
  BY <1>0, <1>1, TakenUp
<1>3. /\ after \in Open /\ after.pc = "served" /\ after.addr = req[r].addr
      /\ after.ip_addr = req[r].ip_addr /\ after.attempts = req[r].attempts
      /\ after.is_fly_staker = req[r].is_fly_staker
  BY <1>2 DEF Open, Pc
<1>4. /\ new \in Row /\ new.by = r /\ new.addr = req[r].addr /\ new.ip_addr = req[r].ip_addr
      /\ new.updated_by = now /\ new.is_fly_staker = req[r].is_fly_staker
  BY <1>0, <1>2 DEF Open, Row
<1> HIDE DEF new, after
<1>5. req'[r] = after /\ \A q \in Request \ {r} : req'[q] = req[q]
  BY <1>0, <1>1
<1>6. \A row \in rows : row.by \in Request /\ row.by # r /\ req'[row.by] = req[row.by]
  BY <1>0, <1>1, <1>5 DEF FaucetInv, Row, RowsAreServed
<1>7. FaucetTypes'
  BY <1>0, <1>1, <1>3, <1>4 DEF FaucetTypes
<1>8. \A q \in Request : PassedTurnstile(q)' /\ PassedStaker(q)'
  <2> SUFFICES ASSUME NEW q \in Request PROVE PassedTurnstile(q)' /\ PassedStaker(q)'
    OBVIOUS
  <2>1. CASE q = r
    BY <1>1, <1>3, <1>5, <2>1 DEF FaucetInv, PassedTurnstile, PassedStaker
  <2>2. CASE q # r
    BY <1>1, <1>5, <2>2 DEF FaucetInv, PassedTurnstile, PassedStaker
  <2> QED  BY <2>1, <2>2
<1>9. RowsAreServed'
  <2> SUFFICES ASSUME NEW row \in rows'
               PROVE  LET q == req'[row.by]
                      IN  /\ q.pc = "served" /\ row.addr = q.addr /\ row.ip_addr = q.ip_addr
                          /\ row.is_fly_staker = q.is_fly_staker
                          /\ row.updated_by <= now'
    BY DEF RowsAreServed
  <2>1. CASE row = new
    BY <1>0, <1>1, <1>3, <1>4, <1>5, <2>1
  <2>2. CASE row \in rows
    BY <1>1, <1>6, <2>2 DEF FaucetInv, RowsAreServed
  <2> QED  BY <1>1, <2>1, <2>2
<1>10. ServedHaveRows'
  BY <1>1, <1>4, <1>5 DEF FaucetInv, ServedHaveRows
<1>11. SawRows'
  <2> SUFFICES ASSUME NEW q \in Request, req'[q].pc \in {"insert", "served"},
                      NEW x \in req'[q].attempts
               PROVE  \E row \in rows' : row.by = x
    BY DEF SawRows
  <2>1. req[q].pc \in {"insert", "served"} /\ x \in req[q].attempts
    BY <1>1, <1>3, <1>5
  <2> QED  BY <1>1, <2>1 DEF FaucetInv, SawRows
<1>12. \A q \in Request : req[q].pc \in {"insert", "served"} => r \notin req[q].attempts
  BY <1>6 DEF FaucetInv, SawRows
<1>13. SawOld'
  <2> SUFFICES ASSUME NEW q \in Request, req'[q].pc = "insert", NEW row \in rows',
                      row.by \in req'[q].attempts, Same(row, req'[q])
               PROVE  row.updated_by + Window <= now
    BY <1>1 DEF SawOld, Same
  <2>1. q # r /\ req'[q] = req[q]
    BY <1>3, <1>5
  <2>2. row \in rows
    BY <1>1, <1>4, <1>12, <2>1
  <2> QED  BY <2>1, <2>2 DEF FaucetInv, SawOld
<1>14. DoublesOverlap'
  <2> SUFFICES ASSUME NEW a \in rows', NEW b \in rows', a # b, Same(a, b),
                      a.updated_by <= b.updated_by, b.updated_by < a.updated_by + Window,
                      a.by \in req'[b.by].attempts
               PROVE  FALSE
    BY DEF DoublesOverlap, Same
  <2>1. CASE a \in rows /\ b \in rows
    BY <1>6, <2>1 DEF FaucetInv, DoublesOverlap
  <2>2. CASE a = new /\ b \in rows
    BY <1>4, <1>6, <1>12, <2>2 DEF FaucetInv, RowsAreServed
  <2>3. CASE a \in rows /\ b = new
    <3>1. a.by \in req[r].attempts /\ Same(a, req[r])
      BY <1>3, <1>4, <1>5, <2>3 DEF Same
    <3>2. a.updated_by + Window <= now
      BY <1>1, <2>3, <3>1 DEF FaucetInv, SawOld
    <3> QED  BY <1>0, <1>4, <2>3, <3>2, FaucetAssumption
  <2> QED  BY <1>1, <2>1, <2>2, <2>3
<1> QED  BY <1>7, <1>8, <1>9, <1>10, <1>11, <1>13, <1>14 DEF FaucetInv

\* Every step keeps the invariant.
LEMMA FaucetNext == FaucetInv /\ [Next]_vars => FaucetInv'
<1> SUFFICES ASSUME FaucetInv, [Next]_vars PROVE FaucetInv'
  OBVIOUS
<1>1. CASE UNCHANGED vars
  BY <1>1 DEF vars, FaucetInv, FaucetTypes, PassedTurnstile, PassedStaker, RowsAreServed,
              ServedHaveRows, SawRows, SawOld, DoublesOverlap, Same
<1>2. CASE Tick
  BY <1>2, TickKeeps
<1>3. ASSUME NEW r \in Request,
             \/ \E wallet \in Wallet, address \in Address : RequestTokens(r, wallet, address)
             \/ Step(r)
      PROVE  FaucetInv'
  BY <1>3, AskKeeps, CreateKeeps DEF Step
<1> QED  BY <1>1, <1>2, <1>3 DEF Next

\* The invariant holds in every state of the service.
LEMMA FaucetInvariant == Spec => []FaucetInv
BY FaucetInit, FaucetNext, PTL DEF Spec

-----------------------------------------------------------------------------
\* Whatever the services answer and however requests interleave, a row of
\* faucet_requests is that of a request for a valid wallet while the faucet was
\* enabled, of a staker where only stakers are served, and exactly the requests
\* with a row were told of success.
THEOREM FaucetServesEligible == Spec => []OnlyEligible
<1>1. FaucetInv => OnlyEligible
  <2> SUFFICES ASSUME FaucetInv PROVE OnlyEligible
    OBVIOUS
  <2>1. \A r \in Request : req[r].pc \in Pc
    BY DEF FaucetInv, FaucetTypes, Open, Idle, Pc
  <2>2. ASSUME NEW row \in rows
        PROVE  /\ row.addr \in ValidWallet /\ row.ip_addr \in Address
               /\ row.updated_by \in 0 .. now /\ "faucet enabled" \in features
               /\ "faucet stakers only" \in features => row.is_fly_staker
    <3>1. row \in Row /\ row.by \in Request /\ now \in Nat
      BY DEF FaucetInv, FaucetTypes, Row
    <3>2. /\ req[row.by].pc = "served" /\ row.addr = req[row.by].addr
          /\ row.is_fly_staker = req[row.by].is_fly_staker /\ row.updated_by <= now
      BY DEF FaucetInv, RowsAreServed
    <3>3. row.ip_addr \in Address /\ row.updated_by \in 0 .. now
      BY <3>1, <3>2 DEF Row
    <3>4. PassedTurnstile(row.by) /\ PassedStaker(row.by)
      BY <3>1 DEF FaucetInv
    <3> QED  BY <3>2, <3>3, <3>4 DEF PassedTurnstile, PassedStaker
  <2>3. \A r \in Request : req[r].pc = "served" <=> \E row \in rows : row.by = r
    BY DEF FaucetInv, RowsAreServed, ServedHaveRows
  <2> QED  BY <2>1, <2>2, <2>3 DEF OnlyEligible
<1> QED  BY <1>1, FaucetInvariant, PTL

\* Two rows for one wallet or one address lie within the window only if the
\* later request had asked the table before the earlier one stored its row:
\* for requests that do not overlap the window is kept, without any constraint
\* on the table.
THEOREM WindowHoldsUnlessOverlap == Spec => []DoublesOverlap
BY FaucetInvariant, PTL DEF FaucetInv

=============================================================================
