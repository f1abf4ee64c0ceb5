------------------------------- MODULE Faucet --------------------------------
(***************************************************************************)
(* Requests for tokens at the faucet service.                              *)
(*                                                                         *)
(* RequestTokens runs concurrently in any number of processes.  It asks    *)
(* two outside services, then the table whether the wallet or the address  *)
(* of the caller was served within the window, and stores a row: two       *)
(* statements, and no constraint on the table.  Time is in hours.          *)
(***************************************************************************)
EXTENDS Integers, FiniteSets

CONSTANTS Request,      \* the requests that are ever made
          Wallet,       \* what callers name as their wallet, in lower case
          ValidWallet,  \* the ones that IsValidWallet accepts
          Address,      \* the first entries of X-Forwarded-For
          Window,       \* the five hours
          MaxTime       \* bound: the clock

ASSUME FaucetAssumption ==
    /\ ValidWallet \subseteq Wallet
    /\ Window \in Nat \ {0} /\ MaxTime \in Nat

VARIABLES now,
          features,   \* the features of the process: "faucet enabled", "faucet stakers only"
          rows,       \* faucet_requests: [by, addr, ip_addr, updated_by, is_fly_staker]
          req         \* by request: where it is, and for whom

vars == <<now, features, rows, req>>
-----------------------------------------------------------------------------
Pc == {"idle", "turnstile", "staker", "attempts", "insert", "served", "refused"}
Idle == [pc |-> "idle"]

Init ==
    /\ now = 0
    /\ features \in SUBSET {"faucet enabled", "faucet stakers only"}
    /\ rows = {}
    /\ req = [r \in Request |-> Idle]

Tick ==
    /\ now < MaxTime
    /\ now' = now + 1
    /\ UNCHANGED <<features, rows, req>>

Goto(r, pc) == req' = [req EXCEPT ![r].pc = pc]

RequestTokens(r, wallet, address) ==
    /\ req[r].pc = "idle"
    /\ req' = [req EXCEPT ![r] = [pc |-> "turnstile", addr |-> wallet, ip_addr |-> address,
                                  is_fly_staker |-> FALSE, attempts |-> {}]]
    /\ UNCHANGED <<now, features, rows>>

\* The error of a service or of the database.
Fail(r) ==
    /\ req[r].pc \in {"turnstile", "staker", "attempts", "insert"}
    /\ Goto(r, "refused")
    /\ UNCHANGED <<now, features, rows>>

\* Cloudflare answers; then the feature and the wallet are looked at.
VerifyTurnstile(r, success) ==
    /\ req[r].pc = "turnstile"
    /\ Goto(r, IF success /\ "faucet enabled" \in features /\ req[r].addr \in ValidWallet
               THEN "staker" ELSE "refused")
    /\ UNCHANGED <<now, features, rows>>

\* Mutant of IsUserStaker: the mode for stakers only is not looked at.
IsUserStakerAnyMode(r, staker) ==
    /\ req[r].pc = "staker"
    /\ req' = [req EXCEPT ![r].pc = "attempts", ![r].is_fly_staker = staker]
    /\ UNCHANGED <<now, features, rows>>

\* The moderators graph answers with the points of the wallet.
IsUserStaker(r, staker) ==
    /\ req[r].pc = "staker"
    /\ req' = [req EXCEPT
        ![r].pc = IF "faucet stakers only" \in features /\ ~staker THEN "refused" ELSE "attempts",
        ![r].is_fly_staker = staker]
    /\ UNCHANGED <<now, features, rows>>

\* Mutant of recent: both the wallet and the address must be the same.
recent_both(row, r) ==
    /\ row.addr = req[r].addr /\ row.ip_addr = req[r].ip_addr
    /\ row.updated_by + Window > now

recent(row, r) ==
    /\ row.addr = req[r].addr \/ row.ip_addr = req[r].ip_addr
    /\ row.updated_by + Window > now

\* SELECT: a row in the window refuses the request.
Attempts(r) ==
    /\ req[r].pc = "attempts"
    /\ req' = [req EXCEPT
        ![r].pc = IF \E row \in rows : recent(row, r) THEN "refused" ELSE "insert",
        ![r].attempts = {row.by : row \in rows}]
    /\ UNCHANGED <<now, features, rows>>

\* INSERT
Create(r) ==
    /\ req[r].pc = "insert"
    /\ rows' = rows \cup {[by |-> r, addr |-> req[r].addr, ip_addr |-> req[r].ip_addr,
                           updated_by |-> now, is_fly_staker |-> req[r].is_fly_staker]}
    /\ Goto(r, "served")
    /\ UNCHANGED <<now, features>>

Step(r) ==
    \/ Fail(r) \/ Attempts(r) \/ Create(r)
    \/ \E success \in BOOLEAN : VerifyTurnstile(r, success)
    \/ \E staker \in BOOLEAN : IsUserStaker(r, staker)

Next ==
    \/ Tick
    \/ \E r \in Request :
        \/ \E wallet \in Wallet, address \in Address : RequestTokens(r, wallet, address)
        \/ Step(r)

Spec == Init /\ [][Next]_vars
-----------------------------------------------------------------------------
\* The table holds only requests that the faucet may serve: it was enabled, the
\* wallet is valid and, in the mode for stakers only, a staker's; and only such
\* whose caller was told so.
OnlyEligible ==
    /\ \A r \in Request : req[r].pc \in Pc
    /\ \A row \in rows :
        /\ row.addr \in ValidWallet /\ row.ip_addr \in Address /\ row.updated_by \in 0..now
        /\ "faucet enabled" \in features
        /\ "faucet stakers only" \in features => row.is_fly_staker
    /\ \A r \in Request : req[r].pc = "served" <=> \E row \in rows : row.by = r

Same(a, b) == a.addr = b.addr \/ a.ip_addr = b.ip_addr

\* A wallet or an address is served a second time within the window only if the
\* two requests overlapped: each asked the table before the other stored its
\* row.  What asks after a row was stored is refused until the window is over.
DoublesOverlap ==
    \A a, b \in rows :
        (a # b /\ Same(a, b) /\ a.updated_by <= b.updated_by /\ b.updated_by < a.updated_by + Window)
            => a.by \notin req[b.by].attempts

\* A request is marked as serviced "so we don't double up": no wallet and no
\* address has two rows within the window.
NoDoubles ==
    \A a, b \in rows :
        (a # b /\ Same(a, b) /\ a.updated_by <= b.updated_by) =>
            b.updated_by >= a.updated_by + Window
=============================================================================
