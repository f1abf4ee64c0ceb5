----------------------------- MODULE MCIngestor -----------------------------
(***************************************************************************)
(* Small instances of Ingestor for TLC: a chain of a few blocks, one log   *)
(* of each fate, a bound on the number of crashes.                         *)
(***************************************************************************)
EXTENDS Ingestor

CONSTANTS MaxCrashes, other     \* bound on crashes; an emitter not configured

VARIABLE crashes

mcvars == <<vars, crashes>>

LogKind(t, e, u) == [topic |-> t, emitter |-> e, unpacks |-> u]

\* A log that is stored, one that is skipped, one that cannot be unpacked.
ThreeKinds == {LogKind("Transfer", other, TRUE), LogKind("Campaign", other, TRUE),
               LogKind("Seawater", other, FALSE)}

\* A log that is stored.
OneKind == {LogKind("AccountCreated", thirdwebAddr, TRUE)}

MCInit == Init /\ crashes = 0

MCNext ==
    \/ (Arrive \/ Working) /\ UNCHANGED crashes
    \/ crashes < MaxCrashes /\ Crash /\ crashes' = crashes + 1

\* The process runs on and is started again when it has ended; crashes are
\* finitely many.
MCSpec == MCInit /\ [][MCNext]_mcvars /\ WF_mcvars(Working /\ UNCHANGED crashes)

=============================================================================
