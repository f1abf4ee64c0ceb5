---------------------------- MODULE MCPositions ------------------------------
(***************************************************************************)
(* Three positions over two instants of a second and one of the next, so   *)
(* that rows tie within a transaction and within a second.                 *)
(***************************************************************************)
EXTENDS Positions

CONSTANTS alice, bob, pool1

MCFirsts == {1, 3, None}
MCAfters == {2, None}

\* A behaviour ends with its walk.
WalkOver == page.by # "none" /\ page.to = None
MCSpec == Init /\ [][~WalkOver /\ Next]_vars /\ WF_vars(Client)
=============================================================================
