---------------------------- MODULE MCTickSearch ----------------------------
(***************************************************************************)
(* TickSearch over 25 ticks with prices three apart, so that every tick    *)
(* has an exact price, prices inside its interval and a neighbour on each  *)
(* side.                                                                   *)
(***************************************************************************)
EXTENDS TickSearch

Ladder == [t \in -12 .. 12 |-> 40 + 3 * t]

=============================================================================
