------------------------------ MODULE MCFaucet -------------------------------
(***************************************************************************)
(* Three requests of two wallets and a string that is none, from two       *)
(* addresses, over a window and an hour more.                              *)
(***************************************************************************)
EXTENDS Faucet, TLC

CONSTANTS r1, r2, r3, w1, w2, bad, home, office

\* The requests are alike.
Requests == Permutations(Request)
=============================================================================
