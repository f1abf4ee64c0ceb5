----------------------------- MODULE MCSnapshot -----------------------------
(***************************************************************************)
(* A small instance of Snapshot for TLC: two full batches and a short one, *)
(* positions with both amounts, with one and with none.                    *)
(***************************************************************************)
EXTENDS Snapshot

SomeAmounts == [r \in Req |-> CASE r = 1 -> <<3, 4>> [] r = 2 -> <<0, 5>>
                               [] r = 3 -> <<0, 0>> [] OTHER -> <<2, 0>>]

=============================================================================
