----------------------------- MODULE EventMirror -----------------------------
(***************************************************************************)
(* What the ingestor promises to the readers of the database: the event    *)
(* tables mirror the wanted logs of the chain up to a checkpoint.  The     *)
(* checkpoint moves forward in jumps, and with each jump every wanted log  *)
(* of the blocks jumped over appears in the tables once.                   *)
(***************************************************************************)
EXTENDS Naturals

CONSTANTS
    Log,        \* all logs, records with at least the field block
    Wanted      \* the logs that belong into the tables

VARIABLES
    head,       \* the number of the last block of the chain
    chain,      \* the set of logs of all blocks so far
    checkpoint, \* the last mirrored block
    rows        \* for each log, the number of rows that hold it

vars == <<head, chain, checkpoint, rows>>

Init ==
    /\ head = 0 /\ chain = {}
    /\ checkpoint = 0
    /\ rows = [l \in Log |-> 0]

\* The chain grows by a block, empty or not.
NewBlock ==
    /\ head' = head + 1
    /\ chain \subseteq chain'
    /\ \A l \in chain' \ chain : l \in Log /\ l.block = head + 1
    /\ UNCHANGED <<checkpoint, rows>>

\* The wanted logs of the blocks after the checkpoint, up to block c.
Ahead(c) == {l \in chain : l \in Wanted /\ checkpoint < l.block /\ l.block <= c}

Mirror(c) ==
    /\ checkpoint' = c
    /\ rows' = [l \in Log |-> rows[l] + (IF l \in Ahead(c) THEN 1 ELSE 0)]
    /\ UNCHANGED <<head, chain>>

Next == NewBlock \/ \E c \in checkpoint + 1 .. head : Mirror(c)

Spec == Init /\ [][Next]_vars

=============================================================================
