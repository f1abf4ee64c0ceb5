------------------------------ MODULE Ingestor ------------------------------
(***************************************************************************)
(* cmd/ingestor.logs.ethereum: one process that polls the logs of a window *)
(* of blocks behind its checkpoint from an RPC node and writes them, with  *)
(* the new checkpoint, in one database transaction.  The chain grows while *)
(* it works; the process may die at any point and is started again.        *)
(***************************************************************************)
EXTENDS Integers

CONSTANTS
    seawaterAddr, thirdwebAddr, leoAddr,    \* the configured contracts
    Kind,           \* logs a block may hold: [topic, emitter, unpacks] records
    PaginationMin,  \* DefaultPaginationBlockCountMin
    PaginationMax,  \* DefaultPaginationBlockCountMax
    MaxBlocks,      \* bound: blocks of the chain
    MaxLogs,        \* bound: logs that match FilterTopics in one block
    MaxGap          \* bound: blocks in a row without such a log

Block == 1 .. MaxBlocks
Log   == [block : Block, index : 1 .. MaxLogs, kind : Kind]

ASSUME IngestorAssumption ==
    /\ MaxBlocks \in Nat /\ MaxLogs \in Nat /\ MaxGap \in Nat
    /\ PaginationMin \in Nat \ {0} /\ PaginationMax \in Nat
    /\ PaginationMin < PaginationMax

VARIABLES
    head, chain,        \* the chain: its last block and all its logs
    checkpoint, rows,   \* the database: the checkpoint, how often each log is stored
    pc,                 \* where the process is
    pagination,         \* ingestorPagination
    from, to,           \* the window being ingested
    logs,               \* the logs of the window still to be handled
    inserted,           \* the logs inserted by the open transaction
    biggestBlockNo, wasChanged

outside  == <<head, chain>>
database == <<checkpoint, rows>>
window   == <<from, to>>
tx       == <<logs, inserted, biggestBlockNo, wasChanged>>
vars     == <<outside, database, pc, pagination, window, tx>>

Init ==
    /\ head = 0 /\ chain = {}
    /\ checkpoint = 0 /\ rows = [l \in Log |-> 0]
    /\ pc = "down" /\ pagination = 0 /\ from = 0 /\ to = 0
    /\ logs = {} /\ inserted = {} /\ biggestBlockNo = 0 /\ wasChanged = FALSE

-----------------------------------------------------------------------------
(* The chain *)

LastLogged(b) == b = 0 \/ \E l \in chain : l.block = b

\* A block arrives with the logs ks that match the filter.
NewBlock(ks) ==
    /\ head < MaxBlocks
    /\ DOMAIN ks = {} => \E b \in (head - MaxGap) + 1 .. head : LastLogged(b)
    /\ head' = head + 1
    /\ chain' = chain \cup
           {[block |-> head + 1, index |-> i, kind |-> ks[i]] : i \in DOMAIN ks}
    /\ UNCHANGED <<database, pc, pagination, window, tx>>

-----------------------------------------------------------------------------
(* handleLogCallback *)

\* Whose log a topic must be; a Transfer may come from any token.
ofEmitter(kind) ==
    CASE kind.topic = "Transfer"       -> kind.emitter
      [] kind.topic = "AccountCreated" -> thirdwebAddr
      [] kind.topic = "Campaign"       -> leoAddr
      [] OTHER                         -> seawaterAddr

\* The log is inserted; one from another emitter is skipped.
accepted(l) == l.kind.unpacks /\ l.kind.emitter = ofEmitter(l.kind)

-----------------------------------------------------------------------------
(* The process *)

\* main picks the window size for the lifetime of the process.
Start ==
    /\ pc = "down"
    /\ pagination' \in PaginationMin .. PaginationMax - 1
    /\ pc' = "poll"
    /\ UNCHANGED <<outside, database, window, tx>>

\* Mutant of first_block: the block of the checkpoint is fetched again.
first_block_again(c) == c

\* The first block of the next window, after checkpoint c.
first_block(c) == c + 1

\* Mutant of last_block: the window is counted from its first block.
last_block_short(c) == c + pagination - 1

\* The last block of the next window.
last_block(c) == c + pagination

\* IngestPolling reads the checkpoint and fixes the window.
Poll ==
    /\ pc = "poll"
    /\ from' = first_block(checkpoint)
    /\ to' = last_block(checkpoint)
    /\ pc' = "filter"
    /\ UNCHANGED <<outside, database, pagination, tx>>

\* FilterLogs answers with the window's logs on the chain as it is now, and
\* the transaction begins.
FilterLogs ==
    /\ pc = "filter"
    /\ logs' = {l \in chain : from <= l.block /\ l.block <= to}
    /\ inserted' = {}
    /\ biggestBlockNo' = from
    /\ wasChanged' = FALSE
    /\ pc' = "tx"
    /\ UNCHANGED <<outside, database, pagination, window>>

\* Mutant of isBiggerOrEqual: only a later block moves the checkpoint.
isBigger(l) == biggestBlockNo < l.block

isBiggerOrEqual(l) == biggestBlockNo <= l.block

\* One round of the loop over the logs; the result depends on no order.
HandleLog(l) ==
    /\ pc = "tx" /\ l \in logs
    /\ l.kind.unpacks
    /\ inserted' = IF accepted(l) THEN inserted \cup {l} ELSE inserted
    /\ biggestBlockNo' = IF isBiggerOrEqual(l) THEN l.block ELSE biggestBlockNo
    /\ wasChanged' = (wasChanged \/ isBiggerOrEqual(l))
    /\ logs' = logs \ {l}
    /\ UNCHANGED <<outside, database, pc, pagination, window>>

\* The locals of IngestBlockRange go with its return.
NoWindow ==
    /\ from' = 0 /\ to' = 0
    /\ logs' = {} /\ inserted' = {} /\ biggestBlockNo' = 0 /\ wasChanged' = FALSE

\* Mutant of new_checkpoint: the whole window counts as seen.
window_end == to

\* What updateCheckpoint saves.
new_checkpoint == biggestBlockNo

\* The transaction commits the rows and, if a log was seen, the checkpoint.
Commit ==
    /\ pc = "tx" /\ logs = {}
    /\ rows' = [l \in Log |-> rows[l] + (IF l \in inserted THEN 1 ELSE 0)]
    /\ checkpoint' = IF wasChanged THEN new_checkpoint ELSE checkpoint
    /\ pc' = "sleep"
    /\ NoWindow
    /\ UNCHANGED <<outside, pagination>>

\* The heartbeat and the wait between two polls.
Sleep ==
    /\ pc = "sleep"
    /\ pc' = "poll"
    /\ UNCHANGED <<outside, database, pagination, window, tx>>

\* The process ends: all it held is gone and an open transaction rolls back.
Exit ==
    /\ pc' = "down" /\ pagination' = 0
    /\ NoWindow
    /\ UNCHANGED <<outside, database>>

\* Exitf after an error of the node or the database, or any other crash.
Crash == pc # "down" /\ Exit

\* A log that cannot be unpacked, from any emitter, ends the process.
UnpackFails(l) == pc = "tx" /\ l \in logs /\ ~l.kind.unpacks /\ Exit

-----------------------------------------------------------------------------
Arrive  == \E n \in 0 .. MaxLogs : \E ks \in [1 .. n -> Kind] : NewBlock(ks)
Working == \/ Start \/ Poll \/ FilterLogs \/ Commit \/ Sleep
           \/ \E l \in logs : HandleLog(l) \/ UnpackFails(l)

Next == Arrive \/ Working \/ Crash

Spec == Init /\ [][Next]_vars

-----------------------------------------------------------------------------
(* Properties *)

TypeOK ==
    /\ head \in 0 .. MaxBlocks /\ chain \subseteq Log
    /\ checkpoint \in 0 .. head /\ rows \in [Log -> Nat]
    /\ pc \in {"down", "poll", "filter", "tx", "sleep"}
    /\ pagination \in Nat /\ from \in Nat /\ to \in Nat
    /\ logs \subseteq chain /\ inserted \subseteq chain
    /\ biggestBlockNo \in Nat /\ wasChanged \in BOOLEAN

\* The event tables hold each log that belongs there exactly once if its block
\* is not after the checkpoint, and no log after it: whatever blocks arrive
\* between the query and the commit and wherever the process dies.
ExactlyOnce ==
    \A l \in Log :
        rows[l] = IF l \in chain /\ accepted(l) /\ l.block <= checkpoint THEN 1 ELSE 0

\* The ingestor implements the mirror: the tables and the checkpoint change
\* together, and only forwards.
Mirror == INSTANCE EventMirror WITH Wanted <- {l \in Log : accepted(l)}
MirrorsChain == Mirror!Spec

\* Every log of every block reaches the tables or is skipped, unless a log
\* that cannot be unpacked is on the chain.
CatchesUp ==
    \A b \in Block :
        head >= b ~> \/ \A l \in chain : (l.block <= b /\ accepted(l)) => rows[l] = 1
                     \/ \E l \in chain : ~l.kind.unpacks

=============================================================================
