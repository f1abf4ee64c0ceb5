--------------------------- MODULE IngestorProofs ---------------------------
(***************************************************************************)
(* The ingestor stores every log exactly once and implements EventMirror,  *)
(* for every chain, window size and sequence of crashes.                   *)
(***************************************************************************)
EXTENDS Ingestor, TLAPS

\* Block b counts as seen if the open transaction commits once its logs are
\* handled: the checkpoint will not be before b.
Covered(b) == (wasChanged /\ b <= biggestBlockNo) \/ \E m \in logs : b <= m.block

\* The open transaction: its window starts after the checkpoint; what it has
\* fetched and inserted is in the window; it holds, to be handled or inserted,
\* every stored log of the blocks it covers.
TxInv ==
    pc = "tx" =>
        /\ from = checkpoint + 1
        /\ from <= biggestBlockNo
        /\ wasChanged => biggestBlockNo <= head
        /\ ~wasChanged => biggestBlockNo = from /\ inserted = {}
        /\ \A l \in logs : from <= l.block
        /\ \A l \in inserted : /\ accepted(l) /\ from <= l.block
                               /\ l.block <= biggestBlockNo
        /\ \A l \in chain : (accepted(l) /\ from <= l.block /\ Covered(l.block))
                               => l \in logs \cup inserted

ChainInv == \A l \in chain : l.block <= head

IInv ==
    /\ TypeOK
    /\ ChainInv
    /\ pc = "filter" => from = checkpoint + 1
    /\ TxInv
    /\ ExactlyOnce

\* The initial state, with empty tables and no process, satisfies the invariant.
LEMMA InitInv == Init => IInv
<1> SUFFICES ASSUME Init PROVE IInv
  OBVIOUS
<1>1. TypeOK
  <2>1. rows \in [Log -> Nat]
    BY DEF Init
  <2>2. /\ head \in 0 .. MaxBlocks /\ checkpoint \in 0 .. head
        /\ pagination \in Nat /\ from \in Nat /\ to \in Nat /\ biggestBlockNo \in Nat
    BY IngestorAssumption DEF Init
  <2>3. /\ chain \subseteq Log /\ logs \subseteq chain /\ inserted \subseteq chain
        /\ pc \in {"down", "poll", "filter", "tx", "sleep"} /\ wasChanged \in BOOLEAN
    BY DEF Init
  <2> QED BY <2>1, <2>2, <2>3 DEF TypeOK
<1>2. ChainInv /\ TxInv /\ pc # "filter"
  BY DEF Init, ChainInv, TxInv
<1>3. ExactlyOnce
  BY DEF Init, ExactlyOnce
<1> QED BY <1>1, <1>2, <1>3 DEF IInv

\* A new block lies behind everything fetched, so that the transaction in
\* progress covers no block it has not seen.
LEMMA NewBlockInv ==
    ASSUME IInv, NEW n \in 0 .. MaxLogs, NEW ks \in [1 .. n -> Kind], NewBlock(ks)
    PROVE  IInv'
<1> DEFINE new == {[block |-> head + 1, index |-> i, kind |-> ks[i]] : i \in DOMAIN ks}
<1>1. new \subseteq Log /\ \A l \in new : l.block = head + 1
  BY IngestorAssumption DEF NewBlock, IInv, TypeOK, Log, Block
<1>2. chain' = chain \cup new /\ head' = head + 1 /\ head + 1 \in 0 .. MaxBlocks
  BY IngestorAssumption DEF NewBlock, IInv, TypeOK
<1>3. UNCHANGED <<checkpoint, rows, pc, pagination, from, to, logs, inserted,
                  biggestBlockNo, wasChanged>>
  BY DEF NewBlock, database, window, tx
<1> HIDE DEF new
<1>4. TypeOK'
  BY <1>1, <1>2, <1>3, IngestorAssumption DEF IInv, TypeOK
<1>5. \A l \in chain : l \in Log /\ l.block \in Nat
  BY IngestorAssumption DEF IInv, TypeOK, Log, Block
<1>6. ChainInv'
  BY <1>1, <1>2, <1>5 DEF IInv, TypeOK, ChainInv
<1>7. TxInv'
  <2> SUFFICES ASSUME pc = "tx" PROVE TxInv'
    BY <1>3 DEF TxInv
  <2>1. logs \subseteq chain /\ head \in Nat /\ biggestBlockNo \in Nat
    BY DEF IInv, TypeOK
  <2>2. \A l \in new : ~Covered(l.block)
    BY <2>1, <1>1, <1>5 DEF IInv, TxInv, ChainInv, Covered
  <2>3. \A l \in new : ~Covered(l.block)'
    BY <2>2, <1>3 DEF Covered
  <2>4. \A l \in chain : Covered(l.block)' = Covered(l.block)
    BY <1>3 DEF Covered
  <2>5. \A l \in chain' : (accepted(l) /\ from <= l.block /\ Covered(l.block)')
                               => l \in logs \cup inserted
    BY <2>3, <2>4, <1>2 DEF IInv, TxInv
  <2>6. wasChanged => biggestBlockNo <= head + 1
    BY <2>1 DEF IInv, TxInv
  <2> QED BY <2>5, <2>6, <1>2, <1>3 DEF IInv, TxInv, accepted, ofEmitter
<1>8. ExactlyOnce'
  <2>1. \A l \in new : ~(l.block <= checkpoint)
    BY <1>1 DEF IInv, TypeOK
  <2>2. \A l \in Log : (l \in chain' /\ accepted(l) /\ l.block <= checkpoint)
                        = (l \in chain /\ accepted(l) /\ l.block <= checkpoint)
    BY <2>1, <1>2
  <2> QED BY <2>2, <1>3 DEF IInv, ExactlyOnce, accepted, ofEmitter
<1>9. (pc = "filter" => from = checkpoint + 1)'
  BY <1>3 DEF IInv
<1> QED BY <1>4, <1>6, <1>7, <1>8, <1>9 DEF IInv

\* The process handles one log of its window: what it covers does not grow.
LEMMA HandleLogInv ==
    ASSUME IInv, NEW l \in logs, HandleLog(l)
    PROVE  IInv'
<1>1. UNCHANGED <<head, chain, checkpoint, rows, pc, pagination, from, to>>
  BY DEF HandleLog, outside, database, window
<1>2. /\ pc = "tx" /\ l \in chain /\ l \in Log /\ l.block \in Nat
      /\ logs \subseteq chain /\ biggestBlockNo \in Nat /\ from \in Nat /\ head \in Nat
  BY IngestorAssumption DEF HandleLog, IInv, TypeOK, Log, Block
<1>3. biggestBlockNo' = IF biggestBlockNo <= l.block THEN l.block ELSE biggestBlockNo
  BY DEF HandleLog, isBiggerOrEqual
<1>4. wasChanged' = (wasChanged \/ biggestBlockNo <= l.block) /\ wasChanged' \in BOOLEAN
  BY DEF HandleLog, isBiggerOrEqual, IInv, TypeOK
<1>5. logs' = logs \ {l} /\ inserted' = IF accepted(l) THEN inserted \cup {l} ELSE inserted
  BY DEF HandleLog
<1>6. TypeOK'
  BY <1>1, <1>2, <1>3, <1>4, <1>5 DEF IInv, TypeOK
<1>7. TxInv'
  <2>1. from <= l.block /\ l.block <= head
    BY <1>2 DEF IInv, TxInv, ChainInv
  <2>2. wasChanged'
    BY <1>2, <1>4, <2>1 DEF IInv, TxInv
  <2>3. from <= biggestBlockNo' /\ biggestBlockNo' <= head
    BY <1>2, <1>3, <2>1 DEF IInv, TxInv
  <2>4. \A m \in inserted' : accepted(m) /\ from <= m.block /\ m.block <= biggestBlockNo'
    <3>1. \A m \in inserted : accepted(m) /\ from <= m.block /\ m.block <= biggestBlockNo
      BY <1>2 DEF IInv, TxInv
    <3>2. \A m \in inserted : m.block \in Nat
      BY IngestorAssumption DEF IInv, TypeOK, Log, Block
    <3>3. l.block <= biggestBlockNo' /\ biggestBlockNo <= biggestBlockNo'
      BY <1>2, <1>3
    <3>4. \A m \in inserted : m.block <= biggestBlockNo'
      BY <3>1, <3>2, <3>3, <1>2, <1>3
    <3> QED BY <1>5, <3>1, <3>3, <3>4, <2>1
  <2>5. \A m \in chain : Covered(m.block)' => Covered(m.block)
    <3> SUFFICES ASSUME NEW m \in chain, Covered(m.block)' PROVE Covered(m.block)
      OBVIOUS
    <3>1. m.block \in Nat
      BY IngestorAssumption DEF IInv, TypeOK, Log, Block
    <3>2. CASE \E k \in logs' : m.block <= k.block
      BY <3>2, <1>5 DEF Covered
    <3>3. CASE m.block <= biggestBlockNo'
      <4>1. CASE biggestBlockNo <= l.block
        BY <4>1, <3>3, <1>3 DEF Covered
      <4>2. CASE ~(biggestBlockNo <= l.block)
        <5>1. wasChanged
          BY <4>2, <2>1, <1>2 DEF IInv, TxInv
        <5> QED BY <5>1, <4>2, <3>3, <1>3 DEF Covered
      <4> QED BY <4>1, <4>2
    <3> QED BY <3>2, <3>3 DEF Covered
  <2>6. \A m \in chain : (accepted(m) /\ from <= m.block /\ Covered(m.block)')
                            => m \in logs' \cup inserted'
    BY <2>5, <1>2, <1>5 DEF IInv, TxInv
  <2>7. \A m \in logs' : from <= m.block
    BY <1>2, <1>5 DEF IInv, TxInv
  <2>8. from = checkpoint + 1
    BY <1>2 DEF IInv, TxInv
  <2> QED BY <1>1, <2>2, <2>3, <2>4, <2>6, <2>7, <2>8 DEF TxInv, accepted, ofEmitter
<1>8. ChainInv' /\ ExactlyOnce' /\ (pc = "filter" => from = checkpoint + 1)'
  BY <1>1 DEF IInv, ChainInv, ExactlyOnce, accepted, ofEmitter
<1> QED BY <1>6, <1>7, <1>8 DEF IInv

\* The query answers with all logs of the window the chain holds by now.
LEMMA FilterLogsInv ==
    ASSUME IInv, FilterLogs
    PROVE  IInv'
<1>1. UNCHANGED <<head, chain, checkpoint, rows, pagination, from, to>>
  BY DEF FilterLogs, outside, database, window
<1>2. /\ from = checkpoint + 1 /\ from \in Nat /\ to \in Nat
      /\ pc' = "tx" /\ inserted' = {} /\ biggestBlockNo' = from /\ wasChanged' = FALSE
      /\ logs' = {l \in chain : from <= l.block /\ l.block <= to}
  BY DEF FilterLogs, IInv, TypeOK
<1>3. TypeOK'
  BY <1>1, <1>2 DEF IInv, TypeOK
<1>4. TxInv'
  <2>1. \A l \in chain : l.block \in Nat
    BY IngestorAssumption DEF IInv, TypeOK, Log, Block
  <2>2. \A l \in chain : (from <= l.block /\ Covered(l.block)') => l \in logs'
    BY <1>2, <2>1 DEF Covered
  <2> QED BY <1>1, <1>2, <2>2 DEF TxInv
<1>5. ChainInv' /\ ExactlyOnce'
  BY <1>1 DEF IInv, ChainInv, ExactlyOnce, accepted, ofEmitter
<1> QED BY <1>2, <1>3, <1>4, <1>5 DEF IInv

\* The wanted logs between the checkpoint and the block that the transaction
\* saves are exactly the ones it inserted.
LEMMA InsertedIsAhead ==
    ASSUME IInv, Commit, wasChanged
    PROVE  /\ checkpoint < biggestBlockNo /\ biggestBlockNo <= head
           /\ \A l \in Log : l \in inserted <=>
                 /\ l \in chain /\ accepted(l)
                 /\ checkpoint < l.block /\ l.block <= biggestBlockNo
<1>1. /\ pc = "tx" /\ logs = {} /\ checkpoint \in Nat /\ biggestBlockNo \in Nat
      /\ inserted \subseteq chain /\ from = checkpoint + 1
      /\ from <= biggestBlockNo /\ biggestBlockNo <= head
  BY DEF Commit, IInv, TypeOK, TxInv
<1>2. ASSUME NEW l \in Log
      PROVE  l \in inserted <=> /\ l \in chain /\ accepted(l)
                                /\ checkpoint < l.block /\ l.block <= biggestBlockNo
  <2>1. l.block \in Nat
    BY IngestorAssumption DEF Log, Block
  <2>2. l \in inserted => /\ l \in chain /\ accepted(l)
                          /\ checkpoint < l.block /\ l.block <= biggestBlockNo
    BY <1>1, <2>1 DEF IInv, TxInv
  <2>3. ASSUME l \in chain, accepted(l), checkpoint < l.block, l.block <= biggestBlockNo
        PROVE  l \in inserted
    <3>1. from <= l.block /\ Covered(l.block)
      BY <1>1, <2>1, <2>3 DEF Covered
    <3> QED BY <1>1, <2>3, <3>1 DEF IInv, TxInv
  <2> QED BY <2>2, <2>3
<1> QED BY <1>1, <1>2

\* The commit moves the tables and the checkpoint together.
LEMMA CommitInv ==
    ASSUME IInv, Commit
    PROVE  IInv'
<1>1. /\ UNCHANGED <<head, chain, pagination>>
      /\ pc' = "sleep" /\ from' = 0 /\ to' = 0 /\ logs' = {} /\ inserted' = {}
      /\ biggestBlockNo' = 0 /\ wasChanged' = FALSE
  BY DEF Commit, NoWindow, outside
<1>2. /\ rows' = [l \in Log |-> rows[l] + (IF l \in inserted THEN 1 ELSE 0)]
      /\ checkpoint' = IF wasChanged THEN biggestBlockNo ELSE checkpoint
  BY DEF Commit, new_checkpoint
<1>3. checkpoint' \in 0 .. head
  BY <1>2, InsertedIsAhead DEF IInv, TypeOK
<1>4. rows' \in [Log -> Nat]
  BY <1>2 DEF IInv, TypeOK
<1>5. TypeOK'
  BY <1>1, <1>3, <1>4 DEF IInv, TypeOK
<1>6. ChainInv' /\ TxInv' /\ pc' # "filter"
  BY <1>1 DEF IInv, ChainInv, TxInv
<1>7. ExactlyOnce'
  <2> SUFFICES ASSUME NEW l \in Log
               PROVE  rows'[l] = IF l \in chain /\ accepted(l) /\ l.block <= checkpoint'
                                 THEN 1 ELSE 0
    BY <1>1 DEF ExactlyOnce, accepted, ofEmitter
  <2>1. /\ rows'[l] = rows[l] + (IF l \in inserted THEN 1 ELSE 0)
        /\ rows[l] = IF l \in chain /\ accepted(l) /\ l.block <= checkpoint THEN 1 ELSE 0
        /\ l.block \in Nat /\ checkpoint \in Nat
    BY <1>2, IngestorAssumption DEF IInv, TypeOK, ExactlyOnce, Log, Block
  <2>2. CASE wasChanged
    <3>1. l \in inserted <=> /\ l \in chain /\ accepted(l)
                             /\ checkpoint < l.block /\ l.block <= biggestBlockNo
      BY <2>2, InsertedIsAhead
    <3>2. checkpoint < biggestBlockNo /\ checkpoint' = biggestBlockNo /\ biggestBlockNo \in Nat
      BY <2>2, <1>2, InsertedIsAhead DEF IInv, TypeOK
    <3> QED BY <2>1, <3>1, <3>2
  <2>3. CASE ~wasChanged
    <3>1. inserted = {}
      BY <2>3 DEF Commit, IInv, TxInv
    <3> QED BY <2>1, <2>3, <3>1, <1>2
  <2> QED BY <2>2, <2>3
<1> QED BY <1>5, <1>6, <1>7 DEF IInv

\* A process that ends, by error or crash, leaves the database as it was.
LEMMA ExitInv ==
    ASSUME IInv, Exit
    PROVE  IInv'
<1>1. /\ UNCHANGED <<head, chain, checkpoint, rows>>
      /\ pc' = "down" /\ pagination' = 0 /\ from' = 0 /\ to' = 0 /\ logs' = {}
      /\ inserted' = {} /\ biggestBlockNo' = 0 /\ wasChanged' = FALSE
  BY DEF Exit, NoWindow, outside, database
<1>2. TypeOK'
  BY <1>1 DEF IInv, TypeOK
<1>3. ChainInv' /\ TxInv' /\ ExactlyOnce' /\ pc' # "filter"
  BY <1>1 DEF IInv, ChainInv, TxInv, ExactlyOnce, accepted, ofEmitter
<1> QED BY <1>2, <1>3 DEF IInv

\* Starting, polling and sleeping touch neither the chain nor the database.
LEMMA IdleInv ==
    ASSUME IInv, Start \/ Poll \/ Sleep
    PROVE  IInv'
<1>1. UNCHANGED <<head, chain, checkpoint, rows, logs, inserted, biggestBlockNo, wasChanged>>
  BY DEF Start, Poll, Sleep, outside, database, tx
<1>2. /\ pc' \in {"poll", "filter"} /\ pagination' \in Nat /\ from' \in Nat /\ to' \in Nat
      /\ pc' = "filter" => from' = checkpoint + 1
  <2>1. CASE Start
    BY <2>1, IngestorAssumption DEF Start, window, IInv, TypeOK
  <2>2. CASE Poll
    BY <2>2 DEF Poll, first_block, last_block, IInv, TypeOK
  <2>3. CASE Sleep
    BY <2>3 DEF Sleep, window, IInv, TypeOK
  <2> QED BY <2>1, <2>2, <2>3
<1>3. TypeOK' /\ TxInv'
  BY <1>1, <1>2 DEF IInv, TypeOK, TxInv
<1>4. ChainInv' /\ ExactlyOnce'
  BY <1>1 DEF IInv, ChainInv, ExactlyOnce, accepted, ofEmitter
<1> QED BY <1>1, <1>2, <1>3, <1>4 DEF IInv

\* Every step, of the chain, the process or a crash, keeps the invariant.
LEMMA NextInv == IInv /\ [Next]_vars => IInv'
<1> SUFFICES ASSUME IInv, [Next]_vars PROVE IInv'
  OBVIOUS
<1>1. CASE Arrive
  BY <1>1, NewBlockInv DEF Arrive
<1>2. CASE Start \/ Poll \/ Sleep
  BY <1>2, IdleInv
<1>3. CASE FilterLogs
  BY <1>3, FilterLogsInv
<1>4. CASE \E l \in logs : HandleLog(l)
  BY <1>4, HandleLogInv
<1>5. CASE Commit
  BY <1>5, CommitInv
<1>6. CASE Crash \/ \E l \in logs : UnpackFails(l)
  BY <1>6, ExitInv DEF Crash, UnpackFails
<1>7. CASE UNCHANGED vars
  <2>1. UNCHANGED <<head, chain, checkpoint, rows, pc, pagination, from, to, logs,
                    inserted, biggestBlockNo, wasChanged>>
    BY <1>7 DEF vars, outside, database, window, tx
  <2>2. TypeOK' /\ ChainInv' /\ ExactlyOnce' /\ (pc = "filter" => from = checkpoint + 1)'
    BY <2>1 DEF IInv, TypeOK, ChainInv, ExactlyOnce, accepted, ofEmitter
  <2>3. TxInv'
    BY <2>1 DEF IInv, TxInv, Covered, accepted, ofEmitter
  <2> QED BY <2>2, <2>3 DEF IInv
<1> QED BY <1>1, <1>2, <1>3, <1>4, <1>5, <1>6, <1>7 DEF Next, Working

\* The variables of the ingestor keep their types: the checkpoint is never
\* ahead of the chain.
THEOREM IngestorTypeOK == Spec => []TypeOK
<1>1. IInv => TypeOK
  BY DEF IInv
<1> QED BY <1>1, InitInv, NextInv, PTL DEF Spec

\* Whatever the chain, the windows and the crashes, every log that belongs into
\* the event tables is there exactly once when the checkpoint has passed its
\* block, and not before (IngestBlockRange).
THEOREM StoredExactlyOnce == Spec => []ExactlyOnce
<1>1. IInv => ExactlyOnce
  BY DEF IInv
<1> QED BY <1>1, InitInv, NextInv, PTL DEF Spec

\* The ingestor implements the mirror: every step is a new block, a jump of the
\* checkpoint with exactly the rows of the blocks jumped over, or invisible.
THEOREM IngestorImplementsMirror == Spec => MirrorsChain
<1>1. Init => Mirror!Init
  BY DEF Init, Mirror!Init
<1>2. IInv /\ [Next]_vars => [Mirror!Next]_(Mirror!vars)
  <2> SUFFICES ASSUME IInv, [Next]_vars PROVE [Mirror!Next]_(Mirror!vars)
    OBVIOUS
  <2>1. CASE Arrive
    <3>0. PICK n \in 0 .. MaxLogs : \E ks \in [1 .. n -> Kind] : NewBlock(ks)
      BY <2>1 DEF Arrive
    <3>1. PICK ks \in [1 .. n -> Kind] : NewBlock(ks)
      BY <3>0
    <3>2. \A l \in chain' \ chain : l \in Log /\ l.block = head + 1
      BY <3>1, IngestorAssumption DEF NewBlock, IInv, TypeOK, Log, Block
    <3>3. Mirror!NewBlock
      BY <3>1, <3>2 DEF NewBlock, database, Mirror!NewBlock
    <3> QED BY <3>3 DEF Mirror!Next
  <2>2. CASE Commit /\ wasChanged
    <3>1. \A l \in Log : l \in inserted <=> l \in Mirror!Ahead(biggestBlockNo)
      BY <2>2, InsertedIsAhead DEF Mirror!Ahead
    <3>2. rows' = [l \in Log |-> rows[l] + (IF l \in Mirror!Ahead(biggestBlockNo) THEN 1 ELSE 0)]
      BY <2>2, <3>1 DEF Commit
    <3>3. Mirror!Mirror(biggestBlockNo)
      BY <2>2, <3>2 DEF Commit, new_checkpoint, outside, Mirror!Mirror
    <3>4. biggestBlockNo \in checkpoint + 1 .. head
      BY <2>2, InsertedIsAhead DEF IInv, TypeOK
    <3> QED BY <3>3, <3>4 DEF Mirror!Next
  <2>3. CASE Commit /\ ~wasChanged
    <3>1. inserted = {}
      BY <2>3 DEF Commit, IInv, TxInv
    <3>2. rows' = rows
      BY <2>3, <3>1 DEF Commit, IInv, TypeOK
    <3> QED BY <2>3, <3>2 DEF Commit, outside, Mirror!vars
  <2>4. CASE Start \/ Poll \/ FilterLogs \/ Sleep \/ \E l \in logs : HandleLog(l)
    BY <2>4 DEF Start, Poll, FilterLogs, Sleep, HandleLog, outside, database, Mirror!vars
  <2>5. CASE Crash \/ \E l \in logs : UnpackFails(l)
    BY <2>5 DEF Crash, UnpackFails, Exit, outside, database, Mirror!vars
  <2>6. CASE UNCHANGED vars
    BY <2>6 DEF vars, outside, database, Mirror!vars
  <2> QED BY <2>1, <2>2, <2>3, <2>4, <2>5, <2>6 DEF Next, Working
<1> QED BY <1>1, <1>2, InitInv, NextInv, PTL DEF Spec, MirrorsChain, Mirror!Spec

=============================================================================
