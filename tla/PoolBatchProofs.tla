--------------------------- MODULE PoolBatchProofs ---------------------------
(***************************************************************************)
(* Proofs about bp_client_pool_batch for any number of items, of pool      *)
(* entries and of competing callers.  The argument: an index is drawn by   *)
(* one worker only, because next_idx moves past it in the same step, so    *)
(* each item has at most one worker (DrawnInv); a worker leaves its item   *)
(* with a result and exits only when no item is left (ItemInv), and join   *)
(* waits for all that started (ThreadInv), so what is left for MarkRest    *)
(* are the items nobody drew, and these exist only without any worker.     *)
(***************************************************************************)
EXTENDS PoolBatch, TLAPS

\* The worker is inside the exchange for the item it drew.
Active(w) == wpc[w] \in {"want", "have", "busy"}

\* An active worker has an item of its own, not sent before the worker posts it;
\* it has an entry only for an item whose arguments pool_txrx has accepted.
DrawnInv ==
    /\ \A w \in Workers : Active(w) => item[w] \in Items /\ item[w] < nextIdx
    /\ \A v, w \in Workers : Active(v) /\ Active(w) /\ item[v] = item[w] => v = w
    /\ \A w \in Workers : wpc[w] \in {"want", "have"} => sent[item[w]] = 0
    /\ \A w \in Workers : wpc[w] \in {"have", "busy"} => Args[item[w]] # "null"
    /\ \A i \in Items : i >= nextIdx => sent[i] = 0
    /\ \A i \in Items : sent[i] <= 1

\* Which workers exist, and what they have seen when they are gone.
ThreadInv ==
    /\ \A w \in Workers : wpc[w] = "none" <=> w > started
    /\ \A w \in Workers : wpc[w] = "exited" => nextIdx > Count
    /\ started = 0 => nextIdx = 1
    /\ main = "idle" => planned = 0 /\ started = 0
    /\ main \in {"create", "join", "mark"} => planned > 0
    /\ main \in {"mark", "done"} => \A w \in Workers : wpc[w] \in {"none", "exited"}

\* The item has its result: it was sent, or its code says that it was not.
Answered(i) ==
    /\ \/ rc[i] \in {"OK", "ERROR"} /\ sent[i] = 1
       \/ rc[i] \in {"NOT_OPEN", "NULL_ARG", "PARAM_RANGE"} \cup NotPosted /\ sent[i] = 0
    /\ rc[i] = "NULL_ARG" <=> Args[i] = "null"

\* Before the end an item is undrawn, with its one worker, or has its result.
ItemInv ==
    main # "done" => \A i \in Items :
        /\ i >= nextIdx => rc[i] = "unset"
        /\ \A w \in Workers : wpc[w] = "busy" /\ item[w] = i => sent[i] = 1
        /\ i < nextIdx => \/ \E w \in Workers : Active(w) /\ item[w] = i
                          \/ Answered(i)

BatchInv == TypeOK /\ DrawnInv /\ ThreadInv /\ ItemInv /\ BatchReported

\* Type correctness of the batch and the pool beneath it.
THEOREM TypeCorrect == Spec => []TypeOK
<1> USE PoolBatchAssumption DEF TypeOK, Items, Workers, Results, NotPosted, poolVars, batchVars
<1>1. Init => TypeOK
  BY DEF Init
<1>2. TypeOK /\ [Next]_vars => TypeOK'
  <2> SUFFICES ASSUME TypeOK, [Next]_vars PROVE TypeOK'
    OBVIOUS
  <2>1. CASE BatchBegin
    BY <2>1 DEF BatchBegin
  <2>2. CASE CreateWorker
    BY <2>2 DEF CreateWorker
  <2>3. CASE CreateEnd \/ Join
    BY <2>3 DEF CreateEnd, Join
  <2>4. CASE MarkRest
    BY <2>4 DEF MarkRest
  <2>5. ASSUME NEW w \in Workers, Draw(w) PROVE TypeOK'
    BY <2>5 DEF Draw
  <2>6. ASSUME NEW w \in Workers, Borrow(w) PROVE TypeOK'
    BY <2>6 DEF Borrow
  <2>12. ASSUME NEW w \in Workers, Post(w) PROVE TypeOK'
    <3>1. \A i \in Items : sent'[i] \in Nat
      <4> TAKE i \in Items
      <4>1. CASE i = item[w]
        BY <2>12, <4>1 DEF Post
      <4>2. CASE i # item[w]
        BY <2>12, <4>2 DEF Post
      <4>3. QED
        BY <4>1, <4>2
    <3>2. sent' \in [Items -> Nat]
      BY <2>12, <3>1 DEF Post
    <3>3. QED
      BY <2>12, <3>2 DEF Post
  <2>7. ASSUME NEW w \in Workers, Served(w) PROVE TypeOK'
    BY ZenonT(40), <2>7 DEF Served
  <2>8. CASE CloseBegin \/ CloseEnd
    BY <2>8 DEF CloseBegin, CloseEnd
  <2>9. ASSUME NEW o \in Others, Other(o) PROVE TypeOK'
    <3>1. CASE OtherCall(o)
      BY <3>1 DEF OtherCall
    <3>2. CASE OtherTake(o) \/ OtherReturn(o)
      BY <3>2 DEF OtherTake, OtherReturn
    <3>3. QED
      BY <2>9, <3>1, <3>2 DEF Other
  <2>10. CASE UNCHANGED vars
    BY <2>10 DEF vars
  <2>11. QED
    BY <2>1, <2>2, <2>3, <2>4, <2>5, <2>6, <2>7, <2>8, <2>9, <2>10, <2>12 DEF Next, Batch, Worker
<1>3. QED
  BY <1>1, <1>2, PTL DEF Spec

\* The steps of the pool's other users change nothing of the batch.
LEMMA OthersKeepBatch ==
    ASSUME CloseBegin \/ CloseEnd \/ (\E o \in Others : Other(o)) \/ UNCHANGED vars
    PROVE  UNCHANGED batchVars
  BY DEF CloseBegin, CloseEnd, Other, OtherCall, OtherTake, OtherReturn, batchVars, vars

\* Every step keeps the items apart: only Draw gives an item to a worker, and it
\* moves nextIdx past it.
LEMMA DrawnStep ==
    ASSUME TypeOK, TypeOK', DrawnInv, [Next]_vars
    PROVE  DrawnInv'
<1> USE PoolBatchAssumption DEF TypeOK, DrawnInv, Active, Items, Workers, poolVars
<1>1. CASE BatchBegin \/ CreateEnd \/ Join \/ MarkRest
  BY SMTT(40), <1>1 DEF BatchBegin, CreateEnd, Join, MarkRest
<1>2. CASE CreateWorker
  BY <1>2 DEF CreateWorker
<1>3. ASSUME NEW w \in Workers, Draw(w) PROVE DrawnInv'
  BY <1>3 DEF Draw
<1>4. ASSUME NEW w \in Workers, Borrow(w) PROVE DrawnInv'
  BY <1>4 DEF Borrow
<1>10. ASSUME NEW w \in Workers, Post(w) PROVE DrawnInv'
  BY SMTT(40), <1>10 DEF Post
<1>5. ASSUME NEW w \in Workers, Served(w) PROVE DrawnInv'
  BY <1>5 DEF Served
<1>6. CASE UNCHANGED batchVars
  BY <1>6 DEF batchVars
<1>7. QED
  BY <1>1, <1>2, <1>3, <1>4, <1>5, <1>6, <1>10, OthersKeepBatch DEF Next, Batch, Worker

\* Every step keeps track of which workers there are.
LEMMA ThreadStep ==
    ASSUME TypeOK, TypeOK', ThreadInv, [Next]_vars
    PROVE  ThreadInv'
<1> USE PoolBatchAssumption DEF TypeOK, ThreadInv, Items, Workers, poolVars
<1>1. CASE BatchBegin
  BY <1>1 DEF BatchBegin
<1>2. CASE CreateWorker
  BY <1>2 DEF CreateWorker
<1>3. CASE CreateEnd \/ MarkRest
  BY SMTT(40), <1>3 DEF CreateEnd, MarkRest
<1>4. CASE Join
  BY <1>4 DEF Join
<1>5. ASSUME NEW w \in Workers, Draw(w) PROVE ThreadInv'
  BY <1>5 DEF Draw
<1>6. ASSUME NEW w \in Workers, Borrow(w) PROVE ThreadInv'
  BY <1>6 DEF Borrow
<1>10. ASSUME NEW w \in Workers, Post(w) PROVE ThreadInv'
  BY <1>10 DEF Post
<1>7. ASSUME NEW w \in Workers, Served(w) PROVE ThreadInv'
  BY <1>7 DEF Served
<1>8. CASE UNCHANGED batchVars
  BY <1>8 DEF batchVars
<1>9. QED
  BY <1>1, <1>2, <1>3, <1>4, <1>5, <1>6, <1>7, <1>8, <1>10, OthersKeepBatch DEF Next, Batch, Worker

\* Every step leaves each item undrawn, with its worker, or with its result.
LEMMA ItemStep ==
    ASSUME TypeOK, TypeOK', DrawnInv, ThreadInv, ItemInv, [Next]_vars
    PROVE  ItemInv'
<1> USE PoolBatchAssumption DEF TypeOK, Active, Answered, NotPosted, Items, Workers, poolVars
<1>1. CASE BatchBegin \/ CreateEnd \/ Join \/ MarkRest
  BY SMTT(40), <1>1 DEF BatchBegin, CreateEnd, Join, MarkRest, ItemInv
<1>2. CASE CreateWorker
  <2>1. wpc[started + 1] = "none" /\ started + 1 \in Workers
    BY <1>2 DEF CreateWorker, ThreadInv
  <2>2. \A i \in Items : Answered(i) => Answered(i)'
    BY <1>2 DEF CreateWorker
  <2> HIDE DEF Answered
  <2>3. QED
    BY SMTT(40), <1>2, <2>1, <2>2 DEF CreateWorker, ItemInv
<1>3. ASSUME NEW w \in Workers, Draw(w) PROVE ItemInv'
  <2>1. \A i \in Items : Answered(i) => Answered(i)'
    BY <1>3 DEF Draw
  <2> HIDE DEF Answered
  <2>2. ASSUME main # "done", NEW i \in Items, i < nextIdx + 1
        PROVE  (\E v \in Workers : Active(v)' /\ item'[v] = i) \/ Answered(i)'
    <3>1. CASE i = nextIdx
      BY <1>3, <3>1 DEF Draw
    <3>2. CASE i # nextIdx
      <4>1. (\E v \in Workers : Active(v) /\ item[v] = i) \/ Answered(i)
        BY <2>2, <3>2 DEF ItemInv
      <4>2. ASSUME NEW v \in Workers, Active(v), item[v] = i
            PROVE  Active(v)' /\ item'[v] = i
        BY <1>3, <4>2 DEF Draw
      <4>3. QED
        BY <2>1, <4>1, <4>2
    <3>3. QED
      BY <3>1, <3>2
  <2>3. ASSUME main # "done", NEW i \in Items
        PROVE  /\ i >= nextIdx + 1 => rc[i] = "unset"
               /\ \A v \in Workers : wpc'[v] = "busy" /\ item'[v] = i => sent[i] = 1
    BY <1>3, <2>3 DEF Draw, ItemInv
  <2>4. main' = main /\ nextIdx' = nextIdx + 1 /\ rc' = rc /\ sent' = sent
    BY <1>3 DEF Draw
  <2> HIDE DEF Active
  <2>5. QED
    BY <2>2, <2>3, <2>4 DEF ItemInv
<1>4. ASSUME NEW w \in Workers, Borrow(w) PROVE ItemInv'
  BY <1>4 DEF Borrow, ItemInv, DrawnInv
<1>10. ASSUME NEW w \in Workers, Post(w) PROVE ItemInv'
  BY <1>10 DEF Post, ItemInv, DrawnInv
<1>5. ASSUME NEW w \in Workers, Served(w) PROVE ItemInv'
  BY SMTT(60), <1>5 DEF Served, ItemInv, DrawnInv
<1>6. CASE UNCHANGED batchVars
  BY <1>6 DEF batchVars, ItemInv
<1>7. QED
  BY <1>1, <1>2, <1>3, <1>4, <1>5, <1>6, <1>10, OthersKeepBatch DEF Next, Batch, Worker

\* The report is made by MarkRest, and nobody touches it afterwards.
LEMMA ReportStep ==
    ASSUME TypeOK, DrawnInv, ThreadInv, ItemInv, BatchReported, [Next]_vars
    PROVE  BatchReported'
<1> USE PoolBatchAssumption DEF TypeOK, Answered, NotPosted, Items, Workers, poolVars
<1>1. CASE BatchBegin
  BY <1>1 DEF BatchBegin, BatchReported, ThreadInv
<1>2. CASE CreateWorker \/ CreateEnd \/ Join
  BY SMTT(40), <1>2 DEF CreateWorker, CreateEnd, Join, BatchReported, ThreadInv
<1>3. CASE MarkRest
  <2>1. \A w \in Workers : ~Active(w)
    BY <1>3 DEF MarkRest, ThreadInv, Active
  <2>2. CASE started = 0
    <3>1. \A i \in Items : rc'[i] = "GENERIC" /\ sent'[i] = 0
      BY <1>3, <2>2 DEF MarkRest, ThreadInv, DrawnInv
    <3>2. QED
      BY <1>3, <2>2, <3>1 DEF MarkRest, BatchReported, ThreadInv
  <2>3. CASE started # 0
    <3>1. 1 \in Workers /\ wpc[1] = "exited"
      BY <1>3, <2>3 DEF MarkRest, ThreadInv
    <3>2. \A i \in Items : i < nextIdx
      BY <3>1 DEF ThreadInv
    <3>3. \A i \in Items :
             Answered(i)
      <4> TAKE i \in Items
      <4>1. main # "done" /\ i < nextIdx
        BY <1>3, <3>2 DEF MarkRest
      <4>2. ~ \E w \in Workers : Active(w) /\ item[w] = i
        BY <2>1
      <4>3. QED
        BY <4>1, <4>2 DEF ItemInv
    <3>4. \A i \in Items : rc'[i] = rc[i] /\ sent'[i] = sent[i]
      <4> TAKE i \in Items
      <4>1. ~(i >= nextIdx)
        <5>1. i < nextIdx
          BY <3>2
        <5>2. i \in Int /\ nextIdx \in Int
          OBVIOUS
        <5>3. QED
          BY <5>1, <5>2
      <4>2. rc' = [j \in Items |-> IF j >= nextIdx THEN "GENERIC" ELSE rc[j]] /\ sent' = sent
        BY <1>3 DEF MarkRest
      <4>3. QED
        BY <4>1, <4>2
    <3>5. \A i \in Items :
             /\ rc'[i] # "unset"
             /\ rc'[i] \in {"OK", "ERROR"} <=> sent'[i] = 1
             /\ i < nextIdx' /\ (rc'[i] = "NULL_ARG" <=> Args[i] = "null")
      <4>1. nextIdx' = nextIdx
        BY <1>3 DEF MarkRest
      <4>2. ASSUME NEW i \in Items, Answered(i)
            PROVE  /\ rc[i] # "unset"
                   /\ rc[i] \in {"OK", "ERROR"} <=> sent[i] = 1
                   /\ rc[i] = "NULL_ARG" <=> Args[i] = "null"
        BY <4>2
      <4> HIDE DEF Answered
      <4>3. QED
        BY <3>2, <3>3, <3>4, <4>1, <4>2
    <3>6. overall' = "OK" <=> \A i \in Items : rc'[i] = "OK"
      BY <1>3 DEF MarkRest
    <3>8. started' = started /\ started > 0 /\ wpc' = wpc
      BY <1>3, <2>3 DEF MarkRest
    <3>9. \A w \in Workers : wpc'[w] \in {"none", "exited"}
      BY <1>3, <3>8 DEF MarkRest, ThreadInv
    <3>7. QED
      BY <3>5, <3>6, <3>8, <3>9 DEF BatchReported
  <2>4. QED
    BY <2>2, <2>3
<1>4. ASSUME NEW w \in Workers, Worker(w) PROVE BatchReported'
  <2>1. main \notin {"mark", "done"}
    BY <1>4 DEF Worker, Draw, Borrow, Post, Served, ThreadInv
  <2>2. main' = main
    BY <1>4 DEF Worker, Draw, Borrow, Post, Served
  <2>3. QED
    BY <2>1, <2>2 DEF BatchReported
<1>5. CASE UNCHANGED batchVars
  BY <1>5 DEF batchVars, BatchReported
<1>6. QED
  BY <1>1, <1>2, <1>3, <1>4, <1>5, OthersKeepBatch DEF Next, Batch

\* The inductive invariant holds initially and is kept by every step.
THEOREM BatchInvariant == Spec => []BatchInv
<1>1. Init => BatchInv
  BY PoolBatchAssumption DEF Init, BatchInv, TypeOK, DrawnInv, ThreadInv, ItemInv, BatchReported,
     Active, Items, Workers, Results
<1>2. TypeOK' /\ BatchInv /\ [Next]_vars => BatchInv'
  BY DrawnStep, ThreadStep, ItemStep, ReportStep DEF BatchInv
<1>3. QED
  BY <1>1, <1>2, TypeCorrect, PTL DEF Spec

\* No item of a batch goes to the PLC twice (pool.c:393-395), for any number of
\* items, entries and competing callers.
THEOREM SentAtMostOnce == Spec => []SentOnce
<1>1. BatchInv => SentOnce
  BY DEF BatchInv, DrawnInv, SentOnce
<1>2. QED
  BY <1>1, BatchInvariant, PTL

\* When pool_batch returns, its workers are gone and every item has a result: OK or a
\* failure after the post exactly for the items that were posted, another code for the
\* rest, GENERIC for all without any worker (pool.c:451-472).
THEOREM EveryItemReported == Spec => []BatchReported
<1>1. BatchInv => BatchReported
  BY DEF BatchInv
<1>2. QED
  BY <1>1, BatchInvariant, PTL
=============================================================================
