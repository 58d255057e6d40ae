----------------------------- MODULE PoolBatch -----------------------------
(***************************************************************************)
(* bp_client_pool_batch (c/src/pool.c): up to pool-size worker threads     *)
(* draw items from a shared index and send each through pool_txrx, while   *)
(* another caller uses the pool and an admin thread may close it.  Any     *)
(* pthread_create may fail.  The pool is the one CPool models, reduced to  *)
(* what its users see: a number of entries, borrowed and given back.       *)
(***************************************************************************)
EXTENDS Integers, FiniteSets

CONSTANTS
    Count,    \* items of the batch
    Args,     \* Args[i]: what pool_txrx finds of item i's arguments
    Size,     \* entries of the pool
    Others,   \* threads that call pool_txrx directly
    MaxCalls  \* bound: exchanges of the other threads

ASSUME PoolBatchAssumption ==
    /\ Count \in Nat \ {0} /\ Size \in Nat \ {0} /\ MaxCalls \in Nat
    /\ Args \in [1 .. Count -> {"fine", "null", "long"}]

Items == 1 .. Count
Workers == 1 .. Size

\* What bp_client_call returns when it posts nothing: the wait for the lock was
\* interrupted, every slot is taken, or the post failed.
NotPosted == {"GENERIC", "NO_FREE_SLOT", "SEND_REQUEST"}

\* "ERROR" stands for the failures after the post: no answer in time, or the
\* engine's error code.
Results == {"unset", "OK", "ERROR", "NOT_OPEN", "NULL_ARG", "PARAM_RANGE"} \cup NotPosted

VARIABLES
    main,     \* where the thread that called pool_batch is
    planned,  \* worker_count
    started,  \* workers created
    wpc,      \* wpc[w]: where worker w is
    item,     \* item[w]: the index w drew
    nextIdx,  \* ctx.next_idx, from 1
    rc,       \* items[i].rc
    sent,     \* sent[i]: requests posted for item i; a history variable
    overall,  \* what pool_batch returned
    pool,     \* "open", "closing" (ka_stop set), "closed"
    other,    \* other[o]: "idle", "want", "busy"
    calls     \* exchanges the other threads have started

poolVars == <<pool, other, calls>>
batchVars == <<main, planned, started, wpc, item, nextIdx, rc, sent, overall>>
vars == <<batchVars, poolVars>>

TypeOK ==
    /\ main \in {"idle", "create", "join", "mark", "done"}
    /\ planned \in 0 .. Size /\ started \in 0 .. Size
    /\ wpc \in [Workers -> {"none", "draw", "want", "have", "busy", "exited"}]
    /\ item \in [Workers -> 0 .. Count]
    /\ nextIdx \in Nat \ {0}
    /\ rc \in [Items -> Results]
    /\ sent \in [Items -> Nat]
    /\ overall \in Results
    /\ pool \in {"open", "closing", "closed"}
    /\ other \in [Others -> {"idle", "want", "busy"}]
    /\ calls \in 0 .. MaxCalls

Init ==
    /\ main = "idle" /\ planned = 0 /\ started = 0
    /\ wpc = [w \in Workers |-> "none"]
    /\ item = [w \in Workers |-> 0]
    /\ nextIdx = 1
    /\ rc = [i \in Items |-> "unset"]
    /\ sent = [i \in Items |-> 0]
    /\ overall = "unset"
    /\ pool = "open"
    /\ other = [o \in Others |-> "idle"]
    /\ calls = 0

-----------------------------------------------------------------------------
(* The pool *)

InUse == Cardinality({w \in Workers : wpc[w] \in {"have", "busy"}}) + Cardinality({o \in Others : other[o] = "busy"})
EntryFree == pool = "open" /\ InUse < Size

OtherCall(o) ==
    /\ other[o] = "idle" /\ calls < MaxCalls
    /\ calls' = calls + 1
    /\ other' = [other EXCEPT ![o] = "want"]
    /\ UNCHANGED <<batchVars, pool>>

OtherTake(o) ==
    /\ other[o] = "want" /\ EntryFree
    /\ other' = [other EXCEPT ![o] = "busy"]
    /\ UNCHANGED <<batchVars, pool, calls>>

\* The exchange ends, or the pool is not open any more.
OtherReturn(o) ==
    /\ other[o] = "busy" \/ (other[o] = "want" /\ pool # "open")
    /\ other' = [other EXCEPT ![o] = "idle"]
    /\ UNCHANGED <<batchVars, pool, calls>>

\* pool_close turns new takers away and waits for the entries in use.
CloseBegin ==
    /\ pool = "open"
    /\ pool' = "closing"
    /\ UNCHANGED <<batchVars, other, calls>>

CloseEnd ==
    /\ pool = "closing" /\ InUse = 0
    /\ pool' = "closed"
    /\ UNCHANGED <<batchVars, other, calls>>

-----------------------------------------------------------------------------
(* pool_batch_worker *)

\* Wrong variant of Draw: the index is read under the lock and advanced after it.
DrawUnlocked(w) ==
    /\ wpc[w] = "draw"
    /\ nextIdx' \in {nextIdx, nextIdx + 1} /\ nextIdx' <= Count + Size + 1
    /\ item' = [item EXCEPT ![w] = IF nextIdx <= Count THEN nextIdx ELSE 0]
    /\ wpc' = [wpc EXCEPT ![w] = IF nextIdx <= Count THEN "want" ELSE "exited"]
    /\ UNCHANGED <<main, planned, started, rc, sent, overall, poolVars>>

\* i = next_idx++ under idx_mu; a worker whose index is past the end exits.
Draw(w) ==
    /\ wpc[w] = "draw"
    /\ nextIdx' = nextIdx + 1
    /\ item' = [item EXCEPT ![w] = IF nextIdx <= Count THEN nextIdx ELSE 0]
    /\ wpc' = [wpc EXCEPT ![w] = IF nextIdx <= Count THEN "want" ELSE "exited"]
    /\ UNCHANGED <<main, planned, started, rc, sent, overall, poolVars>>

Borrow(w) ==
    /\ wpc[w] = "want" /\ Args[item[w]] # "null" /\ EntryFree
    /\ wpc' = [wpc EXCEPT ![w] = "have"]
    /\ UNCHANGED <<main, planned, started, item, nextIdx, rc, sent, overall, poolVars>>

\* txrx_msg with the entry's handle: the request is posted.
Post(w) ==
    /\ wpc[w] = "have" /\ Args[item[w]] = "fine"
    /\ wpc' = [wpc EXCEPT ![w] = "busy"]
    /\ sent' = [sent EXCEPT ![item[w]] = @ + 1]
    /\ UNCHANGED <<main, planned, started, item, nextIdx, rc, overall, poolVars>>

\* Wrong variant of Served: a waiter does not look at the pool's state again.
ServedBusy(w) ==
    /\ \E r \in Results :
          /\ \/ wpc[w] = "busy" /\ r \in {"OK", "ERROR"}
             \/ wpc[w] = "have" /\ r \in IF Args[item[w]] = "long" THEN {"PARAM_RANGE"} ELSE NotPosted
             \/ wpc[w] = "want" /\ Args[item[w]] = "null" /\ r = "NULL_ARG"
          /\ rc' = [rc EXCEPT ![item[w]] = r]
    /\ wpc' = [wpc EXCEPT ![w] = "draw"]
    /\ UNCHANGED <<main, planned, started, item, nextIdx, sent, overall, poolVars>>

\* pool_txrx returns: the exchange's result; or, with the entry but nothing
\* posted, message_send's refusal of a long request or bp_client_call's failure
\* before the post; or, without an entry, its own refusal of the arguments, which
\* it tests first, or BP_ERR_NOT_OPEN of a pool that closes.
Served(w) ==
    /\ \E r \in Results :
          /\ \/ wpc[w] = "busy" /\ r \in {"OK", "ERROR"}
             \/ wpc[w] = "have" /\ r \in IF Args[item[w]] = "long" THEN {"PARAM_RANGE"} ELSE NotPosted
             \/ wpc[w] = "want" /\ Args[item[w]] = "null" /\ r = "NULL_ARG"
             \/ wpc[w] = "want" /\ Args[item[w]] # "null" /\ pool # "open" /\ r = "NOT_OPEN"
          /\ rc' = [rc EXCEPT ![item[w]] = r]
    /\ wpc' = [wpc EXCEPT ![w] = "draw"]
    /\ UNCHANGED <<main, planned, started, item, nextIdx, sent, overall, poolVars>>

-----------------------------------------------------------------------------
(* bp_client_pool_batch *)

\* The pool's size is read under pools_mu, which pool_close holds to its end;
\* calloc may fail.
BatchBegin ==
    /\ main = "idle"
    /\ \/ /\ pool = "closed"
          /\ overall' = "NOT_OPEN" /\ main' = "done" /\ UNCHANGED planned
       \/ /\ pool = "open"
          /\ planned' = IF Size > Count THEN Count ELSE Size
          /\ main' = "create" /\ UNCHANGED overall
       \/ /\ pool = "open"
          /\ overall' = "GENERIC" /\ main' = "done" /\ UNCHANGED planned
    /\ UNCHANGED <<started, wpc, item, nextIdx, rc, sent, poolVars>>

\* pthread_create of the next worker.
CreateWorker ==
    /\ main = "create" /\ started < planned
    /\ started' = started + 1
    /\ wpc' = [wpc EXCEPT ![started + 1] = "draw"]
    /\ UNCHANGED <<main, planned, item, nextIdx, rc, sent, overall, poolVars>>

\* All are created, or one cannot be.
CreateEnd ==
    /\ main = "create"
    /\ main' = "join"
    /\ UNCHANGED <<planned, started, wpc, item, nextIdx, rc, sent, overall, poolVars>>

Join ==
    /\ main = "join"
    /\ \A w \in 1 .. started : wpc[w] = "exited"
    /\ main' = "mark"
    /\ UNCHANGED <<planned, started, wpc, item, nextIdx, rc, sent, overall, poolVars>>

\* Wrong variant of MarkRest: an item nobody drew counts as served.
MarkNothing ==
    /\ main = "mark"
    /\ overall' = IF \E i \in Items : rc[i] \notin {"OK", "unset"} THEN "GENERIC" ELSE "OK"
    /\ main' = "done"
    /\ UNCHANGED <<planned, started, wpc, item, nextIdx, rc, sent, poolVars>>

\* Items past next_idx never ran: BP_ERR_GENERIC.  Then the overall result.
MarkRest ==
    /\ main = "mark"
    /\ rc' = [i \in Items |-> IF i >= nextIdx THEN "GENERIC" ELSE rc[i]]
    /\ overall' = IF \A i \in Items : rc'[i] = "OK" THEN "OK" ELSE "GENERIC"
    /\ main' = "done"
    /\ UNCHANGED <<planned, started, wpc, item, nextIdx, sent, poolVars>>

-----------------------------------------------------------------------------

Batch == BatchBegin \/ CreateWorker \/ CreateEnd \/ Join \/ MarkRest
Worker(w) == Draw(w) \/ Borrow(w) \/ Post(w) \/ Served(w)
Other(o) == OtherCall(o) \/ OtherTake(o) \/ OtherReturn(o)

Next == \/ Batch \/ CloseBegin \/ CloseEnd
        \/ \E w \in Workers : Worker(w)
        \/ \E o \in Others : Other(o)

Spec == Init /\ [][Next]_vars

\* Threads are scheduled, exchanges end (SlotIpc.CallReturns) and a waiter gets
\* an entry in the end (CPool.TxrxReturns); nobody has to close the pool.
FairSpec ==
    /\ Spec
    /\ WF_vars(Batch)
    /\ \A w \in Workers : WF_vars(Draw(w) \/ Post(w) \/ Served(w)) /\ SF_vars(Borrow(w))
    /\ \A o \in Others : WF_vars(OtherReturn(o))

-----------------------------------------------------------------------------
(* Properties *)

\* No item goes to the PLC twice, whatever the workers' speed: a write would be
\* carried out twice (next_idx under idx_mu, pool.c:393-395).
SentOnce == TypeOK /\ \A i \in Items : sent[i] <= 1

\* When pool_batch returns, no worker still uses ctx, which is on its stack, or
\* the caller's items; and if the batch was set up, the caller finds in them a
\* result for every item: OK, or a failure after the post, only for an item that
\* was sent, and the other codes only for one that was not; an item with a NULL
\* or empty argument is told so whatever happens to the pool.  One worker is
\* enough for every item to be drawn; without any, every item is BP_ERR_GENERIC.
\* And OK overall means every item is OK (pool.c:456-471): a batch that got fewer
\* workers than planned goes on and may return BP_OK, where bpclient.h:795-796 says
\* that "Worker thread creation failures return BP_ERR_GENERIC immediately".
BatchReported ==
    /\ main \in {"mark", "done"} => \A w \in Workers : wpc[w] \in {"none", "exited"}
    /\ main = "done" /\ planned > 0 =>
          /\ \A i \in Items :
                /\ rc[i] # "unset"
                /\ rc[i] \in {"OK", "ERROR"} <=> sent[i] = 1
                /\ started = 0 => rc[i] = "GENERIC"
                /\ started > 0 => i < nextIdx /\ (rc[i] = "NULL_ARG" <=> Args[i] = "null")
          /\ overall = "OK" <=> \A i \in Items : rc[i] = "OK"

\* pool_batch returns even when its workers must share the pool with others,
\* when workers are missing, and when the pool closes under it.
BatchReturns == main # "idle" ~> main = "done"
=============================================================================
