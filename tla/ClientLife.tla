----------------------------- MODULE ClientLife -----------------------------
(***************************************************************************)
(* The life of a client (c/src/client.c): open, session, reconnect and     *)
(* close, while bpServer stops and starts.  TagCache is the part of the    *)
(* client whose state these operations must throw away; pools are reduced  *)
(* to the incarnation of bpServer they were opened at.  Reconnect and      *)
(* close are called when no other thread is inside a call: closing a       *)
(* semaphore under a waiter is undefined.                                  *)
(***************************************************************************)
EXTENDS TagCache

CONSTANTS
    PoolSlots,  \* slots that may have a connection pool
    MaxEpochs,  \* bound: incarnations of bpServer
    MaxLife     \* bound: life-cycle operations started

ASSUME ClientLifeAssumption == MaxEpochs \in Nat \ {0} /\ MaxLife \in Nat

VARIABLES
    client,    \* "open"; "broken" after a failed reconnect; "closed"; "crashed"
    pools,     \* pools[s]: incarnation at which the pool was opened, or 0
    held,      \* the caller has opened a session and not closed it
    sessions,  \* sessions the engine keeps for this client
    strays,    \* lost answers, repeated opens, and reconnects that kept the session
    lops       \* life-cycle operations started

sessionVars == <<held, sessions, strays>>
vars == <<tagVars, client, pools, sessionVars, lops>>

TypeOK ==
    /\ TagTypeOK
    /\ client \in {"open", "broken", "closed", "crashed"}
    /\ client = "open" <=> attached # 0
    /\ pools \in [PoolSlots -> 0 .. MaxEpochs]
    /\ held \in BOOLEAN /\ sessions \in Nat /\ strays \in Nat
    /\ lops \in 0 .. MaxLife

Init ==
    /\ TagInit
    /\ client = "open"
    /\ pools = [s \in PoolSlots |-> 0]
    /\ held = FALSE /\ sessions = 0 /\ strays = 0
    /\ lops = 0

Quiet == \A t \in Threads : pc[t] \in {"idle", "missed"}
Spend == lops < MaxLife /\ lops' = lops + 1
Up == epoch > 0
OneLess == IF sessions > 0 THEN sessions - 1 ELSE 0

\* bp_tag_cache_free_all.
FreeAll == caches' = [c \in Caches |-> NoCache]

-----------------------------------------------------------------------------
(* bpServer *)

\* Its databases and sessions are gone with it.
ServerStop ==
    /\ Up
    /\ epoch' = -epoch
    /\ engine' = [h \in Handles |-> None]
    /\ stale' = {d \in Dbs : handle[d] # 0}
    /\ sessions' = 0
    /\ UNCHANGED <<attached, crossed, gen, handle, caches, pc, walk, ops, faults, raced, client, pools, held, strays, lops>>

ServerStart ==
    /\ ~Up /\ -epoch < MaxEpochs
    /\ epoch' = -epoch + 1
    /\ UNCHANGED <<attached, stale, crossed, gen, engine, handle, caches, pc, walk, ops, faults, raced, client, pools, sessionVars, lops>>

-----------------------------------------------------------------------------
(* open, reconnect, close *)

\* shm_open, mmap and 33 sem_opens; all or nothing: a failure undoes what it did.
\* The undoing is bp_client_close on a client that is half open (client.c:87-89); the
\* OCXcip_Close it tries there, perhaps with semaphores that are still NULL, is left out.
\* The client object is new.
ClientOpen ==
    /\ client = "closed" /\ Spend
    /\ Up
    /\ attached' = epoch /\ client' = "open"
    /\ FreeAll
    /\ UNCHANGED <<epoch, stale, crossed, gen, engine, handle, pc, walk, ops, faults, raced, pools, sessionVars>>

\* Wrong variant of Reconnect: the symbol caches stay.
ReconnectKeepsCaches ==
    /\ client \in {"open", "broken"} /\ Quiet /\ Spend
    /\ pools' = [s \in PoolSlots |-> 0]
    /\ Up /\ attached' = epoch /\ client' = "open"
    /\ strays' = IF held /\ sessions > 0 THEN strays + 1 ELSE strays
    /\ held' = FALSE
    /\ UNCHANGED <<epoch, stale, crossed, gen, engine, handle, caches, pc, walk, ops, faults, raced, sessions>>

\* Pools are closed and caches freed, the IPC is closed and opened again; every
\* step of the second half may fail and leaves the rest closed.  The session is not
\* closed: the caller opens another one.  cip_err and the TxRx table are kept.
Reconnect ==
    /\ client \in {"open", "broken"} /\ Quiet /\ Spend
    /\ pools' = [s \in PoolSlots |-> 0]
    /\ FreeAll
    /\ \/ Up /\ attached' = epoch /\ client' = "open" /\ UNCHANGED faults
       \/ /\ (~Up /\ UNCHANGED faults) \/ Fault
          /\ attached' = 0 /\ client' = "broken"
    /\ strays' = IF held /\ sessions > 0 THEN strays + 1 ELSE strays
    /\ held' = FALSE
    /\ UNCHANGED <<epoch, stale, crossed, gen, engine, handle, pc, walk, ops, raced, sessions>>

\* Wrong variant of ClientClose: the session is not released.
ClientCloseNoSession ==
    /\ client = "open" /\ Quiet /\ Spend
    /\ \A d \in Dbs : handle[d] = 0
    /\ pools' = [s \in PoolSlots |-> 0]
    /\ FreeAll
    /\ held' = FALSE /\ attached' = 0 /\ client' = "closed"
    /\ UNCHANGED <<epoch, stale, crossed, gen, engine, handle, pc, walk, ops, faults, raced, sessions, strays>>

\* Pools, session (best effort), caches, IPC.  The caller has closed its databases.
ClientClose ==
    /\ client = "open" /\ Quiet /\ Spend
    /\ \A d \in Dbs : handle[d] = 0
    /\ pools' = [s \in PoolSlots |-> 0]
    /\ \/ reach /\ sessions' = OneLess
          /\ UNCHANGED <<strays, faults>>
       \/ CallFails /\ strays' = strays + 1 /\ UNCHANGED sessions
    /\ FreeAll
    /\ held' = FALSE /\ attached' = 0 /\ client' = "closed"
    /\ UNCHANGED <<epoch, stale, crossed, gen, engine, handle, pc, walk, ops, raced>>

\* close of a broken client calls OCXcip_Close and waits on a semaphore that is
\* NULL (client.c:107, 160).
CloseBroken ==
    /\ client = "broken" /\ Spend
    /\ client' = "crashed"
    /\ UNCHANGED <<lifeVars, gen, engine, handle, caches, pc, walk, ops, faults, raced, pools, sessionVars>>

-----------------------------------------------------------------------------
(* Sessions and pools *)

OpenSession ==
    /\ client = "open" /\ Spend
    /\ \/ reach /\ sessions' = sessions + 1 /\ held' = TRUE /\ UNCHANGED faults
          /\ strays' = IF held THEN strays + 1 ELSE strays
       \/ CallFails /\ sessions' \in {sessions} \cup (IF reach THEN {sessions + 1} ELSE {})
          /\ strays' = strays + 1 /\ UNCHANGED held
    /\ UNCHANGED <<lifeVars, gen, engine, handle, caches, pc, walk, ops, raced, client, pools>>

CloseSession ==
    /\ client = "open" /\ held /\ Spend
    /\ held' = FALSE
    /\ \/ reach /\ sessions' = OneLess /\ UNCHANGED <<strays, faults>>
       \/ CallFails /\ strays' = strays + 1 /\ UNCHANGED sessions
    /\ UNCHANGED <<lifeVars, gen, engine, handle, caches, pc, walk, ops, raced, client, pools>>

PoolOpen(s) ==
    /\ client = "open" /\ reach /\ pools[s] = 0 /\ Spend
    /\ pools' = [pools EXCEPT ![s] = epoch]
    /\ UNCHANGED <<lifeVars, gen, engine, handle, caches, pc, walk, ops, faults, raced, client, sessionVars>>

-----------------------------------------------------------------------------

Tags == client = "open" /\ TagNext /\ UNCHANGED <<client, pools, sessionVars, lops>>

Next ==
    \/ Tags
    \/ ServerStop \/ ServerStart
    \/ ClientOpen \/ Reconnect \/ ClientClose \/ CloseBroken
    \/ OpenSession \/ CloseSession
    \/ \E s \in PoolSlots : PoolOpen(s)

Spec == Init /\ [][Next]_vars

-----------------------------------------------------------------------------
(* Properties *)

\* Whatever the client can still use belongs to the running engine: a pool or a
\* cached symbol never outlives the bpServer it was made with once the client is
\* attached to the next one ("INVALIDATES EVERYTHING the caller held",
\* bpclient.h:219-221).
StateOfThisEngine ==
    reach => /\ \A s \in PoolSlots : pools[s] \in {0, epoch}
             /\ \A c \in Caches : caches[c].cap > 0 => caches[c].epoch = epoch

\* Nothing is left behind at the engine for free.  A database that no bp_tagdb_t
\* names is there because a call or an allocation failed; a session, because an
\* answer was lost, it was opened twice, or the client reconnected to an engine that
\* had not restarted; close releases it (client.c:102-107: "bpServer's session table
\* accumulates dead entries").
LeftBehindCosts ==
    /\ TypeOK
    /\ Cardinality({h \in Handles : engine[h] # None} \ {handle[d] : d \in Dbs}) <= faults
    /\ sessions <= strays + (IF held THEN 1 ELSE 0)
=============================================================================
