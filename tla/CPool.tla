-------------------------------- MODULE CPool --------------------------------
(***************************************************************************)
(* The connection pool of the C SDK (c/src/pool.c), for one backplane      *)
(* slot: bp_client_pool_open, bp_client_pool_txrx, bp_client_pool_close    *)
(* and the keepalive thread with its auto-reopen pass.                     *)
(*                                                                         *)
(* A section under pool->mu never blocks, so it is one action.  The        *)
(* condition variable pool->cv is shared by three kinds of waiter: callers *)
(* of pool_txrx, the keepalive thread's timed wait and the closer; signal  *)
(* wakes any one of them.  pools_mu is held across all of pool_open and of *)
(* pool_close.                                                             *)
(*                                                                         *)
(* A connection is abstracted to two facts: whether the client's TxRx      *)
(* table holds the entry's app_handle (conn) and whether the PLC still has *)
(* the connection the table describes (live).  PLC connections that no     *)
(* table entry describes are only counted (orphans).  A message travels    *)
(* unconnected, so its outcome does not depend on live.  Time is           *)
(* abstracted to idle (last_used is keepalive_ms old) and due (the reopen  *)
(* backoff elapsed).                                                       *)
(* The round-robin seed is a process-wide counter that all pools advance,  *)
(* so pool_acquire_locked may return any usable entry.                     *)
(***************************************************************************)
EXTENDS Integers, FiniteSets

CONSTANTS
    Callers,      \* threads that call bp_client_pool_txrx
    Admins,       \* threads that call bp_client_pool_open / _close
    Size,         \* spec->size
    Keepalive,    \* spec->keepalive_ms > 0
    BackoffMin,   \* 1000 ms
    BackoffCap,   \* 30000 ms
    MaxCalls,     \* bound: pool_txrx calls one caller makes
    MaxOpens,     \* bound: successful or failed pool_open calls
    MaxFaults,    \* bound: failed messages, opens and thread creations
    Nobody        \* pools_mu is not held

ASSUME CPoolAssumption ==
    /\ Size \in Nat \ {0}
    /\ Keepalive \in BOOLEAN
    /\ BackoffMin \in Nat \ {0} /\ BackoffCap \in Nat /\ BackoffMin <= BackoffCap
    /\ MaxCalls \in Nat /\ MaxOpens \in Nat /\ MaxFaults \in Nat
    /\ Nobody \notin Admins

Entries == 1 .. Size

VARIABLES
    initialized,  \* pool->initialized
    inUse,        \* entries with in_use set
    dead,         \* entries with dead set
    idle,         \* entries whose last_used is at least keepalive_ms ago
    due,          \* entries whose reopen backoff has elapsed
    backoff,      \* reopen_backoff_ms of each entry
    conn,         \* entries whose app_handle is in the TxRx table
    live,         \* entries whose connection the PLC still has
    orphans,      \* connections of the PLC that the TxRx table has lost
    poolsMu,      \* holder of cl->pools_mu
    kaStop,       \* pool->ka_stop
    kaPc, kaAt,   \* the keepalive thread and its loop index i
    cpc, at,      \* pool_txrx of each caller and its idx
    calls,        \* pool_txrx calls each caller has made
    apc,          \* pool_open / pool_close of each admin thread
    aAt,          \* loop index of the thread that holds pools_mu
    opens,        \* pool_open calls so far
    faults        \* failures so far

entryVars  == <<inUse, dead, idle, due, backoff>>
connVars   == <<conn, live, orphans>>
kaVars     == <<kaStop, kaPc, kaAt>>
callerVars == <<cpc, at, calls>>
adminVars  == <<poolsMu, apc, aAt, opens>>
vars == <<initialized, inUse, dead, idle, due, backoff, conn, live, orphans, kaStop, kaPc, kaAt,
          cpc, at, calls, poolsMu, apc, aAt, opens, faults>>

TypeOK ==
    /\ initialized \in BOOLEAN
    /\ inUse \subseteq Entries /\ dead \subseteq Entries
    /\ idle \subseteq Entries /\ due \subseteq Entries
    /\ backoff \in [Entries -> 0 .. BackoffCap]
    /\ \A i \in dead : backoff[i] >= BackoffMin
    /\ conn \subseteq Entries
    /\ live \subseteq Entries
    /\ orphans \in Nat
    /\ kaStop \in BOOLEAN
    /\ kaPc \in {"none", "sleep", "ping", "pinging", "reopen", "reopening"}
    /\ kaAt \in Entries
    /\ cpc \in [Callers -> {"idle", "sleep", "woken", "msg", "ret"}]
    /\ at \in [Callers -> Entries]
    /\ calls \in [Callers -> 0 .. MaxCalls]
    /\ poolsMu \in Admins \cup {Nobody}
    /\ apc \in [Admins -> {"idle", "opening", "rollback", "join", "drain", "sleep",
                           "closing"}]
    /\ aAt \in 0 .. Size + 1
    /\ opens \in 0 .. MaxOpens
    /\ faults \in 0 .. MaxFaults

\* A fresh client: calloc'ed pool slots.
Init ==
    /\ initialized = FALSE
    /\ inUse = {} /\ dead = {} /\ idle = {} /\ due = {}
    /\ backoff = [i \in Entries |-> 0]
    /\ conn = {} /\ live = {} /\ orphans = 0
    /\ kaStop = FALSE /\ kaPc = "none" /\ kaAt = 1
    /\ cpc = [c \in Callers |-> "idle"]
    /\ at = [c \in Callers |-> 1]
    /\ calls = [c \in Callers |-> 0]
    /\ poolsMu = Nobody
    /\ apc = [a \in Admins |-> "idle"]
    /\ aAt = 1
    /\ opens = 0
    /\ faults = 0

Fault == faults < MaxFaults /\ faults' = faults + 1

-----------------------------------------------------------------------------
(* pool->cv *)

SleepingCallers == {c \in Callers : cpc[c] = "sleep"}
SleepingAdmins  == {a \in Admins : apc[a] = "sleep"}

\* pthread_cond_signal by a thread whose own program counters become cpc0: one
\* sleeper wakes.  The keepalive thread only looks at ka_stop and waits again, so
\* a signal that reaches it is gone.
CondSignal(cpc0) ==
    \/ \E c \in SleepingCallers :
         /\ cpc' = [cpc0 EXCEPT ![c] = "woken"]
         /\ UNCHANGED apc
    \/ \E a \in SleepingAdmins :
         /\ apc' = [apc EXCEPT ![a] = "drain"]
         /\ cpc' = cpc0
    \/ /\ kaPc = "sleep" \/ SleepingCallers \cup SleepingAdmins = {}
       /\ cpc' = cpc0
       /\ UNCHANGED apc

\* pthread_cond_broadcast, as seen by the callers.
WokenCallers == [c \in Callers |-> IF cpc[c] = "sleep" THEN "woken" ELSE cpc[c]]

-----------------------------------------------------------------------------
(* The calls into conn.c, for the app_handle of entry i *)

\* bp_client_txrx_open succeeds.
ConnOpenOk(i) ==
    /\ conn' = conn \cup {i}
    /\ live' = live \cup {i}
    /\ UNCHANGED faults

\* It fails.  If only the reply to the Forward_Open was lost, the PLC keeps a
\* connection nobody knows of.
ConnOpenFails == Fault /\ orphans' \in {orphans, orphans + 1}

\* Wrong variant of ConnClose: the entry is freed and no Forward_Close is sent.
ConnCloseSilent(i) ==
    /\ conn' = conn \ {i}
    /\ live' = live \ {i}
    /\ orphans' = IF i \in live THEN orphans + 1 ELSE orphans
    /\ UNCHANGED faults

\* bp_client_txrx_close; a lost Forward_Close leaves the connection with the PLC.
ConnClose(i) ==
    /\ conn' = conn \ {i}
    /\ live' = live \ {i}
    /\ \/ UNCHANGED <<orphans, faults>>
       \/ i \in live /\ Fault /\ orphans' = orphans + 1

-----------------------------------------------------------------------------
(* bp_client_pool_txrx *)

Usable == Entries \ (inUse \cup dead)

\* pool_acquire_locked succeeds: the caller leaves pool->mu and sends.
Acquire(c) ==
    \E i \in Usable :
        /\ inUse' = inUse \cup {i}
        /\ at' = [at EXCEPT ![c] = i]
        /\ cpc' = [cpc EXCEPT ![c] = "msg"]

TxrxEnter(c) ==
    /\ cpc[c] = "idle" /\ calls[c] < MaxCalls
    /\ calls' = [calls EXCEPT ![c] = @ + 1]
    /\ \/ ~initialized /\ UNCHANGED <<inUse, at, cpc>>       \* BP_ERR_NOT_OPEN
       \/ initialized /\ Acquire(c)
       \/ /\ initialized /\ Usable = {}
          /\ cpc' = [cpc EXCEPT ![c] = "sleep"]
          /\ UNCHANGED <<inUse, at>>
    /\ UNCHANGED <<initialized, dead, idle, due, backoff, connVars, kaVars, adminVars, faults>>

\* pthread_cond_wait has returned with pool->mu: look at initialized, try again.
TxrxWoken(c) ==
    /\ cpc[c] = "woken"
    /\ \/ /\ ~initialized                                   \* BP_ERR_NOT_OPEN
          /\ cpc' = [cpc EXCEPT ![c] = "idle"]
          /\ UNCHANGED <<inUse, at>>
       \/ initialized /\ Acquire(c)
       \/ /\ initialized /\ Usable = {}
          /\ cpc' = [cpc EXCEPT ![c] = "sleep"]
          /\ UNCHANGED <<inUse, at>>
    /\ UNCHANGED <<initialized, dead, idle, due, backoff, connVars, kaVars, calls,
                   adminVars, faults>>

\* bp_client_txrx_msg with the entry's app_handle.  Its result goes to the caller
\* and changes nothing in the pool.
TxrxMsg(c) ==
    /\ cpc[c] = "msg"
    /\ cpc' = [cpc EXCEPT ![c] = "ret"]
    /\ UNCHANGED <<initialized, entryVars, connVars, kaVars, at, calls, adminVars, faults>>

\* Wrong variant of TxrxReturn: no signal.
TxrxReturnNoSignal(c) ==
    /\ cpc[c] = "ret"
    /\ inUse' = inUse \ {at[c]}
    /\ idle' = idle \ {at[c]}
    /\ cpc' = [cpc EXCEPT ![c] = "idle"]
    /\ UNCHANGED <<initialized, dead, due, backoff, connVars, kaVars, at, calls, adminVars,
                   faults>>

\* Give the entry back; a failed message does not mark it dead.
TxrxReturn(c) ==
    /\ cpc[c] = "ret"
    /\ inUse' = inUse \ {at[c]}
    /\ idle' = idle \ {at[c]}
    /\ CondSignal([cpc EXCEPT ![c] = "idle"])
    /\ UNCHANGED <<initialized, dead, due, backoff, connVars, kaVars, at, calls,
                   poolsMu, aAt, opens, faults>>

-----------------------------------------------------------------------------
(* pool_keepalive_loop *)

\* The loop index after entry kaAt: the next entry of this pass, else the first
\* entry of the reopen pass, else the timed wait.
KaAdvance(pass, next) ==
    IF kaAt < Size THEN kaPc' = pass /\ kaAt' = kaAt + 1 ELSE kaPc' = next /\ kaAt' = 1

\* The timed wait ends with ETIMEDOUT.
KaTick ==
    /\ kaPc = "sleep" /\ ~kaStop
    /\ kaPc' = "ping" /\ kaAt' = 1
    /\ UNCHANGED <<initialized, entryVars, connVars, kaStop, callerVars, adminVars, faults>>

\* ka_stop is looked at in the timed wait and before each entry.
KaExit ==
    /\ kaPc \in {"sleep", "ping", "reopen"} /\ kaStop
    /\ kaPc' = "none"
    /\ UNCHANGED <<initialized, entryVars, connVars, kaStop, kaAt, callerVars, adminVars, faults>>

KaPingSkip ==
    /\ kaPc = "ping" /\ ~kaStop
    /\ kaAt \in inUse \cup dead \/ kaAt \notin idle
    /\ KaAdvance("ping", "reopen")
    /\ UNCHANGED <<initialized, entryVars, connVars, kaStop, callerVars, adminVars, faults>>

\* Wrong variant of KaPingClaim: in_use is not looked at.
KaPingClaimBusy ==
    /\ kaPc = "ping" /\ ~kaStop
    /\ kaAt \in idle \ dead
    /\ inUse' = inUse \cup {kaAt}
    /\ kaPc' = "pinging"
    /\ UNCHANGED <<initialized, dead, idle, due, backoff, connVars, kaStop, kaAt, callerVars,
                   adminVars, faults>>

KaPingClaim ==
    /\ kaPc = "ping" /\ ~kaStop
    /\ kaAt \in Usable \cap idle
    /\ inUse' = inUse \cup {kaAt}
    /\ kaPc' = "pinging"
    /\ UNCHANGED <<initialized, dead, idle, due, backoff, connVars, kaStop, kaAt, callerVars,
                   adminVars, faults>>

\* Wrong variant of KaPingDone: the backoff of a dead entry is not initialised.
KaPingDoneNoBackoff ==
    /\ kaPc = "pinging"
    /\ inUse' = inUse \ {kaAt}
    /\ idle' = idle \ {kaAt}
    /\ \/ kaAt \in conn /\ UNCHANGED <<dead, due, backoff, faults>>
       \/ /\ Fault
          /\ dead' = dead \cup {kaAt}
          /\ due' = due \ {kaAt}
          /\ UNCHANGED backoff
    /\ CondSignal(cpc)
    /\ KaAdvance("ping", "reopen")
    /\ UNCHANGED <<initialized, connVars, kaStop, at, calls, poolsMu, aAt, opens>>

\* The ping returns; a failed one marks the entry dead and starts its backoff.
KaPingDone ==
    /\ kaPc = "pinging"
    /\ inUse' = inUse \ {kaAt}
    /\ idle' = idle \ {kaAt}
    /\ \/ /\ kaAt \in conn
          /\ UNCHANGED <<dead, due, backoff, faults>>
       \/ /\ IF kaAt \in conn THEN Fault ELSE UNCHANGED faults
          /\ dead' = dead \cup {kaAt}
          /\ due' = due \ {kaAt}
          /\ backoff' = [backoff EXCEPT ![kaAt] = IF @ = 0 THEN BackoffMin ELSE @]
    /\ CondSignal(cpc)
    /\ KaAdvance("ping", "reopen")
    /\ UNCHANGED <<initialized, connVars, kaStop, at, calls, poolsMu, aAt, opens>>

KaReopenSkip ==
    /\ kaPc = "reopen" /\ ~kaStop
    /\ kaAt \notin dead \/ kaAt \in inUse \/ kaAt \notin due
    /\ KaAdvance("reopen", "sleep")
    /\ UNCHANGED <<initialized, entryVars, connVars, kaStop, callerVars, adminVars, faults>>

KaReopenClaim ==
    /\ kaPc = "reopen" /\ ~kaStop
    /\ kaAt \in (dead \cap due) \ inUse
    /\ inUse' = inUse \cup {kaAt}
    /\ due' = due \ {kaAt}
    /\ kaPc' = "reopening"
    /\ UNCHANGED <<initialized, dead, idle, backoff, connVars, kaStop, kaAt, callerVars,
                   adminVars, faults>>

\* bp_txrx_force_close_local wipes the table entry and nothing goes to the PLC.
KaForceClose ==
    /\ kaPc = "reopening" /\ kaAt \in conn
    /\ conn' = conn \ {kaAt}
    /\ live' = live \ {kaAt}
    /\ orphans' = IF kaAt \in live THEN orphans + 1 ELSE orphans
    /\ UNCHANGED <<initialized, entryVars, kaVars, callerVars, adminVars, faults>>

\* bp_client_txrx_open succeeds; broadcast.
KaReopenOk ==
    /\ kaPc = "reopening" /\ kaAt \notin conn
    /\ ConnOpenOk(kaAt)
    /\ inUse' = inUse \ {kaAt}
    /\ dead' = dead \ {kaAt}
    /\ idle' = idle \ {kaAt}
    /\ backoff' = [backoff EXCEPT ![kaAt] = BackoffMin]
    /\ cpc' = WokenCallers
    /\ KaAdvance("reopen", "sleep")
    /\ UNCHANGED <<initialized, due, orphans, kaStop, at, calls, adminVars>>

\* Wrong variant of KaReopenFails: in_use is not reset.
KaReopenFailsBusy ==
    /\ kaPc = "reopening" /\ kaAt \notin conn
    /\ ConnOpenFails
    /\ backoff' = [backoff EXCEPT ![kaAt] =
                      IF 2 * @ > BackoffCap THEN BackoffCap ELSE 2 * @]
    /\ KaAdvance("reopen", "sleep")
    /\ UNCHANGED <<initialized, inUse, dead, idle, due, conn, live, kaStop, callerVars,
                   adminVars>>

\* ... or fails: the backoff doubles up to its cap.
KaReopenFails ==
    /\ kaPc = "reopening" /\ kaAt \notin conn
    /\ ConnOpenFails
    /\ inUse' = inUse \ {kaAt}
    /\ backoff' = [backoff EXCEPT ![kaAt] =
                      IF 2 * @ > BackoffCap THEN BackoffCap ELSE 2 * @]
    /\ KaAdvance("reopen", "sleep")
    /\ UNCHANGED <<initialized, dead, idle, due, conn, live, kaStop, callerVars, adminVars>>

-----------------------------------------------------------------------------
(* bp_client_pool_open *)

OpenBegin(a) ==
    /\ apc[a] = "idle" /\ poolsMu = Nobody
    /\ ~initialized
    /\ opens < MaxOpens
    /\ opens' = opens + 1
    /\ poolsMu' = a
    /\ inUse' = {} /\ dead' = {} /\ idle' = {} /\ due' = {}
    /\ backoff' = [i \in Entries |-> 0]
    /\ kaStop' = FALSE
    /\ apc' = [apc EXCEPT ![a] = "opening"]
    /\ aAt' = 1
    /\ UNCHANGED <<initialized, connVars, kaPc, kaAt, callerVars, faults>>

\* The pool is already open: BP_ERR_GENERIC, nothing changes but the call count.
OpenRefused(a) ==
    /\ apc[a] = "idle" /\ poolsMu = Nobody
    /\ initialized
    /\ opens < MaxOpens
    /\ opens' = opens + 1
    /\ UNCHANGED <<initialized, entryVars, connVars, kaVars, callerVars, poolsMu, apc, aAt,
                   faults>>

OpenEntryOk(a) ==
    /\ apc[a] = "opening" /\ aAt <= Size
    /\ aAt \notin conn
    /\ ConnOpenOk(aAt)
    /\ aAt' = aAt + 1
    /\ UNCHANGED <<initialized, entryVars, orphans, kaVars, callerVars, poolsMu, apc, opens>>

\* Wrong variant of OpenEntryFails: nothing is rolled back.
OpenEntryFailsNoRollback(a) ==
    /\ apc[a] = "opening" /\ aAt <= Size
    /\ aAt \notin conn /\ ConnOpenFails
    /\ apc' = [apc EXCEPT ![a] = "rollback"]
    /\ aAt' = 0
    /\ UNCHANGED <<initialized, entryVars, conn, live, kaVars, callerVars, poolsMu, opens>>

\* txrx_open fails: on the wire, or because the table still holds the app_handle
\* (the connection just made is then closed again).
OpenEntryFails(a) ==
    /\ apc[a] = "opening" /\ aAt <= Size
    /\ IF aAt \in conn THEN UNCHANGED <<orphans, faults>> ELSE ConnOpenFails
    /\ apc' = [apc EXCEPT ![a] = "rollback"]
    /\ aAt' = aAt - 1
    /\ UNCHANGED <<initialized, entryVars, conn, live, kaVars, callerVars, poolsMu, opens>>

\* The entries opened before the failure are closed again.
Rollback(a) ==
    /\ apc[a] = "rollback" /\ aAt >= 1
    /\ ConnClose(aAt)
    /\ aAt' = aAt - 1
    /\ UNCHANGED <<initialized, entryVars, kaVars, callerVars, poolsMu, apc, opens>>

RollbackEnd(a) ==
    /\ apc[a] = "rollback" /\ aAt = 0
    /\ poolsMu' = Nobody
    /\ apc' = [apc EXCEPT ![a] = "idle"]
    /\ UNCHANGED <<initialized, entryVars, connVars, kaVars, callerVars, aAt, opens, faults>>

\* All entries are open: publish the pool, then start the keepalive thread, or go
\* on without one if pthread_create fails.
OpenEnd(a) ==
    /\ apc[a] = "opening" /\ aAt = Size + 1
    /\ initialized' = TRUE
    /\ \/ /\ Keepalive
          /\ kaPc' = "sleep" /\ kaAt' = 1
          /\ UNCHANGED faults
       \/ /\ IF Keepalive THEN Fault ELSE UNCHANGED faults
          /\ UNCHANGED <<kaPc, kaAt>>
    /\ poolsMu' = Nobody
    /\ apc' = [apc EXCEPT ![a] = "idle"]
    /\ UNCHANGED <<entryVars, connVars, kaStop, callerVars, aAt, opens>>

-----------------------------------------------------------------------------
(* bp_client_pool_close *)

\* Wrong variant of CloseBegin: no broadcast.
CloseBeginQuiet(a) ==
    /\ apc[a] = "idle" /\ poolsMu = Nobody
    /\ initialized
    /\ poolsMu' = a
    /\ initialized' = FALSE
    /\ kaStop' = TRUE
    /\ apc' = [apc EXCEPT ![a] = "join"]
    /\ UNCHANGED <<entryVars, connVars, kaPc, kaAt, callerVars, aAt, opens, faults>>

\* Closing a pool that is not open returns BP_OK and changes nothing.
CloseBegin(a) ==
    /\ apc[a] = "idle" /\ poolsMu = Nobody
    /\ initialized
    /\ poolsMu' = a
    /\ initialized' = FALSE
    /\ kaStop' = TRUE
    /\ cpc' = WokenCallers
    /\ apc' = [apc EXCEPT ![a] = "join"]
    /\ UNCHANGED <<entryVars, connVars, kaPc, kaAt, at, calls, aAt, opens, faults>>

\* pthread_join of the keepalive thread.
CloseJoined(a) ==
    /\ apc[a] = "join"
    /\ kaPc = "none"
    /\ apc' = [apc EXCEPT ![a] = "drain"]
    /\ UNCHANGED <<initialized, entryVars, connVars, kaVars, callerVars, poolsMu, aAt, opens,
                   faults>>

\* Wrong variant of CloseDrain: entries in use are not waited for.
CloseDrainNoWait(a) ==
    /\ apc[a] = "drain"
    /\ apc' = [apc EXCEPT ![a] = "closing"]
    /\ aAt' = 1
    /\ UNCHANGED <<initialized, entryVars, connVars, kaVars, callerVars, poolsMu, opens,
                   faults>>

\* Wait on the condition variable until no entry is in use.
CloseDrain(a) ==
    /\ apc[a] = "drain"
    /\ \/ /\ inUse # {}
          /\ apc' = [apc EXCEPT ![a] = "sleep"]
          /\ UNCHANGED aAt
       \/ /\ inUse = {}
          /\ apc' = [apc EXCEPT ![a] = "closing"]
          /\ aAt' = 1
    /\ UNCHANGED <<initialized, entryVars, connVars, kaVars, callerVars, poolsMu, opens,
                   faults>>

CloseConn(a) ==
    /\ apc[a] = "closing" /\ aAt <= Size
    /\ ConnClose(aAt)
    /\ aAt' = aAt + 1
    /\ UNCHANGED <<initialized, entryVars, kaVars, callerVars, poolsMu, apc, opens>>

\* Destroy cv and mu and clear the structure.  A caller that close woke and that
\* has not run yet takes the mutex after this: undefined by POSIX, with the
\* cleared bytes an unlocked mutex in practice, which is what TxrxWoken does.
CloseDestroy(a) ==
    /\ apc[a] = "closing" /\ aAt = Size + 1
    /\ inUse' = {} /\ dead' = {} /\ idle' = {} /\ due' = {}
    /\ backoff' = [i \in Entries |-> 0]
    /\ kaStop' = FALSE
    /\ poolsMu' = Nobody
    /\ apc' = [apc EXCEPT ![a] = "idle"]
    /\ UNCHANGED <<initialized, connVars, kaPc, kaAt, callerVars, aAt, opens, faults>>

-----------------------------------------------------------------------------
(* Time and the PLC *)

\* keepalive_ms pass without the entry being used.
TimeIdle(i) ==
    /\ initialized /\ i \notin inUse \cup idle
    /\ idle' = idle \cup {i}
    /\ UNCHANGED <<initialized, inUse, dead, due, backoff, connVars, kaVars, callerVars,
                   adminVars, faults>>

\* The backoff of a dead entry elapses.
TimeDue(i) ==
    /\ i \in dead \ due
    /\ due' = due \cup {i}
    /\ UNCHANGED <<initialized, inUse, dead, idle, backoff, connVars, kaVars, callerVars,
                   adminVars, faults>>

\* The PLC drops a connection it has heard nothing on.
PlcDrop ==
    /\ \/ \E i \in live : live' = live \ {i} /\ UNCHANGED orphans
       \/ orphans > 0 /\ orphans' = orphans - 1 /\ UNCHANGED live
    /\ UNCHANGED <<initialized, entryVars, conn, kaVars, callerVars, adminVars, faults>>

\* POSIX allows pthread_cond_wait to return without a signal.
SpuriousWakeup(c) ==
    /\ cpc[c] = "sleep"
    /\ cpc' = [cpc EXCEPT ![c] = "woken"]
    /\ UNCHANGED <<initialized, entryVars, connVars, kaVars, at, calls, adminVars, faults>>

-----------------------------------------------------------------------------

\* The steps a caller takes by itself once it is inside pool_txrx.
CallerStep(c) == TxrxWoken(c) \/ TxrxMsg(c) \/ TxrxReturn(c)

KaStep == \/ KaTick \/ KaExit
          \/ KaPingSkip \/ KaPingClaim \/ KaPingDone
          \/ KaReopenSkip \/ KaReopenClaim \/ KaForceClose \/ KaReopenOk \/ KaReopenFails

\* The steps of an open or a close that has begun.
AdminStep(a) == \/ OpenEntryOk(a) \/ OpenEntryFails(a) \/ OpenEnd(a)
                \/ Rollback(a) \/ RollbackEnd(a)
                \/ CloseJoined(a) \/ CloseDrain(a) \/ CloseConn(a) \/ CloseDestroy(a)

Next ==
    \/ \E c \in Callers : TxrxEnter(c) \/ CallerStep(c) \/ SpuriousWakeup(c)
    \/ KaStep
    \/ \E a \in Admins : OpenBegin(a) \/ OpenRefused(a) \/ CloseBegin(a) \/ AdminStep(a)
    \/ \E i \in Entries : TimeIdle(i) \/ TimeDue(i)
    \/ PlcDrop

Spec == Init /\ [][Next]_vars

\* Threads are scheduled and time passes; nobody has to open, close, call or be
\* woken spuriously.  A woken caller competes with the pings for its entry; the
\* keepalive thread sleeps at least 500 ms between two passes (pool.c:249), so a
\* caller that is woken again and again wins eventually: strong fairness.
FairSpec ==
    /\ Spec
    /\ \A c \in Callers : WF_vars(CallerStep(c)) /\ SF_vars(TxrxWoken(c) /\ cpc'[c] = "msg")
    /\ WF_vars(KaStep)
    /\ \A a \in Admins : WF_vars(AdminStep(a))
    /\ \A i \in Entries : WF_vars(TimeIdle(i)) /\ WF_vars(TimeDue(i))

-----------------------------------------------------------------------------
(* Properties *)

\* The threads that use entry i: callers between acquire and release, and the
\* keepalive thread between claim and release.
CallersOf(i) == {c \in Callers : cpc[c] \in {"msg", "ret"} /\ at[c] = i}
KaHolds(i)   == kaPc \in {"pinging", "reopening"} /\ kaAt = i

\* in_use means exactly one user: no entry is shared by two callers or by a caller
\* and the keepalive thread, and no entry stays marked after its user is gone,
\* through ping, reopen, close and reuse of the pool structure (pool.c:180-240,
\* 270-373).
EntryExclusive ==
    \A i \in Entries :
        /\ \A c, d \in CallersOf(i) : c = d
        /\ ~ (KaHolds(i) /\ CallersOf(i) # {})
        /\ i \in inUse <=> (KaHolds(i) \/ CallersOf(i) # {})

\* A caller that acquired an entry always finds its app_handle in the TxRx table:
\* neither a reopen nor a close takes the connection away under it, so pool_txrx
\* never returns BP_ERR_NOT_OPEN for an open pool (pool.c:332-334, 500-510).
AcquiredIsOpen ==
    \A c \in Callers : cpc[c] = "msg" => at[c] \in conn

\* When nobody is inside pool_open or pool_close, a pool that is not open has
\* nothing in the TxRx table and no entry in use, whether a close or the rollback
\* of a failed open got it there (pool.c:134-151, 500-527).
ClosedIsEmpty ==
    poolsMu = Nobody /\ ~initialized => conn = {} /\ inUse = {} /\ kaPc = "none"

\* Every connection the PLC keeps without the client knowing of it was paid for
\* by a failed message: without faults nothing leaks, whatever the interleaving of
\* callers, keepalive, open, rollback and close (pool.c:134-145, 339-352, 512-523).
LeakCostsFault == orphans <= faults

\* Every pool_txrx call returns, although a signal may be spent on the keepalive
\* thread, entries die and are reopened, and the pool is closed meanwhile.
TxrxReturns == \A c \in Callers : cpc[c] # "idle" ~> cpc[c] = "idle"

\* pool_open and pool_close always finish and release pools_mu: the join, the wait
\* for entries in use and the keepalive thread never wait on each other.
AdminReturns == poolsMu # Nobody ~> poolsMu = Nobody

\* A dead entry is reopened, unless its pool is closed first (README.md:131-134).
DeadIsReopened == \A i \in Entries : i \in dead ~> i \notin dead
=============================================================================
