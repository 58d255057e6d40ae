------------------------------- MODULE QPool -------------------------------
(***************************************************************************)
(* The connection pool of the Go and the Python client for one PLC slot    *)
(* (go/ocxbp/pool.go, python/src/bpclient/client.py): a FIFO queue of free *)
(* entry indices (a buffered channel, a queue.Queue) where the C pool has  *)
(* a condition variable.                                                   *)
(*                                                                         *)
(* Every PoolOpen makes a new pool object, here a number of Pools, and     *)
(* publishes it before its connections are open.  All of them use the same *)
(* app_handles, so connections are named by entry index.  A TxRxOpen,      *)
(* TxRxClose or force-close is one step here; TxRxConn has the detail.     *)
(* A ping or an open fails when a message is lost.                         *)
(***************************************************************************)
EXTENDS Integers, Sequences, FiniteSets

CONSTANTS
    Callers,    \* threads that call PoolTxRx
    Admins,     \* threads that call PoolOpen and PoolClose
    Size,       \* spec.Size
    Keepalive,  \* KeepaliveMs > 0
    Sdks,       \* the SDKs whose pool is modelled
    MaxOpens,   \* bound: pools made
    MaxCalls,   \* bound: PoolTxRx calls
    MaxFaults,  \* bound: messages lost
    None        \* no pool; no entry

ASSUME QPoolAssumption ==
    /\ Size \in Nat \ {0}
    /\ MaxOpens \in Nat /\ MaxCalls \in Nat /\ MaxFaults \in Nat
    /\ Keepalive \in BOOLEAN
    /\ Sdks \subseteq {"go", "python"}
    /\ None \notin Nat

Entries == 0 .. Size - 1
Pools == 1 .. MaxOpens

VARIABLES
    sdk,       \* whose code this client runs; never changes
    cur,       \* pools[slot]: the published pool or None
    made,      \* pools made so far
    opened,    \* opened[p]: p.entries, how many are filled in
    init,      \* init[p]: p.initialized
    stop,      \* stop[p]: p.stop is closed, p.ka_stop is set
    free,      \* free[p]: the queue of free indices
    dead,      \* dead[p]: the entries with dead = true
    aged,      \* aged[p]: entries whose idle threshold (dead: backoff) has passed
    inflight,  \* inflight[p]
    conns,     \* indices whose app_handle is in the client's TxRx table
    cpc, cpool, cidx, att,    \* a caller: where it is, p, idx and attempt
    late,                     \* history: calls counted in after their pool's close had drained
    kpc, ki, kgot,            \* keepaliveLoop of p: where it is, i and got
    apc, apool, ak,           \* an admin: where it is, p and the loop's i
    calls, faults

poolVars == <<cur, made, opened, init, stop>>
callerVars == <<cpc, cpool, cidx, att, late, calls>>
kaVars == <<kpc, ki, kgot>>
adminVars == <<apc, apool, ak>>
vars == <<sdk, poolVars, free, dead, aged, inflight, conns, callerVars, kaVars, adminVars, faults>>

TypeOK ==
    /\ sdk \in Sdks
    /\ cur \in Pools \cup {None}
    /\ made \in 0 .. MaxOpens
    /\ opened \in [Pools -> 0 .. Size]
    /\ init \in [Pools -> BOOLEAN]
    /\ stop \in [Pools -> BOOLEAN]
    /\ \A p \in Pools : free[p] \in Seq(Entries) /\ Len(free[p]) <= Size
    /\ dead \in [Pools -> SUBSET Entries]
    /\ aged \in [Pools -> SUBSET Entries]
    /\ inflight \in [Pools -> Nat]
    /\ conns \subseteq Entries
    /\ cpc \in [Callers -> {"idle", "looked", "wait", "dead", "msg"}]
    /\ cpool \in [Callers -> Pools \cup {None}]
    /\ cidx \in [Callers -> Entries \cup {None}]
    /\ att \in [Callers -> 0 .. Size - 1]
    /\ late \subseteq Callers
    /\ kpc \in [Pools -> {"off", "sleep", "ping", "pinging", "reopen", "reopening", "done"}]
    /\ ki \in [Pools -> Entries]
    /\ kgot \in [Pools -> Entries \cup {None}]
    /\ apc \in [Admins -> {"idle", "opening", "rollback", "draining", "closing"}]
    /\ apool \in [Admins -> Pools \cup {None}]
    /\ ak \in [Admins -> 0 .. Size]
    /\ calls \in 0 .. MaxCalls
    /\ faults \in 0 .. MaxFaults

Init ==
    /\ sdk \in Sdks
    /\ cur = None
    /\ made = 0
    /\ opened = [p \in Pools |-> 0]
    /\ init = [p \in Pools |-> FALSE]
    /\ stop = [p \in Pools |-> FALSE]
    /\ free = [p \in Pools |-> <<>>]
    /\ dead = [p \in Pools |-> {}]
    /\ aged = [p \in Pools |-> {}]
    /\ inflight = [p \in Pools |-> 0]
    /\ conns = {}
    /\ cpc = [c \in Callers |-> "idle"]
    /\ cpool = [c \in Callers |-> None]
    /\ cidx = [c \in Callers |-> None]
    /\ att = [c \in Callers |-> 0]
    /\ late = {}
    /\ kpc = [p \in Pools |-> "off"]
    /\ ki = [p \in Pools |-> 0]
    /\ kgot = [p \in Pools |-> None]
    /\ apc = [a \in Admins |-> "idle"]
    /\ apool = [a \in Admins |-> None]
    /\ ak = [a \in Admins |-> 0]
    /\ calls = 0
    /\ faults = 0

Lose == faults < MaxFaults /\ faults' = faults + 1

\* Returning an index.  Go selects between the channel and stop and takes either
\* when both are ready; Python puts the index while the pool is initialized.  Its
\* test and its put are two steps, here one: an index put after the close has begun
\* is the case of Go's select that prefers the channel.
MayPut(p) == sdk = "go" \/ init[p]
MayDrop(p) == IF sdk = "go" THEN stop[p] ELSE ~init[p]
Put(p, i) == MayPut(p) /\ free' = [free EXCEPT ![p] = Append(@, i)]
Drop(p) == MayDrop(p) /\ UNCHANGED free
Take(p) == free' = [free EXCEPT ![p] = Tail(@)]

\* TxRxOpen of entry i: it fails when the handle is in the table or a message is lost.
ConnOpens(i) == i \notin conns /\ conns' = conns \cup {i} /\ UNCHANGED faults
ConnFails(i) == UNCHANGED conns /\ (Lose \/ (i \in conns /\ UNCHANGED faults))

-----------------------------------------------------------------------------
(* PoolTxRx *)

\* Look the pool up under poolsMu and test initialized.
TxrxLookup(c) ==
    /\ cpc[c] = "idle"
    /\ calls < MaxCalls
    /\ calls' = calls + 1
    /\ cur # None /\ init[cur]
    /\ cpc' = [cpc EXCEPT ![c] = "looked"]
    /\ cpool' = [cpool EXCEPT ![c] = cur]
    /\ UNCHANGED <<sdk, poolVars, free, dead, aged, inflight, conns, cidx, att, late, kaVars, adminVars, faults>>

\* PoolClose of p has waited for the keepalive thread and the counted calls.
Drained(p) == stop[p] /\ \A a \in Admins : apool[a] = p => apc[a] # "draining"

\* inflight.Add(1).  A close may have come and gone since the lookup.
TxrxCount(c) ==
    /\ cpc[c] = "looked"
    /\ inflight' = [inflight EXCEPT ![cpool[c]] = @ + 1]
    /\ cpc' = [cpc EXCEPT ![c] = "wait"]
    /\ late' = IF Drained(cpool[c]) THEN late \cup {c} ELSE late
    /\ UNCHANGED <<sdk, poolVars, free, dead, aged, conns, cpool, cidx, att, calls, kaVars, adminVars, faults>>

\* The next free index; a dead entry is not used.
TxrxTake(c) ==
    LET p == cpool[c] IN
    /\ cpc[c] = "wait"
    /\ free[p] # <<>>
    /\ Take(p)
    /\ cidx' = [cidx EXCEPT ![c] = Head(free[p])]
    /\ cpc' = [cpc EXCEPT ![c] = IF Head(free[p]) \in dead[p] THEN "dead" ELSE "msg"]
    /\ UNCHANGED <<sdk, poolVars, dead, aged, inflight, conns, cpool, att, late, calls, kaVars, adminVars, faults>>

\* The deferred inflight.Done and return.
TxrxReturn(c) ==
    /\ inflight' = [inflight EXCEPT ![cpool[c]] = @ - 1]
    /\ cpc' = [cpc EXCEPT ![c] = "idle"]
    /\ cpool' = [cpool EXCEPT ![c] = None]
    /\ cidx' = [cidx EXCEPT ![c] = None]
    /\ att' = [att EXCEPT ![c] = 0]
    /\ late' = late \ {c}

\* ErrNotOpen while waiting: Go sees stop, Python's get times out on a closing pool.
TxrxStopped(c) ==
    LET p == cpool[c] IN
    /\ cpc[c] = "wait"
    /\ IF sdk = "go" THEN stop[p] ELSE free[p] = <<>> /\ ~init[p]
    /\ TxrxReturn(c)
    /\ UNCHANGED <<sdk, poolVars, free, dead, aged, conns, calls, kaVars, adminVars, faults>>

\* The dead entry goes back and the call tries again, at most Size times.  Go gives
\* up with ErrNotOpen when it took stop instead.
TxrxPutDead(c) ==
    LET p == cpool[c]
        retry == /\ att[c] + 1 < Size
                 /\ att' = [att EXCEPT ![c] = @ + 1]
                 /\ cpc' = [cpc EXCEPT ![c] = "wait"]
                 /\ cidx' = [cidx EXCEPT ![c] = None]
                 /\ UNCHANGED <<inflight, cpool, late>>
        allDead == att[c] + 1 >= Size /\ TxrxReturn(c)
    IN
    /\ cpc[c] = "dead"
    /\ \/ Put(p, cidx[c]) /\ (retry \/ allDead)
       \/ Drop(p) /\ sdk = "python" /\ (retry \/ allDead)
       \/ Drop(p) /\ sdk = "go" /\ TxrxReturn(c)
    /\ UNCHANGED <<sdk, poolVars, dead, aged, conns, calls, kaVars, adminVars, faults>>

\* Wrong variant of TxrxDone: the call is not counted down.
TxrxDoneUncounted(c) ==
    /\ cpc[c] = "msg"
    /\ aged' = [aged EXCEPT ![cpool[c]] = @ \ {cidx[c]}]
    /\ Put(cpool[c], cidx[c]) \/ Drop(cpool[c])
    /\ cpc' = [cpc EXCEPT ![c] = "idle"]
    /\ cpool' = [cpool EXCEPT ![c] = None]
    /\ cidx' = [cidx EXCEPT ![c] = None]
    /\ att' = [att EXCEPT ![c] = 0]
    /\ late' = late \ {c}
    /\ UNCHANGED <<sdk, poolVars, dead, inflight, conns, calls, kaVars, adminVars, faults>>

\* TxRxMsg has returned, with whatever result; lastUsed is set and the entry goes back.
TxrxDone(c) ==
    LET p == cpool[c] IN
    /\ cpc[c] = "msg"
    /\ aged' = [aged EXCEPT ![p] = @ \ {cidx[c]}]
    /\ Put(p, cidx[c]) \/ Drop(p)
    /\ TxrxReturn(c)
    /\ UNCHANGED <<sdk, poolVars, dead, conns, calls, kaVars, adminVars, faults>>

Caller(c) == TxrxLookup(c) \/ TxrxCount(c) \/ TxrxTake(c) \/ TxrxStopped(c)
             \/ TxrxPutDead(c) \/ TxrxDone(c)

-----------------------------------------------------------------------------
(* keepaliveLoop of pool p *)

\* A silence of keepalive_ms between two ticks: the live entries are idle long
\* enough for a ping.
Silence(p) ==
    /\ init[p] /\ kpc[p] = "sleep"
    /\ ~(Entries \ dead[p] \subseteq aged[p])
    /\ aged' = [aged EXCEPT ![p] = @ \cup (Entries \ dead[p])]
    /\ UNCHANGED <<sdk, poolVars, free, dead, inflight, conns, callerVars, kaVars, adminVars, faults>>

\* The backoff of a dead entry ends.
BackoffEnds(p, i) ==
    /\ init[p]
    /\ i \in dead[p] \ aged[p]
    /\ aged' = [aged EXCEPT ![p] = @ \cup {i}]
    /\ UNCHANGED <<sdk, poolVars, free, dead, inflight, conns, callerVars, kaVars, adminVars, faults>>

\* A tick.  Go's select may prefer the ticker to a closed stop.
KaTick(p) ==
    /\ kpc[p] = "sleep"
    /\ sdk = "go" \/ ~stop[p]
    /\ kpc' = [kpc EXCEPT ![p] = "ping"]
    /\ ki' = [ki EXCEPT ![p] = 0]
    /\ UNCHANGED <<sdk, poolVars, free, dead, aged, inflight, conns, callerVars, kgot, adminVars, faults>>

KaStop(p) ==
    /\ kpc[p] = "sleep"
    /\ stop[p]
    /\ kpc' = [kpc EXCEPT ![p] = "done"]
    /\ UNCHANGED <<sdk, poolVars, free, dead, aged, inflight, conns, callerVars, ki, kgot, adminVars, faults>>

\* The next entry of the ping pass (pass = "ping") or of the reopen pass.
KaNext(p, pass) ==
    /\ kgot' = [kgot EXCEPT ![p] = None]
    /\ IF ki[p] + 1 < Size
       THEN ki' = [ki EXCEPT ![p] = @ + 1] /\ kpc' = [kpc EXCEPT ![p] = pass]
       ELSE /\ ki' = [ki EXCEPT ![p] = 0]
            /\ kpc' = [kpc EXCEPT ![p] = IF pass = "ping" THEN "reopen" ELSE "sleep"]

\* The ping pass is for live entries that are idle, the reopen pass for dead ones
\* whose backoff is over.
KaWants(p) ==
    /\ ki[p] \in aged[p]
    /\ (kpc[p] = "reopen") <=> (ki[p] \in dead[p])

KaSkip(p) ==
    /\ kpc[p] \in {"ping", "reopen"} /\ kgot[p] = None
    /\ ~KaWants(p) \/ free[p] = <<>>
    /\ KaNext(p, kpc[p])
    /\ UNCHANGED <<sdk, poolVars, free, dead, aged, inflight, conns, callerVars, adminVars, faults>>

\* Claim entry i by taking the head of the queue.  When it is i, ping it, or wipe
\* its connection locally and reopen it.
KaClaim(p) ==
    /\ kpc[p] \in {"ping", "reopen"} /\ kgot[p] = None
    /\ KaWants(p)
    /\ free[p] # <<>>
    /\ Take(p)
    /\ kgot' = [kgot EXCEPT ![p] = Head(free[p])]
    /\ IF Head(free[p]) # ki[p] THEN UNCHANGED <<kpc, conns>>
       ELSE IF kpc[p] = "ping" THEN kpc' = [kpc EXCEPT ![p] = "pinging"] /\ UNCHANGED conns
       ELSE kpc' = [kpc EXCEPT ![p] = "reopening"] /\ conns' = conns \ {ki[p]}
    /\ UNCHANGED <<sdk, poolVars, dead, aged, inflight, callerVars, ki, adminVars, faults>>

\* The keepalive thread gives its index back and goes on; Go returns when it took
\* stop instead.
KaGiveBack(p, pass) ==
    \/ (Put(p, kgot[p]) \/ (sdk = "python" /\ Drop(p))) /\ KaNext(p, pass)
    \/ /\ sdk = "go" /\ Drop(p)
       /\ kpc' = [kpc EXCEPT ![p] = "done"]
       /\ kgot' = [kgot EXCEPT ![p] = None]
       /\ UNCHANGED ki

\* Wrong variant of KaWrong: the other entry is not given back.
KaWrongKeeps(p) ==
    /\ kpc[p] \in {"ping", "reopen"} /\ kgot[p] # None
    /\ UNCHANGED free /\ KaNext(p, kpc[p])
    /\ UNCHANGED <<sdk, poolVars, dead, aged, inflight, conns, callerVars, adminVars, faults>>

\* "Wrong entry - return it."
KaWrong(p) ==
    /\ kpc[p] \in {"ping", "reopen"} /\ kgot[p] # None
    /\ KaGiveBack(p, kpc[p])
    /\ UNCHANGED <<sdk, poolVars, dead, aged, inflight, conns, callerVars, adminVars, faults>>

\* The ping has returned; a failure marks the entry dead.
KaPinged(p) ==
    LET i == ki[p] IN
    /\ kpc[p] = "pinging"
    /\ \/ i \in conns /\ UNCHANGED <<dead, faults>>
       \/ /\ Lose \/ (i \notin conns /\ UNCHANGED faults)
          /\ dead' = [dead EXCEPT ![p] = @ \cup {i}]
    /\ aged' = [aged EXCEPT ![p] = @ \ {i}]
    /\ KaGiveBack(p, "ping")
    /\ UNCHANGED <<sdk, poolVars, inflight, conns, callerVars, adminVars>>

\* Wrong variant of KaReopened: the entry is live again although the open failed.
KaReopenedAnyway(p) ==
    LET i == ki[p] IN
    /\ kpc[p] = "reopening"
    /\ ConnOpens(i) \/ ConnFails(i)
    /\ dead' = [dead EXCEPT ![p] = @ \ {i}]
    /\ aged' = [aged EXCEPT ![p] = @ \ {i}]
    /\ KaGiveBack(p, "reopen")
    /\ UNCHANGED <<sdk, poolVars, inflight, callerVars, adminVars>>

\* TxRxOpen with the same app_handle has returned.
KaReopened(p) ==
    LET i == ki[p] IN
    /\ kpc[p] = "reopening"
    /\ \/ ConnOpens(i) /\ dead' = [dead EXCEPT ![p] = @ \ {i}]
       \/ ConnFails(i) /\ UNCHANGED dead
    /\ aged' = [aged EXCEPT ![p] = @ \ {i}]
    /\ KaGiveBack(p, "reopen")
    /\ UNCHANGED <<sdk, poolVars, inflight, callerVars, adminVars>>

Keeper(p) == KaTick(p) \/ KaStop(p) \/ KaSkip(p) \/ KaClaim(p) \/ KaWrong(p)
             \/ KaPinged(p) \/ KaReopened(p)

-----------------------------------------------------------------------------
(* PoolOpen *)

\* No pool yet: make one and publish it.
OpenBegin(a) ==
    /\ apc[a] = "idle"
    /\ cur = None
    /\ made < MaxOpens
    /\ made' = made + 1
    /\ cur' = made'
    /\ apool' = [apool EXCEPT ![a] = made']
    /\ apc' = [apc EXCEPT ![a] = "opening"]
    /\ UNCHANGED <<sdk, opened, init, stop, free, dead, aged, inflight, conns, callerVars, kaVars, ak, faults>>

OpenEntry(a) ==
    LET p == apool[a] IN
    /\ apc[a] = "opening"
    /\ opened[p] < Size
    /\ \/ ConnOpens(opened[p]) /\ opened' = [opened EXCEPT ![p] = @ + 1] /\ UNCHANGED apc
       \/ ConnFails(opened[p]) /\ apc' = [apc EXCEPT ![a] = "rollback"] /\ UNCHANGED opened
    /\ UNCHANGED <<sdk, cur, made, init, stop, free, dead, aged, inflight, callerVars, kaVars, apool, ak>>

\* The index loop of rollback and of PoolClose: one TxRxClose per opened entry.
CloseOne(a) ==
    /\ ak[a] < opened[apool[a]]
    /\ conns' = conns \ {ak[a]}
    /\ ak' = [ak EXCEPT ![a] = @ + 1]
    /\ UNCHANGED <<sdk, poolVars, free, dead, aged, inflight, callerVars, kaVars, apc, apool, faults>>

AdminReturn(a) ==
    /\ apc' = [apc EXCEPT ![a] = "idle"]
    /\ apool' = [apool EXCEPT ![a] = None]
    /\ ak' = [ak EXCEPT ![a] = 0]

\* An open failed: close the others and take the pool out of the map.
Rollback(a) ==
    /\ apc[a] = "rollback"
    /\ \/ CloseOne(a)
       \/ /\ ak[a] = opened[apool[a]]
          /\ cur' = None
          /\ AdminReturn(a)
          /\ UNCHANGED <<sdk, made, opened, init, stop, free, dead, aged, inflight, conns, callerVars, kaVars, faults>>

\* All entries are open: seed the queue in order, go live, start the keepalive thread.
OpenDone(a) ==
    LET p == apool[a] IN
    /\ apc[a] = "opening"
    /\ opened[p] = Size
    /\ free' = [free EXCEPT ![p] = [n \in 1 .. Size |-> n - 1]]
    /\ init' = [init EXCEPT ![p] = TRUE]
    /\ kpc' = [kpc EXCEPT ![p] = IF Keepalive THEN "sleep" ELSE @]
    /\ AdminReturn(a)
    /\ UNCHANGED <<sdk, cur, made, opened, stop, dead, aged, inflight, conns, callerVars, ki, kgot, faults>>

-----------------------------------------------------------------------------
(* PoolClose *)

\* Take the pool out of the map, then stop it.
CloseBegin(a) ==
    /\ apc[a] = "idle"
    /\ cur # None
    /\ cur' = None
    /\ init' = [init EXCEPT ![cur] = FALSE]
    /\ stop' = [stop EXCEPT ![cur] = TRUE]
    /\ apool' = [apool EXCEPT ![a] = cur]
    /\ apc' = [apc EXCEPT ![a] = "draining"]
    /\ UNCHANGED <<sdk, made, opened, free, dead, aged, inflight, conns, callerVars, kaVars, ak, faults>>

\* Wrong variant of CloseDrained: the keepalive thread is not waited for.
CloseDrainedEarly(a) ==
    /\ apc[a] = "draining"
    /\ inflight[apool[a]] = 0
    /\ apc' = [apc EXCEPT ![a] = "closing"]
    /\ UNCHANGED <<sdk, poolVars, free, dead, aged, inflight, conns, callerVars, kaVars, apool, ak, faults>>

\* The keepalive thread has ended and no counted call is left.
CloseDrained(a) ==
    /\ apc[a] = "draining"
    /\ kpc[apool[a]] \in {"off", "done"}
    /\ inflight[apool[a]] = 0
    /\ apc' = [apc EXCEPT ![a] = "closing"]
    /\ UNCHANGED <<sdk, poolVars, free, dead, aged, inflight, conns, callerVars, kaVars, apool, ak, faults>>

CloseEntries(a) ==
    /\ apc[a] = "closing"
    /\ \/ CloseOne(a)
       \/ /\ ak[a] = opened[apool[a]]
          /\ AdminReturn(a)
          /\ UNCHANGED <<sdk, poolVars, free, dead, aged, inflight, conns, callerVars, kaVars, faults>>

Admin(a) == OpenBegin(a) \/ OpenEntry(a) \/ Rollback(a) \/ OpenDone(a)
            \/ CloseBegin(a) \/ CloseDrained(a) \/ CloseEntries(a)

-----------------------------------------------------------------------------

Next ==
    \/ \E c \in Callers : Caller(c)
    \/ \E p \in Pools : Keeper(p) \/ Silence(p) \/ \E i \in Entries : BackoffEnds(p, i)
    \/ \E a \in Admins : Admin(a)

\* Threads run; nobody has to start a call, an open or a close.  A caller that waits
\* for an index gets one in its turn (the channel serves receivers in order), and the
\* random select between the ticker and a closed stop takes stop in the end.
Fairness ==
    /\ \A c \in Callers :
        /\ WF_vars(TxrxCount(c) \/ TxrxPutDead(c) \/ TxrxDone(c) \/ TxrxStopped(c))
        /\ SF_vars(TxrxTake(c))
    /\ \A p \in Pools : WF_vars(Keeper(p)) /\ SF_vars(KaStop(p))
    /\ \A a \in Admins : WF_vars(OpenEntry(a) \/ Rollback(a) \/ OpenDone(a) \/ CloseDrained(a) \/ CloseEntries(a))

Spec == Init /\ [][Next]_vars
FairSpec == Spec /\ Fairness

-----------------------------------------------------------------------------
(* Properties *)

CallersWith(p, i) == {c \in Callers : cpool[c] = p /\ cidx[c] = i}

\* Every index of a pool is at one place at most: once in the queue, with one caller
\* or with the keepalive thread, and while the pool is live at exactly one: the queue
\* never overflows (returning an index would block), and no index is lost to the pool
\* (pool.go:166-169, 394-402, 500-503).  All pools of a slot use the same handles, so
\* this alone does not keep two threads from one connection.  PoolClose says that
\* "In-flight calls complete first" (pool.go:285-287): true of every call but those
\* that looked the pool up before the close and counted themselves in after it had
\* drained (pool.go:158-165).  Only these hold an index of a drained pool, and only
\* they use a connection beside another call or the keepalive thread of the next pool.
IndexConserved ==
    /\ TypeOK
    /\ \A p \in Pools : \A i \in Entries :
           LET places == Cardinality({n \in DOMAIN free[p] : free[p][n] = i})
                         + Cardinality(CallersWith(p, i))
                         + (IF kgot[p] = i THEN 1 ELSE 0)
           IN places <= 1 /\ (init[p] => places = 1)
    /\ \A c \in Callers \ late : cidx[c] # None =>
           /\ ~Drained(cpool[c])
           /\ \A d \in Callers \ late : cidx[d] = cidx[c] => d = c
           /\ \A p \in Pools : kgot[p] # cidx[c]

\* A live entry of a live pool has its connection, whatever open, rollback, ping,
\* reopen and close did before; so a call that got an entry is not answered
\* ErrNotOpen while the pool is open (pool.go:150: "returns ErrNotOpen if no pool
\* exists or it's closing").
LiveIsOpen == \A p \in Pools : init[p] => Entries \ dead[p] \subseteq conns

\* With no pool in the map and no open or close under way, nothing of a pool is left
\* in the connection table, where it would make the next PoolOpen fail
\* (pool.go:58-60, 285-287).
ClosedIsEmpty == (cur = None /\ \A a \in Admins : apc[a] = "idle") => conns = {}

\* PoolTxRx returns (pool.go:147-150), although entries die, the keepalive thread
\* takes indices and the pool closes while the call waits.
TxrxReturns == \A c \in Callers : cpc[c] # "idle" ~> cpc[c] = "idle"

\* PoolOpen and PoolClose return (pool.go:285-287).
AdminReturns == \A a \in Admins : apc[a] # "idle" ~> apc[a] = "idle"

=============================================================================
