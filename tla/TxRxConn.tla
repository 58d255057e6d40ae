------------------------------ MODULE TxRxConn ------------------------------
(***************************************************************************)
(* The TxRx connection table of one client: bp_client_txrx_open, _msg and  *)
(* _close and the pool's force-close (c/src/conn.c, go/ocxbp/conn.go,      *)
(* python/src/bpclient/client.py).                                         *)
(*                                                                         *)
(* An open talks to the PLC before it takes the table's lock, a close      *)
(* takes the entry out of the table before it talks to the PLC, and any    *)
(* message can be lost.  A section under the lock is one action; Python    *)
(* alone keeps the lock while it closes a connection it could not keep.    *)
(* A connection is named by its serial; slot, vendor, originator serial    *)
(* and connection ids go with it and are left out.  The PLC is modelled    *)
(* from how the code uses it: it refuses a serial it already has.          *)
(***************************************************************************)
EXTENDS Integers, FiniteSets

CONSTANTS
    Threads,      \* threads of the client that use connections
    Handles,      \* app_handles
    PoolHandles,  \* the app_handles of pool entries, which reopen may force-close
    Serials,      \* conn_serial values
    MaxConns,     \* BP_TXRX_MAX_CONNS, 16
    Sdks,         \* the SDKs whose client is modelled
    MaxOps,       \* bound: operations started
    MaxFaults,    \* bound: messages lost
    None          \* no serial; nobody

ASSUME TxRxConnAssumption ==
    /\ PoolHandles \subseteq Handles
    /\ MaxConns \in Nat /\ MaxOps \in Nat /\ MaxFaults \in Nat
    /\ Sdks \subseteq {"c", "go", "python"}
    /\ IsFiniteSet(Handles)
    /\ None \notin Serials \cup Threads \cup Handles

VARIABLES
    sdk,     \* whose code this client runs; never changes
    mu,      \* the thread that keeps txrx_mu across a message, or None
    table,   \* table[h]: conn_serial cached for app_handle h, or None
    plc,     \* serials of the connections the PLC has open
    pc,      \* pc[t]: what thread t is doing
    hnd,     \* hnd[t]: spec->app_handle of t's operation
    ser,     \* ser[t]: the local conn_serial
    ops,     \* operations started
    faults   \* messages lost

vars == <<sdk, mu, table, plc, pc, hnd, ser, ops, faults>>

\* The points at which a thread's conn_serial names a connection of the PLC, or one
\* that is being made.
Carrying == {"lfo", "insert", "fc"}

TypeOK ==
    /\ sdk \in Sdks
    /\ mu \in Threads \cup {None}
    /\ table \in [Handles -> Serials \cup {None}]
    /\ plc \subseteq Serials
    /\ pc \in [Threads -> {"idle", "lfo", "insert", "fc", "msg"}]
    /\ hnd \in [Threads -> Handles \cup {None}]
    /\ ser \in [Threads -> Serials \cup {None}]
    /\ \A t \in Threads : pc[t] \in Carrying => ser[t] \in Serials
    /\ \A t \in Threads : pc[t] \in {"lfo", "insert"} => hnd[t] \in Handles
    /\ ops \in 0 .. MaxOps
    /\ faults \in 0 .. MaxFaults

Init ==
    /\ sdk \in Sdks
    /\ mu = None
    /\ table = [h \in Handles |-> None]
    /\ plc = {}
    /\ pc = [t \in Threads |-> "idle"]
    /\ hnd = [t \in Threads |-> None]
    /\ ser = [t \in Threads |-> None]
    /\ ops = 0
    /\ faults = 0

OpenHandles == {h \in Handles : table[h] # None}

\* The threads that hold a connection outside the table, and the serials this
\* client still has to do with.
Carriers == {t \in Threads : pc[t] \in Carrying}
Held == {table[h] : h \in OpenHandles} \cup {ser[t] : t \in Carriers}

\* A new operation of thread t.
Begin(t) ==
    /\ pc[t] = "idle"
    /\ ops < MaxOps
    /\ ops' = ops + 1

Goto(t, where) == pc' = [pc EXCEPT ![t] = where]

\* The operation returns and its locals are gone.
Return(t) ==
    /\ Goto(t, "idle")
    /\ hnd' = [hnd EXCEPT ![t] = None]
    /\ ser' = [ser EXCEPT ![t] = None]

Lose == faults < MaxFaults /\ faults' = faults + 1

-----------------------------------------------------------------------------
(* txrx_open *)

\* rand_conn_serial; "unique within a few seconds" is taken to mean that the
\* draw avoids the serials this client still holds.
OpenSend(t, h) ==
    /\ Begin(t)
    /\ \E s \in Serials \ Held : ser' = [ser EXCEPT ![t] = s]
    /\ hnd' = [hnd EXCEPT ![t] = h]
    /\ Goto(t, "lfo")
    /\ UNCHANGED <<sdk, mu, table, plc, faults>>

\* The Large Forward Open succeeds; an open connection now exists at the PLC.
LfoAccepted(t) ==
    /\ pc[t] = "lfo"
    /\ ser[t] \notin plc
    /\ plc' = plc \cup {ser[t]}
    /\ Goto(t, "insert")
    /\ UNCHANGED <<sdk, mu, table, hnd, ser, ops, faults>>

\* A CIP error reply: the PLC still has a connection with this serial, or refuses
\* for a reason of its own (no resources, bad parameters).
LfoRejected(t) ==
    /\ pc[t] = "lfo"
    /\ Return(t)
    /\ UNCHANGED <<sdk, mu, table, plc, ops, faults>>

\* message_send fails: the request or its reply was lost.  txrx_open returns and
\* does not know which.
LfoFails(t) ==
    /\ pc[t] = "lfo"
    /\ Lose
    /\ plc' \in {plc, plc \cup {ser[t]}}
    /\ Return(t)
    /\ UNCHANGED <<sdk, mu, table, ops>>

\* Wrong variant of InsertOk: the number of entries is not looked at again.
InsertOkUncounted(t) ==
    /\ pc[t] = "insert" /\ mu = None
    /\ hnd[t] \notin OpenHandles
    /\ table' = [table EXCEPT ![hnd[t]] = ser[t]]
    /\ Return(t)
    /\ UNCHANGED <<sdk, mu, plc, ops, faults>>

\* Under txrx_mu: the handle is free and so is an entry.
InsertOk(t) ==
    /\ pc[t] = "insert" /\ mu = None
    /\ hnd[t] \notin OpenHandles
    /\ Cardinality(OpenHandles) < MaxConns
    /\ table' = [table EXCEPT ![hnd[t]] = ser[t]]
    /\ Return(t)
    /\ UNCHANGED <<sdk, mu, plc, ops, faults>>

\* The connection cannot be kept and is closed again.  C and Go release the lock
\* first, Python sends the Forward_Close inside the with block.
Discard(t) ==
    /\ mu' = IF sdk = "python" THEN t ELSE None
    /\ Goto(t, "fc")
    /\ UNCHANGED <<sdk, table, plc, hnd, ser, ops, faults>>

\* Wrong variant of InsertDup: the new connection is not closed.
InsertDupForgets(t) ==
    /\ pc[t] = "insert" /\ mu = None
    /\ hnd[t] \in OpenHandles
    /\ Return(t)
    /\ UNCHANGED <<sdk, mu, table, plc, ops, faults>>

\* Somebody else opened the handle: BP_ERR_GENERIC.
InsertDup(t) ==
    /\ pc[t] = "insert" /\ mu = None
    /\ hnd[t] \in OpenHandles
    /\ Discard(t)

\* No entry is free: BP_ERR_NO_FREE_SLOT.
InsertFull(t) ==
    /\ pc[t] = "insert" /\ mu = None
    /\ hnd[t] \notin OpenHandles
    /\ Cardinality(OpenHandles) >= MaxConns
    /\ Discard(t)

-----------------------------------------------------------------------------
(* txrx_close, and the Forward_Close that ends a discarded open *)

\* Wrong variants of CloseTake: the entry stays until the Forward_Close is
\* answered; the lookup's result is not tested.
CloseTakeLate(t, h) ==
    /\ Begin(t)
    /\ mu = None
    /\ h \in OpenHandles
    /\ ser' = [ser EXCEPT ![t] = table[h]]
    /\ Goto(t, "fc")
    /\ UNCHANGED <<sdk, mu, table, plc, hnd, faults>>

CloseTakeUntested(t, h) ==
    /\ Begin(t)
    /\ mu = None
    /\ ser' = [ser EXCEPT ![t] = table[h]]
    /\ table' = [table EXCEPT ![h] = None]
    /\ Goto(t, "fc")
    /\ UNCHANGED <<sdk, mu, plc, hnd, faults>>

\* Snapshot the entry and free it under the lock.
CloseTake(t, h) ==
    /\ Begin(t)
    /\ mu = None
    /\ h \in OpenHandles
    /\ ser' = [ser EXCEPT ![t] = table[h]]
    /\ table' = [table EXCEPT ![h] = None]
    /\ Goto(t, "fc")
    /\ UNCHANGED <<sdk, mu, plc, hnd, faults>>

\* The Forward_Close reaches the PLC, which may have dropped the connection
\* already (an error reply); or it is lost, and nobody tries again.
ForwardClose(t) ==
    /\ pc[t] = "fc"
    /\ \/ plc' = plc \ {ser[t]} /\ UNCHANGED faults
       \/ Lose /\ UNCHANGED plc
    /\ mu' = IF mu = t THEN None ELSE mu
    /\ Return(t)
    /\ UNCHANGED <<sdk, table, ops>>

-----------------------------------------------------------------------------
(* txrx_msg and force_close_local *)

\* Copy the slot out of the entry under the lock; the message goes unconnected.
MsgLookup(t, h) ==
    /\ Begin(t)
    /\ mu = None
    /\ h \in OpenHandles
    /\ Goto(t, "msg")
    /\ UNCHANGED <<sdk, mu, table, plc, hnd, ser, faults>>

MsgDone(t) ==
    /\ pc[t] = "msg"
    /\ Return(t)
    /\ UNCHANGED <<sdk, mu, table, plc, ops, faults>>

\* txrx_msg and txrx_close of a handle that is not open: BP_ERR_NOT_OPEN.
NotOpen(t, h) ==
    /\ Begin(t)
    /\ mu = None
    /\ h \notin OpenHandles
    /\ UNCHANGED <<sdk, mu, table, plc, pc, hnd, ser, faults>>

\* The pool's reopen gives up an entry the keepalive ping found dead.  The ping
\* failed because a message was lost.
ForceClose(t, h) ==
    /\ h \in PoolHandles
    /\ Begin(t)
    /\ mu = None
    /\ h \in OpenHandles
    /\ Lose
    /\ table' = [table EXCEPT ![h] = None]
    /\ UNCHANGED <<sdk, mu, plc, pc, hnd, ser>>

\* The PLC drops a connection it has heard nothing on.
PlcTimeout(s) ==
    /\ s \in plc
    /\ plc' = plc \ {s}
    /\ UNCHANGED <<sdk, mu, table, pc, hnd, ser, ops, faults>>

-----------------------------------------------------------------------------

Start(t, h) == \/ OpenSend(t, h) \/ CloseTake(t, h)
               \/ MsgLookup(t, h) \/ NotOpen(t, h) \/ ForceClose(t, h)

Step(t) == \/ LfoAccepted(t) \/ LfoRejected(t) \/ LfoFails(t)
           \/ InsertOk(t) \/ InsertDup(t) \/ InsertFull(t)
           \/ ForwardClose(t) \/ MsgDone(t)

Next ==
    \/ \E t \in Threads : Step(t) \/ \E h \in Handles : Start(t, h)
    \/ \E s \in Serials : PlcTimeout(s)

Spec == Init /\ [][Next]_vars

-----------------------------------------------------------------------------
(* Properties *)

\* Every connection has one holder: its table entry, the open that has not
\* inserted it yet, or the close that has not sent its Forward_Close.  So no
\* connection is closed twice and none is closed while the table offers it
\* (conn.c:324-326: "A second concurrent close() for the same handle will find no
\* entry and return NOT_OPEN").
OneHolder ==
    /\ \A t \in Carriers : \A h \in OpenHandles : table[h] # ser[t]
    /\ \A t, u \in Carriers : ser[t] = ser[u] => t = u
    /\ \A g, h \in OpenHandles : table[g] = table[h] => g = h

\* Connections at the PLC that nobody in the client holds any more.
Kept == {table[h] : h \in OpenHandles} \cup {ser[t] : t \in {u \in Threads : pc[u] \in {"insert", "fc"}}}
Orphans == plc \ Kept

\* The client forgets a connection only when a message was lost: duplicate
\* handles, a full table and closes racing opens leave nothing behind at the PLC
\* (conn.c:225-226, 239: "so we don't leak PLC table entries").
OrphanCostsFault == Cardinality(Orphans) <= faults

\* The table implements the connections its users see (ConnTable): the open
\* handles change one at a time, by an open that found its handle and an entry
\* free, or by a close.
Abstract == INSTANCE ConnTable WITH held <- OpenHandles
ImplementsConnTable == Abstract!Spec
=============================================================================
