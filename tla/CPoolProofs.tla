---------------------------- MODULE CPoolProofs ----------------------------
(***************************************************************************)
(* Proofs about the C connection pool, for any number of callers, admin    *)
(* threads and entries, and any backoff.                                   *)
(*                                                                         *)
(* EntryExclusive, AcquiredIsOpen and LeakCostsFault are not inductive by  *)
(* themselves.  They rest on four facts, in this order: who holds pools_mu *)
(* (AdminInv), who may still use entries (UseInv), which connections the   *)
(* entries own at each point of open, rollback, ping, reopen and close     *)
(* (ConnInv), and which connections a reopen is going to forget (LeakInv). *)
(***************************************************************************)
EXTENDS CPool, FiniteSetTheorems, TLAPS

-----------------------------------------------------------------------------
(* The inductive invariant *)

\* pools_mu is held by exactly the thread that is inside pool_open or pool_close,
\* and by nobody while the pool is open; the loop indexes start at the first entry.
AdminInv ==
    /\ \A a \in Admins : apc[a] # "idle" <=> poolsMu = a
    /\ initialized => poolsMu = Nobody
    /\ \A a \in Admins : apc[a] \in {"opening", "closing"} => aAt >= 1
    /\ \A a \in Admins : apc[a] = "rollback" => aAt <= Size
    /\ \A i \in Entries : backoff[i] # 0 => backoff[i] >= BackoffMin

\* The close that has cleared initialized and not yet begun to close connections.
Leaving(phases) == poolsMu # Nobody /\ apc[poolsMu] \in phases

\* Entries can be in use.
Running == initialized \/ Leaving({"join", "drain", "sleep"})

\* The keepalive thread is gone before close drains, and every user before it
\* takes the connections away.
UseInv ==
    /\ kaPc # "none" => initialized \/ Leaving({"join"})
    /\ inUse # {} => Running

\* What the entries of the pool own in the TxRx table, at every point of open,
\* rollback, ping, reopen and close.
ConnInv ==
    /\ live \subseteq conn
    /\ Running => Entries \ dead \subseteq conn
    /\ \A c \in Callers : cpc[c] \in {"msg", "ret"} => at[c] \notin dead
    /\ kaPc = "pinging" => kaAt \notin dead
    /\ kaPc = "reopening" => kaAt \in dead
    /\ Leaving({"opening"}) => dead = {} /\ conn = 1 .. (aAt - 1)
    /\ Leaving({"rollback"}) => conn = 1 .. aAt
    /\ Leaving({"closing"}) => conn \subseteq aAt .. Size
    /\ poolsMu = Nobody /\ ~initialized => conn = {}

\* The dead entries whose connection the PLC still has: a reopen forgets them
\* without a further failure.
Suspects == dead \cap live

\* A connection that is forgotten, or is going to be, was paid for by a failure.
LeakInv == orphans + Cardinality(Suspects) <= faults

-----------------------------------------------------------------------------
(* Type correctness and the holder of pools_mu *)

\* Every step keeps the types, the loop indices of open, rollback and close included.
LEMMA TypeStep == TypeOK /\ AdminInv /\ [Next]_vars => TypeOK'
<1> SUFFICES ASSUME TypeOK, AdminInv, [Next]_vars PROVE TypeOK'
    OBVIOUS
<1> USE CPoolAssumption DEF TypeOK, AdminInv, Entries, entryVars, connVars, kaVars,
            callerVars, adminVars
<1>1. ASSUME NEW c \in Callers, TxrxEnter(c) PROVE TypeOK'
    <2>1. /\ inUse' \subseteq Entries /\ at' \in [Callers -> Entries]
          /\ cpc' \in [Callers -> {"idle", "sleep", "woken", "msg", "ret"}]
        <3>1. CASE Acquire(c)
            BY <3>1 DEF Acquire, Usable
        <3>2. CASE ~ Acquire(c)
            BY <1>1, <3>2 DEF TxrxEnter
        <3> QED
            BY <3>1, <3>2
    <2>2. calls' \in [Callers -> 0 .. MaxCalls]
        <3> SUFFICES ASSUME NEW d \in Callers PROVE calls'[d] \in 0 .. MaxCalls
            BY <1>1 DEF TxrxEnter
        <3>1. calls[d] \in 0 .. MaxCalls /\ calls[c] + 1 \in 0 .. MaxCalls
            BY <1>1 DEF TxrxEnter
        <3> QED
            BY <1>1, <3>1 DEF TxrxEnter
    <2> QED
        BY <1>1, <2>1, <2>2 DEF TxrxEnter, Acquire, Usable
<1>2. ASSUME NEW c \in Callers, TxrxWoken(c) PROVE TypeOK'
    <2>1. /\ inUse' \subseteq Entries /\ at' \in [Callers -> Entries]
          /\ cpc' \in [Callers -> {"idle", "sleep", "woken", "msg", "ret"}]
        <3>1. CASE Acquire(c)
            BY <3>1 DEF Acquire, Usable
        <3>2. CASE ~ Acquire(c)
            BY <1>2, <3>2 DEF TxrxWoken
        <3> QED
            BY <3>1, <3>2
    <2>2. calls' \in [Callers -> 0 .. MaxCalls]
        BY <1>2 DEF TxrxWoken, Acquire, Usable
    <2> QED
        BY <1>2, <2>1, <2>2 DEF TxrxWoken, Acquire, Usable
<1>3. ASSUME NEW c \in Callers, TxrxMsg(c) PROVE TypeOK'
    BY <1>3 DEF TxrxMsg
<1>4. ASSUME NEW c \in Callers, TxrxReturn(c) PROVE TypeOK'
    BY <1>4 DEF TxrxReturn, CondSignal, SleepingCallers, SleepingAdmins
<1>5. ASSUME NEW c \in Callers, SpuriousWakeup(c) PROVE TypeOK'
    BY <1>5 DEF SpuriousWakeup
<1>6. ASSUME KaTick PROVE TypeOK'
    BY <1>6 DEF KaTick
<1>7. ASSUME KaExit PROVE TypeOK'
    BY <1>7 DEF KaExit
<1>8. ASSUME KaPingSkip PROVE TypeOK'
    BY SMTT(40), <1>8 DEF KaPingSkip, KaAdvance
<1>9. ASSUME KaPingClaim PROVE TypeOK'
    BY <1>9 DEF KaPingClaim, Usable
<1>10. ASSUME KaPingDone PROVE TypeOK'
    <2>1. /\ cpc' \in [Callers -> {"idle", "sleep", "woken", "msg", "ret"}]
          /\ apc' \in [Admins -> {"idle", "opening", "rollback", "join", "drain", "sleep",
                                  "closing"}]
        BY <1>10 DEF KaPingDone, CondSignal, SleepingCallers, SleepingAdmins
    <2>2. kaPc' \in {"ping", "reopen"} /\ kaAt' \in Entries
        BY <1>10 DEF KaPingDone, KaAdvance
    <2>3. faults' \in 0 .. MaxFaults
        BY <1>10 DEF KaPingDone, Fault
    <2>4. /\ dead' \subseteq Entries /\ due' \subseteq Entries
          /\ backoff' \in [Entries -> 0 .. BackoffCap]
          /\ \A i \in dead' : backoff'[i] >= BackoffMin
        <3>1. CASE UNCHANGED <<dead, due, backoff>>
            BY <3>1
        <3>2. CASE /\ dead' = dead \cup {kaAt} /\ due' = due \ {kaAt}
                   /\ backoff' = [backoff EXCEPT ![kaAt] =
                                     IF @ = 0 THEN BackoffMin ELSE @]
            BY <3>2
        <3> QED
            BY <1>10, <3>1, <3>2 DEF KaPingDone
    <2> QED
        BY <1>10, <2>1, <2>2, <2>3, <2>4 DEF KaPingDone
<1>11. ASSUME KaReopenSkip PROVE TypeOK'
    <2>1. kaPc' \in {"reopen", "sleep"} /\ kaAt' \in Entries
        BY <1>11 DEF KaReopenSkip, KaAdvance
    <2> QED
        BY <1>11, <2>1 DEF KaReopenSkip
<1>12. ASSUME KaReopenClaim PROVE TypeOK'
    BY <1>12 DEF KaReopenClaim
<1>13. ASSUME KaForceClose PROVE TypeOK'
    BY <1>13 DEF KaForceClose
<1>14. ASSUME KaReopenOk PROVE TypeOK'
    BY SMTT(40), <1>14 DEF KaReopenOk, KaAdvance, ConnOpenOk, WokenCallers
<1>15. ASSUME KaReopenFails PROVE TypeOK'
    <2>1. kaPc' \in {"reopen", "sleep"} /\ kaAt' \in Entries
        BY <1>15 DEF KaReopenFails, KaAdvance
    <2>2. faults' \in 0 .. MaxFaults /\ orphans' \in Nat
        BY <1>15 DEF KaReopenFails, ConnOpenFails, Fault
    <2>3. /\ backoff' \in [Entries -> 0 .. BackoffCap]
          /\ \A i \in dead' : backoff'[i] >= BackoffMin
        BY <1>15 DEF KaReopenFails
    <2> QED
        BY <1>15, <2>1, <2>2, <2>3 DEF KaReopenFails
<1>16. ASSUME NEW a \in Admins, OpenBegin(a) PROVE TypeOK'
    <2>1. backoff' \in [Entries -> 0 .. BackoffCap]
        BY <1>16 DEF OpenBegin
    <2>2. opens' \in 0 .. MaxOpens
        BY <1>16 DEF OpenBegin
    <2>3. apc' \in [Admins -> {"idle", "opening", "rollback", "join", "drain", "sleep",
                               "closing"}]
        BY <1>16 DEF OpenBegin
    <2>4. aAt' \in 0 .. Size + 1 /\ poolsMu' \in Admins \cup {Nobody}
        BY <1>16 DEF OpenBegin
    <2>5. /\ inUse' = {} /\ dead' = {} /\ idle' = {} /\ due' = {} /\ kaStop' = FALSE
          /\ UNCHANGED <<initialized, conn, live, orphans, kaPc, kaAt, cpc, at, calls,
             faults>>
        BY <1>16 DEF OpenBegin
    <2> HIDE DEF Entries
    <2> QED
        BY <2>1, <2>2, <2>3, <2>4, <2>5
<1>17. ASSUME NEW a \in Admins, OpenRefused(a) PROVE TypeOK'
    BY <1>17 DEF OpenRefused
<1>18. ASSUME NEW a \in Admins, CloseBegin(a) PROVE TypeOK'
    BY <1>18 DEF CloseBegin, WokenCallers
<1>19. ASSUME NEW a \in Admins, OpenEntryOk(a) PROVE TypeOK'
    BY <1>19 DEF OpenEntryOk, ConnOpenOk
<1>20. ASSUME NEW a \in Admins, OpenEntryFails(a) PROVE TypeOK'
    <2>1. aAt' \in 0 .. Size + 1
        BY <1>20 DEF OpenEntryFails, ConnOpenFails, Fault
    <2>2. faults' \in 0 .. MaxFaults /\ orphans' \in Nat
        BY <1>20 DEF OpenEntryFails, ConnOpenFails, Fault
    <2> QED
        BY <1>20, <2>1, <2>2 DEF OpenEntryFails
<1>21. ASSUME NEW a \in Admins, OpenEnd(a) PROVE TypeOK'
    <2>1. faults' \in 0 .. MaxFaults
        BY <1>21 DEF OpenEnd, Fault
    <2>2. kaPc' \in {"none", "sleep", "ping", "pinging", "reopen", "reopening"} /\ kaAt'
       \in Entries
        BY <1>21 DEF OpenEnd, Fault
    <2> QED
        BY <1>21, <2>1, <2>2 DEF OpenEnd
<1>22. ASSUME NEW a \in Admins, Rollback(a) PROVE TypeOK'
    BY SMTT(40), <1>22 DEF Rollback, ConnClose, Fault
<1>23. ASSUME NEW a \in Admins, RollbackEnd(a) PROVE TypeOK'
    BY <1>23 DEF RollbackEnd
<1>24. ASSUME NEW a \in Admins, CloseJoined(a) PROVE TypeOK'
    BY <1>24 DEF CloseJoined
<1>25. ASSUME NEW a \in Admins, CloseDrain(a) PROVE TypeOK'
    BY SMTT(40), <1>25 DEF CloseDrain
<1>26. ASSUME NEW a \in Admins, CloseConn(a) PROVE TypeOK'
    BY SMTT(40), <1>26 DEF CloseConn, ConnClose, Fault
<1>27. ASSUME NEW a \in Admins, CloseDestroy(a) PROVE TypeOK'
    <2>1. backoff' \in [Entries -> 0 .. BackoffCap]
        BY <1>27 DEF CloseDestroy
    <2> QED
        BY <1>27, <2>1 DEF CloseDestroy
<1>28. ASSUME NEW i \in Entries, TimeIdle(i) PROVE TypeOK'
    BY <1>28 DEF TimeIdle
<1>29. ASSUME NEW i \in Entries, TimeDue(i) PROVE TypeOK'
    BY <1>29 DEF TimeDue
<1>30. ASSUME PlcDrop PROVE TypeOK'
    <2>1. CASE \E i \in live : live' = live \ {i} /\ UNCHANGED orphans
        BY <1>30, <2>1 DEF PlcDrop
    <2>2. CASE orphans > 0 /\ orphans' = orphans - 1 /\ UNCHANGED live
        BY SMTT(40), <1>30, <2>2 DEF PlcDrop
    <2> QED
        BY <1>30, <2>1, <2>2 DEF PlcDrop
<1>31. CASE UNCHANGED vars
    BY <1>31 DEF vars
<1> QED
    BY <1>1, <1>2, <1>3, <1>4, <1>5, <1>6, <1>7, <1>8, <1>9, <1>10, <1>11, <1>12, <1>13,
       <1>14, <1>15, <1>16, <1>17, <1>18, <1>19, <1>20, <1>21, <1>22, <1>23, <1>24,
       <1>25, <1>26, <1>27, <1>28, <1>29, <1>30, <1>31
       DEF Next, CallerStep, KaStep, AdminStep

\* Every step keeps pools_mu with the one admin inside open or close.
LEMMA AdminInvStep == TypeOK /\ AdminInv /\ [Next]_vars => AdminInv'
<1> SUFFICES ASSUME TypeOK, AdminInv, [Next]_vars PROVE AdminInv'
    OBVIOUS
<1> USE CPoolAssumption DEF TypeOK, AdminInv, Entries, entryVars, connVars, kaVars,
            callerVars, adminVars
<1>1. ASSUME NEW c \in Callers, TxrxEnter(c) PROVE AdminInv'
    BY <1>1 DEF TxrxEnter, Acquire, Usable
<1>2. ASSUME NEW c \in Callers, TxrxWoken(c) PROVE AdminInv'
    BY <1>2 DEF TxrxWoken, Acquire, Usable
<1>3. ASSUME NEW c \in Callers, TxrxMsg(c) PROVE AdminInv'
    BY <1>3 DEF TxrxMsg
<1>4. ASSUME NEW c \in Callers, TxrxReturn(c) PROVE AdminInv'
    BY <1>4 DEF TxrxReturn, CondSignal, SleepingCallers, SleepingAdmins
<1>5. ASSUME NEW c \in Callers, SpuriousWakeup(c) PROVE AdminInv'
    BY <1>5 DEF SpuriousWakeup
<1>6. ASSUME KaTick PROVE AdminInv'
    BY <1>6 DEF KaTick
<1>7. ASSUME KaExit PROVE AdminInv'
    BY <1>7 DEF KaExit
<1>8. ASSUME KaPingSkip PROVE AdminInv'
    BY <1>8 DEF KaPingSkip, KaAdvance
<1>9. ASSUME KaPingClaim PROVE AdminInv'
    BY <1>9 DEF KaPingClaim, Usable
<1>10. ASSUME KaPingDone PROVE AdminInv'
    BY SMTT(40), <1>10 DEF KaPingDone, KaAdvance, CondSignal, SleepingCallers, SleepingAdmins, Fault
<1>11. ASSUME KaReopenSkip PROVE AdminInv'
    BY <1>11 DEF KaReopenSkip, KaAdvance
<1>12. ASSUME KaReopenClaim PROVE AdminInv'
    BY <1>12 DEF KaReopenClaim
<1>13. ASSUME KaForceClose PROVE AdminInv'
    BY <1>13 DEF KaForceClose
<1>14. ASSUME KaReopenOk PROVE AdminInv'
    BY <1>14 DEF KaReopenOk, KaAdvance, ConnOpenOk, WokenCallers
<1>15. ASSUME KaReopenFails PROVE AdminInv'
    BY <1>15 DEF KaReopenFails, KaAdvance, ConnOpenFails, Fault
<1>16. ASSUME NEW a \in Admins, OpenBegin(a) PROVE AdminInv'
    BY <1>16 DEF OpenBegin
<1>17. ASSUME NEW a \in Admins, OpenRefused(a) PROVE AdminInv'
    BY <1>17 DEF OpenRefused
<1>18. ASSUME NEW a \in Admins, CloseBegin(a) PROVE AdminInv'
    BY <1>18 DEF CloseBegin, WokenCallers
<1>19. ASSUME NEW a \in Admins, OpenEntryOk(a) PROVE AdminInv'
    <2>1. /\ UNCHANGED <<apc, poolsMu, initialized, backoff>>
          /\ aAt' = aAt + 1 /\ aAt \in Int
        BY <1>19 DEF OpenEntryOk, ConnOpenOk
    <2>2. \A b \in Admins : apc[b] # "idle" => b = a
        BY <1>19 DEF OpenEntryOk
    <2> HIDE DEF TypeOK
    <2> QED
        BY <1>19, <2>1, <2>2 DEF OpenEntryOk
<1>20. ASSUME NEW a \in Admins, OpenEntryFails(a) PROVE AdminInv'
    BY <1>20 DEF OpenEntryFails, ConnOpenFails, Fault
<1>21. ASSUME NEW a \in Admins, OpenEnd(a) PROVE AdminInv'
    BY <1>21 DEF OpenEnd, Fault
<1>22. ASSUME NEW a \in Admins, Rollback(a) PROVE AdminInv'
    <2>1. /\ UNCHANGED <<apc, poolsMu, initialized, backoff>>
          /\ aAt' = aAt - 1 /\ aAt \in Int
        BY <1>22 DEF Rollback, ConnClose, Fault
    <2>2. \A b \in Admins : apc[b] # "idle" => b = a
        BY <1>22 DEF Rollback
    <2> HIDE DEF TypeOK
    <2> QED
        BY <1>22, <2>1, <2>2 DEF Rollback
<1>23. ASSUME NEW a \in Admins, RollbackEnd(a) PROVE AdminInv'
    BY <1>23 DEF RollbackEnd
<1>24. ASSUME NEW a \in Admins, CloseJoined(a) PROVE AdminInv'
    BY <1>24 DEF CloseJoined
<1>25. ASSUME NEW a \in Admins, CloseDrain(a) PROVE AdminInv'
    BY <1>25 DEF CloseDrain
<1>26. ASSUME NEW a \in Admins, CloseConn(a) PROVE AdminInv'
    <2>1. /\ UNCHANGED <<apc, poolsMu, initialized, backoff>>
          /\ aAt' = aAt + 1 /\ aAt \in Int
        BY <1>26 DEF CloseConn, ConnClose, Fault
    <2>2. \A b \in Admins : apc[b] # "idle" => b = a
        BY <1>26 DEF CloseConn
    <2> HIDE DEF TypeOK
    <2> QED
        BY <1>26, <2>1, <2>2 DEF CloseConn
<1>27. ASSUME NEW a \in Admins, CloseDestroy(a) PROVE AdminInv'
    BY <1>27 DEF CloseDestroy
<1>28. ASSUME NEW i \in Entries, TimeIdle(i) PROVE AdminInv'
    BY <1>28 DEF TimeIdle
<1>29. ASSUME NEW i \in Entries, TimeDue(i) PROVE AdminInv'
    BY <1>29 DEF TimeDue
<1>30. ASSUME PlcDrop PROVE AdminInv'
    BY <1>30 DEF PlcDrop
<1>31. CASE UNCHANGED vars
    BY <1>31 DEF vars
<1> QED
    BY <1>1, <1>2, <1>3, <1>4, <1>5, <1>6, <1>7, <1>8, <1>9, <1>10, <1>11, <1>12, <1>13,
       <1>14, <1>15, <1>16, <1>17, <1>18, <1>19, <1>20, <1>21, <1>22, <1>23, <1>24,
       <1>25, <1>26, <1>27, <1>28, <1>29, <1>30, <1>31
       DEF Next, CallerStep, KaStep, AdminStep

-----------------------------------------------------------------------------
(* Users of the entries *)

\* Every step keeps the users of entries inside the life of the pool.
LEMMA UseInvStep == TypeOK /\ AdminInv /\ UseInv /\ [Next]_vars => UseInv'
<1> SUFFICES ASSUME TypeOK, AdminInv, UseInv, [Next]_vars PROVE UseInv'
    OBVIOUS
<1> USE CPoolAssumption DEF TypeOK, AdminInv, UseInv, Leaving, Running, entryVars,
            connVars, kaVars, callerVars, adminVars
<1>1. ASSUME NEW c \in Callers, TxrxEnter(c) PROVE UseInv'
    BY <1>1 DEF TxrxEnter, Acquire, Usable
<1>2. ASSUME NEW c \in Callers, TxrxWoken(c) PROVE UseInv'
    BY <1>2 DEF TxrxWoken, Acquire, Usable
<1>3. ASSUME NEW c \in Callers, TxrxMsg(c) PROVE UseInv'
    BY <1>3 DEF TxrxMsg
<1>4. ASSUME NEW c \in Callers, TxrxReturn(c) PROVE UseInv'
    BY <1>4 DEF TxrxReturn, CondSignal, SleepingCallers, SleepingAdmins
<1>5. ASSUME NEW c \in Callers, SpuriousWakeup(c) PROVE UseInv'
    BY <1>5 DEF SpuriousWakeup
<1>6. ASSUME KaTick PROVE UseInv'
    BY <1>6 DEF KaTick
<1>7. ASSUME KaExit PROVE UseInv'
    BY <1>7 DEF KaExit
<1>8. ASSUME KaPingSkip PROVE UseInv'
    BY <1>8 DEF KaPingSkip, KaAdvance
<1>9. ASSUME KaPingClaim PROVE UseInv'
    BY <1>9 DEF KaPingClaim, Usable
<1>10. ASSUME KaPingDone PROVE UseInv'
    BY <1>10 DEF KaPingDone, KaAdvance, CondSignal, SleepingCallers, SleepingAdmins, Fault
<1>11. ASSUME KaReopenSkip PROVE UseInv'
    BY <1>11 DEF KaReopenSkip, KaAdvance
<1>12. ASSUME KaReopenClaim PROVE UseInv'
    BY <1>12 DEF KaReopenClaim
<1>13. ASSUME KaForceClose PROVE UseInv'
    BY <1>13 DEF KaForceClose
<1>14. ASSUME KaReopenOk PROVE UseInv'
    BY <1>14 DEF KaReopenOk, KaAdvance, ConnOpenOk, WokenCallers
<1>15. ASSUME KaReopenFails PROVE UseInv'
    BY <1>15 DEF KaReopenFails, KaAdvance, ConnOpenFails, Fault
<1>16. ASSUME NEW a \in Admins, OpenBegin(a) PROVE UseInv'
    BY <1>16 DEF OpenBegin
<1>17. ASSUME NEW a \in Admins, OpenRefused(a) PROVE UseInv'
    BY <1>17 DEF OpenRefused
<1>18. ASSUME NEW a \in Admins, CloseBegin(a) PROVE UseInv'
    BY <1>18 DEF CloseBegin, WokenCallers
<1>19. ASSUME NEW a \in Admins, OpenEntryOk(a) PROVE UseInv'
    BY <1>19 DEF OpenEntryOk, ConnOpenOk
<1>20. ASSUME NEW a \in Admins, OpenEntryFails(a) PROVE UseInv'
    BY <1>20 DEF OpenEntryFails, ConnOpenFails, Fault
<1>21. ASSUME NEW a \in Admins, OpenEnd(a) PROVE UseInv'
    BY <1>21 DEF OpenEnd, Fault
<1>22. ASSUME NEW a \in Admins, Rollback(a) PROVE UseInv'
    BY <1>22 DEF Rollback, ConnClose, Fault
<1>23. ASSUME NEW a \in Admins, RollbackEnd(a) PROVE UseInv'
    BY <1>23 DEF RollbackEnd
<1>24. ASSUME NEW a \in Admins, CloseJoined(a) PROVE UseInv'
    BY <1>24 DEF CloseJoined
<1>25. ASSUME NEW a \in Admins, CloseDrain(a) PROVE UseInv'
    BY <1>25 DEF CloseDrain
<1>26. ASSUME NEW a \in Admins, CloseConn(a) PROVE UseInv'
    BY <1>26 DEF CloseConn, ConnClose, Fault
<1>27. ASSUME NEW a \in Admins, CloseDestroy(a) PROVE UseInv'
    BY <1>27 DEF CloseDestroy
<1>28. ASSUME NEW i \in Entries, TimeIdle(i) PROVE UseInv'
    BY <1>28 DEF TimeIdle
<1>29. ASSUME NEW i \in Entries, TimeDue(i) PROVE UseInv'
    BY <1>29 DEF TimeDue
<1>30. ASSUME PlcDrop PROVE UseInv'
    BY <1>30 DEF PlcDrop
<1>31. CASE UNCHANGED vars
    BY <1>31 DEF vars
<1> QED
    BY <1>1, <1>2, <1>3, <1>4, <1>5, <1>6, <1>7, <1>8, <1>9, <1>10, <1>11, <1>12, <1>13,
       <1>14, <1>15, <1>16, <1>17, <1>18, <1>19, <1>20, <1>21, <1>22, <1>23, <1>24,
       <1>25, <1>26, <1>27, <1>28, <1>29, <1>30, <1>31
       DEF Next, CallerStep, KaStep, AdminStep

\* Every step keeps in_use equal to having exactly one user.
LEMMA ExclusiveStep ==
    TypeOK /\ AdminInv /\ UseInv /\ EntryExclusive /\ [Next]_vars => EntryExclusive'
<1> SUFFICES ASSUME TypeOK, AdminInv, UseInv, EntryExclusive, [Next]_vars
             PROVE EntryExclusive'
    OBVIOUS
<1> USE CPoolAssumption DEF TypeOK, AdminInv, UseInv, Leaving, Running, EntryExclusive,
            CallersOf, KaHolds, entryVars, connVars, kaVars, callerVars, adminVars
<1>1. ASSUME NEW c \in Callers, TxrxEnter(c) PROVE EntryExclusive'
    BY <1>1 DEF TxrxEnter, Acquire, Usable
<1>2. ASSUME NEW c \in Callers, TxrxWoken(c) PROVE EntryExclusive'
    BY <1>2 DEF TxrxWoken, Acquire, Usable
<1>3. ASSUME NEW c \in Callers, TxrxMsg(c) PROVE EntryExclusive'
    BY <1>3 DEF TxrxMsg
<1>4. ASSUME NEW c \in Callers, TxrxReturn(c) PROVE EntryExclusive'
    BY <1>4 DEF TxrxReturn, CondSignal, SleepingCallers, SleepingAdmins
<1>5. ASSUME NEW c \in Callers, SpuriousWakeup(c) PROVE EntryExclusive'
    BY <1>5 DEF SpuriousWakeup
<1>6. ASSUME KaTick PROVE EntryExclusive'
    BY <1>6 DEF KaTick
<1>7. ASSUME KaExit PROVE EntryExclusive'
    BY <1>7 DEF KaExit
<1>8. ASSUME KaPingSkip PROVE EntryExclusive'
    BY <1>8 DEF KaPingSkip, KaAdvance
<1>9. ASSUME KaPingClaim PROVE EntryExclusive'
    BY <1>9 DEF KaPingClaim, Usable
<1>10. ASSUME KaPingDone PROVE EntryExclusive'
    BY <1>10 DEF KaPingDone, KaAdvance, CondSignal, SleepingCallers, SleepingAdmins, Fault
<1>11. ASSUME KaReopenSkip PROVE EntryExclusive'
    BY <1>11 DEF KaReopenSkip, KaAdvance
<1>12. ASSUME KaReopenClaim PROVE EntryExclusive'
    BY <1>12 DEF KaReopenClaim
<1>13. ASSUME KaForceClose PROVE EntryExclusive'
    BY <1>13 DEF KaForceClose
<1>14. ASSUME KaReopenOk PROVE EntryExclusive'
    <2>1. \A i \in Entries : CallersOf(i)' = CallersOf(i)
        BY <1>14 DEF KaReopenOk, WokenCallers
    <2>2. inUse' = inUse \ {kaAt} /\ kaPc = "reopening" /\ kaPc' \in {"reopen", "sleep"}
        BY <1>14 DEF KaReopenOk, KaAdvance
    <2> HIDE DEF CallersOf
    <2> QED
        BY <2>1, <2>2
<1>15. ASSUME KaReopenFails PROVE EntryExclusive'
    BY <1>15 DEF KaReopenFails, KaAdvance, ConnOpenFails, Fault
<1>16. ASSUME NEW a \in Admins, OpenBegin(a) PROVE EntryExclusive'
    BY <1>16 DEF OpenBegin
<1>17. ASSUME NEW a \in Admins, OpenRefused(a) PROVE EntryExclusive'
    BY <1>17 DEF OpenRefused
<1>18. ASSUME NEW a \in Admins, CloseBegin(a) PROVE EntryExclusive'
    <2>1. \A i \in Entries : CallersOf(i)' = CallersOf(i)
        BY <1>18 DEF CloseBegin, WokenCallers
    <2> HIDE DEF CallersOf
    <2> QED
        BY <1>18, <2>1 DEF CloseBegin
<1>19. ASSUME NEW a \in Admins, OpenEntryOk(a) PROVE EntryExclusive'
    BY <1>19 DEF OpenEntryOk, ConnOpenOk
<1>20. ASSUME NEW a \in Admins, OpenEntryFails(a) PROVE EntryExclusive'
    BY <1>20 DEF OpenEntryFails, ConnOpenFails, Fault
<1>21. ASSUME NEW a \in Admins, OpenEnd(a) PROVE EntryExclusive'
    BY <1>21 DEF OpenEnd, Fault
<1>22. ASSUME NEW a \in Admins, Rollback(a) PROVE EntryExclusive'
    BY <1>22 DEF Rollback, ConnClose, Fault
<1>23. ASSUME NEW a \in Admins, RollbackEnd(a) PROVE EntryExclusive'
    BY <1>23 DEF RollbackEnd
<1>24. ASSUME NEW a \in Admins, CloseJoined(a) PROVE EntryExclusive'
    BY <1>24 DEF CloseJoined
<1>25. ASSUME NEW a \in Admins, CloseDrain(a) PROVE EntryExclusive'
    BY <1>25 DEF CloseDrain
<1>26. ASSUME NEW a \in Admins, CloseConn(a) PROVE EntryExclusive'
    BY <1>26 DEF CloseConn, ConnClose, Fault
<1>27. ASSUME NEW a \in Admins, CloseDestroy(a) PROVE EntryExclusive'
    BY <1>27 DEF CloseDestroy
<1>28. ASSUME NEW i \in Entries, TimeIdle(i) PROVE EntryExclusive'
    BY <1>28 DEF TimeIdle
<1>29. ASSUME NEW i \in Entries, TimeDue(i) PROVE EntryExclusive'
    BY <1>29 DEF TimeDue
<1>30. ASSUME PlcDrop PROVE EntryExclusive'
    BY <1>30 DEF PlcDrop
<1>31. CASE UNCHANGED vars
    BY <1>31 DEF vars
<1> QED
    BY <1>1, <1>2, <1>3, <1>4, <1>5, <1>6, <1>7, <1>8, <1>9, <1>10, <1>11, <1>12, <1>13,
       <1>14, <1>15, <1>16, <1>17, <1>18, <1>19, <1>20, <1>21, <1>22, <1>23, <1>24,
       <1>25, <1>26, <1>27, <1>28, <1>29, <1>30, <1>31
       DEF Next, CallerStep, KaStep, AdminStep

-----------------------------------------------------------------------------
(* Connections of the entries *)

\* Every step keeps the connections where open, rollback, reopen and close put them.
LEMMA ConnInvStep ==
    TypeOK /\ AdminInv /\ UseInv /\ EntryExclusive /\ ConnInv /\ [Next]_vars => ConnInv'
<1> SUFFICES ASSUME TypeOK, AdminInv, UseInv, EntryExclusive, ConnInv, [Next]_vars
             PROVE ConnInv'
    OBVIOUS
<1> USE CPoolAssumption DEF TypeOK, AdminInv, UseInv, Leaving, Running, EntryExclusive,
            CallersOf, KaHolds, ConnInv, Entries, entryVars, connVars, kaVars,
            callerVars, adminVars
<1>1. ASSUME NEW c \in Callers, TxrxEnter(c) PROVE ConnInv'
    <2>1. CASE Acquire(c)
        BY <1>1, <2>1 DEF TxrxEnter, Acquire, Usable
    <2>2. CASE ~ Acquire(c)
        BY SMTT(40), <1>1, <2>2 DEF TxrxEnter
    <2> QED
        BY <2>1, <2>2
<1>2. ASSUME NEW c \in Callers, TxrxWoken(c) PROVE ConnInv'
    BY SMTT(40), <1>2 DEF TxrxWoken, Acquire, Usable
<1>3. ASSUME NEW c \in Callers, TxrxMsg(c) PROVE ConnInv'
    BY SMTT(40), <1>3 DEF TxrxMsg
<1>4. ASSUME NEW c \in Callers, TxrxReturn(c) PROVE ConnInv'
    BY SMTT(40), <1>4 DEF TxrxReturn, CondSignal, SleepingCallers, SleepingAdmins
<1>5. ASSUME NEW c \in Callers, SpuriousWakeup(c) PROVE ConnInv'
    BY <1>5 DEF SpuriousWakeup
<1>6. ASSUME KaTick PROVE ConnInv'
    BY <1>6 DEF KaTick
<1>7. ASSUME KaExit PROVE ConnInv'
    BY <1>7 DEF KaExit
<1>8. ASSUME KaPingSkip PROVE ConnInv'
    BY <1>8 DEF KaPingSkip, KaAdvance
<1>9. ASSUME KaPingClaim PROVE ConnInv'
    BY <1>9 DEF KaPingClaim, Usable
<1>10. ASSUME KaPingDone PROVE ConnInv'
    BY SMTT(40), <1>10 DEF KaPingDone, KaAdvance, CondSignal, SleepingCallers, SleepingAdmins, Fault
<1>11. ASSUME KaReopenSkip PROVE ConnInv'
    BY <1>11 DEF KaReopenSkip, KaAdvance
<1>12. ASSUME KaReopenClaim PROVE ConnInv'
    BY <1>12 DEF KaReopenClaim
<1>13. ASSUME KaForceClose PROVE ConnInv'
    BY <1>13 DEF KaForceClose
<1>14. ASSUME KaReopenOk PROVE ConnInv'
    BY <1>14 DEF KaReopenOk, KaAdvance, ConnOpenOk, WokenCallers
<1>15. ASSUME KaReopenFails PROVE ConnInv'
    BY <1>15 DEF KaReopenFails, KaAdvance, ConnOpenFails, Fault
<1>16. ASSUME NEW a \in Admins, OpenBegin(a) PROVE ConnInv'
    BY <1>16 DEF OpenBegin
<1>17. ASSUME NEW a \in Admins, OpenRefused(a) PROVE ConnInv'
    BY <1>17 DEF OpenRefused
<1>18. ASSUME NEW a \in Admins, CloseBegin(a) PROVE ConnInv'
    BY <1>18 DEF CloseBegin, WokenCallers
<1>19. ASSUME NEW a \in Admins, OpenEntryOk(a) PROVE ConnInv'
    BY <1>19 DEF OpenEntryOk, ConnOpenOk
<1>20. ASSUME NEW a \in Admins, OpenEntryFails(a) PROVE ConnInv'
    BY <1>20 DEF OpenEntryFails, ConnOpenFails, Fault
<1>21. ASSUME NEW a \in Admins, OpenEnd(a) PROVE ConnInv'
    BY SMTT(40), <1>21 DEF OpenEnd, Fault
<1>22. ASSUME NEW a \in Admins, Rollback(a) PROVE ConnInv'
    <2>1. aAt \in Int /\ poolsMu = a /\ poolsMu' = a /\ apc' = apc /\ apc[a] = "rollback"
             /\ a # Nobody /\ ~initialized' /\ inUse = {} /\ kaPc' = "none"
        BY <1>22 DEF Rollback
    <2>2. conn' = 1 .. aAt' /\ live' \subseteq conn'
        BY <1>22, <2>1 DEF Rollback, ConnClose
    <2> QED
        BY <1>22, <2>1, <2>2 DEF Rollback
<1>23. ASSUME NEW a \in Admins, RollbackEnd(a) PROVE ConnInv'
    BY <1>23 DEF RollbackEnd
<1>24. ASSUME NEW a \in Admins, CloseJoined(a) PROVE ConnInv'
    BY <1>24 DEF CloseJoined
<1>25. ASSUME NEW a \in Admins, CloseDrain(a) PROVE ConnInv'
    BY <1>25 DEF CloseDrain
<1>26. ASSUME NEW a \in Admins, CloseConn(a) PROVE ConnInv'
    <2>1. aAt \in Int /\ poolsMu = a /\ poolsMu' = a /\ apc' = apc /\ apc[a] = "closing"
             /\ a # Nobody /\ ~initialized' /\ inUse = {} /\ kaPc' = "none"
        BY <1>26 DEF CloseConn
    <2>2. conn' \subseteq aAt' .. Size /\ live' \subseteq conn'
        BY <1>26, <2>1 DEF CloseConn, ConnClose
    <2> QED
        BY <1>26, <2>1, <2>2 DEF CloseConn
<1>27. ASSUME NEW a \in Admins, CloseDestroy(a) PROVE ConnInv'
    <2>1. poolsMu = a /\ a # Nobody /\ apc[a] = "closing"
        BY <1>27 DEF CloseDestroy
    <2>2. conn \subseteq (Size + 1) .. Size
        BY <1>27, <2>1 DEF CloseDestroy
    <2>3. conn' = {} /\ live' = {}
        BY <1>27, <2>2 DEF CloseDestroy
    <2> QED
        BY <1>27, <2>1, <2>3 DEF CloseDestroy
<1>28. ASSUME NEW i \in Entries, TimeIdle(i) PROVE ConnInv'
    BY <1>28 DEF TimeIdle
<1>29. ASSUME NEW i \in Entries, TimeDue(i) PROVE ConnInv'
    BY <1>29 DEF TimeDue
<1>30. ASSUME PlcDrop PROVE ConnInv'
    BY <1>30 DEF PlcDrop
<1>31. CASE UNCHANGED vars
    BY <1>31 DEF vars
<1> QED
    BY <1>1, <1>2, <1>3, <1>4, <1>5, <1>6, <1>7, <1>8, <1>9, <1>10, <1>11, <1>12, <1>13,
       <1>14, <1>15, <1>16, <1>17, <1>18, <1>19, <1>20, <1>21, <1>22, <1>23, <1>24,
       <1>25, <1>26, <1>27, <1>28, <1>29, <1>30, <1>31
       DEF Next, CallerStep, KaStep, AdminStep

-----------------------------------------------------------------------------
(* The balance of forgotten connections and failures *)

\* What a step may do to it: nothing; forget a connection in the step that fails;
\* mark an entry dead for a failed ping; forget a suspect.
Pays ==
    \/ Suspects' \subseteq Suspects /\ orphans' <= orphans /\ faults' \in {faults,
       faults + 1}
    \/ Suspects' \subseteq Suspects /\ orphans' = orphans + 1 /\ faults' = faults + 1
    \/ /\ \E x : Suspects' \subseteq Suspects \cup {x}
       /\ orphans' = orphans /\ faults' = faults + 1
    \/ /\ \E x \in Suspects : Suspects' \subseteq Suspects \ {x}
       /\ orphans' = orphans + 1 /\ faults' = faults

\* Every step leaves the balance alone or changes it in one of the ways of Pays.
LEMMA LeakStep == TypeOK /\ AdminInv /\ UseInv /\ ConnInv /\ [Next]_vars => Pays
<1> SUFFICES ASSUME TypeOK, AdminInv, UseInv, ConnInv, [Next]_vars PROVE Pays
    OBVIOUS
<1> USE CPoolAssumption DEF TypeOK, AdminInv, UseInv, Leaving, Running, ConnInv, Pays,
            Suspects, entryVars, connVars, kaVars, callerVars, adminVars
<1>1. ASSUME NEW c \in Callers, TxrxEnter(c) PROVE Pays
    BY <1>1 DEF TxrxEnter, Acquire, Usable
<1>2. ASSUME NEW c \in Callers, TxrxWoken(c) PROVE Pays
    BY <1>2 DEF TxrxWoken, Acquire, Usable
<1>3. ASSUME NEW c \in Callers, TxrxMsg(c) PROVE Pays
    BY <1>3 DEF TxrxMsg
<1>4. ASSUME NEW c \in Callers, TxrxReturn(c) PROVE Pays
    BY <1>4 DEF TxrxReturn, CondSignal, SleepingCallers, SleepingAdmins
<1>5. ASSUME NEW c \in Callers, SpuriousWakeup(c) PROVE Pays
    BY <1>5 DEF SpuriousWakeup
<1>6. ASSUME KaTick PROVE Pays
    BY <1>6 DEF KaTick
<1>7. ASSUME KaExit PROVE Pays
    BY <1>7 DEF KaExit
<1>8. ASSUME KaPingSkip PROVE Pays
    BY <1>8 DEF KaPingSkip, KaAdvance
<1>9. ASSUME KaPingClaim PROVE Pays
    BY <1>9 DEF KaPingClaim, Usable
<1>10. ASSUME KaPingDone PROVE Pays
    <2>1. CASE dead' = dead
        BY <1>10, <2>1 DEF KaPingDone, Fault
    <2>2. CASE kaAt \in conn /\ Fault /\ dead' = dead \cup {kaAt}
        <3>1. Suspects' \subseteq Suspects \cup {kaAt}
            BY <1>10, <2>2 DEF KaPingDone
        <3> QED
            BY <1>10, <2>2, <3>1 DEF KaPingDone, Fault
    <2>3. CASE kaAt \notin conn /\ faults' = faults /\ dead' = dead \cup {kaAt}
        BY <1>10, <2>3 DEF KaPingDone
    <2> QED
        BY <1>10, <2>1, <2>2, <2>3 DEF KaPingDone
<1>11. ASSUME KaReopenSkip PROVE Pays
    BY <1>11 DEF KaReopenSkip, KaAdvance
<1>12. ASSUME KaReopenClaim PROVE Pays
    BY <1>12 DEF KaReopenClaim
<1>13. ASSUME KaForceClose PROVE Pays
    BY <1>13 DEF KaForceClose
<1>14. ASSUME KaReopenOk PROVE Pays
    BY <1>14 DEF KaReopenOk, KaAdvance, ConnOpenOk, WokenCallers
<1>15. ASSUME KaReopenFails PROVE Pays
    BY <1>15 DEF KaReopenFails, KaAdvance, ConnOpenFails, Fault
<1>16. ASSUME NEW a \in Admins, OpenBegin(a) PROVE Pays
    BY <1>16 DEF OpenBegin
<1>17. ASSUME NEW a \in Admins, OpenRefused(a) PROVE Pays
    BY <1>17 DEF OpenRefused
<1>18. ASSUME NEW a \in Admins, CloseBegin(a) PROVE Pays
    BY <1>18 DEF CloseBegin, WokenCallers
<1>19. ASSUME NEW a \in Admins, OpenEntryOk(a) PROVE Pays
    <2>1. poolsMu = a /\ a # Nobody
        BY <1>19 DEF OpenEntryOk
    <2>2. dead' = {} /\ Suspects' = {}
        BY <1>19, <2>1 DEF OpenEntryOk
    <2> QED
        BY <1>19, <2>2 DEF OpenEntryOk, ConnOpenOk
<1>20. ASSUME NEW a \in Admins, OpenEntryFails(a) PROVE Pays
    BY <1>20 DEF OpenEntryFails, ConnOpenFails, Fault
<1>21. ASSUME NEW a \in Admins, OpenEnd(a) PROVE Pays
    BY <1>21 DEF OpenEnd, Fault
<1>22. ASSUME NEW a \in Admins, Rollback(a) PROVE Pays
    BY <1>22 DEF Rollback, ConnClose, Fault
<1>23. ASSUME NEW a \in Admins, RollbackEnd(a) PROVE Pays
    BY <1>23 DEF RollbackEnd
<1>24. ASSUME NEW a \in Admins, CloseJoined(a) PROVE Pays
    BY <1>24 DEF CloseJoined
<1>25. ASSUME NEW a \in Admins, CloseDrain(a) PROVE Pays
    BY <1>25 DEF CloseDrain
<1>26. ASSUME NEW a \in Admins, CloseConn(a) PROVE Pays
    BY <1>26 DEF CloseConn, ConnClose, Fault
<1>27. ASSUME NEW a \in Admins, CloseDestroy(a) PROVE Pays
    BY <1>27 DEF CloseDestroy
<1>28. ASSUME NEW i \in Entries, TimeIdle(i) PROVE Pays
    BY <1>28 DEF TimeIdle
<1>29. ASSUME NEW i \in Entries, TimeDue(i) PROVE Pays
    BY <1>29 DEF TimeDue
<1>30. ASSUME PlcDrop PROVE Pays
    <2>1. CASE \E i \in live : live' = live \ {i} /\ UNCHANGED orphans
        BY <1>30, <2>1 DEF PlcDrop
    <2>2. CASE orphans > 0 /\ orphans' = orphans - 1 /\ UNCHANGED live
        BY <1>30, <2>2 DEF PlcDrop
    <2> QED
        BY <1>30, <2>1, <2>2 DEF PlcDrop
<1>31. CASE UNCHANGED vars
    BY <1>31 DEF vars
<1> QED
    BY <1>1, <1>2, <1>3, <1>4, <1>5, <1>6, <1>7, <1>8, <1>9, <1>10, <1>11, <1>12, <1>13,
       <1>14, <1>15, <1>16, <1>17, <1>18, <1>19, <1>20, <1>21, <1>22, <1>23, <1>24,
       <1>25, <1>26, <1>27, <1>28, <1>29, <1>30, <1>31
       DEF Next, CallerStep, KaStep, AdminStep

\* Sets of entries are finite and have a number of elements.
LEMMA EntriesFinite ==
    ASSUME NEW S \in SUBSET Entries PROVE IsFiniteSet(S) /\ Cardinality(S) \in Nat
<1>1. IsFiniteSet(1 .. Size)
    BY CPoolAssumption, FS_Interval
<1> QED
    BY <1>1, FS_Subset, FS_CardinalityType DEF Entries

\* Each of these ways keeps the balance.
LEMMA LeakInvStep ==
    TypeOK /\ AdminInv /\ UseInv /\ ConnInv /\ LeakInv /\ [Next]_vars => LeakInv'
<1> SUFFICES ASSUME TypeOK, AdminInv, UseInv, ConnInv, LeakInv, [Next]_vars PROVE LeakInv'
    OBVIOUS
<1>1. Pays
    BY LeakStep
<1>2. /\ IsFiniteSet(Suspects) /\ Cardinality(Suspects) \in Nat
      /\ IsFiniteSet(Suspects') /\ Cardinality(Suspects') \in Nat
    <2>1. Suspects \subseteq Entries /\ Suspects' \subseteq Entries
        BY TypeStep DEF TypeOK, Suspects
    <2> QED
        BY <2>1, EntriesFinite
<1>3. /\ orphans \in Nat /\ faults \in Nat /\ orphans' \in Nat /\ faults' \in Nat
      /\ orphans + Cardinality(Suspects) <= faults
    BY TypeStep, CPoolAssumption DEF TypeOK, LeakInv
<1>4. SUFFICES orphans' + Cardinality(Suspects') <= faults'
    BY DEF LeakInv
<1>5. CASE Suspects' \subseteq Suspects
    <2>1. Cardinality(Suspects') <= Cardinality(Suspects)
        BY <1>2, <1>5, FS_Subset
    <2>2. CASE orphans' <= orphans /\ faults' \in {faults, faults + 1}
        BY <1>2, <1>3, <2>1, <2>2
    <2>3. CASE orphans' = orphans + 1 /\ faults' = faults + 1
        BY <1>2, <1>3, <2>1, <2>3
    <2>4. CASE (\E x \in Suspects : Suspects' \subseteq Suspects \ {x})
                  /\ orphans' = orphans + 1 /\ faults' = faults
        <3>1. PICK x \in Suspects : Suspects' \subseteq Suspects \ {x}
            BY <2>4
        <3>2. /\ IsFiniteSet(Suspects \ {x})
              /\ Cardinality(Suspects \ {x}) = Cardinality(Suspects) - 1
            BY <1>2, FS_RemoveElement
        <3>3. Cardinality(Suspects') <= Cardinality(Suspects) - 1
            BY <3>1, <3>2, FS_Subset
        <3> QED
            BY <1>2, <1>3, <2>4, <3>3
    <2>5. CASE orphans' = orphans /\ faults' = faults + 1
        BY <1>2, <1>3, <2>1, <2>5
    <2> QED
        BY <1>1, <2>2, <2>3, <2>4, <2>5 DEF Pays
<1>6. CASE (\E x : Suspects' \subseteq Suspects \cup {x})
              /\ orphans' = orphans /\ faults' = faults + 1
    <2>1. PICK x : Suspects' \subseteq Suspects \cup {x}
        BY <1>6
    <2>2. /\ IsFiniteSet(Suspects \cup {x}) /\ Cardinality(Suspects \cup {x}) \in Nat
          /\ Cardinality(Suspects \cup {x}) <= Cardinality(Suspects) + 1
        BY <1>2, FS_AddElement, FS_CardinalityType
    <2>3. Cardinality(Suspects') <= Cardinality(Suspects \cup {x})
        BY <2>1, <2>2, FS_Subset
    <2> QED
        BY <1>2, <1>3, <1>6, <2>2, <2>3
<1> QED
    BY <1>1, <1>5, <1>6 DEF Pays

-----------------------------------------------------------------------------
(* The theorems *)

\* The inductive invariant holds initially.
LEMMA InitInv ==
    Init => TypeOK /\ AdminInv /\ UseInv /\ EntryExclusive /\ ConnInv /\ LeakInv
<1> SUFFICES ASSUME Init
             PROVE  TypeOK /\ AdminInv /\ UseInv /\ EntryExclusive /\ ConnInv /\ LeakInv
    OBVIOUS
<1> USE CPoolAssumption DEF Init, Entries
<1>1. TypeOK /\ AdminInv
    <2>1. backoff \in [Entries -> 0 .. BackoffCap]
        OBVIOUS
    <2>2. at \in [Callers -> Entries] /\ calls \in [Callers -> 0 .. MaxCalls]
        OBVIOUS
    <2>3. aAt \in 0 .. Size + 1 /\ kaAt \in Entries /\ opens \in 0 .. MaxOpens
             /\ faults \in 0 .. MaxFaults
        OBVIOUS
    <2>4. AdminInv
        BY DEF AdminInv
    <2> QED
        BY <2>1, <2>2, <2>3, <2>4 DEF TypeOK
<1>2. UseInv /\ EntryExclusive /\ ConnInv
    BY DEF UseInv, Running, Leaving, EntryExclusive, CallersOf, KaHolds, ConnInv
<1>3. LeakInv
    BY FS_EmptySet DEF LeakInv, Suspects
<1> QED
    BY <1>1, <1>2, <1>3

\* It holds in every reachable state.
LEMMA Invariants ==
    Spec => [](TypeOK /\ AdminInv /\ UseInv /\ EntryExclusive /\ ConnInv /\ LeakInv)
<1> DEFINE Inv == TypeOK /\ AdminInv /\ UseInv /\ EntryExclusive /\ ConnInv /\ LeakInv
<1>1. Init => Inv
    BY InitInv
<1>2. Inv /\ [Next]_vars => Inv'
    BY TypeStep, AdminInvStep, UseInvStep, ExclusiveStep, ConnInvStep, LeakInvStep
<1> QED
    BY <1>1, <1>2, PTL DEF Spec

\* Every reachable state is well-typed: the loop index of open, rollback and close
\* never leaves the entry array, and a dead entry always has a backoff of at least
\* BackoffMin and at most BackoffCap.
THEOREM TypeCorrect == Spec => []TypeOK
    BY Invariants, PTL

\* in_use means exactly one user, for any number of callers and entries: callers,
\* pings and reopens never share an entry and none stays marked after its user.
THEOREM EntryHasOneUser == Spec => []EntryExclusive
    BY Invariants, PTL

\* Neither a reopen nor a close takes the connection away under a caller that
\* acquired its entry: pool_txrx of an open pool always finds the app_handle.
THEOREM AcquiredEntryIsOpen == Spec => []AcquiredIsOpen
<1>1. TypeOK /\ UseInv /\ EntryExclusive /\ ConnInv => AcquiredIsOpen
    <2> SUFFICES ASSUME TypeOK, UseInv, EntryExclusive, ConnInv,
                        NEW c \in Callers, cpc[c] = "msg"
                 PROVE  at[c] \in conn
        BY DEF AcquiredIsOpen
    <2>1. at[c] \in Entries /\ c \in CallersOf(at[c])
        BY DEF TypeOK, CallersOf
    <2>2. at[c] \in inUse
        BY <2>1 DEF EntryExclusive
    <2> QED
        BY <2>1, <2>2 DEF UseInv, ConnInv
<1> QED
    BY <1>1, Invariants, PTL

\* A pool that is not open and that nobody is opening or closing has nothing in
\* the TxRx table, no entry in use and no keepalive thread: the rollback of a failed
\* open and a close leave nothing behind, whatever the callers did meanwhile.
THEOREM ClosedPoolIsEmpty == Spec => []ClosedIsEmpty
<1>1. UseInv /\ ConnInv => ClosedIsEmpty
    BY DEF UseInv, ConnInv, Running, Leaving, ClosedIsEmpty
<1> QED
    BY <1>1, Invariants, PTL

\* Every connection the PLC keeps without the client knowing of it was paid for by
\* a failed message, open or close.
THEOREM LeakIsPaid == Spec => []LeakCostsFault
<1>1. TypeOK /\ LeakInv => LeakCostsFault
    <2> SUFFICES ASSUME TypeOK, LeakInv PROVE orphans <= faults
        BY DEF LeakCostsFault
    <2>1. Cardinality(Suspects) \in Nat /\ orphans \in Nat /\ faults \in Nat
        BY EntriesFinite, CPoolAssumption DEF TypeOK, Suspects
    <2> QED
        BY <2>1 DEF LeakInv
<1> QED
    BY <1>1, Invariants, PTL
=============================================================================
