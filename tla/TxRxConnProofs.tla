--------------------------- MODULE TxRxConnProofs ---------------------------
(***************************************************************************)
(* Proofs about the TxRx connection table, for any number of threads,      *)
(* handles, serials and entries.                                           *)
(***************************************************************************)
EXTENDS TxRxConn, FiniteSetTheorems, TLAPS

-----------------------------------------------------------------------------
(* Type correctness *)

LEMMA TypeStep == TypeOK /\ [Next]_vars => TypeOK'
<1> SUFFICES ASSUME TypeOK, [Next]_vars PROVE TypeOK'
    OBVIOUS
<1> USE TxRxConnAssumption DEF TypeOK, Carrying
<1>1. ASSUME NEW t \in Threads, NEW h \in Handles, OpenSend(t, h) PROVE TypeOK'
    BY <1>1 DEF OpenSend, Begin, Goto
<1>2. ASSUME NEW t \in Threads, NEW h \in Handles, CloseTake(t, h) PROVE TypeOK'
    BY <1>2 DEF CloseTake, Begin, Goto, OpenHandles
<1>3. ASSUME NEW t \in Threads, NEW h \in Handles, MsgLookup(t, h) PROVE TypeOK'
    BY <1>3 DEF MsgLookup, Begin, Goto
<1>4. ASSUME NEW t \in Threads, NEW h \in Handles, NotOpen(t, h) PROVE TypeOK'
    BY <1>4 DEF NotOpen, Begin
<1>5. ASSUME NEW t \in Threads, NEW h \in Handles, ForceClose(t, h) PROVE TypeOK'
    BY <1>5 DEF ForceClose, Begin, Lose
<1>6. ASSUME NEW t \in Threads, LfoAccepted(t) PROVE TypeOK'
    BY <1>6 DEF LfoAccepted, Goto
<1>7. ASSUME NEW t \in Threads, LfoRejected(t) PROVE TypeOK'
    BY <1>7 DEF LfoRejected, Return, Goto
<1>8. ASSUME NEW t \in Threads, LfoFails(t) PROVE TypeOK'
    BY <1>8 DEF LfoFails, Return, Goto, Lose
<1>9. ASSUME NEW t \in Threads, InsertOk(t) PROVE TypeOK'
    BY <1>9 DEF InsertOk, Return, Goto
<1>10. ASSUME NEW t \in Threads, InsertDup(t) \/ InsertFull(t) PROVE TypeOK'
    BY <1>10 DEF InsertDup, InsertFull, Discard, Goto
<1>11. ASSUME NEW t \in Threads, ForwardClose(t) PROVE TypeOK'
    BY <1>11 DEF ForwardClose, Return, Goto, Lose
<1>12. ASSUME NEW t \in Threads, MsgDone(t) PROVE TypeOK'
    BY <1>12 DEF MsgDone, Return, Goto
<1>13. ASSUME NEW s \in Serials, PlcTimeout(s) PROVE TypeOK'
    BY <1>13 DEF PlcTimeout
<1>14. CASE UNCHANGED vars
    BY <1>14 DEF vars
<1> QED
    BY <1>1, <1>2, <1>3, <1>4, <1>5, <1>6, <1>7, <1>8, <1>9, <1>10, <1>11, <1>12, <1>13,
       <1>14 DEF Next, Start, Step

\* Every reachable state is well-typed; in particular the serial of an open or a
\* close in progress always names a connection.
THEOREM TypeCorrect == Spec => []TypeOK
<1>1. Init => TypeOK
    BY TxRxConnAssumption DEF Init, TypeOK, Carrying
<1> QED
    BY <1>1, TypeStep, PTL DEF Spec

-----------------------------------------------------------------------------
(* One holder per connection *)

LEMMA HolderStep == TypeOK /\ OneHolder /\ [Next]_vars => OneHolder'
<1> SUFFICES ASSUME TypeOK, OneHolder, [Next]_vars PROVE OneHolder'
    OBVIOUS
<1> USE TxRxConnAssumption DEF TypeOK, Carrying, Carriers, OpenHandles, OneHolder
<1>1. ASSUME NEW t \in Threads, NEW h \in Handles, OpenSend(t, h) PROVE OneHolder'
    BY <1>1 DEF OpenSend, Begin, Goto, Held
<1>2. ASSUME NEW t \in Threads, NEW h \in Handles, CloseTake(t, h) PROVE OneHolder'
    BY <1>2 DEF CloseTake, Begin, Goto
<1>3. ASSUME NEW t \in Threads, NEW h \in Handles, MsgLookup(t, h) PROVE OneHolder'
    BY <1>3 DEF MsgLookup, Begin, Goto
<1>4. ASSUME NEW t \in Threads, NEW h \in Handles, NotOpen(t, h) PROVE OneHolder'
    BY <1>4 DEF NotOpen, Begin
<1>5. ASSUME NEW t \in Threads, NEW h \in Handles, ForceClose(t, h) PROVE OneHolder'
    BY <1>5 DEF ForceClose, Begin, Lose
<1>6. ASSUME NEW t \in Threads, LfoAccepted(t) PROVE OneHolder'
    BY <1>6 DEF LfoAccepted, Goto
<1>7. ASSUME NEW t \in Threads, LfoRejected(t) PROVE OneHolder'
    BY <1>7 DEF LfoRejected, Return, Goto
<1>8. ASSUME NEW t \in Threads, LfoFails(t) PROVE OneHolder'
    BY <1>8 DEF LfoFails, Return, Goto, Lose
<1>9. ASSUME NEW t \in Threads, InsertOk(t) PROVE OneHolder'
    BY <1>9 DEF InsertOk, Return, Goto
<1>10. ASSUME NEW t \in Threads, InsertDup(t) \/ InsertFull(t) PROVE OneHolder'
    BY <1>10 DEF InsertDup, InsertFull, Discard, Goto
<1>11. ASSUME NEW t \in Threads, ForwardClose(t) PROVE OneHolder'
    BY <1>11 DEF ForwardClose, Return, Goto, Lose
<1>12. ASSUME NEW t \in Threads, MsgDone(t) PROVE OneHolder'
    BY <1>12 DEF MsgDone, Return, Goto
<1>13. ASSUME NEW s \in Serials, PlcTimeout(s) PROVE OneHolder'
    BY <1>13 DEF PlcTimeout
<1>14. CASE UNCHANGED vars
    BY <1>14 DEF vars
<1> QED
    BY <1>1, <1>2, <1>3, <1>4, <1>5, <1>6, <1>7, <1>8, <1>9, <1>10, <1>11, <1>12, <1>13,
       <1>14 DEF Next, Start, Step

\* No connection is held twice, so none is closed twice or closed while the table
\* still offers it (the snapshot under txrx_mu in txrx_close).
THEOREM ConnectionHasOneHolder == Spec => []OneHolder
<1>1. Init => OneHolder
    BY DEF Init, OneHolder, OpenHandles, Carriers, Carrying
<1> QED
    BY <1>1, HolderStep, TypeCorrect, PTL DEF Spec

-----------------------------------------------------------------------------
(* Refinement of ConnTable *)

LEMMA TableStep == TypeOK /\ [Next]_vars => [Abstract!Next]_OpenHandles
<1> SUFFICES ASSUME TypeOK, [Next]_vars PROVE [Abstract!Next]_OpenHandles
    OBVIOUS
<1> USE TxRxConnAssumption DEF TypeOK, Carrying
<1>1. ASSUME NEW t \in Threads, InsertOk(t) PROVE Abstract!Open(hnd[t]) /\ hnd[t] \in Handles
    <2>1. hnd[t] \in Handles
        BY <1>1, SMT DEF InsertOk
    <2>2. OpenHandles' = OpenHandles \cup {hnd[t]}
        BY <1>1, <2>1 DEF InsertOk, OpenHandles
    <2> QED
        BY <1>1, <2>1, <2>2 DEF InsertOk, Abstract!Open, Cardinality, Abstract!Cardinality
<1>2. ASSUME NEW t \in Threads, NEW h \in Handles, CloseTake(t, h) \/ ForceClose(t, h)
      PROVE  Abstract!Close(h)
    <2>1. OpenHandles' = OpenHandles \ {h}
        BY <1>2 DEF CloseTake, ForceClose, OpenHandles
    <2> QED
        BY <1>2, <2>1 DEF CloseTake, ForceClose, Abstract!Close
<1>3. CASE UNCHANGED table
    BY <1>3 DEF OpenHandles
<1> QED
    BY <1>1, <1>2, <1>3 DEF Next, Start, Step, vars, Abstract!Next, OpenSend, MsgLookup, NotOpen,
       LfoAccepted, LfoRejected, LfoFails, InsertDup, InsertFull, Discard, ForwardClose, MsgDone,
       PlcTimeout

\* The table with its messages in flight, losses and discarded connections
\* implements the connections its users see.
THEOREM Implements == Spec => ImplementsConnTable
<1>1. Init => Abstract!Init
    BY DEF Init, Abstract!Init, OpenHandles
<1> QED
    BY <1>1, TableStep, TypeCorrect, PTL DEF Spec, ImplementsConnTable, Abstract!Spec

-----------------------------------------------------------------------------
(* Connections forgotten at the PLC *)

LEMMA OneMore ==
    ASSUME NEW A, IsFiniteSet(A), NEW x, NEW B, B \subseteq A \cup {x}
    PROVE  IsFiniteSet(B) /\ Cardinality(B) <= Cardinality(A) + 1
<1>1. /\ IsFiniteSet(A \cup {x})
      /\ Cardinality(A \cup {x}) <= Cardinality(A) + 1
      /\ Cardinality(A) \in Nat
    BY SMTT(40), FS_AddElement, FS_CardinalityType
<1>2. IsFiniteSet(B) /\ Cardinality(B) <= Cardinality(A \cup {x}) /\ Cardinality(B) \in Nat
         /\ Cardinality(A \cup {x}) \in Nat
    BY <1>1, FS_Subset, FS_CardinalityType
<1> QED
    BY <1>1, <1>2

LEMMA NoMore ==
    ASSUME NEW A, IsFiniteSet(A), NEW B, B \subseteq A
    PROVE  IsFiniteSet(B) /\ Cardinality(B) <= Cardinality(A)
    BY FS_Subset

\* A step that loses no message forgets no connection; one that does forgets at
\* most the one whose serial it carried.
Forgets == \/ faults' = faults /\ Orphans' \subseteq Orphans
           \/ faults' = faults + 1 /\ \E x : Orphans' \subseteq Orphans \cup {x}

LEMMA OrphanStep == TypeOK /\ [Next]_vars => Forgets
<1> SUFFICES ASSUME TypeOK, [Next]_vars PROVE Forgets
    OBVIOUS
<1> USE TxRxConnAssumption DEF TypeOK, Carrying, OpenHandles, Orphans, Kept
<1>1. ASSUME NEW t \in Threads, NEW h \in Handles, OpenSend(t, h) PROVE Forgets
    BY <1>1 DEF OpenSend, Begin, Goto, Forgets
<1>2. ASSUME NEW t \in Threads, NEW h \in Handles, CloseTake(t, h) PROVE Forgets
    BY <1>2 DEF CloseTake, Begin, Goto, Forgets
<1>3. ASSUME NEW t \in Threads, NEW h \in Handles, MsgLookup(t, h) PROVE Forgets
    BY <1>3 DEF MsgLookup, Begin, Goto, Forgets
<1>4. ASSUME NEW t \in Threads, NEW h \in Handles, NotOpen(t, h) PROVE Forgets
    BY <1>4 DEF NotOpen, Begin, Forgets
<1>5. ASSUME NEW t \in Threads, NEW h \in Handles, ForceClose(t, h) PROVE Forgets
    <2>1. Orphans' \subseteq Orphans \cup {table[h]}
        BY <1>5 DEF ForceClose, Begin, Lose
    <2> QED
        BY <1>5, <2>1 DEF ForceClose, Lose, Forgets
<1>6. ASSUME NEW t \in Threads, LfoAccepted(t) PROVE Forgets
    BY <1>6 DEF LfoAccepted, Goto, Forgets
<1>7. ASSUME NEW t \in Threads, LfoRejected(t) PROVE Forgets
    BY <1>7 DEF LfoRejected, Return, Goto, Forgets
<1>8. ASSUME NEW t \in Threads, LfoFails(t) PROVE Forgets
    <2>1. Orphans' \subseteq Orphans \cup {ser[t]}
        BY <1>8 DEF LfoFails, Return, Goto
    <2> QED
        BY <1>8, <2>1 DEF LfoFails, Lose, Forgets
<1>9. ASSUME NEW t \in Threads, InsertOk(t) PROVE Forgets
    <2>1. Kept \subseteq Kept'
        BY <1>9 DEF InsertOk, Return, Goto
    <2> QED
        BY <1>9, <2>1 DEF InsertOk, Forgets
<1>10. ASSUME NEW t \in Threads, InsertDup(t) \/ InsertFull(t) PROVE Forgets
    BY <1>10 DEF InsertDup, InsertFull, Discard, Goto, Forgets
<1>11. ASSUME NEW t \in Threads, ForwardClose(t) PROVE Forgets
    <2>1. Kept \subseteq Kept' \cup {ser[t]}
        BY <1>11 DEF ForwardClose, Return, Goto
    <2>2. CASE plc' = plc \ {ser[t]} /\ faults' = faults
        BY <2>1, <2>2 DEF Forgets
    <2>3. CASE plc' = plc /\ faults' = faults + 1
        <3>1. Orphans' \subseteq Orphans \cup {ser[t]}
            BY <2>1, <2>3
        <3> QED
            BY <2>3, <3>1 DEF Forgets
    <2> QED
        BY <1>11, <2>2, <2>3 DEF ForwardClose, Lose
<1>12. ASSUME NEW t \in Threads, MsgDone(t) PROVE Forgets
    BY <1>12 DEF MsgDone, Return, Goto, Forgets
<1>13. ASSUME NEW s \in Serials, PlcTimeout(s) PROVE Forgets
    BY <1>13 DEF PlcTimeout, Forgets
<1>14. CASE UNCHANGED vars
    BY <1>14 DEF vars, Forgets
<1> QED
    BY <1>1, <1>2, <1>3, <1>4, <1>5, <1>6, <1>7, <1>8, <1>9, <1>10, <1>11, <1>12, <1>13,
       <1>14 DEF Next, Start, Step

OrphanInv == IsFiniteSet(Orphans) /\ OrphanCostsFault

\* However opens, closes, messages and reopens interleave, the connections left
\* behind at the PLC are at most as many as the messages that were lost: the
\* discard paths of txrx_open and the snapshot of txrx_close forget nothing.
THEOREM ForgottenCostsFault == Spec => []OrphanCostsFault
<1>1. Init => OrphanInv
    BY FS_EmptySet DEF Init, OrphanInv, OrphanCostsFault, Orphans
<1>2. TypeOK /\ OrphanInv /\ [Next]_vars => OrphanInv'
    <2> SUFFICES ASSUME TypeOK, OrphanInv, [Next]_vars PROVE OrphanInv'
        OBVIOUS
    <2>1. Forgets
        BY OrphanStep
    <2>2. faults \in Nat /\ Cardinality(Orphans) \in Nat /\ IsFiniteSet(Orphans)
        BY FS_CardinalityType, TxRxConnAssumption DEF OrphanInv, TypeOK
    <2>3. CASE faults' = faults /\ Orphans' \subseteq Orphans
        BY <2>2, <2>3, NoMore, FS_CardinalityType DEF OrphanInv, OrphanCostsFault
    <2>4. CASE faults' = faults + 1 /\ \E x : Orphans' \subseteq Orphans \cup {x}
        <3>1. PICK x : Orphans' \subseteq Orphans \cup {x}
            BY <2>4
        <3>2. IsFiniteSet(Orphans') /\ Cardinality(Orphans') <= Cardinality(Orphans) + 1
            BY <2>2, <3>1, OneMore
        <3>3. Cardinality(Orphans') \in Nat
            BY <3>2, FS_CardinalityType
        <3> QED
            BY <2>2, <2>4, <3>2, <3>3 DEF OrphanInv, OrphanCostsFault
    <2> QED
        BY <2>1, <2>3, <2>4 DEF Forgets
<1>3. OrphanInv => OrphanCostsFault
    BY DEF OrphanInv
<1> QED
    BY <1>1, <1>2, <1>3, TypeCorrect, PTL DEF Spec
=============================================================================
