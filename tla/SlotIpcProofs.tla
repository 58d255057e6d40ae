---------------------------- MODULE SlotIpcProofs ----------------------------
(***************************************************************************)
(* Proofs about the slot dispatcher, for any number of threads, slots and  *)
(* calls.  The argument: /bpShm is a mutex (ShmLockInv), so a slot found   *)
(* free is still free when it is claimed (ScanInv), so a call owns its     *)
(* slot until it frees it (SlotExclusive), so nobody but the server        *)
(* interferes with the exchange on it (ExchangeInv), which gives           *)
(* CleanReply.  A clean call fills one slot and posts it once, and a post  *)
(* that the server has not taken when the slot changes hands is drained    *)
(* (OnceInv), which gives CleanOnce.                                       *)
(***************************************************************************)
EXTENDS SlotIpc, TLAPS

\* The Python SDK's release path is not interrupted by a signal: if it is,
\* /bpShm stops being a mutex.
NoPyInterrupt == \A t \in Interruptible : Sdk[t] # "python"

\* The identifier of a thread's current call is a call.
LEMMA ThisCallType == ASSUME TypeOK, NEW t \in Threads PROVE ThisCall(t) \in Calls
  BY DEF TypeOK, ThisCall, Calls

\* Type correctness of the dispatcher and of the server model, whatever signals
\* and crashes happen.
THEOREM TypeCorrect == Spec => []TypeOK
<1> USE SlotIpcAssumption DEF TypeOK, ErrorCodes, Results, PcStates,
        Holding, clientVars, slotVars, serverVars
<1>1. Init => TypeOK
  BY DEF Init, Slots
<1>2. TypeOK /\ [Next]_vars => TypeOK'
  <2> SUFFICES ASSUME TypeOK, [Next]_vars PROVE TypeOK'
    OBVIOUS
  <2>1. ASSUME NEW t \in Threads, CallStart(t) PROVE TypeOK'
    BY <2>1 DEF CallStart
  <2>2. ASSUME NEW t \in Threads, ReserveLock(t) \/ ReserveInterrupted(t)
        PROVE TypeOK'
    BY <2>2 DEF ReserveLock, ReserveInterrupted
  <2>3. ASSUME NEW t \in Threads, ScanFinds(t) PROVE TypeOK'
    BY <2>3 DEF ScanFinds, FreeSlots
  <2>4. ASSUME NEW t \in Threads, ScanFindsNone(t) PROVE TypeOK'
    BY <2>4 DEF ScanFindsNone
  <2>5. ASSUME NEW t \in Threads, ClaimSlot(t) PROVE TypeOK'
    BY <2>5 DEF ClaimSlot
  <2>6. ASSUME NEW t \in Threads, FillRequest(t) PROVE TypeOK'
    BY <2>6, ThisCallType DEF FillRequest
  <2>7. ASSUME NEW t \in Threads, PostRequest(t) \/ PostRequestFails(t) PROVE TypeOK'
    BY <2>7 DEF PostRequest, PostRequestFails
  <2>8. ASSUME NEW t \in Threads, WaitAnswered(t) \/ WaitTimeout(t) \/ PyWaitInterrupted(t)
        PROVE TypeOK'
    BY <2>8 DEF WaitAnswered, WaitTimeout, PyWaitInterrupted
  <2>9. ASSUME NEW t \in Threads, PollAnswered(t) \/ PollGivesUp(t) PROVE TypeOK'
    BY <2>9 DEF PollAnswered, PollGivesUp
  <2>10. ASSUME NEW t \in Threads, CheckError(t) \/ CheckOk(t) \/ ReadReply(t)
         PROVE TypeOK'
    BY SMTT(40), <2>10 DEF CheckError, CheckOk, ReadReply
  <2>11. ASSUME NEW t \in Threads,
                ReleaseLock(t) \/ ReleaseInterrupted(t) \/ PyReleaseInterrupted(t)
         PROVE TypeOK'
    BY <2>11 DEF ReleaseLock, ReleaseInterrupted, PyReleaseInterrupted
  <2>12. ASSUME NEW t \in Threads, FreeSlot(t) PROVE TypeOK'
    BY <2>12 DEF FreeSlot
  <2>13. ASSUME NEW t \in Threads, Crash(t) PROVE TypeOK'
    BY <2>13 DEF Crash
  <2>14. ASSUME NEW s \in Slots, SrvCollect(s) \/ SrvTake(s) PROVE TypeOK'
    BY <2>14 DEF SrvCollect, SrvTake
  <2>15. ASSUME NEW s \in Slots, SrvRead(s) PROVE TypeOK'
    <3>1. \A c \in Calls : execs'[c] \in Nat
      <4> TAKE c \in Calls
      <4>1. CASE c = request[s]
        BY <2>15, <4>1 DEF SrvRead
      <4>2. CASE c # request[s]
        BY <2>15, <4>2 DEF SrvRead
      <4>3. QED
        BY <4>1, <4>2
    <3>2. execs' \in [Calls -> Nat]
      BY <2>15, <3>1 DEF SrvRead
    <3>3. QED
      BY <2>15, <3>2 DEF SrvRead
  <2>16. ASSUME NEW s \in Slots, SrvReply(s) \/ SrvPost(s) PROVE TypeOK'
    BY <2>16 DEF SrvReply, SrvPost
  <2>17. CASE UNCHANGED vars
    BY <2>17 DEF vars
  <2>18. QED
    BY <2>1, <2>2, <2>3, <2>4, <2>5, <2>6, <2>7, <2>8, <2>9, <2>10, <2>11, <2>12,
       <2>13, <2>14, <2>15, <2>16, <2>17 DEF Next, CallStep, Fault, Server
<1>3. QED
  BY <1>1, <1>2, PTL DEF Spec

-----------------------------------------------------------------------------
(* Ownership *)

OwnInv == ShmLockInv /\ ScanInv /\ SlotExclusive

\* What one step of the system does to the variables the ownership argument is
\* about, thread by thread.
LEMMA OwnStep ==
  ASSUME NoPyInterrupt, TypeOK, OwnInv, [Next]_vars
  PROVE  OwnInv'
<1> USE SlotIpcAssumption DEF NoPyInterrupt, OwnInv, ShmLockInv, ScanInv, SlotExclusive,
        TypeOK, PcStates, Holding, InShmLock, clientVars, slotVars, serverVars
<1>1. ASSUME NEW t \in Threads, CallStart(t) PROVE OwnInv'
  BY <1>1 DEF CallStart
<1>2. ASSUME NEW t \in Threads, ReserveLock(t) PROVE OwnInv'
  BY <1>2 DEF ReserveLock
<1>3. ASSUME NEW t \in Threads, ReserveInterrupted(t) PROVE OwnInv'
  BY <1>3 DEF ReserveInterrupted
<1>4. ASSUME NEW t \in Threads, ScanFinds(t) PROVE OwnInv'
  BY <1>4 DEF ScanFinds, FreeSlots
<1>5. ASSUME NEW t \in Threads, ScanFindsNone(t) PROVE OwnInv'
  BY <1>5 DEF ScanFindsNone
<1>6. ASSUME NEW t \in Threads, ClaimSlot(t) PROVE OwnInv'
  BY <1>6 DEF ClaimSlot
<1>7. ASSUME NEW t \in Threads, FillRequest(t) PROVE OwnInv'
  BY <1>7 DEF FillRequest
<1>8. ASSUME NEW t \in Threads, PostRequest(t) \/ PostRequestFails(t) PROVE OwnInv'
  BY <1>8 DEF PostRequest, PostRequestFails
<1>9. ASSUME NEW t \in Threads, WaitAnswered(t) \/ WaitTimeout(t) \/ PyWaitInterrupted(t)
      PROVE OwnInv'
  BY <1>9 DEF WaitAnswered, WaitTimeout, PyWaitInterrupted
<1>10. ASSUME NEW t \in Threads, PollAnswered(t) \/ PollGivesUp(t) PROVE OwnInv'
  BY <1>10 DEF PollAnswered, PollGivesUp
<1>11. ASSUME NEW t \in Threads, CheckError(t) \/ CheckOk(t) \/ ReadReply(t)
       PROVE OwnInv'
  BY <1>11 DEF CheckError, CheckOk, ReadReply
<1>12. ASSUME NEW t \in Threads, ReleaseLock(t) PROVE OwnInv'
  BY <1>12 DEF ReleaseLock
<1>13. ASSUME NEW t \in Threads, ReleaseInterrupted(t) PROVE OwnInv'
  BY <1>13 DEF ReleaseInterrupted
<1>14. ASSUME NEW t \in Threads, PyReleaseInterrupted(t) PROVE OwnInv'
  BY <1>14 DEF PyReleaseInterrupted, SignalInShmWait
<1>15. ASSUME NEW t \in Threads, FreeSlot(t) PROVE OwnInv'
  BY <1>15 DEF FreeSlot
<1>16. ASSUME NEW t \in Threads, Crash(t) PROVE OwnInv'
  BY <1>16 DEF Crash
<1>17. ASSUME NEW s \in Slots, SrvCollect(s) PROVE OwnInv'
  BY <1>17 DEF SrvCollect
<1>18. ASSUME NEW s \in Slots, SrvTake(s) \/ SrvRead(s) \/ SrvReply(s) \/ SrvPost(s)
       PROVE OwnInv'
  BY <1>18 DEF SrvTake, SrvRead, SrvReply, SrvPost
<1>19. CASE UNCHANGED vars
  BY <1>19 DEF vars
<1>20. QED
  BY <1>1, <1>2, <1>3, <1>4, <1>5, <1>6, <1>7, <1>8, <1>9, <1>10, <1>11, <1>12, <1>13,
     <1>14, <1>15, <1>16, <1>17, <1>18, <1>19 DEF Next, CallStep, Fault, Server

\* The owner word of a slot names the call that is using it, for every number of
\* threads and slots, unless a Python thread's release is interrupted.
THEOREM SlotExclusion == ASSUME NoPyInterrupt PROVE Spec => []SlotExclusive
<1>1. Init => OwnInv
  BY DEF Init, OwnInv, ShmLockInv, ScanInv, SlotExclusive, InShmLock, Holding
<1>2. TypeOK /\ OwnInv /\ [Next]_vars => OwnInv'
  BY OwnStep
<1>3. OwnInv => SlotExclusive
  BY DEF OwnInv
<1>4. QED
  BY <1>1, <1>2, <1>3, TypeCorrect, PTL DEF Spec

\* An owner word is only ever cleared by its owner's release_slot, or by the engine
\* once the owner is dead, and only ever set when it is 0.
THEOREM NoHandover == ASSUME NoPyInterrupt PROVE Spec => OwnerHandover
<1> DEFINE Handover == \A s \in Slots : owner'[s] # owner[s] =>
                \/ owner[s] = Free
                \/ owner'[s] = Free /\ pc[owner[s]] \in {"free", "crashed"}
<1>1. Init => OwnInv
  BY DEF Init, OwnInv, ShmLockInv, ScanInv, SlotExclusive, InShmLock, Holding
<1>2. TypeOK /\ OwnInv /\ [Next]_vars => OwnInv'
  BY OwnStep
<1>3. TypeOK /\ OwnInv /\ [Next]_vars => [Handover]_vars
  <2> SUFFICES ASSUME TypeOK, OwnInv, Next PROVE Handover
    OBVIOUS
  <2> USE DEF TypeOK, OwnInv, clientVars, slotVars, serverVars
  <2>1. ASSUME NEW t \in Threads, ClaimSlot(t) PROVE Handover
    BY <2>1 DEF ClaimSlot, ScanInv
  <2>2. ASSUME NEW t \in Threads, FreeSlot(t) PROVE Handover
    BY <2>2 DEF FreeSlot, SlotExclusive, Holding
  <2>3. ASSUME NEW s \in Slots, SrvCollect(s) PROVE Handover
    BY <2>3 DEF SrvCollect
  <2>4. CASE owner' = owner
    BY <2>4
  <2>5. QED
    BY <2>1, <2>2, <2>3, <2>4 DEF Next, CallStep, Fault, Server, CallStart, ReserveLock,
       ReserveInterrupted, ScanFinds, ScanFindsNone, FillRequest, PostRequest,
       PostRequestFails, WaitAnswered, WaitTimeout, PyWaitInterrupted, PollAnswered,
       PollGivesUp, CheckError, CheckOk, ReadReply, ReleaseLock, ReleaseInterrupted,
       PyReleaseInterrupted, Crash, SrvTake, SrvRead, SrvReply, SrvPost
<1>4. QED
  BY <1>1, <1>2, <1>3, TypeCorrect, PTL DEF Spec, OwnerHandover

\* When no wait on /bpShm can fail (no signals, or the Go SDK, which retries),
\* every path of bp_client_call gives its slot back; only dead processes keep one.
THEOREM NoLeak ==
  ASSUME \A t \in Interruptible : Sdk[t] = "go"
  PROVE  Spec => []NoSlotLeak
<1> USE DEF NoSlotLeak
<1>1. Init => NoSlotLeak
  BY DEF Init
<1>2. TypeOK /\ NoSlotLeak /\ [Next]_vars => NoSlotLeak'
  <2> SUFFICES ASSUME TypeOK, NoSlotLeak, [Next]_vars PROVE NoSlotLeak'
    OBVIOUS
  <2> USE SlotIpcAssumption
      DEF TypeOK, PcStates, Holding, clientVars, slotVars, serverVars, SignalInShmWait
  <2>1. ASSUME NEW t \in Threads, CallStart(t) \/ ReserveLock(t) \/ ReserveInterrupted(t)
        PROVE NoSlotLeak'
    BY <2>1 DEF CallStart, ReserveLock, ReserveInterrupted
  <2>2. ASSUME NEW t \in Threads, ScanFinds(t) \/ ScanFindsNone(t) PROVE NoSlotLeak'
    BY <2>2 DEF ScanFinds, ScanFindsNone, FreeSlots
  <2>3. ASSUME NEW t \in Threads, ClaimSlot(t) PROVE NoSlotLeak'
    BY <2>3 DEF ClaimSlot
  <2>4. ASSUME NEW t \in Threads, FillRequest(t) \/ PostRequest(t) \/ PostRequestFails(t)
        PROVE NoSlotLeak'
    BY <2>4 DEF FillRequest, PostRequest, PostRequestFails
  <2>5. ASSUME NEW t \in Threads, WaitAnswered(t) \/ WaitTimeout(t) \/ PyWaitInterrupted(t)
        PROVE NoSlotLeak'
    BY <2>5 DEF WaitAnswered, WaitTimeout, PyWaitInterrupted
  <2>6. ASSUME NEW t \in Threads, PollAnswered(t) \/ PollGivesUp(t) PROVE NoSlotLeak'
    BY <2>6 DEF PollAnswered, PollGivesUp
  <2>7. ASSUME NEW t \in Threads, CheckError(t) \/ CheckOk(t) \/ ReadReply(t)
        PROVE NoSlotLeak'
    BY <2>7 DEF CheckError, CheckOk, ReadReply
  <2>8. ASSUME NEW t \in Threads,
               ReleaseLock(t) \/ ReleaseInterrupted(t) \/ PyReleaseInterrupted(t)
        PROVE NoSlotLeak'
    BY <2>8 DEF ReleaseLock, ReleaseInterrupted, PyReleaseInterrupted
  <2>9. ASSUME NEW t \in Threads, FreeSlot(t) PROVE NoSlotLeak'
    BY <2>9 DEF FreeSlot
  <2>10. ASSUME NEW t \in Threads, Crash(t) PROVE NoSlotLeak'
    BY <2>10 DEF Crash
  <2>11. ASSUME NEW s \in Slots, Server(s) PROVE NoSlotLeak'
    BY <2>11 DEF Server, SrvCollect, SrvTake, SrvRead, SrvReply, SrvPost
  <2>12. CASE UNCHANGED vars
    BY <2>12 DEF vars
  <2>13. QED
    BY <2>1, <2>2, <2>3, <2>4, <2>5, <2>6, <2>7, <2>8, <2>9, <2>10, <2>11, <2>12
       DEF Next, CallStep, Fault
<1>3. QED
  BY <1>1, <1>2, TypeCorrect, PTL DEF Spec

-----------------------------------------------------------------------------
(* The exchange with the server *)

\* A step of a thread on its own slot leaves the exchanges of the others alone and
\* takes its own to the next stage; a step of the server moves one exchange.
LEMMA ExchangeStep ==
  ASSUME TypeOK, OwnInv, ExchangeInv, [Next]_vars
  PROVE  ExchangeInv'
<1> USE SlotIpcAssumption DEF ExchangeInv, Exchange, ThisCall, TypeOK, OwnInv,
        SlotExclusive, ErrorCodes, clientVars, slotVars, serverVars
<1>1. ASSUME NEW t \in Threads, CallStart(t) \/ ReserveLock(t) \/ ReserveInterrupted(t)
      PROVE ExchangeInv'
  BY <1>1 DEF CallStart, ReserveLock, ReserveInterrupted, Holding
<1>2. ASSUME NEW t \in Threads, ScanFinds(t) \/ ScanFindsNone(t) PROVE ExchangeInv'
  BY <1>2 DEF ScanFinds, ScanFindsNone, FreeSlots, Holding
<1>3. ASSUME NEW t \in Threads, ClaimSlot(t) PROVE ExchangeInv'
  BY <1>3 DEF ClaimSlot, ScanInv, Holding
<1>4. ASSUME NEW t \in Threads, FillRequest(t) PROVE ExchangeInv'
  BY <1>4 DEF FillRequest, Holding
<1>5. ASSUME NEW t \in Threads, PostRequest(t) \/ PostRequestFails(t) PROVE ExchangeInv'
  BY <1>5 DEF PostRequest, PostRequestFails, Holding
<1>6. ASSUME NEW t \in Threads, WaitAnswered(t) PROVE ExchangeInv'
  BY <1>6 DEF WaitAnswered, Holding
<1>7. ASSUME NEW t \in Threads, WaitTimeout(t) \/ PyWaitInterrupted(t) PROVE ExchangeInv'
  BY <1>7 DEF WaitTimeout, PyWaitInterrupted, Holding
<1>8. ASSUME NEW t \in Threads, PollAnswered(t) \/ PollGivesUp(t) PROVE ExchangeInv'
  BY <1>8 DEF PollAnswered, PollGivesUp, Holding
<1>9. ASSUME NEW t \in Threads, CheckError(t) \/ CheckOk(t) \/ ReadReply(t)
      PROVE ExchangeInv'
  BY <1>9 DEF CheckError, CheckOk, ReadReply, Holding
<1>10. ASSUME NEW t \in Threads,
              ReleaseLock(t) \/ ReleaseInterrupted(t) \/ PyReleaseInterrupted(t)
       PROVE ExchangeInv'
  BY <1>10 DEF ReleaseLock, ReleaseInterrupted, PyReleaseInterrupted, Holding
<1>11. ASSUME NEW t \in Threads, FreeSlot(t) PROVE ExchangeInv'
  BY <1>11 DEF FreeSlot, Holding
<1>12. ASSUME NEW t \in Threads, Crash(t) PROVE ExchangeInv'
  BY <1>12 DEF Crash, Holding
<1>13. ASSUME NEW s \in Slots, SrvTake(s) PROVE ExchangeInv'
  BY <1>13 DEF SrvTake
<1>14. ASSUME NEW s \in Slots, SrvRead(s) PROVE ExchangeInv'
  BY <1>14 DEF SrvRead
<1>15. ASSUME NEW s \in Slots, SrvReply(s) PROVE ExchangeInv'
  BY <1>15 DEF SrvReply
<1>16. ASSUME NEW s \in Slots, SrvPost(s) PROVE ExchangeInv'
  BY <1>16 DEF SrvPost
<1>17. ASSUME NEW s \in Slots, SrvCollect(s) PROVE ExchangeInv'
  BY <1>17 DEF SrvCollect
<1>18. CASE UNCHANGED vars
  BY <1>18 DEF vars
<1>19. QED
  BY <1>1, <1>2, <1>3, <1>4, <1>5, <1>6, <1>7, <1>8, <1>9, <1>10, <1>11, <1>12, <1>13,
     <1>14, <1>15, <1>16, <1>17, <1>18 DEF Next, CallStep, Fault, Server

\* A call that starts on a slot the server had finished with returns its own reply
\* or an error that is not the PENDING sentinel, however late the server is, however
\* many other calls time out, and whichever processes die.
THEOREM CleanCallGetsOwnReply == ASSUME NoPyInterrupt PROVE Spec => []CleanReply
<1> DEFINE IInv == OwnInv /\ ExchangeInv /\ CleanReply
<1>1. Init => IInv
  BY DEF Init, OwnInv, ShmLockInv, ScanInv, SlotExclusive, ExchangeInv, CleanReply,
         InShmLock, Holding
<1>2. TypeOK /\ IInv /\ [Next]_vars => IInv'
  <2> SUFFICES ASSUME TypeOK, IInv, [Next]_vars PROVE CleanReply'
    BY OwnStep, ExchangeStep
  <2> USE DEF CleanReply, CleanCall, ThisCall, TypeOK, clientVars, slotVars, serverVars
  <2>1. ASSUME NEW t \in Threads, CallStart(t) \/ ReserveLock(t) \/ ReserveInterrupted(t)
        PROVE CleanReply'
    BY <2>1 DEF CallStart, ReserveLock, ReserveInterrupted
  <2>2. ASSUME NEW t \in Threads, ScanFinds(t) \/ ScanFindsNone(t) \/ ClaimSlot(t)
        PROVE CleanReply'
    BY <2>2 DEF ScanFinds, ScanFindsNone, ClaimSlot
  <2>3. ASSUME NEW t \in Threads, FillRequest(t) \/ PostRequest(t) \/ PostRequestFails(t)
        PROVE CleanReply'
    BY <2>3 DEF FillRequest, PostRequest, PostRequestFails
  <2>4. ASSUME NEW t \in Threads, WaitAnswered(t) \/ WaitTimeout(t) \/ PyWaitInterrupted(t)
        PROVE CleanReply'
    BY <2>4 DEF WaitAnswered, WaitTimeout, PyWaitInterrupted
  <2>5. ASSUME NEW t \in Threads, PollAnswered(t) \/ PollGivesUp(t) PROVE CleanReply'
    BY <2>5 DEF PollAnswered, PollGivesUp
  <2>6. ASSUME NEW t \in Threads, CheckError(t) \/ CheckOk(t) \/ ReadReply(t)
        PROVE CleanReply'
    BY <2>6 DEF CheckError, CheckOk, ReadReply, ExchangeInv, Exchange, Holding
  <2>7. ASSUME NEW t \in Threads,
               \/ ReleaseLock(t) \/ ReleaseInterrupted(t) \/ PyReleaseInterrupted(t)
               \/ FreeSlot(t) \/ Crash(t)
        PROVE CleanReply'
    BY <2>7 DEF ReleaseLock, ReleaseInterrupted, PyReleaseInterrupted, FreeSlot, Crash
  <2>8. ASSUME NEW s \in Slots, Server(s) PROVE CleanReply'
    BY <2>8 DEF Server, SrvTake, SrvRead, SrvReply, SrvPost, SrvCollect
  <2>9. CASE UNCHANGED vars
    BY <2>9 DEF vars
  <2>10. QED
    BY <2>1, <2>2, <2>3, <2>4, <2>5, <2>6, <2>7, <2>8, <2>9 DEF Next, CallStep, Fault
<1>3. IInv => CleanReply
  OBVIOUS
<1>4. QED
  BY <1>1, <1>2, <1>3, TypeCorrect, PTL DEF Spec

-----------------------------------------------------------------------------
(* At most one execution *)

\* The server has not begun to execute call c and cannot: no slot carries it.
Unsent(c) == execs[c] = 0 /\ \A s \in Slots : request[s] # c

\* The server has begun call c at most once, counting the execution that a taken
\* or a posted request can still lead to, and at most one slot carries it.
Single(c) ==
    /\ execs[c] <= 1
    /\ \A s \in Slots : request[s] = c =>
         /\ srv[s] = "woken" => execs[c] = 0 /\ req[s] = 0
         /\ req[s] + execs[c] <= 1
    /\ \A s, r \in Slots : request[s] = c /\ request[r] = c => s = r

\* What is known of the n-th call of thread t.  It is unsent until it has filled a
\* slot; it posts what it filled in itself; a clean call is not yet executed
\* when it is about to be posted, and single from its claim to its return.
Progress(t, n) ==
    LET c == <<t, n>>
        Current == n = calls[t]
    IN  /\ n > calls[t] => Unsent(c)
        /\ Current /\ pc[t] \in {"reserve", "scan", "claim", "fill"} => Unsent(c)
        /\ Current /\ pc[t] = "post" => request[slot[t]] = c
        /\ Current /\ pc[t] = "post" /\ t \notin late => execs[c] = 0
        /\ Current /\ pc[t] # "crashed" /\ t \notin late => Single(c)

OnceInv == \A t \in Threads : \A n \in 0 .. MaxCalls : Progress(t, n)

\* A call that no slot carries is not disturbed by the others, and a single call
\* stays single, when a step starts no execution, fills no slot, takes no request
\* and posts none.
LEMMA QuietKeeps ==
  ASSUME TypeOK, NEW c \in Calls, execs' = execs, request' = request,
         \A s \in Slots : srv'[s] = "woken" => srv[s] = "woken",
         req' \in [Slots -> Nat], \A s \in Slots : req'[s] <= req[s]
  PROVE  /\ Unsent(c) => Unsent(c)'
         /\ Single(c) => Single(c)'
<1>1. Unsent(c) => Unsent(c)'
  BY DEF Unsent
<1>2. execs[c] \in Nat /\ req \in [Slots -> Nat]
  BY DEF TypeOK
<1>3. Single(c) => Single(c)'
  BY <1>2 DEF Single
<1>4. QED
  BY <1>1, <1>3

\* A taken request is the one post of the call, which is not executed yet.
LEMMA TakeKeepsSingle ==
  ASSUME TypeOK, NEW c \in Calls, NEW s \in Slots, SrvTake(s), Single(c)
  PROVE  Single(c)'
<1>1. execs[c] \in Nat /\ req[s] \in Nat \ {0} /\ execs' = execs /\ request' = request
  BY DEF TypeOK, SrvTake, slotVars
<1>2. request[s] = c => execs[c] = 0 /\ req[s] = 1
  BY <1>1 DEF Single
<1>3. /\ req'[s] = req[s] - 1
      /\ \A r \in Slots : r # s => req'[r] = req[r] /\ srv'[r] = srv[r]
  BY DEF TypeOK, SrvTake
<1>4. QED
  BY <1>1, <1>2, <1>3 DEF Single

\* A step keeps the count: only FillRequest puts a call into a slot, only PostRequest
\* announces it, each drain withdraws it, and the server turns one post into one
\* execution.
LEMMA OnceStep ==
  ASSUME TypeOK, OwnInv, ExchangeInv, OnceInv, [Next]_vars
  PROVE  OnceInv'
<1> SUFFICES ASSUME NEW u \in Threads, NEW n \in 0 .. MaxCalls PROVE Progress(u, n)'
  BY DEF OnceInv
<1> DEFINE c == <<u, n>>
           Keeps == (Unsent(c) => Unsent(c)') /\ (Single(c) => Single(c)')
<1> USE SlotIpcAssumption DEF TypeOK, clientVars, slotVars, serverVars
<1>a. c \in Calls /\ Progress(u, n) /\ calls[u] \in 0 .. MaxCalls
  BY DEF Calls, OnceInv
<1>b. Unsent(c) => Single(c)
  BY DEF Unsent, Single
<1>1. ASSUME NEW t \in Threads, CallStart(t) PROVE Progress(u, n)'
  <2>1. Keeps
    BY <1>1, <1>a, QuietKeeps DEF CallStart
  <2>2. QED
    BY <1>1, <1>a, <1>b, <2>1 DEF Progress, CallStart
<1>2. ASSUME NEW t \in Threads,
             ReserveLock(t) \/ ReserveInterrupted(t)
      PROVE Progress(u, n)'
  <2>1. Keeps
    BY <1>2, <1>a, QuietKeeps DEF ReserveLock, ReserveInterrupted
  <2>2. QED
    BY <1>2, <1>a, <2>1 DEF Progress, ReserveLock, ReserveInterrupted
<1>3. ASSUME NEW t \in Threads, ScanFinds(t) \/ ScanFindsNone(t) PROVE Progress(u, n)'
  <2>1. Keeps
    BY <1>3, <1>a, QuietKeeps DEF ScanFinds, ScanFindsNone
  <2>2. QED
    BY <1>3, <1>a, <2>1 DEF Progress, ScanFinds, ScanFindsNone, FreeSlots
<1>4. ASSUME NEW t \in Threads, ClaimSlot(t) PROVE Progress(u, n)'
  <2>1. Keeps
    BY <1>4, <1>a, QuietKeeps DEF ClaimSlot
  <2>2. QED
    BY <1>4, <1>a, <1>b, <2>1 DEF Progress, ClaimSlot
<1>5. ASSUME NEW t \in Threads, PostRequestFails(t) PROVE Progress(u, n)'
  <2>1. Keeps
    BY <1>5, <1>a, QuietKeeps DEF PostRequestFails
  <2>2. QED
    BY <1>5, <1>a, <2>1 DEF Progress, PostRequestFails
<1>6. ASSUME NEW t \in Threads,
             WaitAnswered(t) \/ WaitTimeout(t) \/ PyWaitInterrupted(t)
      PROVE Progress(u, n)'
  <2>1. Keeps
    BY <1>6, <1>a, QuietKeeps DEF WaitAnswered, WaitTimeout, PyWaitInterrupted
  <2>2. QED
    BY <1>6, <1>a, <2>1 DEF Progress, WaitAnswered, WaitTimeout, PyWaitInterrupted
<1>7. ASSUME NEW t \in Threads, PollAnswered(t) \/ PollGivesUp(t) PROVE Progress(u, n)'
  <2>1. Keeps
    BY <1>7, <1>a, QuietKeeps DEF PollAnswered, PollGivesUp
  <2>2. QED
    BY <1>7, <1>a, <2>1 DEF Progress, PollAnswered, PollGivesUp
<1>8. ASSUME NEW t \in Threads,
             CheckError(t) \/ CheckOk(t) \/ ReadReply(t)
      PROVE Progress(u, n)'
  <2>1. Keeps
    BY <1>8, <1>a, QuietKeeps DEF CheckError, CheckOk, ReadReply
  <2>2. QED
    BY <1>8, <1>a, <2>1 DEF Progress, CheckError, CheckOk, ReadReply
<1>9. ASSUME NEW t \in Threads,
             ReleaseLock(t) \/ ReleaseInterrupted(t) \/ PyReleaseInterrupted(t)
      PROVE Progress(u, n)'
  <2>1. Keeps
    BY <1>9, <1>a, QuietKeeps DEF ReleaseLock, ReleaseInterrupted, PyReleaseInterrupted
  <2>2. QED
    BY <1>9, <1>a, <2>1 DEF Progress, ReleaseLock, ReleaseInterrupted, PyReleaseInterrupted
<1>10. ASSUME NEW t \in Threads, FreeSlot(t) PROVE Progress(u, n)'
  <2>1. Keeps
    BY <1>10, <1>a, QuietKeeps DEF FreeSlot
  <2>2. QED
    BY <1>10, <1>a, <2>1 DEF Progress, FreeSlot
<1>11. ASSUME NEW t \in Threads, Crash(t) PROVE Progress(u, n)'
  <2>1. Keeps
    BY <1>11, <1>a, QuietKeeps DEF Crash
  <2>2. QED
    BY <1>11, <1>a, <2>1 DEF Progress, Crash
<1>12. ASSUME NEW t \in Threads, FillRequest(t) PROVE Progress(u, n)'
  <2>1. CASE c = ThisCall(t)
    <3>1. u = t /\ n = calls[t] /\ Unsent(c)
      BY <1>12, <1>a, <2>1 DEF ThisCall, Progress, FillRequest
    <3>2. \A s \in Slots : request'[s] = c <=> s = slot[t]
      BY <1>12, <2>1, <3>1 DEF FillRequest, Unsent
    <3>3. execs'[c] = 0
      BY <1>12, <3>1 DEF FillRequest, Unsent
    <3>4. ASSUME t \notin late PROVE Single(c)'
      <4>1. srv'[slot[t]] = "idle" /\ req'[slot[t]] = 0
        BY <1>12, <3>4 DEF FillRequest, ExchangeInv, Exchange, Holding
      <4>2. QED
        BY <3>2, <3>3, <4>1 DEF Single
    <3>5. QED
      BY <1>12, <1>a, <3>1, <3>2, <3>3, <3>4 DEF FillRequest, Progress
  <2>2. CASE c # ThisCall(t)
    <3>1. \A s \in Slots : request'[s] = c => request[s] = c
      BY <1>12, <2>2 DEF FillRequest
    <3>2. Keeps
      BY <1>12, <3>1 DEF FillRequest, Unsent, Single
    <3>3. ASSUME u # t, pc[u] = "post" PROVE slot[u] # slot[t]
      BY <1>12, <3>3 DEF FillRequest, OwnInv, SlotExclusive, Holding
    <3>4. QED
      BY <1>12, <1>a, <2>2, <3>2, <3>3 DEF FillRequest, Progress, ThisCall
  <2>3. QED
    BY <2>1, <2>2
<1>13. ASSUME NEW t \in Threads, PostRequest(t) PROVE Progress(u, n)'
  <2>1. request[slot[t]] = ThisCall(t)
    BY <1>13 DEF PostRequest, OnceInv, Progress, ThisCall
  <2>2. Unsent(c) => Unsent(c)'
    BY <1>13 DEF PostRequest, Unsent
  <2>3. CASE c = ThisCall(t)
    <3>1. u = t /\ n = calls[t]
      BY <2>3 DEF ThisCall
    <3>2. ASSUME t \notin late, Single(c) PROVE Single(c)'
      <4>1. srv[slot[t]] = "idle" /\ req[slot[t]] = 0 /\ execs[c] = 0
        BY <1>13, <1>a, <3>1, <3>2 DEF PostRequest, ExchangeInv, Exchange, Holding, Progress
      <4>2. \A s \in Slots : request[s] = c => s = slot[t]
        BY <2>1, <2>3, <3>2 DEF Single
      <4>3. QED
        BY <1>13, <3>2, <4>1, <4>2 DEF PostRequest, Single
    <3>3. QED
      BY <1>13, <1>a, <2>2, <3>1, <3>2 DEF PostRequest, Progress
  <2>4. CASE c # ThisCall(t)
    <3>1. Single(c) => Single(c)'
      BY <1>13, <2>1, <2>4 DEF PostRequest, Single
    <3>2. QED
      BY <1>13, <1>a, <2>2, <2>4, <3>1 DEF PostRequest, Progress, ThisCall
  <2>5. QED
    BY <2>3, <2>4
<1>14. ASSUME NEW s \in Slots, SrvTake(s) PROVE Progress(u, n)'
  <2>1. Unsent(c) => Unsent(c)'
    BY <1>14 DEF SrvTake, Unsent
  <2>2. Single(c) => Single(c)'
    BY <1>14, <1>a, TakeKeepsSingle
  <2>3. QED
    BY <1>14, <1>a, <2>1, <2>2 DEF SrvTake, Progress
<1>15. ASSUME NEW s \in Slots, SrvRead(s) PROVE Progress(u, n)'
  <2>1. CASE c = request[s]
    <3>1. execs'[c] = execs[c] + 1
      BY <1>15, <1>a, <2>1 DEF SrvRead
    <3>2. ~Unsent(c)
      BY <2>1 DEF Unsent
    <3>3. Single(c) => Single(c)'
      <4> SUFFICES ASSUME Single(c) PROVE Single(c)'
        OBVIOUS
      <4>1. execs[c] = 0 /\ req[s] = 0
        BY <1>15, <2>1 DEF SrvRead, Single
      <4>2. \A r \in Slots : request[r] = c => r = s
        BY <2>1 DEF Single
      <4>3. execs'[c] = 1 /\ srv'[s] = "work"
        BY <1>15, <3>1, <4>1 DEF SrvRead
      <4>4. request' = request /\ req'[s] = 0
        BY <1>15, <4>1 DEF SrvRead
      <4>5. QED
        BY SMTT(40), <4>2, <4>3, <4>4 DEF Single
    <3>4. ~(n = calls[u] /\ pc[u] = "post" /\ u \notin late)
      <4> SUFFICES ASSUME n = calls[u], pc[u] = "post", u \notin late PROVE FALSE
        OBVIOUS
      <4>1. request[slot[u]] = c /\ Single(c)
        BY <1>a DEF Progress
      <4>2. slot[u] = s
        BY <2>1, <4>1 DEF Single
      <4>3. QED
        BY <1>15, <4>2 DEF SrvRead, ExchangeInv, Exchange, Holding
    <3>5. QED
      BY <1>15, <1>a, <3>2, <3>3, <3>4 DEF SrvRead, Progress
  <2>2. CASE c # request[s]
    <3>1. execs'[c] = execs[c]
      BY <1>15, <1>a, <2>2 DEF SrvRead
    <3>2. Keeps
      BY <1>15, <2>2, <3>1 DEF SrvRead, Unsent, Single
    <3>3. QED
      BY <1>15, <1>a, <3>1, <3>2 DEF SrvRead, Progress
  <2>3. QED
    BY <2>1, <2>2
<1>16. ASSUME NEW s \in Slots, SrvReply(s) \/ SrvPost(s) \/ SrvCollect(s)
       PROVE Progress(u, n)'
  <2>1. Keeps
    BY <1>16, <1>a, QuietKeeps DEF SrvReply, SrvPost, SrvCollect
  <2>2. QED
    BY <1>16, <1>a, <2>1 DEF Progress, SrvReply, SrvPost, SrvCollect
<1>17. CASE UNCHANGED vars
  <2>1. Keeps
    BY <1>17, <1>a, QuietKeeps DEF vars
  <2>2. QED
    BY <1>17, <1>a, <2>1 DEF Progress, vars
<1>18. QED
  BY <1>1, <1>2, <1>3, <1>4, <1>5, <1>6, <1>7, <1>8, <1>9, <1>10, <1>11, <1>12, <1>13,
     <1>14, <1>15, <1>16, <1>17 DEF Next, CallStep, Fault, Server

\* The server executes the request of a call that starts on a slot it had finished
\* with at most once, also when the caller has timed out, freed the slot and left,
\* and others use the slot since: the drains of reserve_slot and release_slot
\* withdraw every post that was not yet taken.
THEOREM CleanCallRunsOnce == ASSUME NoPyInterrupt PROVE Spec => []CleanOnce
<1> DEFINE IInv == OwnInv /\ ExchangeInv /\ OnceInv
<1>1. Init => IInv
  <2> SUFFICES ASSUME Init PROVE IInv
    OBVIOUS
  <2>1. OwnInv /\ ExchangeInv
    BY DEF Init, OwnInv, ShmLockInv, ScanInv, SlotExclusive, ExchangeInv, InShmLock, Holding
  <2>2. ASSUME NEW c \in Calls PROVE Unsent(c) /\ Single(c)
    BY SlotIpcAssumption, <2>2 DEF Init, Unsent, Single, Calls
  <2>3. OnceInv
    BY <2>2 DEF Init, OnceInv, Progress, Calls
  <2>4. QED
    BY <2>1, <2>3
<1>2. TypeOK /\ IInv /\ [Next]_vars => IInv'
  BY OwnStep, ExchangeStep, OnceStep
<1>3. TypeOK /\ IInv => CleanOnce
  BY DEF TypeOK, OnceInv, Progress, Single, CleanOnce, CleanCall, ThisCall
<1>4. QED
  BY <1>1, <1>2, <1>3, TypeCorrect, PTL DEF Spec
=============================================================================
