------------------------------- MODULE SlotIpc -------------------------------
(***************************************************************************)
(* The shared-memory slot dispatcher of the three SDKs: bp_client_call in  *)
(* c/src/client.c, Client.Call in go/ocxbp/shm/call.go and Client.call in  *)
(* python/src/bpclient/_ipc.py.  The three agree on every step of a call;  *)
(* they differ in what an interrupted wait on /bpShm does and in whether   *)
(* the poll loop may end without a last look at the slot, and those steps  *)
(* are told apart by Sdk[t].                                               *)
(*                                                                         *)
(* A thread that makes calls is a member of Threads (its slot owner word   *)
(* is (tid << 32) | pid, so it names the thread).  /bpShm, /bpReqNN and    *)
(* /bpRespNN are counting semaphores.  bpServer is not in the repository:  *)
(* the Srv actions model it from docs/protocol.md and from how the callers *)
(* use it, one worker per slot.                                            *)
(*                                                                         *)
(* The process-local scan mutex (scan_mu) is taken inside /bpShm and       *)
(* released before it, so it adds no exclusion and is not a variable.      *)
(***************************************************************************)
EXTENDS Integers

CONSTANTS
    Threads,        \* the calling threads, of every client process
    NSlots,         \* BP_SLOT_COUNT, 16 in the code
    MaxCalls,       \* bound: calls one thread makes
    Sdk,            \* Sdk[t] \in {"c", "go", "python"}: whose code t runs
    Interruptible,  \* threads whose sem_wait(/bpShm) a signal can interrupt
    Crashable,      \* threads whose process can die at any point
    Free,           \* owner word 0
    NoCall          \* no request or reply in the slot's payload area

ASSUME SlotIpcAssumption ==
    /\ NSlots \in Nat \ {0}
    /\ MaxCalls \in Nat
    /\ Sdk \in [Threads -> {"c", "go", "python"}]
    /\ Interruptible \subseteq Threads
    /\ Crashable \subseteq Threads
    /\ Free \notin Threads
    /\ NoCall \notin Threads \X Nat

VARIABLES
    shmlock,   \* value of the semaphore /bpShm
    owner,     \* owner[s]: slot_owner word of slot s
    req,       \* req[s]: value of /bpReqNN
    resp,      \* resp[s]: value of /bpRespNN
    errcode,   \* errcode[s]: the slot's errorcode field
    request,   \* request[s]: the call whose request bytes are in slot s
    reply,     \* reply[s]: the call that the response bytes in slot s answer
    pc,        \* pc[t]: where thread t is in bp_client_call
    slot,      \* slot[t]: the local variable `slot`
    calls,     \* calls[t]: how many calls t has started
    rc,        \* rc[t]: result of t's call
    got,       \* got[t]: the call whose reply read_reply copied out
    srv,       \* srv[s]: what the server's worker of slot s is doing
    srvCall,   \* srvCall[s]: the request that worker is executing
    execs,     \* execs[c]: how often the server has begun to execute call c
    late       \* history: threads that claimed a slot the server was not done with

clientVars == <<pc, slot, calls, rc, got, late>>
slotVars   == <<errcode, request, reply>>
serverVars == <<srv, srvCall, execs>>
vars == <<shmlock, owner, req, resp, errcode, request, reply,
          pc, slot, calls, rc, got, srv, srvCall, execs, late>>

Slots == 1 .. NSlots
Calls == Threads \X (0 .. MaxCalls)

\* BP_PENDING_ERROR_BITS (-301), 0, and any other code the engine writes.
ErrorCodes == {"PENDING", "OK", "ENGINE"}

\* What a call can return; "none" while it has not.
Results == ErrorCodes \cup
           {"none", "NO_FREE_SLOT", "GENERIC", "SEND_REQUEST", "RECV_ANSWER"}

\* The points of bp_client_call at which its slot belongs to the thread.
Holding == {"fill", "post", "wait", "poll", "check", "read", "release", "free"}

\* The points at which a thread has decremented /bpShm and not yet posted it.
InShmLock == {"scan", "claim", "free"}

PcStates == {"idle", "reserve", "scan", "claim", "crashed"} \cup Holding

ThisCall(t) == <<t, calls[t]>>

TypeOK ==
    /\ shmlock \in Nat
    /\ owner \in [Slots -> Threads \cup {Free}]
    /\ req \in [Slots -> Nat]
    /\ resp \in [Slots -> Nat]
    /\ errcode \in [Slots -> ErrorCodes]
    /\ request \in [Slots -> Calls \cup {NoCall}]
    /\ reply \in [Slots -> Calls \cup {NoCall}]
    /\ pc \in [Threads -> PcStates]
    /\ slot \in [Threads -> Slots]
    /\ calls \in [Threads -> 0 .. MaxCalls]
    /\ rc \in [Threads -> Results]
    /\ got \in [Threads -> Calls \cup {NoCall}]
    /\ srv \in [Slots -> {"idle", "woken", "work", "replied"}]
    /\ srvCall \in [Slots -> Calls \cup {NoCall}]
    /\ execs \in [Calls -> Nat]
    /\ late \subseteq Threads

\* bpServer has created the region and the semaphores: no slot is owned and
\* nothing is posted.
Init ==
    /\ shmlock = 1
    /\ owner = [s \in Slots |-> Free]
    /\ req = [s \in Slots |-> 0]
    /\ resp = [s \in Slots |-> 0]
    /\ errcode = [s \in Slots |-> "OK"]
    /\ request = [s \in Slots |-> NoCall]
    /\ reply = [s \in Slots |-> NoCall]
    /\ pc = [t \in Threads |-> "idle"]
    /\ slot = [t \in Threads |-> 1]
    /\ calls = [t \in Threads |-> 0]
    /\ rc = [t \in Threads |-> "none"]
    /\ got = [t \in Threads |-> NoCall]
    /\ srv = [s \in Slots |-> "idle"]
    /\ srvCall = [s \in Slots |-> NoCall]
    /\ execs = [c \in Calls |-> 0]
    /\ late = {}

-----------------------------------------------------------------------------
(* reserve_slot *)

\* A thread enters bp_client_call and blocks in sem_wait(/bpShm).
CallStart(t) ==
    /\ pc[t] = "idle"
    /\ calls[t] < MaxCalls
    /\ calls' = [calls EXCEPT ![t] = @ + 1]
    /\ pc' = [pc EXCEPT ![t] = "reserve"]
    /\ rc' = [rc EXCEPT ![t] = "none"]
    /\ got' = [got EXCEPT ![t] = NoCall]
    /\ UNCHANGED <<shmlock, owner, req, resp, slotVars, slot, serverVars, late>>

\* Wrong variant of ReserveLock: the scan does not take /bpShm.
ReserveLockUnlocked(t) ==
    /\ pc[t] = "reserve"
    /\ pc' = [pc EXCEPT ![t] = "scan"]
    /\ UNCHANGED <<shmlock, owner, req, resp, slotVars, slot, calls, rc, got, late, serverVars>>

ReserveLock(t) ==
    /\ pc[t] = "reserve"
    /\ shmlock > 0
    /\ shmlock' = shmlock - 1
    /\ pc' = [pc EXCEPT ![t] = "scan"]
    /\ UNCHANGED <<owner, req, resp, slotVars, slot, calls, rc, got, late, serverVars>>

\* A signal reaches thread t while it is blocked in sem_wait(/bpShm).
SignalInShmWait(t) == t \in Interruptible /\ shmlock = 0

\* sem_wait fails with EINTR: the C code returns BP_ERR_GENERIC, posix_ipc
\* raises (also "GENERIC" here); Go's go_sem_wait retries.
ReserveInterrupted(t) ==
    /\ pc[t] = "reserve"
    /\ SignalInShmWait(t) /\ Sdk[t] # "go"
    /\ pc' = [pc EXCEPT ![t] = "idle"]
    /\ rc' = [rc EXCEPT ![t] = "GENERIC"]
    /\ UNCHANGED <<shmlock, owner, req, resp, slotVars, slot, calls, got, late, serverVars>>

FreeSlots == {s \in Slots : owner[s] = Free}

\* The scan finds the first slot whose owner word is 0.
ScanFinds(t) ==
    /\ pc[t] = "scan"
    /\ \E s \in FreeSlots :
         /\ \A r \in FreeSlots : s <= r
         /\ slot' = [slot EXCEPT ![t] = s]
    /\ pc' = [pc EXCEPT ![t] = "claim"]
    /\ UNCHANGED <<shmlock, owner, req, resp, slotVars, calls, rc, got, late, serverVars>>

ScanFindsNone(t) ==
    /\ pc[t] = "scan"
    /\ FreeSlots = {}
    /\ shmlock' = shmlock + 1
    /\ pc' = [pc EXCEPT ![t] = "idle"]
    /\ rc' = [rc EXCEPT ![t] = "NO_FREE_SLOT"]
    /\ UNCHANGED <<owner, req, resp, slotVars, slot, calls, got, late, serverVars>>

\* Wrong variant of ClaimSlot: /bpRespNN is not drained.
ClaimSlotNoDrain(t) ==
    /\ pc[t] = "claim"
    /\ owner' = [owner EXCEPT ![slot[t]] = t]
    /\ req' = [req EXCEPT ![slot[t]] = 0]
    /\ shmlock' = shmlock + 1
    /\ pc' = [pc EXCEPT ![t] = "fill"]
    /\ late' = IF srv[slot[t]] = "idle" THEN late \ {t} ELSE late \cup {t}
    /\ UNCHANGED <<resp, slotVars, slot, calls, rc, got, serverVars>>

\* Write the owner word, drain both semaphores, post /bpShm.
ClaimSlot(t) ==
    /\ pc[t] = "claim"
    /\ owner' = [owner EXCEPT ![slot[t]] = t]
    /\ req' = [req EXCEPT ![slot[t]] = 0]
    /\ resp' = [resp EXCEPT ![slot[t]] = 0]
    /\ shmlock' = shmlock + 1
    /\ pc' = [pc EXCEPT ![t] = "fill"]
    /\ late' = IF srv[slot[t]] = "idle" THEN late \ {t} ELSE late \cup {t}
    /\ UNCHANGED <<slotVars, slot, calls, rc, got, serverVars>>

-----------------------------------------------------------------------------
(* The body of bp_client_call *)

\* Header, errorcode = PENDING, payload and response area zeroed, payload.
FillRequest(t) ==
    /\ pc[t] = "fill"
    /\ errcode' = [errcode EXCEPT ![slot[t]] = "PENDING"]
    /\ request' = [request EXCEPT ![slot[t]] = ThisCall(t)]
    /\ reply' = [reply EXCEPT ![slot[t]] = NoCall]
    /\ pc' = [pc EXCEPT ![t] = "post"]
    /\ UNCHANGED <<shmlock, owner, req, resp, slot, calls, rc, got, late, serverVars>>

PostRequest(t) ==
    /\ pc[t] = "post"
    /\ req' = [req EXCEPT ![slot[t]] = @ + 1]
    /\ pc' = [pc EXCEPT ![t] = "wait"]
    /\ UNCHANGED <<shmlock, owner, resp, slotVars, slot, calls, rc, got, late, serverVars>>

\* Wrong variant of PostRequestFails: returns without release_slot.
PostRequestFailsNoRelease(t) ==
    /\ pc[t] = "post"
    /\ rc' = [rc EXCEPT ![t] = "SEND_REQUEST"]
    /\ pc' = [pc EXCEPT ![t] = "idle"]
    /\ UNCHANGED <<shmlock, owner, req, resp, slotVars, slot, calls, got, late, serverVars>>

PostRequestFails(t) ==
    /\ pc[t] = "post"
    /\ rc' = [rc EXCEPT ![t] = "SEND_REQUEST"]
    /\ pc' = [pc EXCEPT ![t] = "release"]
    /\ UNCHANGED <<shmlock, owner, req, resp, slotVars, slot, calls, got, late, serverVars>>

\* Wrong variant of WaitAnswered: does not wait for a post.
WaitAnsweredAnyway(t) ==
    /\ pc[t] = "wait"
    /\ resp' = [resp EXCEPT ![slot[t]] = @ - 1]
    /\ pc' = [pc EXCEPT ![t] = "check"]
    /\ UNCHANGED <<shmlock, owner, req, slotVars, slot, calls, rc, got, late, serverVars>>

\* sem_timedwait returns 0.
WaitAnswered(t) ==
    /\ pc[t] = "wait"
    /\ resp[slot[t]] > 0
    /\ resp' = [resp EXCEPT ![slot[t]] = @ - 1]
    /\ pc' = [pc EXCEPT ![t] = "check"]
    /\ UNCHANGED <<shmlock, owner, req, slotVars, slot, calls, rc, got, late, serverVars>>

\* Wrong variant of WaitTimeout: sem_wait in place of sem_timedwait.
WaitTimeoutNever(t) == pc[t] = "timeout" /\ UNCHANGED vars

\* sem_timedwait fails (ETIMEDOUT, or EINTR in C): poll errorcode for 200 ms.
WaitTimeout(t) ==
    /\ pc[t] = "wait"
    /\ resp[slot[t]] = 0
    /\ pc' = [pc EXCEPT ![t] = "poll"]
    /\ UNCHANGED <<shmlock, owner, req, resp, slotVars, slot, calls, rc, got, late, serverVars>>

\* In Python a signal ends the wait with an exception that is not BusyError: no
\* poll, straight to the finally clause.
PyWaitInterrupted(t) ==
    /\ pc[t] = "wait"
    /\ t \in Interruptible /\ Sdk[t] = "python"
    /\ rc' = [rc EXCEPT ![t] = "GENERIC"]
    /\ pc' = [pc EXCEPT ![t] = "release"]
    /\ UNCHANGED <<shmlock, owner, req, resp, slotVars, slot, calls, got, late, serverVars>>

PollAnswered(t) ==
    /\ pc[t] = "poll"
    /\ errcode[slot[t]] # "PENDING"
    /\ pc' = [pc EXCEPT ![t] = "check"]
    /\ UNCHANGED <<shmlock, owner, req, resp, slotVars, slot, calls, rc, got, late, serverVars>>

\* Wrong variant of PollGivesUp: the request is posted once more.
PollGivesUpRetries(t) ==
    /\ pc[t] = "poll"
    /\ req[slot[t]] = 0
    /\ req' = [req EXCEPT ![slot[t]] = @ + 1]
    /\ pc' = [pc EXCEPT ![t] = "wait"]
    /\ UNCHANGED <<shmlock, owner, resp, slotVars, slot, calls, rc, got, late, serverVars>>

\* The C loop ends after a read that still saw PENDING; the Go and Python
\* loops test the deadline first and may end without another read.
PollGivesUp(t) ==
    /\ pc[t] = "poll"
    /\ Sdk[t] = "c" => errcode[slot[t]] = "PENDING"
    /\ rc' = [rc EXCEPT ![t] = "RECV_ANSWER"]
    /\ pc' = [pc EXCEPT ![t] = "release"]
    /\ UNCHANGED <<shmlock, owner, req, resp, slotVars, slot, calls, got, late, serverVars>>

\* A non-zero errorcode is the call's result, PENDING included.
CheckError(t) ==
    /\ pc[t] = "check"
    /\ errcode[slot[t]] # "OK"
    /\ rc' = [rc EXCEPT ![t] = errcode[slot[t]]]
    /\ pc' = [pc EXCEPT ![t] = "release"]
    /\ UNCHANGED <<shmlock, owner, req, resp, slotVars, slot, calls, got, late, serverVars>>

CheckOk(t) ==
    /\ pc[t] = "check"
    /\ errcode[slot[t]] = "OK"
    /\ pc' = [pc EXCEPT ![t] = "read"]
    /\ UNCHANGED <<shmlock, owner, req, resp, slotVars, slot, calls, rc, got, late, serverVars>>

ReadReply(t) ==
    /\ pc[t] = "read"
    /\ got' = [got EXCEPT ![t] = reply[slot[t]]]
    /\ rc' = [rc EXCEPT ![t] = "OK"]
    /\ pc' = [pc EXCEPT ![t] = "release"]
    /\ UNCHANGED <<shmlock, owner, req, resp, slotVars, slot, calls, late, serverVars>>

-----------------------------------------------------------------------------
(* release_slot *)

ReleaseLock(t) ==
    /\ pc[t] = "release"
    /\ shmlock > 0
    /\ shmlock' = shmlock - 1
    /\ pc' = [pc EXCEPT ![t] = "free"]
    /\ UNCHANGED <<owner, req, resp, slotVars, slot, calls, rc, got, late, serverVars>>

\* sem_wait fails with EINTR in C: release_slot returns, the slot stays owned.
ReleaseInterrupted(t) ==
    /\ pc[t] = "release"
    /\ SignalInShmWait(t) /\ Sdk[t] = "c"
    /\ pc' = [pc EXCEPT ![t] = "idle"]
    /\ UNCHANGED <<shmlock, owner, req, resp, slotVars, slot, calls, rc, got, late, serverVars>>

\* acquire() raises inside the try block of _release_slot: its finally clause
\* posts /bpShm, which this thread never decremented.
PyReleaseInterrupted(t) ==
    /\ pc[t] = "release"
    /\ SignalInShmWait(t) /\ Sdk[t] = "python"
    /\ shmlock' = shmlock + 1
    /\ rc' = [rc EXCEPT ![t] = "GENERIC"]
    /\ pc' = [pc EXCEPT ![t] = "idle"]
    /\ UNCHANGED <<owner, req, resp, slotVars, slot, calls, got, late, serverVars>>

FreeSlot(t) ==
    /\ pc[t] = "free"
    /\ owner' = [owner EXCEPT ![slot[t]] = Free]
    /\ req' = [req EXCEPT ![slot[t]] = 0]
    /\ resp' = [resp EXCEPT ![slot[t]] = 0]
    /\ shmlock' = shmlock + 1
    /\ pc' = [pc EXCEPT ![t] = "idle"]
    /\ UNCHANGED <<slotVars, slot, calls, rc, got, late, serverVars>>

-----------------------------------------------------------------------------
(* The environment *)

\* The client process dies; its slot and /bpShm stay as they are.
Crash(t) ==
    /\ t \in Crashable
    /\ pc[t] # "crashed"
    /\ pc' = [pc EXCEPT ![t] = "crashed"]
    /\ UNCHANGED <<shmlock, owner, req, resp, slotVars, slot, calls, rc, got, late, serverVars>>

\* The engine's liveness check frees the slots of dead clients.
SrvCollect(s) ==
    /\ owner[s] # Free
    /\ pc[owner[s]] = "crashed"
    /\ owner' = [owner EXCEPT ![s] = Free]
    /\ UNCHANGED <<shmlock, req, resp, slotVars, clientVars, serverVars>>

\* The worker's sem_wait on /bpReqNN returns.
SrvTake(s) ==
    /\ srv[s] = "idle"
    /\ req[s] > 0
    /\ req' = [req EXCEPT ![s] = @ - 1]
    /\ srv' = [srv EXCEPT ![s] = "woken"]
    /\ UNCHANGED <<shmlock, owner, resp, slotVars, clientVars, srvCall, execs>>

\* The worker reads the request that is in the slot now and begins to execute it.
SrvRead(s) ==
    /\ srv[s] = "woken"
    /\ srv' = [srv EXCEPT ![s] = "work"]
    /\ srvCall' = [srvCall EXCEPT ![s] = request[s]]
    /\ execs' = [execs EXCEPT ![request[s]] = @ + 1]
    /\ UNCHANGED <<shmlock, owner, req, resp, slotVars, clientVars>>

\* The worker writes the response fields and the errorcode.
SrvReply(s) ==
    /\ srv[s] = "work"
    /\ srv' = [srv EXCEPT ![s] = "replied"]
    /\ reply' = [reply EXCEPT ![s] = srvCall[s]]
    /\ \E e \in {"OK", "ENGINE"} : errcode' = [errcode EXCEPT ![s] = e]
    /\ UNCHANGED <<shmlock, owner, req, resp, request, clientVars, srvCall, execs>>

SrvPost(s) ==
    /\ srv[s] = "replied"
    /\ srv' = [srv EXCEPT ![s] = "idle"]
    /\ resp' = [resp EXCEPT ![s] = @ + 1]
    /\ UNCHANGED <<shmlock, owner, req, slotVars, clientVars, srvCall, execs>>

-----------------------------------------------------------------------------

\* The steps of a call that its thread takes by itself once it has started.
CallStep(t) ==
    \/ ReserveLock(t) \/ ScanFinds(t) \/ ScanFindsNone(t) \/ ClaimSlot(t)
    \/ FillRequest(t) \/ PostRequest(t)
    \/ WaitAnswered(t) \/ WaitTimeout(t) \/ PollAnswered(t) \/ PollGivesUp(t)
    \/ CheckError(t) \/ CheckOk(t) \/ ReadReply(t)
    \/ ReleaseLock(t) \/ FreeSlot(t)

Fault(t) ==
    \/ ReserveInterrupted(t) \/ ReleaseInterrupted(t)
    \/ PyWaitInterrupted(t) \/ PyReleaseInterrupted(t)
    \/ PostRequestFails(t) \/ Crash(t)

Server(s) == SrvTake(s) \/ SrvRead(s) \/ SrvReply(s) \/ SrvPost(s) \/ SrvCollect(s)

Next ==
    \/ \E t \in Threads : CallStart(t) \/ CallStep(t) \/ Fault(t)
    \/ \E s \in Slots : Server(s)

Spec == Init /\ [][Next]_vars

\* Every thread is scheduled; nothing is assumed of the server, of signals or
\* of callers that start new calls.
FairSpec == Spec /\ \A t \in Threads : WF_vars(CallStep(t))

-----------------------------------------------------------------------------
(* Properties *)

\* /bpShm is a mutex: at most one thread is in the scan or in the release, and
\* then its value is 0.
ShmLockInv ==
    /\ shmlock \in {0, 1}
    /\ \A t \in Threads : pc[t] \in InShmLock => shmlock = 0
    /\ \A t, u \in Threads : pc[t] \in InShmLock /\ pc[u] \in InShmLock => t = u

\* The slot a scan has found is still free when it is claimed.
ScanInv == \A t \in Threads : pc[t] = "claim" => owner[slot[t]] = Free

\* While a thread is between reserve_slot and release_slot the slot's owner
\* word names it, so no two calls ever share a slot (bp_client_call keeps using
\* the slot without holding /bpShm).
SlotExclusive ==
    \A t \in Threads : pc[t] \in Holding => owner[slot[t]] = t

\* A slot is owned only by a call in progress that uses it, or by a process that
\* died: no return path of bp_client_call leaks the slot.
NoSlotLeak ==
    \A s \in Slots : owner[s] # Free =>
        LET t == owner[s]
        IN  pc[t] = "crashed" \/ (pc[t] \in Holding /\ slot[t] = s)

\* The slot reservation is not handed from thread to thread: an owner word only
\* changes between 0 and a thread, and only the owner's own release_slot (or the
\* engine's collection of a dead owner) clears it.
OwnerHandover ==
    [][\A s \in Slots : owner'[s] # owner[s] =>
          \/ owner[s] = Free
          \/ owner'[s] = Free /\ pc[owner[s]] \in {"free", "crashed"}]_vars

\* A finished call whose slot the server had nothing left to do for when it was
\* claimed.  The server may still answer it late: the timeout is the call's own.
CleanCall(t) == pc[t] \in {"idle", "release", "free"} /\ t \notin late

\* A call on a slot that the server had finished with when it was claimed either
\* fails or returns the reply to its own request: draining /bpRespNN when the slot
\* is claimed keeps the posts of earlier calls from waking it, and it never
\* returns the PENDING sentinel.
CleanReply ==
    \A t \in Threads : CleanCall(t) =>
        /\ rc[t] = "OK" => got[t] = ThisCall(t)
        /\ rc[t] # "PENDING"

\* Where a call on such a slot and the server's worker can be relative to each
\* other: the worker is one request and one answer behind, and holds no other call.
Exchange(t) ==
    LET s == slot[t]
        Unanswered == resp[s] = 0 /\ errcode[s] = "PENDING"
        Answered   == req[s] = 0 /\ errcode[s] # "PENDING" /\ reply[s] = ThisCall(t)
    IN  /\ pc[t] = "fill" => srv[s] = "idle" /\ req[s] = 0 /\ resp[s] = 0
        /\ pc[t] # "fill" =>
             /\ request[s] = ThisCall(t)
             /\ \/ srv[s] = "idle" /\ req[s] \in {0, 1} /\ Unanswered
                \/ srv[s] = "woken" /\ req[s] = 0 /\ Unanswered
                \/ srv[s] = "work" /\ srvCall[s] = ThisCall(t) /\ req[s] = 0 /\ Unanswered
                \/ srv[s] \in {"replied", "idle"} /\ Answered
        /\ pc[t] = "post" => srv[s] = "idle" /\ req[s] = 0 /\ Unanswered
        /\ srv[s] = "replied" => resp[s] = 0
        /\ pc[t] \in {"check", "read"} => Answered

ExchangeInv == \A t \in Threads : pc[t] \in Holding /\ t \notin late => Exchange(t)

\* The server executes the request of such a call at most once, whatever becomes
\* of the caller: draining /bpReqNN withdraws a request that was not yet taken.
CleanOnce ==
    \A t \in Threads : CleanCall(t) => execs[ThisCall(t)] <= 1

\* What docs/protocol.md ("Stale posts from a prior request ...") expects of the
\* drains on claim and release: every successful call got the reply to its own
\* request.
OwnReply ==
    \A t \in Threads : rc[t] = "OK" => got[t] = ThisCall(t)

\* A call always returns, even when the server never answers: sem_timedwait and
\* the 200 ms poll are bounded and /bpShm is held for a bounded time.
CallReturns ==
    \A t \in Threads : pc[t] # "idle" ~> pc[t] = "idle"
=============================================================================
