---------------------------- MODULE QPoolProofs ----------------------------
(***************************************************************************)
(* Proofs about the connection pool of the Go and the Python client, for   *)
(* any number of callers and entries and any sequence of pools, as long as *)
(* PoolOpen and PoolClose calls do not overlap (OneAdmin).                 *)
(*                                                                         *)
(* The properties are not inductive by themselves.  They rest on what each *)
(* thread holds at each of its program points (HoldInv), which pool is     *)
(* published, open, being opened or being closed (LifeInv), where every    *)
(* index is (PlaceInv), which calls inflight counts (CountInv), which of   *)
(* them a close has waited for (LateInv) and which connections are in the  *)
(* table (ConnInv).                                                        *)
(***************************************************************************)
EXTENDS QPool, FiniteSetTheorems, SequenceTheorems, TLAPS

-----------------------------------------------------------------------------
(* The inductive invariant *)

\* PoolOpen and PoolClose calls do not overlap: the use of the pool the proofs
\* assume.  Without it a close can take a half-open pool (pool.go:87).
OneAdmin == \A a, b \in Admins : apc[a] # "idle" /\ apc[b] # "idle" => a = b

\* The indices in the queue of pool p; a queue in which none is twice.
Elems(s) == {s[n] : n \in DOMAIN s}
Queued(p) == Elems(free[p])
Distinct(s) == \A m, n \in DOMAIN s : s[m] = s[n] => m = n

\* The calls that inflight counts.
Counted(p) == {c \in Callers : cpool[c] = p /\ cpc[c] \in {"wait", "dead", "msg"}}

\* The program counters of callers, keepalive threads and admins fix what each holds.
HoldInv ==
    /\ \A c \in Callers : cpool[c] # None <=> cpc[c] # "idle"
    /\ \A c \in Callers : cidx[c] # None <=> cpc[c] \in {"dead", "msg"}
    /\ \A p \in Pools : kgot[p] # None => kpc[p] \in {"ping", "pinging", "reopen",
       "reopening"}
    /\ \A p \in Pools : kpc[p] \in {"pinging", "reopening"} => kgot[p] = ki[p]
    /\ \A a \in Admins : apool[a] # None <=> apc[a] # "idle"
    /\ \A a \in Admins : apc[a] \notin {"rollback", "closing"} => ak[a] = 0
    /\ \A a \in Admins : apc[a] # "idle" => ak[a] <= opened[apool[a]]

\* inflight counts the calls between inflight.Add and inflight.Done.
CountInv == \A p \in Pools : IsFiniteSet(Counted(p)) /\ inflight[p] =
   Cardinality(Counted(p))

\* A pool nobody has seen yet, but for the connections its open has made.
Fresh(p) ==
    /\ free[p] = <<>> /\ dead[p] = {}
    /\ kpc[p] = "off" /\ kgot[p] = None
    /\ ~init[p] /\ ~stop[p]
    /\ \A c \in Callers : cpool[c] # p

\* Which pool is published, open, being opened or being closed.
LifeInv ==
    /\ \A p \in Pools : p > made => Fresh(p) /\ opened[p] = 0
    /\ cur # None => cur <= made
    /\ \A p \in Pools : init[p] => cur = p /\ ~stop[p] /\ opened[p] = Size
    /\ \A a \in Admins : apc[a] \in {"opening", "rollback"} => apool[a] = cur /\
       Fresh(cur)
    /\ \A a \in Admins : apc[a] \in {"draining", "closing"} =>
          /\ cur = None /\ opened[apool[a]] = Size
          /\ apool[a] <= made
    /\ (cur # None /\ \A a \in Admins : apc[a] = "idle") => init[cur]
    /\ \A p \in Pools : kpc[p] \notin {"off", "done"} =>
          init[p] \/ \E a \in Admins : apool[a] = p /\ apc[a] = "draining"

\* An index is in the queue, with one caller or with the keepalive thread.
PlaceInv ==
    /\ \A p \in Pools : Distinct(free[p])
    /\ \A c, d \in Callers :
          cidx[c] # None /\ cidx[c] = cidx[d] /\ cpool[c] = cpool[d] => c = d
    /\ \A p \in Pools : \A c \in Callers :
          cpool[c] = p /\ cidx[c] # None => cidx[c] \notin Queued(p) /\ cidx[c] # kgot[p]
    /\ \A p \in Pools : kgot[p] \notin Queued(p)
    /\ \A p \in Pools : init[p] =>
          \A i \in Entries : \/ i \in Queued(p) \/ kgot[p] = i
                             \/ \E c \in Callers : cpool[c] = p /\ cidx[c] = i

\* A caller has a pool that was live when it looked; and a call that is not late was
\* counted before the close of its pool had drained, so that close has not.
LateInv ==
    /\ \A c \in Callers : cpool[c] # None => init[cpool[c]] \/ stop[cpool[c]]
    /\ \A c \in Callers \ late : cpc[c] \in {"wait", "dead", "msg"} => ~Drained(cpool[c])

\* The connections in the table, at every point of open, rollback, reopen and close.
ConnInv ==
    /\ LiveIsOpen
    /\ ClosedIsEmpty
    /\ \A p \in Pools : kpc[p] = "reopening" => ki[p] \in dead[p]
    /\ \A a \in Admins : apc[a] = "opening" => conns = 0 .. (opened[apool[a]] - 1)
    /\ \A a \in Admins : apc[a] \in {"rollback", "closing"} =>
          conns \subseteq ak[a] .. (opened[apool[a]] - 1)

\* How many entries are open, or closed again.
Amounts == 0 .. Size

\* TypeOK without the bounds that follow from PlaceInv and CountInv.
TypeInv ==
    /\ sdk \in Sdks
    /\ cur \in Pools \cup {None}
    /\ made \in 0 .. MaxOpens
    /\ opened \in [Pools -> Amounts]
    /\ init \in [Pools -> BOOLEAN]
    /\ stop \in [Pools -> BOOLEAN]
    /\ free \in [Pools -> Seq(Entries)]
    /\ dead \in [Pools -> SUBSET Entries]
    /\ aged \in [Pools -> SUBSET Entries]
    /\ inflight \in [Pools -> Int]
    /\ conns \subseteq Entries
    /\ cpc \in [Callers -> {"idle", "looked", "wait", "dead", "msg"}]
    /\ cpool \in [Callers -> Pools \cup {None}]
    /\ cidx \in [Callers -> Entries \cup {None}]
    /\ att \in [Callers -> Entries]
    /\ late \subseteq Callers
    /\ kpc \in [Pools -> {"off", "sleep", "ping", "pinging", "reopen", "reopening",
       "done"}]
    /\ ki \in [Pools -> Entries]
    /\ kgot \in [Pools -> Entries \cup {None}]
    /\ apc \in [Admins -> {"idle", "opening", "rollback", "draining", "closing"}]
    /\ apool \in [Admins -> Pools \cup {None}]
    /\ ak \in [Admins -> Amounts]
    /\ calls \in 0 .. MaxCalls
    /\ faults \in 0 .. MaxFaults

\* None is neither an entry nor a pool, and there is a first entry.
LEMMA Constants ==
    None \notin Entries /\ None \notin Pools /\ 0 \in Entries /\ 0 \in Amounts
    BY QPoolAssumption DEF Entries, Pools, Amounts

\* Counting up from an entry stays inside the pool.
LEMMA EntryArith ==
    ASSUME NEW i \in Entries
    PROVE  i \in Int /\ i \in Amounts /\ (i + 1 < Size => i + 1 \in Entries)
    BY QPoolAssumption DEF Entries, Amounts

\* The loop indices of open, rollback and close stay inside the pool.
LEMMA AmountArith ==
    ASSUME NEW n \in Amounts
    PROVE  /\ n \in Int /\ 0 <= n /\ n <= Size
           /\ n < Size => n \in Entries /\ n + 1 \in Amounts
           /\ \A m \in Amounts : m < n => m \in Entries /\ m + 1 \in Amounts /\ m + 1 <= n
    BY QPoolAssumption DEF Entries, Amounts

\* A queue of entries stays one when an entry is taken, added or all are seeded.
LEMMA Queues ==
    /\ \A s \in Seq(Entries) : s # <<>> => Head(s) \in Entries /\ Tail(s) \in Seq(Entries)
    /\ \A s \in Seq(Entries) : \A i \in Entries : Append(s, i) \in Seq(Entries)
    /\ [n \in 1 .. Size |-> n - 1] \in Seq(Entries)
<1>1. \A s \in Seq(Entries) : s # <<>> => Head(s) \in Entries /\ Tail(s) \in Seq(Entries)
    BY HeadTailProperties
<1>2. \A s \in Seq(Entries) : \A i \in Entries : Append(s, i) \in Seq(Entries)
    BY AppendProperties
<1>3. [n \in 1 .. Size |-> n - 1] \in Seq(Entries)
    <2>1. \A n \in 1 .. Size : n - 1 \in Entries
        BY QPoolAssumption DEF Entries
    <2> QED
        BY <2>1, QPoolAssumption, IsASeq
<1> QED
    BY <1>1, <1>2, <1>3

-----------------------------------------------------------------------------
(* What threads do when they are done with an index *)

\* Index i goes back to the queue of pool p, or is dropped because the pool is closing.
GivesBack(p, i) == \/ free' = [free EXCEPT ![p] = Append(@, i)]
                   \/ free' = free /\ ~(init[p] /\ ~stop[p])

\* What the keepalive thread does when it is done with an index.
KeeperReturns(p) ==
    /\ GivesBack(p, kgot[p])
    /\ kgot' = [kgot EXCEPT ![p] = None]
    /\ \E i \in Entries : ki' = [ki EXCEPT ![p] = i]
    /\ \E s \in {"ping", "reopen", "sleep", "done"} : kpc' = [kpc EXCEPT ![p] = s]

\* What a caller does when it is done with an index.
CallerReturns(c) ==
    /\ GivesBack(cpool[c], cidx[c])
    /\ \/ /\ \E n \in Entries : att' = [att EXCEPT ![c] = n]
          /\ cpc' = [cpc EXCEPT ![c] = "wait"]
          /\ cidx' = [cidx EXCEPT ![c] = None]
          /\ UNCHANGED <<inflight, cpool, late>>
       \/ TxrxReturn(c)

\* Marking an entry dead or live keeps the sets of dead entries well-typed.
LEMMA DeadType ==
    ASSUME dead \in [Pools -> SUBSET Entries], NEW p \in Pools, NEW i \in Entries,
           \/ dead' = dead
           \/ dead' = [dead EXCEPT ![p] = @ \cup {i}]
           \/ dead' = [dead EXCEPT ![p] = @ \ {i}]
    PROVE  dead' \in [Pools -> SUBSET Entries]
<1>1. dead[p] \cup {i} \in SUBSET Entries /\ dead[p] \ {i} \in SUBSET Entries
    OBVIOUS
<1>2. CASE dead' = dead
    BY <1>2
<1>3. CASE dead' = [dead EXCEPT ![p] = @ \cup {i}]
    BY <1>1, <1>3
<1>4. CASE dead' = [dead EXCEPT ![p] = @ \ {i}]
    BY <1>1, <1>4
<1> QED
    BY <1>2, <1>3, <1>4

\* The keepalive thread goes to the next entry, the next pass, or to sleep.
LEMMA NextEntry ==
    ASSUME TypeInv, NEW p \in Pools, NEW pass \in {"ping", "reopen"}, KaNext(p, pass)
    PROVE  /\ kgot' = [kgot EXCEPT ![p] = None]
           /\ \E i \in Entries : ki' = [ki EXCEPT ![p] = i]
           /\ \E s \in {"ping", "reopen", "sleep", "done"} : kpc' = [kpc EXCEPT ![p] = s]
<1> USE Constants DEF TypeInv, KaNext
<1>1. CASE ki[p] + 1 < Size
    <2>1. ki[p] + 1 \in Entries
        BY <1>1, EntryArith
    <2> QED
        BY <1>1, <2>1
<1>2. CASE ~(ki[p] + 1 < Size)
    BY <1>2
<1> QED
    BY <1>1, <1>2

\* Giving an index back keeps the queues well-typed.
LEMMA QueueType ==
    ASSUME free \in [Pools -> Seq(Entries)], NEW p \in Pools, NEW i \in Entries,
           GivesBack(p, i)
    PROVE  free' \in [Pools -> Seq(Entries)]
<1>1. Append(free[p], i) \in Seq(Entries)
    BY Queues
<1> QED
    BY <1>1 DEF GivesBack

\* Whatever the keepalive thread did with its index, it gives it back and lets go.
LEMMA KeeperGivesBack ==
    ASSUME TypeInv, HoldInv, NEW p \in Pools, KaWrong(p) \/ KaPinged(p) \/ KaReopened(p)
    PROVE  /\ KeeperReturns(p)
           /\ kgot[p] \in Entries
           /\ kpc[p] \in {"ping", "pinging", "reopen", "reopening"}
<1>1. kgot[p] \in Entries /\ kpc[p] \in {"ping", "pinging", "reopen", "reopening"}
    BY Constants DEF TypeInv, HoldInv, KaWrong, KaPinged, KaReopened
<1>2. PICK pass \in {"ping", "reopen"} : KaGiveBack(p, pass)
    BY DEF KaWrong, KaPinged, KaReopened
<1>3. GivesBack(p, kgot[p])
    BY <1>2 DEF KaGiveBack, GivesBack, Put, Drop, MayDrop, TypeInv
<1>4. CASE KaNext(p, pass)
    BY <1>1, <1>3, <1>4, NextEntry DEF KeeperReturns
<1>5. CASE kpc' = [kpc EXCEPT ![p] = "done"] /\ kgot' = [kgot EXCEPT ![p] = None] /\ ki'
         = ki
    <2>1. ki' = [ki EXCEPT ![p] = ki[p]] /\ ki[p] \in Entries
        BY <1>5 DEF TypeInv
    <2> QED
        BY <1>1, <1>3, <1>5, <2>1 DEF KeeperReturns
<1> QED
    BY <1>1, <1>2, <1>4, <1>5 DEF KaGiveBack

\* Whatever a call did with its index, it gives it back and lets go.
LEMMA CallerGivesBack ==
    ASSUME TypeInv, HoldInv, NEW c \in Callers, TxrxPutDead(c) \/ TxrxDone(c)
    PROVE  /\ CallerReturns(c)
           /\ cpool[c] \in Pools /\ cidx[c] \in Entries /\ cpc[c] \in {"dead", "msg"}
<1>1. cpool[c] \in Pools /\ cidx[c] \in Entries /\ cpc[c] \in {"dead", "msg"}
    BY Constants DEF TypeInv, HoldInv, TxrxPutDead, TxrxDone
<1>2. GivesBack(cpool[c], cidx[c])
    BY <1>1 DEF TxrxPutDead, TxrxDone, GivesBack, Put, Drop, MayDrop, TypeInv
<1>3. CASE TxrxReturn(c)
    BY <1>1, <1>2, <1>3 DEF CallerReturns
<1>4. CASE ~TxrxReturn(c)
    <2>1. /\ att[c] + 1 < Size
          /\ att' = [att EXCEPT ![c] = @ + 1]
          /\ cpc' = [cpc EXCEPT ![c] = "wait"]
          /\ cidx' = [cidx EXCEPT ![c] = None]
          /\ UNCHANGED <<inflight, cpool, late>>
        BY <1>4 DEF TxrxPutDead, TxrxDone
    <2>2. att[c] + 1 \in Entries
        BY <2>1, EntryArith DEF TypeInv
    <2> QED
        BY <1>1, <1>2, <2>1, <2>2 DEF CallerReturns
<1> QED
    BY <1>3, <1>4

-----------------------------------------------------------------------------
(* Types *)

\* Every step keeps the types.
LEMMA TypeStep ==
    TypeInv /\ HoldInv /\ [Next]_vars => TypeInv'
<1> SUFFICES ASSUME TypeInv, HoldInv, [Next]_vars
             PROVE  TypeInv'
    OBVIOUS
<1> USE Constants DEF TypeInv, HoldInv, poolVars, callerVars, kaVars, adminVars
<1>1. ASSUME NEW c \in Callers, TxrxLookup(c) PROVE TypeInv'
    <2>1. cur \in Pools /\ calls' \in 0 .. MaxCalls
        BY <1>1, QPoolAssumption DEF TxrxLookup
    <2> QED
        BY <1>1, <2>1 DEF TxrxLookup
<1>2. ASSUME NEW c \in Callers, TxrxCount(c) PROVE TypeInv'
    BY <1>2 DEF TxrxCount
<1>3. ASSUME NEW c \in Callers, TxrxTake(c) PROVE TypeInv'
    BY <1>3 DEF TxrxTake, Take
<1>4. ASSUME NEW c \in Callers, TxrxStopped(c) PROVE TypeInv'
    BY <1>4 DEF TxrxStopped, TxrxReturn
<1>5. ASSUME NEW c \in Callers, TxrxPutDead(c) PROVE TypeInv'
    <2>1. CallerReturns(c) /\ cpool[c] \in Pools /\ cidx[c] \in Entries
        BY <1>5, CallerGivesBack
    <2>2. free' \in [Pools -> Seq(Entries)]
        BY <2>1, QueueType DEF CallerReturns
    <2>3. /\ cpc' \in [Callers -> {"idle", "looked", "wait", "dead", "msg"}]
          /\ cpool' \in [Callers -> Pools \cup {None}]
          /\ cidx' \in [Callers -> Entries \cup {None}]
          /\ att' \in [Callers -> Entries]
          /\ late' \subseteq Callers
          /\ inflight' \in [Pools -> Int]
        <3>1. CASE TxrxReturn(c)
            BY <2>1, <3>1 DEF TxrxReturn
        <3>2. CASE ~TxrxReturn(c)
            BY ZenonT(40), <2>1, <3>2 DEF CallerReturns
        <3> QED
            BY <3>1, <3>2
    <2> QED
        BY <1>5, <2>2, <2>3 DEF TxrxPutDead
<1>6. ASSUME NEW c \in Callers, TxrxDone(c) PROVE TypeInv'
    <2>1. CallerReturns(c) /\ cpool[c] \in Pools /\ cidx[c] \in Entries
        BY <1>6, CallerGivesBack
    <2>2. free' \in [Pools -> Seq(Entries)]
        BY <2>1, QueueType DEF CallerReturns
    <2>3. /\ cpc' \in [Callers -> {"idle", "looked", "wait", "dead", "msg"}]
          /\ cpool' \in [Callers -> Pools \cup {None}]
          /\ cidx' \in [Callers -> Entries \cup {None}]
          /\ att' \in [Callers -> Entries]
          /\ late' \subseteq Callers
          /\ inflight' \in [Pools -> Int]
        <3>1. CASE TxrxReturn(c)
            BY <2>1, <3>1 DEF TxrxReturn
        <3>2. CASE ~TxrxReturn(c)
            BY ZenonT(40), <2>1, <3>2 DEF CallerReturns
        <3> QED
            BY <3>1, <3>2
    <2>4. aged' \in [Pools -> SUBSET Entries]
        BY <1>6, <2>1 DEF TxrxDone
    <2> QED
        BY <1>6, <2>2, <2>3, <2>4 DEF TxrxDone
<1>7. ASSUME NEW p \in Pools, Silence(p) PROVE TypeInv'
    BY <1>7 DEF Silence
<1>8. ASSUME NEW p \in Pools, NEW i \in Entries, BackoffEnds(p, i) PROVE TypeInv'
    BY <1>8 DEF BackoffEnds
<1>9. ASSUME NEW p \in Pools, KaTick(p) PROVE TypeInv'
    BY <1>9 DEF KaTick
<1>10. ASSUME NEW p \in Pools, KaStop(p) PROVE TypeInv'
    BY <1>10 DEF KaStop
<1>11. ASSUME NEW p \in Pools, KaSkip(p) PROVE TypeInv'
    <2>1. /\ kgot' = [kgot EXCEPT ![p] = None]
          /\ \E i \in Entries : ki' = [ki EXCEPT ![p] = i]
          /\ \E s \in {"ping", "reopen", "sleep", "done"} : kpc' = [kpc EXCEPT ![p] = s]
        BY <1>11, NextEntry DEF KaSkip
    <2> QED
        BY <1>11, <2>1 DEF KaSkip
<1>12. ASSUME NEW p \in Pools, KaClaim(p) PROVE TypeInv'
    <2>1. free' \in [Pools -> Seq(Entries)] /\ kgot' \in [Pools -> Entries \cup {None}]
        BY <1>12, Queues DEF KaClaim, Take
    <2>2. /\ kpc' \in [Pools -> {"off", "sleep", "ping", "pinging", "reopen", "reopening", "done"}]
          /\ conns' \subseteq Entries
        <3>1. \/ UNCHANGED <<kpc, conns>>
              \/ \E s \in {"pinging", "reopening"} :
                    kpc' = [kpc EXCEPT ![p] = s] /\ conns' \subseteq conns
            BY <1>12 DEF KaClaim
        <3>2. /\ kpc \in [Pools -> {"off", "sleep", "ping", "pinging", "reopen", "reopening", "done"}]
              /\ conns \subseteq Entries
            OBVIOUS
        <3> HIDE DEF TypeInv
        <3>3. conns' \subseteq Entries
            BY <3>1, <3>2
        <3>4. kpc' \in [Pools -> {"off", "sleep", "ping", "pinging", "reopen", "reopening", "done"}]
            BY <3>1, <3>2
        <3> QED
            BY <3>3, <3>4
    <2>3. UNCHANGED <<sdk, poolVars, dead, aged, inflight, callerVars, ki, adminVars, faults>>
        BY <1>12 DEF KaClaim
    <2> QED
        BY <2>1, <2>2, <2>3
<1>13. ASSUME NEW p \in Pools, KaWrong(p) PROVE TypeInv'
    <2>1. KeeperReturns(p) /\ kgot[p] \in Entries
        BY <1>13, KeeperGivesBack
    <2>2. free' \in [Pools -> Seq(Entries)]
        BY <2>1, QueueType DEF KeeperReturns
    <2>3. /\ kpc' \in [Pools -> {"off", "sleep", "ping", "pinging", "reopen",
             "reopening", "done"}]
          /\ ki' \in [Pools -> Entries]
          /\ kgot' \in [Pools -> Entries \cup {None}]
        BY <2>1 DEF KeeperReturns
    <2>4. dead' \in [Pools -> SUBSET Entries]
        <3>1. \/ dead' = dead
              \/ dead' = [dead EXCEPT ![p] = @ \cup {ki[p]}]
              \/ dead' = [dead EXCEPT ![p] = @ \ {ki[p]}]
            BY <1>13 DEF KaWrong
        <3>2. dead \in [Pools -> SUBSET Entries] /\ ki[p] \in Entries
            OBVIOUS
        <3> QED
            BY <3>1, <3>2, DeadType
    <2>5. aged' \in [Pools -> SUBSET Entries]
        BY <1>13 DEF KaWrong
    <2>6. conns' \subseteq Entries
        BY <1>13 DEF KaWrong, ConnOpens, ConnFails
    <2>7. faults' \in 0 .. MaxFaults
        BY <1>13, QPoolAssumption DEF KaWrong, ConnOpens, ConnFails, Lose
    <2> QED
        BY <1>13, <2>3, <2>4, <2>2, <2>7, <2>5, <2>6 DEF KaWrong
<1>14. ASSUME NEW p \in Pools, KaPinged(p) PROVE TypeInv'
    <2>1. KeeperReturns(p) /\ kgot[p] \in Entries
        BY <1>14, KeeperGivesBack
    <2>2. free' \in [Pools -> Seq(Entries)]
        BY <2>1, QueueType DEF KeeperReturns
    <2>3. /\ kpc' \in [Pools -> {"off", "sleep", "ping", "pinging", "reopen",
             "reopening", "done"}]
          /\ ki' \in [Pools -> Entries]
          /\ kgot' \in [Pools -> Entries \cup {None}]
        BY <2>1 DEF KeeperReturns
    <2>4. dead' \in [Pools -> SUBSET Entries]
        <3>1. \/ dead' = dead
              \/ dead' = [dead EXCEPT ![p] = @ \cup {ki[p]}]
              \/ dead' = [dead EXCEPT ![p] = @ \ {ki[p]}]
            BY <1>14 DEF KaPinged
        <3>2. dead \in [Pools -> SUBSET Entries] /\ ki[p] \in Entries
            OBVIOUS
        <3> QED
            BY <3>1, <3>2, DeadType
    <2>5. aged' \in [Pools -> SUBSET Entries]
        BY <1>14 DEF KaPinged
    <2>6. conns' \subseteq Entries
        BY <1>14 DEF KaPinged, ConnOpens, ConnFails
    <2>7. faults' \in 0 .. MaxFaults
        BY <1>14, QPoolAssumption DEF KaPinged, ConnOpens, ConnFails, Lose
    <2> QED
        BY <1>14, <2>3, <2>4, <2>2, <2>7, <2>5, <2>6 DEF KaPinged
<1>15. ASSUME NEW p \in Pools, KaReopened(p) PROVE TypeInv'
    <2>1. KeeperReturns(p) /\ kgot[p] \in Entries
        BY <1>15, KeeperGivesBack
    <2>2. free' \in [Pools -> Seq(Entries)]
        BY <2>1, QueueType DEF KeeperReturns
    <2>3. /\ kpc' \in [Pools -> {"off", "sleep", "ping", "pinging", "reopen",
             "reopening", "done"}]
          /\ ki' \in [Pools -> Entries]
          /\ kgot' \in [Pools -> Entries \cup {None}]
        BY <2>1 DEF KeeperReturns
    <2>4. dead' \in [Pools -> SUBSET Entries]
        <3>1. \/ dead' = dead
              \/ dead' = [dead EXCEPT ![p] = @ \cup {ki[p]}]
              \/ dead' = [dead EXCEPT ![p] = @ \ {ki[p]}]
            BY <1>15 DEF KaReopened
        <3>2. dead \in [Pools -> SUBSET Entries] /\ ki[p] \in Entries
            OBVIOUS
        <3> QED
            BY <3>1, <3>2, DeadType
    <2>5. aged' \in [Pools -> SUBSET Entries]
        BY <1>15 DEF KaReopened
    <2>6. conns' \subseteq Entries
        BY <1>15 DEF KaReopened, ConnOpens, ConnFails
    <2>7. faults' \in 0 .. MaxFaults
        BY <1>15, QPoolAssumption DEF KaReopened, ConnOpens, ConnFails, Lose
    <2> QED
        BY <1>15, <2>3, <2>4, <2>2, <2>7, <2>5, <2>6 DEF KaReopened
<1>16. ASSUME NEW a \in Admins, OpenBegin(a) PROVE TypeInv'
    <2>1. made + 1 \in Pools /\ made + 1 \in 0 .. MaxOpens
        BY <1>16, QPoolAssumption DEF OpenBegin, Pools
    <2> QED
        BY <1>16, <2>1 DEF OpenBegin
<1>17. ASSUME NEW a \in Admins, OpenEntry(a) PROVE TypeInv'
    <2>1. apool[a] \in Pools /\ opened[apool[a]] \in Entries
             /\ opened[apool[a]] + 1 \in Amounts
        BY <1>17, AmountArith DEF OpenEntry
    <2>2. conns' \subseteq Entries
        BY <1>17, <2>1 DEF OpenEntry, ConnOpens, ConnFails
    <2>3. faults' \in 0 .. MaxFaults
        BY <1>17, QPoolAssumption DEF OpenEntry, ConnOpens, ConnFails, Lose
    <2>4. opened' \in [Pools -> Amounts]
             /\ apc' \in [Admins -> {"idle", "opening", "rollback", "draining",
                "closing"}]
        BY ZenonT(40), <1>17, <2>1 DEF OpenEntry
    <2> QED
        BY <1>17, <2>3, <2>4, <2>2 DEF OpenEntry
<1>18. ASSUME NEW a \in Admins, Rollback(a) PROVE TypeInv'
    <2>1. CASE CloseOne(a)
        <3>1. apool[a] \in Pools
            BY <1>18 DEF Rollback
        <3>2. ak[a] + 1 \in Amounts
            BY <2>1, <3>1, AmountArith DEF CloseOne
        <3> QED
            BY <2>1, <3>2 DEF CloseOne
    <2>2. CASE ~CloseOne(a)
        <3>1. /\ apc' \in [Admins -> {"idle", "opening", "rollback", "draining",
                 "closing"}]
              /\ apool' \in [Admins -> Pools \cup {None}]
              /\ ak' \in [Admins -> Amounts]
            <4>1. AdminReturn(a)
                BY <1>18, <2>2 DEF Rollback
            <4> QED
                BY <4>1 DEF AdminReturn
        <3> QED
            BY <1>18, <2>2, <3>1 DEF Rollback
    <2> QED
        BY <2>1, <2>2
<1>19. ASSUME NEW a \in Admins, OpenDone(a) PROVE TypeInv'
    <2>1. apool[a] \in Pools /\ AdminReturn(a)
        BY <1>19 DEF OpenDone
    <2>2. free' \in [Pools -> Seq(Entries)]
        BY <1>19, <2>1, Queues DEF OpenDone
    <2>3. /\ apc' \in [Admins -> {"idle", "opening", "rollback", "draining", "closing"}]
          /\ apool' \in [Admins -> Pools \cup {None}]
          /\ ak' \in [Admins -> Amounts]
        BY <2>1 DEF AdminReturn
    <2>4. /\ init' \in [Pools -> BOOLEAN]
          /\ kpc' \in [Pools -> {"off", "sleep", "ping", "pinging", "reopen",
             "reopening", "done"}]
        BY <1>19, <2>1 DEF OpenDone
    <2> QED
        BY <1>19, <2>2, <2>3, <2>4 DEF OpenDone
<1>20. ASSUME NEW a \in Admins, CloseBegin(a) PROVE TypeInv'
    BY <1>20 DEF CloseBegin
<1>21. ASSUME NEW a \in Admins, CloseDrained(a) PROVE TypeInv'
    BY <1>21 DEF CloseDrained
<1>22. ASSUME NEW a \in Admins, CloseEntries(a) PROVE TypeInv'
    <2>1. CASE CloseOne(a)
        <3>1. apool[a] \in Pools
            BY <1>22 DEF CloseEntries
        <3>2. ak[a] + 1 \in Amounts
            BY <2>1, <3>1, AmountArith DEF CloseOne
        <3> QED
            BY <2>1, <3>2 DEF CloseOne
    <2>2. CASE ~CloseOne(a)
        <3>1. /\ apc' \in [Admins -> {"idle", "opening", "rollback", "draining",
                 "closing"}]
              /\ apool' \in [Admins -> Pools \cup {None}]
              /\ ak' \in [Admins -> Amounts]
            <4>1. AdminReturn(a)
                BY <1>22, <2>2 DEF CloseEntries
            <4> QED
                BY <4>1 DEF AdminReturn
        <3> QED
            BY <1>22, <2>2, <3>1 DEF CloseEntries
    <2> QED
        BY <2>1, <2>2
<1>23. CASE UNCHANGED vars
    BY <1>23 DEF vars
<1> QED
    BY <1>1, <1>2, <1>3, <1>4, <1>5, <1>6, <1>7, <1>8, <1>9, <1>10, <1>11, <1>12, <1>13,
       <1>14, <1>15, <1>16, <1>17, <1>18, <1>19, <1>20, <1>21, <1>22, <1>23
       DEF Next, Caller, Keeper, Admin

-----------------------------------------------------------------------------
(* What the program counters say *)

\* Every step keeps what the program counters say.
LEMMA HoldStep ==
    TypeInv /\ HoldInv /\ LifeInv /\ [Next]_vars => HoldInv'
<1> SUFFICES ASSUME TypeInv, HoldInv, LifeInv, [Next]_vars
             PROVE  HoldInv'
    OBVIOUS
<1> USE Constants DEF TypeInv, HoldInv, poolVars, callerVars, kaVars, adminVars
<1>1. ASSUME NEW c \in Callers, TxrxLookup(c) PROVE HoldInv'
    BY <1>1 DEF TxrxLookup
<1>2. ASSUME NEW c \in Callers, TxrxCount(c) PROVE HoldInv'
    BY <1>2 DEF TxrxCount
<1>3. ASSUME NEW c \in Callers, TxrxTake(c) PROVE HoldInv'
    BY <1>3 DEF TxrxTake, Take
<1>4. ASSUME NEW c \in Callers, TxrxStopped(c) PROVE HoldInv'
    BY <1>4 DEF TxrxStopped, TxrxReturn
<1>5. ASSUME NEW c \in Callers, TxrxPutDead(c) PROVE HoldInv'
    <2>1. CallerReturns(c) /\ cpool[c] \in Pools
        BY <1>5, CallerGivesBack
    <2>2. UNCHANGED <<opened, kpc, ki, kgot, apc, apool, ak>>
        BY <1>5 DEF TxrxPutDead
    <2>3. CASE TxrxReturn(c)
        BY <2>2, <2>3 DEF TxrxReturn
    <2>4. CASE ~TxrxReturn(c)
        <3>1. cpc' = [cpc EXCEPT ![c] = "wait"] /\ cidx' = [cidx EXCEPT ![c] = None]
                 /\ cpool' = cpool
            BY <2>1, <2>4 DEF CallerReturns
        <3>2. cpc[c] \in {"dead", "msg"}
            BY <1>5, CallerGivesBack
        <3> QED
            BY <2>2, <3>1, <3>2
    <2> QED
        BY <2>3, <2>4
<1>6. ASSUME NEW c \in Callers, TxrxDone(c) PROVE HoldInv'
    <2>1. CallerReturns(c) /\ cpool[c] \in Pools
        BY <1>6, CallerGivesBack
    <2>2. UNCHANGED <<opened, kpc, ki, kgot, apc, apool, ak>>
        BY <1>6 DEF TxrxDone
    <2>3. CASE TxrxReturn(c)
        BY <2>2, <2>3 DEF TxrxReturn
    <2>4. CASE ~TxrxReturn(c)
        <3>1. cpc' = [cpc EXCEPT ![c] = "wait"] /\ cidx' = [cidx EXCEPT ![c] = None]
                 /\ cpool' = cpool
            BY <2>1, <2>4 DEF CallerReturns
        <3>2. cpc[c] \in {"dead", "msg"}
            BY <1>6, CallerGivesBack
        <3> QED
            BY <2>2, <3>1, <3>2
    <2> QED
        BY <2>3, <2>4
<1>7. ASSUME NEW p \in Pools, Silence(p) PROVE HoldInv'
    BY <1>7 DEF Silence
<1>8. ASSUME NEW p \in Pools, NEW i \in Entries, BackoffEnds(p, i) PROVE HoldInv'
    BY <1>8 DEF BackoffEnds
<1>9. ASSUME NEW p \in Pools, KaTick(p) PROVE HoldInv'
    BY <1>9 DEF KaTick
<1>10. ASSUME NEW p \in Pools, KaStop(p) PROVE HoldInv'
    BY <1>10 DEF KaStop
<1>11. ASSUME NEW p \in Pools, KaSkip(p) PROVE HoldInv'
    BY <1>11 DEF KaSkip, KaNext, KaWants
<1>12. ASSUME NEW p \in Pools, KaClaim(p) PROVE HoldInv'
    BY <1>12 DEF KaClaim, KaWants, Take
<1>13. ASSUME NEW p \in Pools, KaWrong(p) PROVE HoldInv'
    <2>1. KeeperReturns(p)
        BY <1>13, KeeperGivesBack
    <2>2. UNCHANGED <<opened, cpc, cpool, cidx, apc, apool, ak>>
        BY <1>13 DEF KaWrong
    <2> QED
        BY <2>1, <2>2 DEF KeeperReturns
<1>14. ASSUME NEW p \in Pools, KaPinged(p) PROVE HoldInv'
    <2>1. KeeperReturns(p)
        BY <1>14, KeeperGivesBack
    <2>2. UNCHANGED <<opened, cpc, cpool, cidx, apc, apool, ak>>
        BY <1>14 DEF KaPinged
    <2> QED
        BY <2>1, <2>2 DEF KeeperReturns
<1>15. ASSUME NEW p \in Pools, KaReopened(p) PROVE HoldInv'
    <2>1. KeeperReturns(p)
        BY <1>15, KeeperGivesBack
    <2>2. UNCHANGED <<opened, cpc, cpool, cidx, apc, apool, ak>>
        BY <1>15 DEF KaReopened
    <2> QED
        BY <2>1, <2>2 DEF KeeperReturns
<1>16. ASSUME NEW a \in Admins, OpenBegin(a) PROVE HoldInv'
    <2>1. made + 1 \in Pools
        BY <1>16, QPoolAssumption DEF OpenBegin, Pools
    <2>2. UNCHANGED <<opened, cpc, cpool, cidx, kpc, ki, kgot, ak>>
        BY <1>16 DEF OpenBegin
    <2>3. ak[a] = 0 /\ opened[made + 1] >= 0
        BY <1>16, <2>1, AmountArith DEF OpenBegin
    <2> QED
        BY <1>16, <2>1, <2>2, <2>3 DEF OpenBegin
<1>17. ASSUME NEW a \in Admins, OpenEntry(a) PROVE HoldInv'
    <2>1. apool[a] \in Pools /\ opened[apool[a]] \in Int
        BY <1>17, AmountArith DEF OpenEntry
    <2>2. UNCHANGED <<cpc, cpool, cidx, kpc, ki, kgot, ak, apool>>
        BY <1>17 DEF OpenEntry
    <2>3. \A b \in Admins : apc[b] # "idle" => ak[b] <= opened'[apool[b]]
        <3> SUFFICES ASSUME NEW b \in Admins, apc[b] # "idle"
                     PROVE ak[b] <= opened'[apool[b]]
            OBVIOUS
        <3>1. apool[b] \in Pools /\ ak[b] \in Int /\ opened[apool[b]] \in Int
                 /\ ak[b] <= opened[apool[b]]
            BY AmountArith
        <3>2. opened'[apool[b]] \in {opened[apool[b]], opened[apool[b]] + 1}
            BY <1>17, <2>1, <3>1 DEF OpenEntry
        <3> QED
            BY <3>1, <3>2
    <2>4. /\ apc[a] = "opening" /\ apc'[a] \in {"opening", "rollback"} /\ ak[a] = 0
          /\ \A b \in Admins : b # a => apc'[b] = apc[b]
        BY <1>17 DEF OpenEntry
    <2>5. \A b \in Admins : /\ apool[b] # None <=> apc'[b] # "idle"
                            /\ apc'[b] \notin {"rollback", "closing"} => ak[b] = 0
        BY ZenonT(40), <2>4
    <2>6. \A b \in Admins : apc'[b] # "idle" => ak[b] <= opened'[apool[b]]
        BY <2>3, <2>4
    <2> QED
        BY <2>2, <2>5, <2>6
<1>18. ASSUME NEW a \in Admins, Rollback(a) PROVE HoldInv'
    <2>1. CASE CloseOne(a)
        <3>1. ak[a] \in Int /\ opened[apool[a]] \in Int /\ ak[a] + 1 <= opened[apool[a]]
            BY <1>18, <2>1, AmountArith DEF CloseOne, Rollback
        <3>2. UNCHANGED <<opened, cpc, cpool, cidx, kpc, ki, kgot, apc, apool>>
            BY <2>1 DEF CloseOne
        <3> QED
            BY <1>18, <2>1, <3>1, <3>2 DEF CloseOne, Rollback
    <2>2. CASE ~CloseOne(a)
        <3>1. AdminReturn(a) /\ UNCHANGED <<opened, cpc, cpool, cidx, kpc, ki, kgot>>
            BY <1>18, <2>2 DEF Rollback
        <3> QED
            BY <3>1 DEF AdminReturn
    <2> QED
        BY <2>1, <2>2
<1>19. ASSUME NEW a \in Admins, OpenDone(a) PROVE HoldInv'
    <2>1. /\ UNCHANGED <<opened, cpc, cpool, cidx, ki, kgot>> /\ apool[a] \in Pools
          /\ AdminReturn(a)
        BY <1>19 DEF OpenDone
    <2>2. PICK s \in {"sleep", kpc[apool[a]]} : kpc' = [kpc EXCEPT ![apool[a]] = s]
        BY <1>19 DEF OpenDone
    <2>3. \A p \in Pools :
             /\ kgot[p] # None => kpc'[p] \in {"ping", "pinging", "reopen", "reopening"}
             /\ kpc'[p] \in {"pinging", "reopening"} => kgot[p] = ki[p]
        <3>1. kgot[apool[a]] = None /\ kpc[apool[a]] = "off"
            BY <1>19 DEF OpenDone, LifeInv, Fresh
        <3> QED
            BY <2>1, <2>2, <3>1
    <2> QED
        BY <2>1, <2>3 DEF AdminReturn
<1>20. ASSUME NEW a \in Admins, CloseBegin(a) PROVE HoldInv'
    <2>1. UNCHANGED <<opened, cpc, cpool, cidx, kpc, ki, kgot, ak>> /\ cur \in Pools /\
             ak[a] = 0
             /\ opened[cur] >= 0
        BY <1>20, AmountArith DEF CloseBegin
    <2> QED
        BY <1>20, <2>1 DEF CloseBegin
<1>21. ASSUME NEW a \in Admins, CloseDrained(a) PROVE HoldInv'
    BY <1>21 DEF CloseDrained
<1>22. ASSUME NEW a \in Admins, CloseEntries(a) PROVE HoldInv'
    <2>1. CASE CloseOne(a)
        <3>1. ak[a] \in Int /\ opened[apool[a]] \in Int /\ ak[a] + 1 <= opened[apool[a]]
            BY <1>22, <2>1, AmountArith DEF CloseOne, CloseEntries
        <3>2. UNCHANGED <<opened, cpc, cpool, cidx, kpc, ki, kgot, apc, apool>>
            BY <2>1 DEF CloseOne
        <3> QED
            BY <1>22, <2>1, <3>1, <3>2 DEF CloseOne, CloseEntries
    <2>2. CASE ~CloseOne(a)
        <3>1. AdminReturn(a) /\ UNCHANGED <<opened, cpc, cpool, cidx, kpc, ki, kgot>>
            BY <1>22, <2>2 DEF CloseEntries
        <3> QED
            BY <3>1 DEF AdminReturn
    <2> QED
        BY <2>1, <2>2
<1>23. CASE UNCHANGED vars
    BY <1>23 DEF vars
<1> QED
    BY <1>1, <1>2, <1>3, <1>4, <1>5, <1>6, <1>7, <1>8, <1>9, <1>10, <1>11, <1>12, <1>13,
       <1>14, <1>15, <1>16, <1>17, <1>18, <1>19, <1>20, <1>21, <1>22, <1>23
       DEF Next, Caller, Keeper, Admin

-----------------------------------------------------------------------------
(* The life of the pools *)

\* A step of a caller or a keepalive thread leaves the life of the pools alone.
LEMMA LifeQuiet ==
    ASSUME TypeInv, HoldInv, LifeInv,
           UNCHANGED <<cur, made, opened, init, stop, apc, apool>>,
           \A q \in Pools : Fresh(q) => Fresh(q)',
           \A q \in Pools : kpc'[q] \notin {"off", "done"} => kpc[q] \notin {"off",
              "done"}
    PROVE  LifeInv'
<1>1. \A p \in Pools : p > made => Fresh(p)' /\ opened[p] = 0
    BY DEF LifeInv
<1>2. \A a \in Admins : apc[a] \in {"opening", "rollback"} => apool[a] = cur /\
         Fresh(cur)'
    BY Constants DEF LifeInv, TypeInv, HoldInv
<1>3. \A p \in Pools : kpc'[p] \notin {"off", "done"} =>
          init[p] \/ \E a \in Admins : apool[a] = p /\ apc[a] = "draining"
    BY DEF LifeInv
<1> HIDE DEF Fresh
<1> QED
    BY <1>1, <1>2, <1>3 DEF LifeInv

\* Every step keeps the published pool and its admin consistent.
LEMMA LifeStep ==
    TypeInv /\ HoldInv /\ LifeInv /\ OneAdmin /\ OneAdmin' /\ [Next]_vars => LifeInv'
<1> SUFFICES ASSUME TypeInv, HoldInv, LifeInv, OneAdmin, OneAdmin', [Next]_vars
             PROVE  LifeInv'
    OBVIOUS
<1> USE Constants DEF TypeInv, HoldInv, LifeInv, poolVars, callerVars, kaVars, adminVars
<1>1. ASSUME NEW c \in Callers, TxrxLookup(c) PROVE LifeInv'
    <2>1. UNCHANGED <<cur, made, opened, init, stop, apc, apool>>
        BY <1>1 DEF TxrxLookup
    <2>2. \A q \in Pools : Fresh(q) => Fresh(q)'
        BY <1>1 DEF TxrxLookup, Fresh
    <2>3. \A q \in Pools : kpc'[q] \notin {"off", "done"} => kpc[q] \notin {"off", "done"}
        BY <1>1 DEF TxrxLookup
    <2> QED
        BY <2>1, <2>2, <2>3, LifeQuiet
<1>2. ASSUME NEW c \in Callers, TxrxCount(c) PROVE LifeInv'
    <2>1. UNCHANGED <<cur, made, opened, init, stop, apc, apool>>
        BY <1>2 DEF TxrxCount
    <2>2. \A q \in Pools : Fresh(q) => Fresh(q)'
        BY <1>2 DEF TxrxCount, Fresh
    <2>3. \A q \in Pools : kpc'[q] \notin {"off", "done"} => kpc[q] \notin {"off", "done"}
        BY <1>2 DEF TxrxCount
    <2> QED
        BY <2>1, <2>2, <2>3, LifeQuiet
<1>3. ASSUME NEW c \in Callers, TxrxTake(c) PROVE LifeInv'
    <2>1. UNCHANGED <<cur, made, opened, init, stop, apc, apool>>
        BY <1>3 DEF TxrxTake, Take
    <2>2. \A q \in Pools : Fresh(q) => Fresh(q)'
        BY <1>3 DEF TxrxTake, Take, Fresh
    <2>3. \A q \in Pools : kpc'[q] \notin {"off", "done"} => kpc[q] \notin {"off", "done"}
        BY <1>3 DEF TxrxTake, Take
    <2> QED
        BY <2>1, <2>2, <2>3, LifeQuiet
<1>4. ASSUME NEW c \in Callers, TxrxStopped(c) PROVE LifeInv'
    <2>1. UNCHANGED <<cur, made, opened, init, stop, apc, apool>>
        BY <1>4 DEF TxrxStopped, TxrxReturn
    <2>2. \A q \in Pools : Fresh(q) => Fresh(q)'
        BY <1>4 DEF TxrxStopped, TxrxReturn, Fresh
    <2>3. \A q \in Pools : kpc'[q] \notin {"off", "done"} => kpc[q] \notin {"off", "done"}
        BY <1>4 DEF TxrxStopped, TxrxReturn
    <2> QED
        BY <2>1, <2>2, <2>3, LifeQuiet
<1>5. ASSUME NEW c \in Callers, TxrxPutDead(c) PROVE LifeInv'
    <2>1. CallerReturns(c) /\ cpool[c] \in Pools
        BY <1>5, CallerGivesBack
    <2>2. UNCHANGED <<cur, made, opened, init, stop, dead, kpc, kgot, apc, apool>>
        BY <1>5 DEF TxrxPutDead
    <2>3. \A p \in Pools : Fresh(p) => Fresh(p)'
        <3>1. \A d \in Callers : cpool'[d] \in {cpool[d], None}
            BY <2>1 DEF CallerReturns, TxrxReturn
        <3>2. \A p \in Pools : p # cpool[c] => free'[p] = free[p]
            BY <2>1 DEF CallerReturns, GivesBack
        <3> QED
            BY <2>1, <2>2, <3>1, <3>2 DEF Fresh
    <2> QED
        BY <2>2, <2>3, LifeQuiet
<1>6. ASSUME NEW c \in Callers, TxrxDone(c) PROVE LifeInv'
    <2>1. CallerReturns(c) /\ cpool[c] \in Pools
        BY <1>6, CallerGivesBack
    <2>2. UNCHANGED <<cur, made, opened, init, stop, dead, kpc, kgot, apc, apool>>
        BY <1>6 DEF TxrxDone
    <2>3. \A p \in Pools : Fresh(p) => Fresh(p)'
        <3>1. \A d \in Callers : cpool'[d] \in {cpool[d], None}
            BY <2>1 DEF CallerReturns, TxrxReturn
        <3>2. \A p \in Pools : p # cpool[c] => free'[p] = free[p]
            BY <2>1 DEF CallerReturns, GivesBack
        <3> QED
            BY <2>1, <2>2, <3>1, <3>2 DEF Fresh
    <2> QED
        BY <2>2, <2>3, LifeQuiet
<1>7. ASSUME NEW p \in Pools, Silence(p) PROVE LifeInv'
    <2>1. UNCHANGED <<cur, made, opened, init, stop, apc, apool>>
        BY <1>7 DEF Silence
    <2>2. \A q \in Pools : Fresh(q) => Fresh(q)'
        BY <1>7 DEF Silence, Fresh
    <2>3. \A q \in Pools : kpc'[q] \notin {"off", "done"} => kpc[q] \notin {"off", "done"}
        BY <1>7 DEF Silence
    <2> QED
        BY <2>1, <2>2, <2>3, LifeQuiet
<1>8. ASSUME NEW p \in Pools, NEW i \in Entries, BackoffEnds(p, i) PROVE LifeInv'
    <2>1. UNCHANGED <<cur, made, opened, init, stop, apc, apool>>
        BY <1>8 DEF BackoffEnds
    <2>2. \A q \in Pools : Fresh(q) => Fresh(q)'
        BY <1>8 DEF BackoffEnds, Fresh
    <2>3. \A q \in Pools : kpc'[q] \notin {"off", "done"} => kpc[q] \notin {"off", "done"}
        BY <1>8 DEF BackoffEnds
    <2> QED
        BY <2>1, <2>2, <2>3, LifeQuiet
<1>9. ASSUME NEW p \in Pools, KaTick(p) PROVE LifeInv'
    <2>1. UNCHANGED <<cur, made, opened, init, stop, apc, apool>>
        BY <1>9 DEF KaTick
    <2>2. \A q \in Pools : Fresh(q) => Fresh(q)'
        BY <1>9 DEF KaTick, Fresh
    <2>3. \A q \in Pools : kpc'[q] \notin {"off", "done"} => kpc[q] \notin {"off", "done"}
        BY <1>9 DEF KaTick
    <2> QED
        BY <2>1, <2>2, <2>3, LifeQuiet
<1>10. ASSUME NEW p \in Pools, KaStop(p) PROVE LifeInv'
    <2>1. UNCHANGED <<cur, made, opened, init, stop, apc, apool>>
        BY <1>10 DEF KaStop
    <2>2. \A q \in Pools : Fresh(q) => Fresh(q)'
        BY <1>10 DEF KaStop, Fresh
    <2>3. \A q \in Pools : kpc'[q] \notin {"off", "done"} => kpc[q] \notin {"off", "done"}
        BY <1>10 DEF KaStop
    <2> QED
        BY <2>1, <2>2, <2>3, LifeQuiet
<1>11. ASSUME NEW p \in Pools, KaSkip(p) PROVE LifeInv'
    <2>1. UNCHANGED <<cur, made, opened, init, stop, apc, apool, free, dead, cpool>>
        BY <1>11 DEF KaSkip
    <2>2. /\ kgot' = [kgot EXCEPT ![p] = None]
          /\ \E s \in {"ping", "reopen", "sleep", "done"} : kpc' = [kpc EXCEPT ![p] = s]
          /\ kpc[p] \in {"ping", "reopen"}
        BY <1>11, NextEntry DEF KaSkip
    <2>3. \A q \in Pools : Fresh(q) => Fresh(q)'
        BY <2>1, <2>2 DEF Fresh
    <2> QED
        BY SMTT(40), <2>1, <2>2, <2>3, LifeQuiet
<1>12. ASSUME NEW p \in Pools, KaClaim(p) PROVE LifeInv'
    <2>1. UNCHANGED <<cur, made, opened, init, stop, apc, apool>>
        BY <1>12 DEF KaClaim, Take
    <2>2. \A q \in Pools : Fresh(q) => Fresh(q)'
        BY <1>12 DEF KaClaim, Take, Fresh
    <2>3. \A q \in Pools : kpc'[q] \notin {"off", "done"} => kpc[q] \notin {"off", "done"}
        BY <1>12 DEF KaClaim, Take
    <2> QED
        BY <2>1, <2>2, <2>3, LifeQuiet
<1>13. ASSUME NEW p \in Pools, KaWrong(p) PROVE LifeInv'
    <2>1. KeeperReturns(p) /\ kpc[p] \in {"ping", "pinging", "reopen", "reopening"}
        BY <1>13, KeeperGivesBack
    <2>2. UNCHANGED <<cur, made, opened, init, stop, cpool, apc, apool>>
        BY <1>13 DEF KaWrong
    <2>3. \A q \in Pools : q # p => kpc'[q] = kpc[q] /\ kgot'[q] = kgot[q] /\ free'[q] =
             free[q]
        BY <2>1 DEF KeeperReturns, GivesBack
    <2>4. \A q \in Pools : q # p => dead'[q] = dead[q]
        BY <1>13 DEF KaWrong
    <2>5. \A q \in Pools : Fresh(q) => Fresh(q)'
        BY <2>1, <2>2, <2>3, <2>4 DEF Fresh
    <2> QED
        BY <2>1, <2>2, <2>3, <2>5, LifeQuiet
<1>14. ASSUME NEW p \in Pools, KaPinged(p) PROVE LifeInv'
    <2>1. KeeperReturns(p) /\ kpc[p] \in {"ping", "pinging", "reopen", "reopening"}
        BY <1>14, KeeperGivesBack
    <2>2. UNCHANGED <<cur, made, opened, init, stop, cpool, apc, apool>>
        BY <1>14 DEF KaPinged
    <2>3. \A q \in Pools : q # p => kpc'[q] = kpc[q] /\ kgot'[q] = kgot[q] /\ free'[q] =
             free[q]
        BY <2>1 DEF KeeperReturns, GivesBack
    <2>4. \A q \in Pools : q # p => dead'[q] = dead[q]
        BY <1>14 DEF KaPinged
    <2>5. \A q \in Pools : Fresh(q) => Fresh(q)'
        BY <2>1, <2>2, <2>3, <2>4 DEF Fresh
    <2> QED
        BY <2>1, <2>2, <2>3, <2>5, LifeQuiet
<1>15. ASSUME NEW p \in Pools, KaReopened(p) PROVE LifeInv'
    <2>1. KeeperReturns(p) /\ kpc[p] \in {"ping", "pinging", "reopen", "reopening"}
        BY <1>15, KeeperGivesBack
    <2>2. UNCHANGED <<cur, made, opened, init, stop, cpool, apc, apool>>
        BY <1>15 DEF KaReopened
    <2>3. \A q \in Pools : q # p => kpc'[q] = kpc[q] /\ kgot'[q] = kgot[q] /\ free'[q] =
             free[q]
        BY <2>1 DEF KeeperReturns, GivesBack
    <2>4. \A q \in Pools : q # p => dead'[q] = dead[q]
        BY <1>15 DEF KaReopened
    <2>5. \A q \in Pools : Fresh(q) => Fresh(q)'
        BY <2>1, <2>2, <2>3, <2>4 DEF Fresh
    <2> QED
        BY <2>1, <2>2, <2>3, <2>5, LifeQuiet
<1>16. ASSUME NEW a \in Admins, OpenBegin(a) PROVE LifeInv'
    <2>1. \A b \in Admins : b # a => apc[b] = "idle" /\ apc'[b] = "idle"
        BY <1>16 DEF OpenBegin, OneAdmin
    <2>2. made + 1 \in Pools /\ made \in Int /\ made + 1 > made
        BY <1>16, QPoolAssumption DEF OpenBegin, Pools
    <2>3. \A q \in Pools : ~init[q] /\ kpc[q] \in {"off", "done"}
        BY <1>16, <2>1 DEF OpenBegin
    <2>4. \A q \in Pools : Fresh(q) <=> Fresh(q)'
        BY <1>16 DEF OpenBegin, Fresh
    <2>5. \A q \in Pools : q \in Int
        BY DEF Pools
    <2>6. UNCHANGED <<opened, init, stop, kpc>> /\ made' = made + 1 /\ cur' = made + 1
             /\ apool'[a] = made + 1 /\ apc'[a] = "opening"
        BY <1>16 DEF OpenBegin
    <2>7. \A q \in Pools : q > made' => Fresh(q)' /\ opened'[q] = 0
        BY <2>2, <2>4, <2>5, <2>6
    <2>8. Fresh(cur)'
        <3>1. Fresh(made + 1)
            BY <2>2
        <3> QED
            BY <1>16, <2>2, <2>6, <3>1 DEF OpenBegin, Fresh
    <2>9. cur' # None /\ cur' <= made'
        BY <2>2, <2>6
    <2> QED
        BY <2>1, <2>3, <2>6, <2>7, <2>8, <2>9
<1>17. ASSUME NEW a \in Admins, OpenEntry(a) PROVE LifeInv'
    <2>1. \A b \in Admins : b # a => apc[b] = "idle" /\ apc'[b] = "idle"
        BY <1>17 DEF OpenEntry, OneAdmin
    <2>2. apool[a] = cur /\ cur \in Pools /\ cur <= made /\ cur \in Int /\ made \in Int
        BY <1>17 DEF OpenEntry, Pools
    <2>3. UNCHANGED <<cur, made, init, stop, kpc, apool>>
        BY <1>17 DEF OpenEntry
    <2>4. \A q \in Pools : Fresh(q) <=> Fresh(q)'
        BY <1>17 DEF OpenEntry, Fresh
    <2>5. \A q \in Pools : q # cur => opened'[q] = opened[q]
        BY <1>17, <2>2 DEF OpenEntry
    <2>6. apc'[a] \in {"opening", "rollback"} /\ apc[a] = "opening" /\ ~init[cur]
        BY <1>17, <2>2 DEF OpenEntry, Fresh
    <2>7. \A q \in Pools : q > made => Fresh(q)' /\ opened'[q] = 0
        BY <2>2, <2>4, <2>5
    <2> QED
        BY <2>1, <2>2, <2>3, <2>4, <2>5, <2>6, <2>7
<1>18. ASSUME NEW a \in Admins, Rollback(a) PROVE LifeInv'
    <2>1. \A b \in Admins : b # a => apc[b] = "idle" /\ apc'[b] = "idle"
        BY <1>18 DEF Rollback, CloseOne, AdminReturn, OneAdmin
    <2>2. UNCHANGED <<made, opened, init, stop, kpc>>
        BY <1>18 DEF Rollback, CloseOne
    <2>3. \A q \in Pools : Fresh(q) <=> Fresh(q)'
        BY <1>18 DEF Rollback, CloseOne, Fresh
    <2>4. apool[a] = cur /\ Fresh(cur) /\ \A q \in Pools : ~init[q] /\ kpc[q] \in
             {"off", "done"}
        BY <1>18, <2>1 DEF Rollback, Fresh
    <2>5. CASE CloseOne(a)
        <3>1. UNCHANGED <<cur, apc, apool>>
            BY <2>5 DEF CloseOne
        <3> QED
            BY <2>2, <2>3, <2>4, <3>1
    <2>6. CASE ~CloseOne(a)
        <3>1. cur' = None /\ apc'[a] = "idle"
            BY <1>18, <2>6 DEF Rollback, AdminReturn
        <3> QED
            BY <2>1, <2>2, <2>3, <2>4, <3>1
    <2> QED
        BY <2>5, <2>6
<1>19. ASSUME NEW a \in Admins, OpenDone(a) PROVE LifeInv'
    <2>1. \A b \in Admins : b # a => apc[b] = "idle" /\ apc'[b] = "idle"
        BY <1>19 DEF OpenDone, AdminReturn, OneAdmin
    <2>2. /\ apool[a] = cur /\ cur \in Pools /\ Fresh(cur) /\ opened[cur] = Size
          /\ cur <= made
        BY <1>19 DEF OpenDone
    <2>3. UNCHANGED <<cur, made, opened, stop>> /\ apc'[a] = "idle"
        BY <1>19 DEF OpenDone, AdminReturn
    <2>4. \A q \in Pools : q # cur => /\ init'[q] = init[q] /\ kpc'[q] = kpc[q]
                                      /\ Fresh(q) => Fresh(q)'
        BY <1>19, <2>2 DEF OpenDone, Fresh
    <2>5. init'[cur] /\ ~stop[cur]
        BY <1>19, <2>2 DEF OpenDone, Fresh
    <2>6. made \in Int /\ \A q \in Pools : q \in Int
        BY DEF Pools
    <2>7. \A q \in Pools : q > made => Fresh(q)' /\ opened[q] = 0
        BY <2>2, <2>4, <2>6
    <2>8. \A q \in Pools : q # cur => ~init[q] /\ kpc[q] \in {"off", "done"}
        BY <1>19, <2>1 DEF OpenDone
    <2>9. \A b \in Admins : apc'[b] = "idle"
        BY <2>1, <2>3
    <2>10. \A q \in Pools : init'[q] => cur = q /\ ~stop[q] /\ opened[q] = Size
        <3> SUFFICES ASSUME NEW q \in Pools, init'[q] PROVE cur = q
            BY <2>2, <2>5
        <3> QED
            BY <2>4, <2>8
    <2>11. \A q \in Pools : kpc'[q] \notin {"off", "done"} => init'[q]
        BY <2>4, <2>5, <2>8
    <2> HIDE DEF TypeInv, HoldInv, Fresh
    <2> QED
        BY <2>2, <2>3, <2>5, <2>7, <2>9, <2>10, <2>11
<1>20. ASSUME NEW a \in Admins, CloseBegin(a) PROVE LifeInv'
    <2>1. \A b \in Admins : b # a => apc[b] = "idle" /\ apc'[b] = "idle"
        BY <1>20 DEF CloseBegin, OneAdmin
    <2>2. cur \in Pools /\ apc[a] = "idle" /\ init[cur] /\ opened[cur] = Size
          /\ cur <= made
        BY <1>20, <2>1 DEF CloseBegin
    <2>3. UNCHANGED <<made, opened, kpc>> /\ cur' = None /\ apc'[a] = "draining" /\
             apool'[a] = cur
        BY <1>20 DEF CloseBegin
    <2>4. \A q \in Pools : ~init'[q]
        BY <1>20, <2>2 DEF CloseBegin
    <2>5. \A q \in Pools : Fresh(q) => Fresh(q)'
        BY <1>20, <2>2 DEF CloseBegin, Fresh
    <2>6. \A q \in Pools : kpc[q] \notin {"off", "done"} => q = cur
        BY <1>20, <2>1, <2>2
    <2> QED
        BY <2>1, <2>2, <2>3, <2>4, <2>5, <2>6
<1>21. ASSUME NEW a \in Admins, CloseDrained(a) PROVE LifeInv'
    <2>1. \A b \in Admins : b # a => apc[b] = "idle" /\ apc'[b] = "idle"
        BY <1>21 DEF CloseDrained, OneAdmin
    <2>2. UNCHANGED <<cur, made, opened, init, stop, kpc, apool>> /\ apc'[a] = "closing"
             /\ apc[a] = "draining"
        BY <1>21 DEF CloseDrained
    <2>3. \A q \in Pools : Fresh(q) => Fresh(q)'
        BY <1>21 DEF CloseDrained, Fresh
    <2>4. \A q \in Pools : kpc[q] \in {"off", "done"}
        <3>1. \A q \in Pools : ~init[q]
            BY <2>2
        <3>2. kpc[apool[a]] \in {"off", "done"}
            BY <1>21 DEF CloseDrained
        <3>3. \A b \in Admins : apc[b] = "draining" => b = a
            BY <2>1
        <3> SUFFICES ASSUME NEW q \in Pools, kpc[q] \notin {"off", "done"} PROVE FALSE
            OBVIOUS
        <3>4. \E b \in Admins : apool[b] = q /\ apc[b] = "draining"
            BY <3>1
        <3> QED
            BY <3>2, <3>3, <3>4
    <2> QED
        BY <2>1, <2>2, <2>3, <2>4
<1>22. ASSUME NEW a \in Admins, CloseEntries(a) PROVE LifeInv'
    <2>1. \A b \in Admins : b # a => apc[b] = "idle" /\ apc'[b] = "idle"
        BY <1>22 DEF CloseEntries, CloseOne, AdminReturn, OneAdmin
    <2>2. UNCHANGED <<cur, made, opened, init, stop, kpc>> /\ apc[a] = "closing" /\ cur
             = None
        BY <1>22 DEF CloseEntries, CloseOne
    <2>3. \A q \in Pools : Fresh(q) => Fresh(q)'
        BY <1>22 DEF CloseEntries, CloseOne, Fresh
    <2>4. \A q \in Pools : ~init[q] /\ kpc[q] \in {"off", "done"}
        <3>1. \A q \in Pools : ~init[q]
            BY <2>2
        <3> QED
            BY SMTT(40), <2>1, <2>2, <3>1
    <2>5. CASE CloseOne(a)
        <3>1. UNCHANGED <<apc, apool>>
            BY <2>5 DEF CloseOne
        <3> QED
            BY <2>2, <2>3, <2>4, <3>1
    <2>6. CASE ~CloseOne(a)
        <3>1. apc'[a] = "idle"
            BY <1>22, <2>6 DEF CloseEntries, AdminReturn
        <3> QED
            BY <2>1, <2>2, <2>3, <2>4, <3>1
    <2> QED
        BY <2>5, <2>6
<1>23. CASE UNCHANGED vars
    BY <1>23, LifeQuiet DEF vars, Fresh
<1> QED
    BY <1>1, <1>2, <1>3, <1>4, <1>5, <1>6, <1>7, <1>8, <1>9, <1>10, <1>11, <1>12, <1>13,
       <1>14, <1>15, <1>16, <1>17, <1>18, <1>19, <1>20, <1>21, <1>22, <1>23
       DEF Next, Caller, Keeper, Admin

-----------------------------------------------------------------------------
(* Where the indices are *)

\* Append adds one element, and keeps a queue distinct if it was not in it.
LEMMA QueueAppend ==
    ASSUME NEW s \in Seq(Entries), Distinct(s), NEW i \in Entries, i \notin Elems(s)
    PROVE  Distinct(Append(s, i)) /\ Elems(Append(s, i)) = Elems(s) \cup {i}
<1>1. /\ Len(s) \in Nat /\ DOMAIN s = 1 .. Len(s)
      /\ DOMAIN Append(s, i) = 1 .. Len(s) + 1
      /\ \A n \in 1 .. Len(s) : Append(s, i)[n] = s[n]
      /\ Append(s, i)[Len(s) + 1] = i
    BY AppendProperties, LenProperties
<1>2. \A n \in 1 .. Len(s) + 1 : n \in 1 .. Len(s) \/ n = Len(s) + 1
    BY <1>1
<1>3. 1 .. Len(s) \subseteq 1 .. Len(s) + 1 /\ Len(s) + 1 \in 1 .. Len(s) + 1
    BY <1>1
<1>4. Distinct(Append(s, i))
    BY <1>1, <1>2 DEF Distinct, Elems
<1>5. Elems(Append(s, i)) = Elems(s) \cup {i}
    BY <1>1, <1>2, <1>3 DEF Elems
<1> QED
    BY <1>4, <1>5

\* Tail takes the head, and only it, out of a distinct queue.
LEMMA QueueTail ==
    ASSUME NEW s \in Seq(Entries), Distinct(s), s # <<>>
    PROVE  /\ Head(s) \in Elems(s)
           /\ Distinct(Tail(s)) /\ Elems(Tail(s)) = Elems(s) \ {Head(s)}
<1>1. /\ Len(s) \in Nat /\ Len(s) >= 1 /\ DOMAIN s = 1 .. Len(s) /\ Head(s) = s[1]
      /\ DOMAIN Tail(s) = 1 .. Len(s) - 1
      /\ \A n \in 1 .. Len(s) - 1 : Tail(s)[n] = s[n + 1]
    BY HeadTailProperties, LenProperties, EmptySeq
<1>2. \A n \in 1 .. Len(s) - 1 : n \in Int /\ n + 1 \in 1 .. Len(s) /\ n + 1 # 1
    BY <1>1
<1>3. \A n \in 1 .. Len(s) : n # 1 => n - 1 \in 1 .. Len(s) - 1 /\ (n - 1) + 1 = n
    BY <1>1
<1>4. 1 \in 1 .. Len(s)
    BY <1>1
<1>5. Distinct(Tail(s))
    BY <1>1, <1>2 DEF Distinct
<1>6. Elems(Tail(s)) \subseteq Elems(s) \ {Head(s)}
    BY <1>1, <1>2, <1>4 DEF Elems, Distinct
<1>7. Elems(s) \ {Head(s)} \subseteq Elems(Tail(s))
    <2> SUFFICES ASSUME NEW n \in 1 .. Len(s), s[n] # s[1] PROVE s[n] \in Elems(Tail(s))
        BY <1>1 DEF Elems
    <2>1. Tail(s)[n - 1] = s[n] /\ n - 1 \in 1 .. Len(s) - 1
        BY <1>1, <1>3
    <2> QED
        BY <1>1, <2>1 DEF Elems
<1>8. Head(s) \in Elems(s)
    BY <1>1, <1>4 DEF Elems
<1> QED
    BY <1>5, <1>6, <1>7, <1>8

\* PoolOpen seeds the queue with every entry, once.
LEMMA QueueSeed ==
    LET s == [n \in 1 .. Size |-> n - 1] IN Distinct(s) /\ Elems(s) = Entries
<1> DEFINE s == [n \in 1 .. Size |-> n - 1]
<1>1. DOMAIN s = 1 .. Size /\ \A n \in 1 .. Size : n \in Int /\ s[n] = n - 1
    OBVIOUS
<1>2. Distinct(s)
    <2> SUFFICES ASSUME NEW m \in 1 .. Size, NEW n \in 1 .. Size, m - 1 = n - 1
                 PROVE m = n
        BY DEF Distinct
    <2> QED
        OBVIOUS
<1>3. \A i \in Entries : i + 1 \in 1 .. Size /\ s[i + 1] = i
    BY QPoolAssumption DEF Entries
<1>4. \A n \in 1 .. Size : n - 1 \in Entries
    BY QPoolAssumption DEF Entries
<1> QED
    BY <1>1, <1>2, <1>3, <1>4 DEF Elems

\* What giving an index back and taking one do to the queues.
LEMMA Returned ==
    ASSUME TypeInv, \A q \in Pools : Distinct(free[q]),
           NEW p \in Pools, NEW i \in Entries, i \notin Queued(p), GivesBack(p, i)
    PROVE  /\ \A q \in Pools : Distinct(free'[q])
           /\ \A q \in Pools : q # p => Queued(q)' = Queued(q)
           /\ \/ Queued(p)' = Queued(p) \cup {i}
              \/ Queued(p)' = Queued(p) /\ ~(init[p] /\ ~stop[p])
<1>1. CASE free' = [free EXCEPT ![p] = Append(@, i)]
    <2>1. free'[p] = Append(free[p], i) /\ \A q \in Pools : q # p => free'[q] = free[q]
        BY <1>1 DEF TypeInv
    <2>2. Distinct(Append(free[p], i)) /\ Elems(Append(free[p], i)) = Elems(free[p])
             \cup {i}
        BY QueueAppend DEF TypeInv, Queued
    <2> QED
        BY <2>1, <2>2 DEF Queued
<1>2. CASE free' = free /\ ~(init[p] /\ ~stop[p])
    BY <1>2 DEF Queued
<1> QED
    BY <1>1, <1>2 DEF GivesBack

\* What taking the head does to the queues.
LEMMA Taken ==
    ASSUME TypeInv, \A q \in Pools : Distinct(free[q]),
           NEW p \in Pools, free[p] # <<>>, Take(p)
    PROVE  /\ \A q \in Pools : Distinct(free'[q])
           /\ \A q \in Pools : q # p => Queued(q)' = Queued(q)
           /\ Queued(p)' = Queued(p) \ {Head(free[p])}
           /\ Head(free[p]) \in Queued(p) /\ Head(free[p]) \in Entries
<1>1. free'[p] = Tail(free[p]) /\ \A q \in Pools : q # p => free'[q] = free[q]
    BY DEF TypeInv, Take
<1>2. /\ Head(free[p]) \in Elems(free[p])
      /\ Distinct(Tail(free[p])) /\ Elems(Tail(free[p])) = Elems(free[p]) \
         {Head(free[p])}
    BY QueueTail DEF TypeInv
<1>3. Head(free[p]) \in Entries
    BY Queues DEF TypeInv
<1> QED
    BY <1>1, <1>2, <1>3 DEF Queued

\* A step that moves no index.
LEMMA PlaceQuiet ==
    ASSUME TypeInv, PlaceInv, UNCHANGED <<free, cidx, kgot>>,
           \A c \in Callers : cidx[c] # None => cpool'[c] = cpool[c],
           \A p \in Pools : init'[p] => init[p]
    PROVE  PlaceInv'
<1>1. \A p : Queued(p)' = Queued(p)
    BY DEF Queued
<1> HIDE DEF Queued
<1> QED
    BY <1>1, Constants DEF PlaceInv

\* What is in a queue is an entry.
LEMMA QueuedEntries == ASSUME TypeInv, NEW q \in Pools PROVE Queued(q) \subseteq Entries
<1>1. free[q] \in Seq(Entries) /\ \A n \in DOMAIN free[q] : free[q][n] \in Entries
    BY ElementOfSeq, LenProperties DEF TypeInv
<1> QED
    BY <1>1 DEF Queued, Elems

\* A call that gives its index back, or drops it, keeps every index at one place.
LEMMA CallerPut ==
    ASSUME TypeInv, PlaceInv, NEW p \in Pools, NEW i \in Entries, NEW c \in Callers,
           cpool[c] = p, cidx[c] = i,
           UNCHANGED <<init, kgot>>, cidx'[c] = None,
           \A d \in Callers : d # c => cidx'[d] = cidx[d] /\ cpool'[d] = cpool[d],
           \A q \in Pools : init[q] => ~stop[q],
           GivesBack(p, i)
    PROVE  PlaceInv'
<1>1. i \notin Queued(p) /\ i # kgot[p] /\ i # None
    BY Constants DEF PlaceInv
<1>2. \A d \in Callers : d # c /\ cpool[d] = p => cidx[d] # i
    BY <1>1 DEF PlaceInv
<1>3. /\ \A q \in Pools : Distinct(free'[q])
      /\ \A q \in Pools : q # p => Queued(q)' = Queued(q)
      /\ \/ Queued(p)' = Queued(p) \cup {i}
         \/ Queued(p)' = Queued(p) /\ ~init[p]
    BY <1>1, Returned DEF PlaceInv
<1>4. \A q \in Pools : kgot[q] \notin Queued(q)'
    BY <1>1, <1>3 DEF PlaceInv
<1>5. \A d, e \in Callers :
          cidx'[d] # None /\ cidx'[d] = cidx'[e] /\ cpool'[d] = cpool'[e] => d = e
    BY DEF PlaceInv
<1>6. ASSUME NEW q \in Pools, NEW d \in Callers, cpool'[d] = q, cidx'[d] # None
      PROVE  cidx'[d] \notin Queued(q)' /\ cidx'[d] # kgot[q]
    <2>1. d # c /\ cidx'[d] = cidx[d] /\ cpool'[d] = cpool[d]
        BY <1>6
    <2> QED
        BY <1>2, <1>3, <1>6, <2>1 DEF PlaceInv
<1>7. ASSUME NEW q \in Pools, init[q], NEW j \in Entries
      PROVE  \/ j \in Queued(q)' \/ kgot[q] = j
             \/ \E d \in Callers : cpool'[d] = q /\ cidx'[d] = j
    <2>1. CASE q = p /\ j = i
        BY <1>3, <1>7, <2>1
    <2>2. CASE ~(q = p /\ j = i)
        <3>1. j \in Queued(q) => j \in Queued(q)'
            BY <1>3
        <3>2. \A d \in Callers : cpool[d] = q /\ cidx[d] = j => d # c
            BY <2>2
        <3> QED
            BY <1>7, <3>1, <3>2 DEF PlaceInv
    <2> QED
        BY <2>1, <2>2
<1> QED
    BY <1>3, <1>4, <1>5, <1>6, <1>7 DEF PlaceInv

\* So does the keepalive thread.
LEMMA KeeperPut ==
    ASSUME TypeInv, PlaceInv, NEW p \in Pools, NEW i \in Entries, kgot[p] = i,
           UNCHANGED <<init, cidx, cpool>>, kgot'[p] = None,
           \A q \in Pools : q # p => kgot'[q] = kgot[q],
           \A q \in Pools : init[q] => ~stop[q],
           GivesBack(p, i)
    PROVE  PlaceInv'
<1>1. i \notin Queued(p) /\ \A c \in Callers : cpool[c] = p => cidx[c] # i
    BY Constants DEF PlaceInv
<1>2. /\ \A q \in Pools : Distinct(free'[q])
      /\ \A q \in Pools : q # p => Queued(q)' = Queued(q)
      /\ \/ Queued(p)' = Queued(p) \cup {i}
         \/ Queued(p)' = Queued(p) /\ ~init[p]
    BY <1>1, Returned DEF PlaceInv
<1>3. None \notin Queued(p)'
    BY <1>2, QueuedEntries, Constants
<1>4. \A q \in Pools : kgot'[q] \notin Queued(q)'
    BY <1>2, <1>3 DEF PlaceInv
<1>5. \A q \in Pools : \A c \in Callers :
          cpool[c] = q /\ cidx[c] # None => cidx[c] \notin Queued(q)' /\ cidx[c] #
             kgot'[q]
    BY <1>1, <1>2 DEF PlaceInv
<1>6. ASSUME NEW q \in Pools, init[q], NEW j \in Entries
      PROVE  j \in Queued(q)' \/ kgot'[q] = j \/ \E c \in Callers : cpool[c] = q /\
         cidx[c] = j
    <2>1. CASE q = p /\ j = i
        BY <1>2, <1>6, <2>1
    <2>2. CASE ~(q = p /\ j = i)
        <3>1. /\ j \in Queued(q) => j \in Queued(q)'
              /\ kgot[q] = j => kgot'[q] = j
            BY <1>2, <2>2
        <3> QED
            BY <1>6, <3>1 DEF PlaceInv
    <2> QED
        BY <2>1, <2>2
<1> QED
    BY <1>2, <1>4, <1>5, <1>6 DEF PlaceInv

\* A call that takes the head of the queue has an index nobody else has.
LEMMA CallerTakes ==
    ASSUME TypeInv, PlaceInv, NEW p \in Pools, NEW c \in Callers, cpool[c] = p,
           cidx[c] = None, free[p] # <<>>, Take(p), UNCHANGED <<init, kgot, cpool>>,
           cidx' = [cidx EXCEPT ![c] = Head(free[p])]
    PROVE  PlaceInv'
<1>1. PICK i \in Entries : i = Head(free[p])
    BY Taken DEF PlaceInv
<1>2. /\ \A q \in Pools : Distinct(free'[q])
      /\ \A q \in Pools : q # p => Queued(q)' = Queued(q)
      /\ Queued(p)' = Queued(p) \ {i} /\ i \in Queued(p)
    BY <1>1, Taken DEF PlaceInv
<1>3. cidx'[c] = i /\ \A d \in Callers : d # c => cidx'[d] = cidx[d]
    BY <1>1 DEF TypeInv
<1>4. \A d \in Callers : d # c /\ cpool[d] = p => cidx[d] # i
    BY <1>1, <1>2, Constants DEF PlaceInv
<1>5. kgot[p] # i /\ \A q \in Pools : kgot[q] \notin Queued(q)'
    BY <1>2 DEF PlaceInv
<1>6. \A d, e \in Callers :
          cidx'[d] # None /\ cidx'[d] = cidx'[e] /\ cpool[d] = cpool[e] => d = e
    BY <1>3, <1>4 DEF PlaceInv
<1>7. ASSUME NEW q \in Pools, NEW d \in Callers, cpool[d] = q, cidx'[d] # None
      PROVE  cidx'[d] \notin Queued(q)' /\ cidx'[d] # kgot[q]
    <2>1. CASE d = c
        BY <1>2, <1>3, <1>5, <1>7, <2>1
    <2>2. CASE d # c
        BY <1>2, <1>3, <1>7, <2>2 DEF PlaceInv
    <2> QED
        BY <2>1, <2>2
<1>8. ASSUME NEW q \in Pools, init[q], NEW j \in Entries
      PROVE  j \in Queued(q)' \/ kgot[q] = j \/ \E d \in Callers : cpool[d] = q /\
         cidx'[d] = j
    <2>1. CASE q = p /\ j = i
        BY <1>3, <2>1
    <2>2. CASE ~(q = p /\ j = i)
        <3>1. j \in Queued(q) => j \in Queued(q)'
            BY <1>2, <2>2
        <3>2. \A d \in Callers : cidx[d] = j => cidx'[d] = j
            BY <1>3, Constants
        <3> QED
            BY <1>8, <3>1, <3>2 DEF PlaceInv
    <2> QED
        BY <2>1, <2>2
<1> QED
    BY <1>2, <1>5, <1>6, <1>7, <1>8 DEF PlaceInv

\* So does the keepalive thread.
LEMMA KeeperTakes ==
    ASSUME TypeInv, PlaceInv, NEW p \in Pools, kgot[p] = None, free[p] # <<>>, Take(p),
           UNCHANGED <<init, cidx, cpool>>, kgot' = [kgot EXCEPT ![p] = Head(free[p])]
    PROVE  PlaceInv'
<1>1. PICK i \in Entries : i = Head(free[p])
    BY Taken DEF PlaceInv
<1>2. /\ \A q \in Pools : Distinct(free'[q])
      /\ \A q \in Pools : q # p => Queued(q)' = Queued(q)
      /\ Queued(p)' = Queued(p) \ {i} /\ i \in Queued(p)
    BY <1>1, Taken DEF PlaceInv
<1>3. kgot'[p] = i /\ \A q \in Pools : q # p => kgot'[q] = kgot[q]
    BY <1>1 DEF TypeInv
<1>4. \A q \in Pools : kgot'[q] \notin Queued(q)'
    BY <1>2, <1>3 DEF PlaceInv
<1>5. \A q \in Pools : \A c \in Callers :
          cpool[c] = q /\ cidx[c] # None => cidx[c] \notin Queued(q)' /\ cidx[c] #
             kgot'[q]
    BY <1>2, <1>3 DEF PlaceInv
<1>6. ASSUME NEW q \in Pools, init[q], NEW j \in Entries
      PROVE  j \in Queued(q)' \/ kgot'[q] = j \/ \E c \in Callers : cpool[c] = q /\
         cidx[c] = j
    <2>1. CASE q = p /\ j = i
        BY <1>3, <2>1
    <2>2. CASE ~(q = p /\ j = i)
        <3>1. /\ j \in Queued(q) => j \in Queued(q)'
              /\ kgot[q] = j => kgot'[q] = j
            BY <1>2, <1>3, <2>2, Constants
        <3> QED
            BY <1>6, <3>1 DEF PlaceInv
    <2> QED
        BY <2>1, <2>2
<1> QED
    BY <1>2, <1>4, <1>5, <1>6 DEF PlaceInv

\* Every step keeps every index at one place.
LEMMA PlaceStep ==
    TypeInv /\ HoldInv /\ LifeInv /\ PlaceInv /\ [Next]_vars => PlaceInv'
<1> SUFFICES ASSUME TypeInv, HoldInv, LifeInv, PlaceInv, [Next]_vars
             PROVE  PlaceInv'
    OBVIOUS
<1> USE Constants DEF TypeInv, HoldInv, PlaceInv, poolVars, callerVars, kaVars, adminVars
<1>1. ASSUME NEW c \in Callers, TxrxLookup(c) PROVE PlaceInv'
    <2>1. UNCHANGED <<free, cidx, kgot>> /\ \A p \in Pools : init'[p] => init[p]
        BY <1>1 DEF TxrxLookup
    <2>2. cidx[c] = None
        BY <1>1 DEF TxrxLookup
    <2>3. \A d \in Callers : cidx[d] # None => cpool'[d] = cpool[d]
        BY <1>1, <2>2 DEF TxrxLookup
    <2> QED
        BY <2>1, <2>3, PlaceQuiet
<1>2. ASSUME NEW c \in Callers, TxrxCount(c) PROVE PlaceInv'
    <2>1. UNCHANGED <<free, cidx, kgot, cpool>> /\ \A q \in Pools : init'[q] => init[q]
        BY <1>2 DEF TxrxCount
    <2> QED
        BY <2>1, PlaceQuiet
<1>3. ASSUME NEW c \in Callers, TxrxTake(c) PROVE PlaceInv'
    <2>1. /\ cpool[c] \in Pools /\ cidx[c] = None /\ free[cpool[c]] # <<>> /\
             Take(cpool[c])
          /\ UNCHANGED <<init, kgot, cpool>>
          /\ cidx' = [cidx EXCEPT ![c] = Head(free[cpool[c]])]
        <3>1. cpc[c] = "wait" /\ free[cpool[c]] # <<>> /\ Take(cpool[c])
                 /\ UNCHANGED <<init, kgot, cpool>>
                 /\ cidx' = [cidx EXCEPT ![c] = Head(free[cpool[c]])]
            BY <1>3 DEF TxrxTake
        <3>2. cpool[c] \in Pools /\ cidx[c] = None
            <4> HIDE DEF PlaceInv
            <4>1. cpc[c] # "idle" /\ cpc[c] \notin {"dead", "msg"}
                BY <3>1
            <4> QED
                BY <4>1
        <3> QED
            BY <3>1, <3>2
    <2> QED
        BY ZenonT(40), <2>1, CallerTakes
<1>4. ASSUME NEW c \in Callers, TxrxStopped(c) PROVE PlaceInv'
    <2>1. UNCHANGED <<free, kgot, init>>
        BY <1>4 DEF TxrxStopped
    <2>2. cidx[c] = None /\ cidx' = [cidx EXCEPT ![c] = None] /\ cpool' = [cpool EXCEPT
             ![c] = None]
        BY <1>4 DEF TxrxStopped, TxrxReturn
    <2>3. cidx' = cidx /\ \A d \in Callers : cidx[d] # None => cpool'[d] = cpool[d]
        BY <2>2
    <2> QED
        BY <2>1, <2>3, PlaceQuiet
<1>5. ASSUME NEW c \in Callers, TxrxPutDead(c) PROVE PlaceInv'
    <2>1. /\ CallerReturns(c) /\ cpool[c] \in Pools /\ cidx[c] \in Entries
          /\ UNCHANGED <<init, kgot>>
        BY <1>5, CallerGivesBack DEF TxrxPutDead
    <2>2. /\ cidx'[c] = None
          /\ \A d \in Callers : d # c => cidx'[d] = cidx[d] /\ cpool'[d] = cpool[d]
        BY <2>1 DEF CallerReturns, TxrxReturn
    <2>3. \A q \in Pools : init[q] => ~stop[q]
        BY DEF LifeInv
    <2>4. PICK p \in Pools, i \in Entries : p = cpool[c] /\ i = cidx[c]
        BY <2>1
    <2>5. GivesBack(p, i)
        BY <2>1, <2>4 DEF CallerReturns
    <2> HIDE DEF TypeInv, HoldInv, PlaceInv
    <2> QED
        BY <2>1, <2>2, <2>3, <2>4, <2>5, CallerPut
<1>6. ASSUME NEW c \in Callers, TxrxDone(c) PROVE PlaceInv'
    <2>1. /\ CallerReturns(c) /\ cpool[c] \in Pools /\ cidx[c] \in Entries
          /\ UNCHANGED <<init, kgot>>
        BY <1>6, CallerGivesBack DEF TxrxDone
    <2>2. /\ cidx'[c] = None
          /\ \A d \in Callers : d # c => cidx'[d] = cidx[d] /\ cpool'[d] = cpool[d]
        BY <2>1 DEF CallerReturns, TxrxReturn
    <2>3. \A q \in Pools : init[q] => ~stop[q]
        BY DEF LifeInv
    <2>4. PICK p \in Pools, i \in Entries : p = cpool[c] /\ i = cidx[c]
        BY <2>1
    <2>5. GivesBack(p, i)
        BY <2>1, <2>4 DEF CallerReturns
    <2> HIDE DEF TypeInv, HoldInv, PlaceInv
    <2> QED
        BY <2>1, <2>2, <2>3, <2>4, <2>5, CallerPut
<1>7. ASSUME NEW p \in Pools, Silence(p) PROVE PlaceInv'
    <2>1. UNCHANGED <<free, cidx, kgot, cpool>> /\ \A q \in Pools : init'[q] => init[q]
        BY <1>7 DEF Silence
    <2> QED
        BY <2>1, PlaceQuiet
<1>8. ASSUME NEW p \in Pools, NEW i \in Entries, BackoffEnds(p, i) PROVE PlaceInv'
    <2>1. UNCHANGED <<free, cidx, kgot, cpool>> /\ \A q \in Pools : init'[q] => init[q]
        BY <1>8 DEF BackoffEnds
    <2> QED
        BY <2>1, PlaceQuiet
<1>9. ASSUME NEW p \in Pools, KaTick(p) PROVE PlaceInv'
    <2>1. UNCHANGED <<free, cidx, kgot, cpool>> /\ \A q \in Pools : init'[q] => init[q]
        BY <1>9 DEF KaTick
    <2> QED
        BY <2>1, PlaceQuiet
<1>10. ASSUME NEW p \in Pools, KaStop(p) PROVE PlaceInv'
    <2>1. UNCHANGED <<free, cidx, kgot, cpool>> /\ \A q \in Pools : init'[q] => init[q]
        BY <1>10 DEF KaStop
    <2> QED
        BY <2>1, PlaceQuiet
<1>11. ASSUME NEW p \in Pools, KaSkip(p) PROVE PlaceInv'
    <2>1. kgot' = kgot
        BY <1>11 DEF KaSkip, KaNext
    <2>2. UNCHANGED <<free, cidx, cpool, init>>
        BY <1>11 DEF KaSkip
    <2> QED
        BY <2>1, <2>2, PlaceQuiet
<1>12. ASSUME NEW p \in Pools, KaClaim(p) PROVE PlaceInv'
    <2>1. /\ kgot[p] = None /\ free[p] # <<>> /\ Take(p) /\ UNCHANGED <<init, cidx,
             cpool>>
          /\ kgot' = [kgot EXCEPT ![p] = Head(free[p])]
        BY <1>12 DEF KaClaim
    <2> QED
        BY <2>1, KeeperTakes
<1>13. ASSUME NEW p \in Pools, KaWrong(p) PROVE PlaceInv'
    <2>1. KeeperReturns(p) /\ kgot[p] \in Entries /\ UNCHANGED <<init, cidx, cpool>>
        BY <1>13, KeeperGivesBack DEF KaWrong
    <2>2. kgot'[p] = None /\ \A q \in Pools : q # p => kgot'[q] = kgot[q]
        BY <2>1 DEF KeeperReturns
    <2>3. \A q \in Pools : init[q] => ~stop[q]
        BY DEF LifeInv
    <2> QED
        BY <2>1, <2>2, <2>3, KeeperPut DEF KeeperReturns
<1>14. ASSUME NEW p \in Pools, KaPinged(p) PROVE PlaceInv'
    <2>1. KeeperReturns(p) /\ kgot[p] \in Entries /\ UNCHANGED <<init, cidx, cpool>>
        BY <1>14, KeeperGivesBack DEF KaPinged
    <2>2. kgot'[p] = None /\ \A q \in Pools : q # p => kgot'[q] = kgot[q]
        BY <2>1 DEF KeeperReturns
    <2>3. \A q \in Pools : init[q] => ~stop[q]
        BY DEF LifeInv
    <2> QED
        BY <2>1, <2>2, <2>3, KeeperPut DEF KeeperReturns
<1>15. ASSUME NEW p \in Pools, KaReopened(p) PROVE PlaceInv'
    <2>1. KeeperReturns(p) /\ kgot[p] \in Entries /\ UNCHANGED <<init, cidx, cpool>>
        BY <1>15, KeeperGivesBack DEF KaReopened
    <2>2. kgot'[p] = None /\ \A q \in Pools : q # p => kgot'[q] = kgot[q]
        BY <2>1 DEF KeeperReturns
    <2>3. \A q \in Pools : init[q] => ~stop[q]
        BY DEF LifeInv
    <2> QED
        BY <2>1, <2>2, <2>3, KeeperPut DEF KeeperReturns
<1>16. ASSUME NEW a \in Admins, OpenBegin(a) PROVE PlaceInv'
    <2>1. UNCHANGED <<free, cidx, kgot, cpool>> /\ \A q \in Pools : init'[q] => init[q]
        BY <1>16 DEF OpenBegin
    <2> QED
        BY <2>1, PlaceQuiet
<1>17. ASSUME NEW a \in Admins, OpenEntry(a) PROVE PlaceInv'
    <2>1. UNCHANGED <<free, cidx, kgot, cpool>> /\ \A q \in Pools : init'[q] => init[q]
        BY <1>17 DEF OpenEntry
    <2> QED
        BY <2>1, PlaceQuiet
<1>18. ASSUME NEW a \in Admins, Rollback(a) PROVE PlaceInv'
    <2>1. UNCHANGED <<free, cidx, kgot, cpool>> /\ \A q \in Pools : init'[q] => init[q]
        BY <1>18 DEF Rollback, CloseOne
    <2> QED
        BY <2>1, PlaceQuiet
<1>19. ASSUME NEW a \in Admins, OpenDone(a) PROVE PlaceInv'
    <2>1. PICK p \in Pools : p = apool[a]
        BY <1>19 DEF OpenDone
    <2>2. kgot[p] = None /\ \A c \in Callers : cpool[c] # p
        BY <1>19, <2>1 DEF OpenDone, LifeInv, Fresh
    <2>3. UNCHANGED <<cidx, cpool, kgot>>
        BY <1>19 DEF OpenDone
    <2>4. \A q \in Pools : q # p => free'[q] = free[q] /\ init'[q] = init[q]
        BY <1>19, <2>1 DEF OpenDone
    <2>5. free'[p] = [n \in 1 .. Size |-> n - 1]
        BY <1>19, <2>1 DEF OpenDone
    <2>6. \A q \in Pools : q # p => Queued(q)' = Queued(q)
        BY <2>4 DEF Queued
    <2>7. Distinct(free'[p]) /\ Queued(p)' = Entries
        BY <2>5, QueueSeed DEF Queued
    <2>8. \A q \in Pools : Distinct(free'[q]) /\ kgot[q] \notin Queued(q)'
        <3> SUFFICES ASSUME NEW q \in Pools
                     PROVE Distinct(free'[q]) /\ kgot[q] \notin Queued(q)'
            OBVIOUS
        <3>1. CASE q = p
            BY <2>2, <2>7, <3>1
        <3>2. CASE q # p
            BY <2>4, <2>6, <3>2
        <3> QED
            BY <3>1, <3>2
    <2>9. \A q \in Pools : \A c \in Callers :
             cpool[c] = q /\ cidx[c] # None => cidx[c] \notin Queued(q)' /\ cidx[c] #
                kgot[q]
        BY <2>2, <2>6
    <2>10. \A q \in Pools : init'[q] => \A j \in Entries :
             j \in Queued(q)' \/ kgot[q] = j \/ \E c \in Callers : cpool[c] = q /\
                cidx[c] = j
        BY <2>4, <2>6, <2>7
    <2> QED
        BY <2>3, <2>8, <2>9, <2>10
<1>20. ASSUME NEW a \in Admins, CloseBegin(a) PROVE PlaceInv'
    <2>1. UNCHANGED <<free, cidx, kgot, cpool>> /\ \A q \in Pools : init'[q] => init[q]
        BY <1>20 DEF CloseBegin
    <2> QED
        BY <2>1, PlaceQuiet
<1>21. ASSUME NEW a \in Admins, CloseDrained(a) PROVE PlaceInv'
    <2>1. UNCHANGED <<free, cidx, kgot, cpool>> /\ \A q \in Pools : init'[q] => init[q]
        BY <1>21 DEF CloseDrained
    <2> QED
        BY <2>1, PlaceQuiet
<1>22. ASSUME NEW a \in Admins, CloseEntries(a) PROVE PlaceInv'
    <2>1. UNCHANGED <<free, cidx, kgot, cpool>> /\ \A q \in Pools : init'[q] => init[q]
        BY <1>22 DEF CloseEntries, CloseOne
    <2> QED
        BY <2>1, PlaceQuiet
<1>23. CASE UNCHANGED vars
    BY <1>23, PlaceQuiet DEF vars
<1> QED
    BY <1>1, <1>2, <1>3, <1>4, <1>5, <1>6, <1>7, <1>8, <1>9, <1>10, <1>11, <1>12, <1>13,
       <1>14, <1>15, <1>16, <1>17, <1>18, <1>19, <1>20, <1>21, <1>22, <1>23
       DEF Next, Caller, Keeper, Admin

-----------------------------------------------------------------------------
(* The connection table *)

\* While a keepalive thread runs, its pool is the live one or is draining, and no
\* connection is being opened, rolled back or closed by an admin.
LEMMA KeeperActive ==
    ASSUME TypeInv, HoldInv, LifeInv, OneAdmin, NEW p \in Pools, kpc[p] \notin {"off",
       "done"}
    PROVE  /\ \A a \in Admins : apc[a] \in {"idle", "draining"}
           /\ init[p] \/ \E a \in Admins : apc[a] = "draining"
           /\ cur # None \/ \E a \in Admins : apc[a] # "idle"
           /\ \A q \in Pools : init[q] => q = p
<1> USE Constants
<1>1. CASE init[p]
    <2>1. cur = p
        BY <1>1 DEF LifeInv
    <2>2. \A a \in Admins : apc[a] \notin {"draining", "closing"}
        BY <2>1 DEF LifeInv
    <2>3. \A a \in Admins : apc[a] \notin {"opening", "rollback"}
        BY <1>1, <2>1 DEF LifeInv, Fresh
    <2>4. \A a \in Admins : apc[a] = "idle"
        BY <2>2, <2>3 DEF TypeInv
    <2>5. \A q \in Pools : init[q] => q = p
        BY <2>1 DEF LifeInv
    <2> QED
        BY <1>1, <2>1, <2>4, <2>5
<1>2. CASE ~init[p]
    <2>1. PICK a \in Admins : apc[a] = "draining"
        BY <1>2 DEF LifeInv
    <2>2. cur = None
        BY <2>1 DEF LifeInv
    <2>3. \A b \in Admins : b # a => apc[b] = "idle"
        BY <2>1 DEF OneAdmin
    <2>4. \A q \in Pools : ~init[q]
        BY <2>2 DEF LifeInv
    <2> QED
        BY <2>1, <2>3, <2>4
<1> QED
    BY <1>1, <1>2

\* A keepalive thread that gave its index back is not reopening.
LEMMA KeeperMoves ==
    ASSUME TypeInv, NEW p \in Pools, KeeperReturns(p)
    PROVE  /\ kpc'[p] # "reopening"
           /\ \A q \in Pools : q # p => kpc'[q] = kpc[q] /\ ki'[q] = ki[q]
<1>1. PICK s \in {"ping", "reopen", "sleep", "done"} : kpc' = [kpc EXCEPT ![p] = s]
    BY DEF KeeperReturns
<1>2. PICK i \in Entries : ki' = [ki EXCEPT ![p] = i]
    BY DEF KeeperReturns
<1> QED
    BY <1>1, <1>2 DEF TypeInv

\* Closing the first connection of a range leaves the rest of it.
LEMMA Shrink ==
    ASSUME NEW S, NEW m \in Int, NEW n \in Int, S \subseteq m .. n
    PROVE  S \ {m} \subseteq (m + 1) .. n
    OBVIOUS

\* A step that changes neither the connection table nor the pools.
LEMMA ConnQuiet ==
    ASSUME TypeInv, ConnInv, UNCHANGED <<init, conns, dead, cur, opened, apc, apool, ak>>,
           \A p \in Pools : kpc'[p] = "reopening" => kpc[p] = "reopening" /\ ki'[p] =
              ki[p]
    PROVE  ConnInv'
    BY DEF ConnInv, LiveIsOpen, ClosedIsEmpty

\* No pool is live while its admin rolls back, drains or closes.
LEMMA NobodyLive ==
    ASSUME TypeInv, HoldInv, LifeInv, NEW a \in Admins,
           apc[a] \in {"opening", "rollback", "draining", "closing"}
    PROVE  \A q \in Pools : ~init[q]
<1>1. CASE apc[a] \in {"opening", "rollback"}
    BY <1>1 DEF LifeInv, Fresh
<1>2. CASE apc[a] \in {"draining", "closing"}
    BY <1>2, Constants DEF LifeInv
<1> QED
    BY <1>1, <1>2

\* Every step keeps the connection table consistent with the pools.
LEMMA ConnStep ==
    TypeInv /\ HoldInv /\ LifeInv /\ ConnInv /\ OneAdmin /\ OneAdmin' /\ [Next]_vars =>
       ConnInv'
<1> SUFFICES ASSUME TypeInv, HoldInv, LifeInv, ConnInv, OneAdmin, OneAdmin', [Next]_vars
             PROVE  ConnInv'
    OBVIOUS
<1> USE Constants DEF TypeInv, HoldInv, ConnInv, poolVars, callerVars, kaVars, adminVars
<1>1. ASSUME NEW c \in Callers, TxrxLookup(c) PROVE ConnInv'
    <2>1. UNCHANGED <<init, conns, dead, cur, opened, apc, apool, ak, kpc, ki>>
        BY <1>1 DEF TxrxLookup
    <2> QED
        BY <2>1, ConnQuiet
<1>2. ASSUME NEW c \in Callers, TxrxCount(c) PROVE ConnInv'
    <2>1. UNCHANGED <<init, conns, dead, cur, opened, apc, apool, ak, kpc, ki>>
        BY <1>2 DEF TxrxCount
    <2> QED
        BY <2>1, ConnQuiet
<1>3. ASSUME NEW c \in Callers, TxrxTake(c) PROVE ConnInv'
    <2>1. UNCHANGED <<init, conns, dead, cur, opened, apc, apool, ak, kpc, ki>>
        BY <1>3 DEF TxrxTake
    <2> QED
        BY <2>1, ConnQuiet
<1>4. ASSUME NEW c \in Callers, TxrxStopped(c) PROVE ConnInv'
    <2>1. UNCHANGED <<init, conns, dead, cur, opened, apc, apool, ak, kpc, ki>>
        BY <1>4 DEF TxrxStopped
    <2> QED
        BY <2>1, ConnQuiet
<1>5. ASSUME NEW c \in Callers, TxrxPutDead(c) PROVE ConnInv'
    <2>1. UNCHANGED <<init, conns, dead, cur, opened, apc, apool, ak, kpc, ki>>
        BY <1>5 DEF TxrxPutDead
    <2> QED
        BY <2>1, ConnQuiet
<1>6. ASSUME NEW c \in Callers, TxrxDone(c) PROVE ConnInv'
    <2>1. UNCHANGED <<init, conns, dead, cur, opened, apc, apool, ak, kpc, ki>>
        BY <1>6 DEF TxrxDone
    <2> QED
        BY <2>1, ConnQuiet
<1>7. ASSUME NEW p \in Pools, Silence(p) PROVE ConnInv'
    <2>1. UNCHANGED <<init, conns, dead, cur, opened, apc, apool, ak, kpc, ki>>
        BY <1>7 DEF Silence
    <2> QED
        BY <2>1, ConnQuiet
<1>8. ASSUME NEW p \in Pools, NEW i \in Entries, BackoffEnds(p, i) PROVE ConnInv'
    <2>1. UNCHANGED <<init, conns, dead, cur, opened, apc, apool, ak, kpc, ki>>
        BY <1>8 DEF BackoffEnds
    <2> QED
        BY <2>1, ConnQuiet
<1>9. ASSUME NEW p \in Pools, KaTick(p) PROVE ConnInv'
    <2>1. UNCHANGED <<init, conns, dead, cur, opened, apc, apool, ak>>
        BY <1>9 DEF KaTick
    <2>2. \A q \in Pools : kpc'[q] = "reopening" => kpc[q] = "reopening" /\ ki'[q] = ki[q]
        BY <1>9 DEF KaTick
    <2> QED
        BY <2>1, <2>2, ConnQuiet
<1>10. ASSUME NEW p \in Pools, KaStop(p) PROVE ConnInv'
    <2>1. UNCHANGED <<init, conns, dead, cur, opened, apc, apool, ak>>
        BY <1>10 DEF KaStop
    <2>2. \A q \in Pools : kpc'[q] = "reopening" => kpc[q] = "reopening" /\ ki'[q] = ki[q]
        BY <1>10 DEF KaStop
    <2> QED
        BY <2>1, <2>2, ConnQuiet
<1>11. ASSUME NEW p \in Pools, KaSkip(p) PROVE ConnInv'
    <2>1. UNCHANGED <<init, conns, dead, cur, opened, apc, apool, ak>>
        BY <1>11 DEF KaSkip
    <2>2. \A q \in Pools : kpc'[q] = "reopening" => kpc[q] = "reopening" /\ ki'[q] = ki[q]
        <3>1. PICK pass \in {"ping", "reopen"} : KaNext(p, pass)
            BY <1>11 DEF KaSkip
        <3>2. PICK s \in {"ping", "reopen", "sleep", "done"} : kpc' = [kpc EXCEPT ![p] =
                 s]
            BY <3>1, NextEntry
        <3>3. PICK i \in Entries : ki' = [ki EXCEPT ![p] = i]
            BY <3>1, NextEntry
        <3> QED
            BY <3>2, <3>3
    <2> QED
        BY <2>1, <2>2, ConnQuiet
<1>12. ASSUME NEW p \in Pools, KaClaim(p) PROVE ConnInv'
    <2>1. /\ \A a \in Admins : apc[a] \in {"idle", "draining"}
          /\ init[p] \/ \E a \in Admins : apc[a] = "draining"
          /\ cur # None \/ \E a \in Admins : apc[a] # "idle"
          /\ \A q \in Pools : init[q] => q = p
        BY <1>12, KeeperActive DEF KaClaim
    <2>2. UNCHANGED <<init, cur, opened, apc, apool, ak>>
        BY <1>12 DEF KaClaim
    <2>3. UNCHANGED <<dead, ki>> /\ \A q \in Pools : q # p => kpc'[q] = kpc[q]
        BY <1>12 DEF KaClaim
    <2>4. \/ conns' = conns /\ kpc'[p] # "reopening"
          \/ conns' = conns \ {ki[p]} /\ ki[p] \in dead[p]
        BY <1>12 DEF KaClaim, KaWants
    <2>5. LiveIsOpen' /\ ClosedIsEmpty'
        BY <2>1, <2>2, <2>3, <2>4 DEF LiveIsOpen, ClosedIsEmpty
    <2>6. \A q \in Pools : kpc'[q] = "reopening" => ki'[q] \in dead'[q]
        BY <1>12, <2>3, <2>4 DEF KaClaim, KaWants
    <2> QED
        BY <2>1, <2>2, <2>5, <2>6
<1>13. ASSUME NEW p \in Pools, KaWrong(p) PROVE ConnInv'
    <2>1. UNCHANGED <<init, conns, dead, cur, opened, apc, apool, ak>>
        BY <1>13 DEF KaWrong
    <2>2. KeeperReturns(p)
        BY <1>13, KeeperGivesBack
    <2>3. \A q \in Pools : kpc'[q] = "reopening" => kpc[q] = "reopening" /\ ki'[q] = ki[q]
        BY <2>2, KeeperMoves
    <2> QED
        BY <2>1, <2>3, ConnQuiet
<1>14. ASSUME NEW p \in Pools, KaPinged(p) PROVE ConnInv'
    <2>1. /\ \A a \in Admins : apc[a] \in {"idle", "draining"}
          /\ init[p] \/ \E a \in Admins : apc[a] = "draining"
          /\ cur # None \/ \E a \in Admins : apc[a] # "idle"
          /\ \A q \in Pools : init[q] => q = p
        BY <1>14, KeeperActive DEF KaPinged
    <2>2. UNCHANGED <<init, cur, opened, apc, apool, ak>>
        BY <1>14 DEF KaPinged
    <2>3. conns' = conns /\ (dead' = dead \/ dead' = [dead EXCEPT ![p] = @ \cup {ki[p]}])
        BY <1>14 DEF KaPinged
    <2>4. conns' = conns /\ \A q \in Pools : dead[q] \subseteq dead'[q]
        <3>1. CASE dead' = dead
            BY <2>3, <3>1
        <3>2. CASE dead' = [dead EXCEPT ![p] = @ \cup {ki[p]}]
            <4>1. dead'[p] = dead[p] \cup {ki[p]} /\ \A q \in Pools : q # p => dead'[q]
                     = dead[q]
                BY <3>2
            <4> QED
                BY <2>3, <4>1
        <3> QED
            BY <2>3, <3>1, <3>2
    <2>5. KeeperReturns(p)
        BY <1>14, KeeperGivesBack
    <2>6. \A q \in Pools : kpc'[q] = "reopening" => kpc[q] = "reopening" /\ ki'[q] = ki[q]
        BY <2>5, KeeperMoves
    <2>7. LiveIsOpen' /\ ClosedIsEmpty'
        BY <2>1, <2>2, <2>4 DEF LiveIsOpen, ClosedIsEmpty
    <2>8. \A q \in Pools : kpc'[q] = "reopening" => ki'[q] \in dead'[q]
        BY <2>4, <2>6
    <2> QED
        BY <2>1, <2>2, <2>7, <2>8
<1>15. ASSUME NEW p \in Pools, KaReopened(p) PROVE ConnInv'
    <2>1. /\ \A a \in Admins : apc[a] \in {"idle", "draining"}
          /\ init[p] \/ \E a \in Admins : apc[a] = "draining"
          /\ cur # None \/ \E a \in Admins : apc[a] # "idle"
          /\ \A q \in Pools : init[q] => q = p
        BY <1>15, KeeperActive DEF KaReopened
    <2>2. UNCHANGED <<init, cur, opened, apc, apool, ak>>
        BY <1>15 DEF KaReopened
    <2>3. /\ \/ conns' = conns /\ dead' = dead
             \/ conns' = conns \cup {ki[p]} /\ dead' = [dead EXCEPT ![p] = @ \ {ki[p]}]
        BY <1>15 DEF KaReopened, ConnOpens, ConnFails
    <2>4. /\ kpc'[p] # "reopening"
          /\ \A q \in Pools : q # p => kpc'[q] = kpc[q] /\ ki'[q] = ki[q]
        <3>1. KeeperReturns(p)
            BY <1>15, KeeperGivesBack
        <3> QED
            BY <3>1, KeeperMoves
    <2>5. LiveIsOpen' /\ ClosedIsEmpty'
        BY <2>1, <2>2, <2>3 DEF LiveIsOpen, ClosedIsEmpty
    <2>6. \A q \in Pools : kpc'[q] = "reopening" => ki'[q] \in dead'[q]
        BY <2>3, <2>4
    <2> QED
        BY <2>1, <2>2, <2>5, <2>6
<1>16. ASSUME NEW a \in Admins, OpenBegin(a) PROVE ConnInv'
    <2>1. \A b \in Admins : b # a => apc[b] = "idle" /\ apc'[b] = "idle"
        BY <1>16 DEF OpenBegin, OneAdmin
    <2>2. made + 1 \in Pools /\ made \in Int /\ made + 1 > made
        BY <1>16, QPoolAssumption DEF OpenBegin, Pools
    <2>3. conns = {} /\ opened[made + 1] = 0
        BY <1>16, <2>1, <2>2 DEF OpenBegin, ClosedIsEmpty, LifeInv
    <2>4. UNCHANGED <<init, conns, dead, opened, kpc, ki, ak>> /\ apool'[a] = made + 1
             /\ apc'[a] = "opening" /\ cur' # None
        BY <1>16, <2>2 DEF OpenBegin
    <2>5. conns = 0 .. (opened[made + 1] - 1)
        BY <2>3
    <2> QED
        BY <2>1, <2>4, <2>5 DEF LiveIsOpen, ClosedIsEmpty
<1>17. ASSUME NEW a \in Admins, OpenEntry(a) PROVE ConnInv'
    <2>1. \A b \in Admins : b # a => apc[b] = "idle" /\ apc'[b] = "idle"
        BY <1>17 DEF OpenEntry, OneAdmin
    <2>2. /\ \A q \in Pools : ~init[q]
          /\ apool[a] \in Pools /\ opened[apool[a]] \in Int /\ opened[apool[a]] >= 0
        BY <1>17, NobodyLive, AmountArith DEF OpenEntry
    <2>3. UNCHANGED <<init, cur, dead, kpc, ki, apool, ak>> /\ ak[a] = 0 /\ apc[a] =
             "opening"
        BY <1>17 DEF OpenEntry
    <2>4. CASE ConnOpens(opened[apool[a]]) /\ opened' = [opened EXCEPT ![apool[a]] = @ +
             1]
                 /\ apc' = apc
        <3>1. conns' = 0 .. (opened'[apool[a]] - 1)
            BY <2>2, <2>3, <2>4 DEF ConnOpens
        <3> QED
            BY <2>1, <2>2, <2>3, <2>4, <3>1 DEF LiveIsOpen, ClosedIsEmpty
    <2>5. CASE conns' = conns /\ opened' = opened /\ apc'[a] = "rollback"
        <3>1. conns \subseteq 0 .. (opened[apool[a]] - 1)
            BY <2>2, <2>3
        <3> QED
            BY <2>1, <2>2, <2>3, <2>5, <3>1 DEF LiveIsOpen, ClosedIsEmpty
    <2> QED
        BY <1>17, <2>4, <2>5 DEF OpenEntry, ConnFails
<1>18. ASSUME NEW a \in Admins, Rollback(a) PROVE ConnInv'
    <2>1. \A b \in Admins : b # a => apc[b] = "idle" /\ apc'[b] = "idle"
        BY <1>18 DEF Rollback, CloseOne, AdminReturn, OneAdmin
    <2>2. /\ \A q \in Pools : ~init[q]
          /\ apool[a] \in Pools /\ opened[apool[a]] \in Int /\ ak[a] \in Int
          /\ conns \subseteq ak[a] .. (opened[apool[a]] - 1)
        BY <1>18, NobodyLive, AmountArith DEF Rollback
    <2>3. UNCHANGED <<init, opened, dead, kpc, ki>> /\ apc[a] \in {"rollback", "closing"}
        BY <1>18 DEF Rollback, CloseOne
    <2>4. CASE CloseOne(a)
        <3>1. UNCHANGED <<apc, apool, cur>> /\ ak'[a] = ak[a] + 1 /\ conns' = conns \
                 {ak[a]}
            BY <2>4 DEF CloseOne
        <3>2. conns' \subseteq ak'[a] .. (opened[apool[a]] - 1)
            <4> HIDE DEF TypeInv, HoldInv, ConnInv
            <4>1. PICK m \in Int : m = ak[a]
                BY <2>2
            <4>2. PICK n \in Int : n = opened[apool[a]] - 1
                BY <2>2
            <4>3. conns \ {m} \subseteq (m + 1) .. n
                BY <2>2, <4>1, <4>2, Shrink
            <4> QED
                BY <3>1, <4>1, <4>2, <4>3
        <3> QED
            BY <2>1, <2>2, <2>3, <3>1, <3>2 DEF LiveIsOpen, ClosedIsEmpty
    <2>5. CASE ~CloseOne(a)
        <3>1. apc'[a] = "idle" /\ conns' = conns /\ ak[a] = opened[apool[a]]
            BY <1>18, <2>5 DEF Rollback, AdminReturn
        <3>2. conns' = {}
            BY <2>2, <3>1
        <3> QED
            BY <2>1, <2>2, <2>3, <3>1, <3>2 DEF LiveIsOpen, ClosedIsEmpty
    <2> QED
        BY <2>4, <2>5
<1>19. ASSUME NEW a \in Admins, OpenDone(a) PROVE ConnInv'
    <2>1. \A b \in Admins : b # a => apc[b] = "idle" /\ apc'[b] = "idle"
        BY <1>19 DEF OpenDone, AdminReturn, OneAdmin
    <2>2. conns = Entries
        BY <1>19 DEF OpenDone, Entries
    <2>3. UNCHANGED <<conns, cur, dead, ki>> /\ apc'[a] = "idle" /\ cur # None
        BY <1>19 DEF OpenDone, AdminReturn, LifeInv
    <2>4. \A q \in Pools : kpc'[q] = "reopening" => kpc[q] = "reopening"
        BY <1>19 DEF OpenDone
    <2> QED
        BY <2>1, <2>2, <2>3, <2>4 DEF LiveIsOpen, ClosedIsEmpty
<1>20. ASSUME NEW a \in Admins, CloseBegin(a) PROVE ConnInv'
    <2>1. \A b \in Admins : b # a => apc[b] = "idle" /\ apc'[b] = "idle"
        BY <1>20 DEF CloseBegin, OneAdmin
    <2>2. \A q \in Pools : ~init'[q]
        BY <1>20 DEF CloseBegin, LifeInv
    <2>3. UNCHANGED <<conns, dead, kpc, ki>> /\ apc'[a] = "draining"
        BY <1>20 DEF CloseBegin
    <2> QED
        BY <2>1, <2>2, <2>3 DEF LiveIsOpen, ClosedIsEmpty
<1>21. ASSUME NEW a \in Admins, CloseDrained(a) PROVE ConnInv'
    <2>1. \A b \in Admins : b # a => apc[b] = "idle" /\ apc'[b] = "idle"
        BY <1>21 DEF CloseDrained, OneAdmin
    <2>5. apc[a] = "draining"
        BY <1>21 DEF CloseDrained
    <2>2. apool[a] \in Pools /\ opened[apool[a]] = Size /\ ak[a] = 0
        BY SMTT(40), <2>5 DEF LifeInv
    <2>3. UNCHANGED <<init, conns, dead, cur, kpc, ki, opened, apool, ak>> /\ apc'[a] =
             "closing"
        BY <1>21 DEF CloseDrained
    <2>4. conns \subseteq ak[a] .. (opened[apool[a]] - 1)
        BY <2>2 DEF Entries
    <2> QED
        BY <2>1, <2>3, <2>4 DEF LiveIsOpen, ClosedIsEmpty
<1>22. ASSUME NEW a \in Admins, CloseEntries(a) PROVE ConnInv'
    <2>1. \A b \in Admins : b # a => apc[b] = "idle" /\ apc'[b] = "idle"
        BY <1>22 DEF CloseEntries, CloseOne, AdminReturn, OneAdmin
    <2>2. /\ \A q \in Pools : ~init[q]
          /\ apool[a] \in Pools /\ opened[apool[a]] \in Int /\ ak[a] \in Int
          /\ conns \subseteq ak[a] .. (opened[apool[a]] - 1)
        BY <1>22, NobodyLive, AmountArith DEF CloseEntries
    <2>3. UNCHANGED <<init, opened, dead, kpc, ki>> /\ apc[a] \in {"rollback", "closing"}
        BY <1>22 DEF CloseEntries, CloseOne
    <2>4. CASE CloseOne(a)
        <3>1. UNCHANGED <<apc, apool, cur>> /\ ak'[a] = ak[a] + 1 /\ conns' = conns \
                 {ak[a]}
            BY <2>4 DEF CloseOne
        <3>2. conns' \subseteq ak'[a] .. (opened[apool[a]] - 1)
            <4> HIDE DEF TypeInv, HoldInv, ConnInv
            <4>1. PICK m \in Int : m = ak[a]
                BY <2>2
            <4>2. PICK n \in Int : n = opened[apool[a]] - 1
                BY <2>2
            <4>3. conns \ {m} \subseteq (m + 1) .. n
                BY <2>2, <4>1, <4>2, Shrink
            <4> QED
                BY <3>1, <4>1, <4>2, <4>3
        <3> QED
            BY <2>1, <2>2, <2>3, <3>1, <3>2 DEF LiveIsOpen, ClosedIsEmpty
    <2>5. CASE ~CloseOne(a)
        <3>1. apc'[a] = "idle" /\ conns' = conns /\ ak[a] = opened[apool[a]]
            BY <1>22, <2>5 DEF CloseEntries, AdminReturn
        <3>2. conns' = {}
            BY <2>2, <3>1
        <3> QED
            BY <2>1, <2>2, <2>3, <3>1, <3>2 DEF LiveIsOpen, ClosedIsEmpty
    <2> QED
        BY <2>4, <2>5
<1>23. CASE UNCHANGED vars
    BY <1>23, ConnQuiet DEF vars
<1> QED
    BY <1>1, <1>2, <1>3, <1>4, <1>5, <1>6, <1>7, <1>8, <1>9, <1>10, <1>11, <1>12, <1>13,
       <1>14, <1>15, <1>16, <1>17, <1>18, <1>19, <1>20, <1>21, <1>22, <1>23
       DEF Next, Caller, Keeper, Admin

-----------------------------------------------------------------------------
(* The calls in flight *)

\* A step that leaves the counted calls as they are.
LEMMA CountQuiet ==
    ASSUME CountInv, UNCHANGED inflight, \A p \in Pools : Counted(p)' = Counted(p)
    PROVE  CountInv'
    BY DEF CountInv

\* A step that changes no caller.
LEMMA CallersKept ==
    ASSUME CountInv, UNCHANGED <<inflight, cpc, cpool>>
    PROVE  CountInv'
    BY CountQuiet DEF Counted

\* inflight.Add counts a call that was not counted.
LEMMA CountUp ==
    ASSUME TypeInv, HoldInv, CountInv, NEW c \in Callers, TxrxCount(c)
    PROVE  CountInv'
<1>1. PICK p \in Pools : p = cpool[c]
    BY Constants DEF TypeInv, HoldInv, TxrxCount
<1>2. /\ cpc[c] = "looked" /\ cpc' = [cpc EXCEPT ![c] = "wait"] /\ UNCHANGED cpool
      /\ inflight' = [inflight EXCEPT ![p] = @ + 1]
    BY <1>1 DEF TxrxCount
<1>3. c \notin Counted(p) /\ Counted(p)' = Counted(p) \cup {c}
    BY <1>1, <1>2 DEF TypeInv, Counted
<1>4. \A q \in Pools : q # p => Counted(q)' = Counted(q) /\ inflight'[q] = inflight[q]
    BY <1>1, <1>2 DEF TypeInv, Counted
<1>5. IsFiniteSet(Counted(p)) /\ inflight[p] = Cardinality(Counted(p))
    BY DEF CountInv
<1>6. /\ IsFiniteSet(Counted(p) \cup {c})
      /\ Cardinality(Counted(p) \cup {c}) = Cardinality(Counted(p)) + 1
    BY <1>3, <1>5, FS_AddElement
<1>7. inflight'[p] = inflight[p] + 1
    BY <1>2 DEF TypeInv
<1>8. IsFiniteSet(Counted(p)') /\ inflight'[p] = Cardinality(Counted(p)')
    BY <1>3, <1>5, <1>6, <1>7
<1> QED
    BY <1>4, <1>8 DEF CountInv

\* inflight.Done uncounts a call that was counted.
LEMMA CountDown ==
    ASSUME TypeInv, HoldInv, CountInv, NEW c \in Callers, TxrxReturn(c),
           cpc[c] \in {"wait", "dead", "msg"}
    PROVE  CountInv'
<1>1. PICK p \in Pools : p = cpool[c]
    BY Constants DEF TypeInv, HoldInv
<1>2. /\ cpc' = [cpc EXCEPT ![c] = "idle"] /\ cpool' = [cpool EXCEPT ![c] = None]
      /\ inflight' = [inflight EXCEPT ![p] = @ - 1]
    BY <1>1 DEF TxrxReturn
<1>3. c \in Counted(p) /\ Counted(p)' = Counted(p) \ {c}
    BY <1>1, <1>2, Constants DEF TypeInv, Counted
<1>4. \A q \in Pools : q # p => Counted(q)' = Counted(q) /\ inflight'[q] = inflight[q]
    BY <1>1, <1>2, Constants DEF TypeInv, Counted
<1>5. IsFiniteSet(Counted(p)) /\ inflight[p] = Cardinality(Counted(p))
    BY DEF CountInv
<1>6. /\ IsFiniteSet(Counted(p) \ {c})
      /\ Cardinality(Counted(p) \ {c}) = Cardinality(Counted(p)) - 1
    BY <1>3, <1>5, FS_RemoveElement
<1>7. inflight'[p] = inflight[p] - 1
    BY <1>2 DEF TypeInv
<1>8. IsFiniteSet(Counted(p)') /\ inflight'[p] = Cardinality(Counted(p)')
    BY <1>3, <1>5, <1>6, <1>7
<1> QED
    BY <1>4, <1>8 DEF CountInv

\* Every step keeps inflight equal to the number of counted calls.
LEMMA CountStep ==
    TypeInv /\ HoldInv /\ CountInv /\ [Next]_vars => CountInv'
<1> SUFFICES ASSUME TypeInv, HoldInv, CountInv, [Next]_vars
             PROVE  CountInv'
    OBVIOUS
<1> USE DEF poolVars, callerVars, kaVars, adminVars
<1>1. ASSUME NEW c \in Callers, TxrxLookup(c) PROVE CountInv'
    <2>1. \A p \in Pools : Counted(p)' = Counted(p)
        BY <1>1 DEF TxrxLookup, TypeInv, Counted
    <2> QED
        BY <1>1, <2>1, CountQuiet DEF TxrxLookup
<1>2. ASSUME NEW c \in Callers, TxrxCount(c) PROVE CountInv'
    BY <1>2, CountUp
<1>3. ASSUME NEW c \in Callers, TxrxTake(c) PROVE CountInv'
    <2>1. \A p \in Pools : Counted(p)' = Counted(p)
        BY <1>3 DEF TxrxTake, TypeInv, Counted
    <2> QED
        BY <1>3, <2>1, CountQuiet DEF TxrxTake
<1>4. ASSUME NEW c \in Callers, TxrxStopped(c) PROVE CountInv'
    BY <1>4, CountDown DEF TxrxStopped
<1>5. ASSUME NEW c \in Callers, TxrxPutDead(c) PROVE CountInv'
    <2>1. CASE TxrxReturn(c)
        BY <1>5, <2>1, CountDown DEF TxrxPutDead
    <2>2. CASE ~TxrxReturn(c)
        <3>1. cpc[c] = "dead" /\ cpc' = [cpc EXCEPT ![c] = "wait"] /\ UNCHANGED
                 <<inflight, cpool>>
            BY <1>5, <2>2 DEF TxrxPutDead
        <3>2. \A p \in Pools : Counted(p)' = Counted(p)
            BY <3>1 DEF TypeInv, Counted
        <3> QED
            BY <3>1, <3>2, CountQuiet
    <2> QED
        BY <2>1, <2>2
<1>6. ASSUME NEW c \in Callers, TxrxDone(c) PROVE CountInv'
    BY <1>6, CountDown DEF TxrxDone
<1>7. ASSUME NEW p \in Pools, Silence(p) PROVE CountInv'
    <2>1. UNCHANGED <<inflight, cpc, cpool>>
        BY <1>7 DEF Silence
    <2> QED
        BY <2>1, CallersKept
<1>8. ASSUME NEW p \in Pools, NEW i \in Entries, BackoffEnds(p, i) PROVE CountInv'
    <2>1. UNCHANGED <<inflight, cpc, cpool>>
        BY <1>8 DEF BackoffEnds
    <2> QED
        BY <2>1, CallersKept
<1>9. ASSUME NEW p \in Pools, KaTick(p) PROVE CountInv'
    <2>1. UNCHANGED <<inflight, cpc, cpool>>
        BY <1>9 DEF KaTick
    <2> QED
        BY <2>1, CallersKept
<1>10. ASSUME NEW p \in Pools, KaStop(p) PROVE CountInv'
    <2>1. UNCHANGED <<inflight, cpc, cpool>>
        BY <1>10 DEF KaStop
    <2> QED
        BY <2>1, CallersKept
<1>11. ASSUME NEW p \in Pools, KaSkip(p) PROVE CountInv'
    <2>1. UNCHANGED <<inflight, cpc, cpool>>
        BY <1>11 DEF KaSkip, KaNext, KaWants
    <2> QED
        BY <2>1, CallersKept
<1>12. ASSUME NEW p \in Pools, KaClaim(p) PROVE CountInv'
    <2>1. UNCHANGED <<inflight, cpc, cpool>>
        BY <1>12 DEF KaClaim, KaWants, Take
    <2> QED
        BY <2>1, CallersKept
<1>13. ASSUME NEW p \in Pools, KaWrong(p) PROVE CountInv'
    <2>1. UNCHANGED <<inflight, cpc, cpool>>
        BY <1>13 DEF KaWrong, KaGiveBack, KaNext, Put, Drop, MayPut, MayDrop
    <2> QED
        BY <2>1, CallersKept
<1>14. ASSUME NEW p \in Pools, KaPinged(p) PROVE CountInv'
    <2>1. UNCHANGED <<inflight, cpc, cpool>>
        BY <1>14 DEF KaPinged, Lose, KaGiveBack, KaNext, Put, Drop, MayPut, MayDrop
    <2> QED
        BY <2>1, CallersKept
<1>15. ASSUME NEW p \in Pools, KaReopened(p) PROVE CountInv'
    <2>1. UNCHANGED <<inflight, cpc, cpool>>
        BY <1>15 DEF KaReopened, ConnOpens, ConnFails, Lose, KaGiveBack, KaNext, Put,
           Drop, MayPut, MayDrop
    <2> QED
        BY <2>1, CallersKept
<1>16. ASSUME NEW a \in Admins, OpenBegin(a) PROVE CountInv'
    <2>1. UNCHANGED <<inflight, cpc, cpool>>
        BY <1>16 DEF OpenBegin
    <2> QED
        BY <2>1, CallersKept
<1>17. ASSUME NEW a \in Admins, OpenEntry(a) PROVE CountInv'
    <2>1. UNCHANGED <<inflight, cpc, cpool>>
        BY <1>17 DEF OpenEntry, ConnOpens, ConnFails, Lose
    <2> QED
        BY <2>1, CallersKept
<1>18. ASSUME NEW a \in Admins, Rollback(a) PROVE CountInv'
    <2>1. UNCHANGED <<inflight, cpc, cpool>>
        BY <1>18 DEF Rollback, CloseOne, AdminReturn
    <2> QED
        BY <2>1, CallersKept
<1>19. ASSUME NEW a \in Admins, OpenDone(a) PROVE CountInv'
    <2>1. UNCHANGED <<inflight, cpc, cpool>>
        BY <1>19 DEF OpenDone, AdminReturn
    <2> QED
        BY <2>1, CallersKept
<1>20. ASSUME NEW a \in Admins, CloseBegin(a) PROVE CountInv'
    <2>1. UNCHANGED <<inflight, cpc, cpool>>
        BY <1>20 DEF CloseBegin
    <2> QED
        BY <2>1, CallersKept
<1>21. ASSUME NEW a \in Admins, CloseDrained(a) PROVE CountInv'
    <2>1. UNCHANGED <<inflight, cpc, cpool>>
        BY <1>21 DEF CloseDrained
    <2> QED
        BY <2>1, CallersKept
<1>22. ASSUME NEW a \in Admins, CloseEntries(a) PROVE CountInv'
    <2>1. UNCHANGED <<inflight, cpc, cpool>>
        BY <1>22 DEF CloseEntries, CloseOne, AdminReturn
    <2> QED
        BY <2>1, CallersKept
<1>23. CASE UNCHANGED vars
    BY <1>23, CallersKept DEF vars
<1> QED
    BY <1>1, <1>2, <1>3, <1>4, <1>5, <1>6, <1>7, <1>8, <1>9, <1>10, <1>11, <1>12, <1>13,
       <1>14, <1>15, <1>16, <1>17, <1>18, <1>19, <1>20, <1>21, <1>22, <1>23
       DEF Next, Caller, Keeper, Admin

\* A step that changes no caller, takes no pool's life and ends no draining.
LEMMA LateQuiet ==
    ASSUME LateInv, UNCHANGED <<cpc, cpool, late, init, stop, apc, apool>>
    PROVE  LateInv'
    BY DEF LateInv, Drained

\* A step of a caller that leaves the life of the pools alone.
LEMMA LateCaller ==
    ASSUME TypeInv, LateInv, NEW c \in Callers, UNCHANGED <<init, stop, apc, apool>>,
           \/ /\ cpc' = [cpc EXCEPT ![c] = "idle"] /\ cpool' = [cpool EXCEPT ![c] = None]
              /\ late' = late \ {c}
           \/ /\ \E s \in {"wait", "dead", "msg"} : cpc' = [cpc EXCEPT ![c] = s]
              /\ cpc[c] \in {"wait", "dead", "msg"}
              /\ UNCHANGED <<cpool, late>>
    PROVE  LateInv'
<1>1. \A p : Drained(p)' = Drained(p)
    BY DEF Drained
<1>2. cpc \in [Callers -> {"idle", "looked", "wait", "dead", "msg"}] /\ cpool = [d \in Callers |-> cpool[d]]
    BY DEF TypeInv
<1>3. \A d \in Callers : cpool[d]' \in {cpool[d], None}
    BY <1>2
<1>4. \A d \in Callers : cpc[d]' \in {"wait", "dead", "msg"} /\ d \notin late' =>
          cpc[d] \in {"wait", "dead", "msg"} /\ d \notin late /\ cpool[d]' = cpool[d]
    <2>1. CASE /\ cpc' = [cpc EXCEPT ![c] = "idle"] /\ cpool' = [cpool EXCEPT ![c] = None]
               /\ late' = late \ {c}
        BY <1>2, <2>1
    <2>2. CASE /\ \E s \in {"wait", "dead", "msg"} : cpc' = [cpc EXCEPT ![c] = s]
               /\ cpc[c] \in {"wait", "dead", "msg"}
               /\ UNCHANGED <<cpool, late>>
        BY <1>2, <2>2
    <2> QED
        BY <2>1, <2>2
<1>5. \A d \in Callers : cpool[d]' # None => init[cpool[d]]' \/ stop[cpool[d]]'
    BY <1>3 DEF LateInv
<1>6. \A d \in Callers \ late' : cpc[d]' \in {"wait", "dead", "msg"} => ~Drained(cpool[d])'
    BY <1>1, <1>4 DEF LateInv
<1> QED
    BY <1>5, <1>6 DEF LateInv

\* Every step keeps track of the calls that a close did not wait for: a close ends its
\* draining only when inflight is zero.
LEMMA LateStep ==
    TypeInv /\ HoldInv /\ CountInv /\ LateInv /\ [Next]_vars => LateInv'
<1> SUFFICES ASSUME TypeInv, HoldInv, CountInv, LateInv, [Next]_vars
             PROVE  LateInv'
    OBVIOUS
<1> USE DEF poolVars, callerVars, kaVars, adminVars
<1>1. ASSUME NEW c \in Callers, TxrxLookup(c) PROVE LateInv'
    <2>1. \A p : Drained(p)' = Drained(p)
        BY <1>1 DEF TxrxLookup, Drained
    <2> QED
        BY <1>1, <2>1 DEF TxrxLookup, TypeInv, LateInv
<1>2. ASSUME NEW c \in Callers, TxrxCount(c) PROVE LateInv'
    <2>1. \A p : Drained(p)' = Drained(p)
        BY <1>2 DEF TxrxCount, Drained
    <2> QED
        BY <1>2, <2>1 DEF TxrxCount, TypeInv, LateInv
<1>3. ASSUME NEW c \in Callers, TxrxTake(c) PROVE LateInv'
    BY <1>3, LateCaller DEF TxrxTake
<1>4. ASSUME NEW c \in Callers, TxrxStopped(c) PROVE LateInv'
    BY <1>4, LateCaller DEF TxrxStopped, TxrxReturn
<1>5. ASSUME NEW c \in Callers, TxrxPutDead(c) PROVE LateInv'
    <2>1. UNCHANGED <<init, stop, apc, apool>> /\ cpc[c] = "dead"
        BY <1>5 DEF TxrxPutDead
    <2>2. CASE TxrxReturn(c)
        BY <2>1, <2>2, LateCaller DEF TxrxReturn
    <2>3. CASE ~TxrxReturn(c)
        <3>1. cpc' = [cpc EXCEPT ![c] = "wait"] /\ UNCHANGED <<cpool, late>>
            BY <1>5, <2>3 DEF TxrxPutDead
        <3> QED
            BY <2>1, <3>1, LateCaller
    <2> QED
        BY <2>2, <2>3
<1>6. ASSUME NEW c \in Callers, TxrxDone(c) PROVE LateInv'
    BY <1>6, LateCaller DEF TxrxDone, TxrxReturn
<1>7. ASSUME NEW p \in Pools, Keeper(p) \/ Silence(p) \/ \E i \in Entries : BackoffEnds(p, i)
      PROVE  LateInv'
    <2>1. UNCHANGED <<cpc, cpool, late, init, stop, apc, apool>>
        BY <1>7 DEF Keeper, KaTick, KaStop, KaSkip, KaClaim, KaWrong, KaPinged, KaReopened,
           Silence, BackoffEnds
    <2> QED
        BY <2>1, LateQuiet
<1>8. ASSUME NEW a \in Admins, OpenBegin(a) \/ OpenEntry(a) \/ Rollback(a) \/ OpenDone(a)
                               \/ CloseEntries(a)
      PROVE  LateInv'
    <2>1. UNCHANGED <<cpc, cpool, late, stop>> /\ \A p \in Pools : init[p] => init'[p]
        BY <1>8 DEF OpenBegin, OpenEntry, Rollback, OpenDone, CloseEntries, CloseOne, AdminReturn,
           TypeInv
    <2>2. \A b \in Admins : apc[b] = "draining" => apc'[b] = apc[b] /\ apool'[b] = apool[b]
        BY <1>8 DEF OpenBegin, OpenEntry, Rollback, OpenDone, CloseEntries, CloseOne, AdminReturn,
           TypeInv
    <2>3. \A p : Drained(p)' => Drained(p)
        BY <2>1, <2>2 DEF Drained
    <2> QED
        BY <2>1, <2>3, Constants DEF LateInv, TypeInv
<1>9. ASSUME NEW a \in Admins, CloseBegin(a) PROVE LateInv'
    <2>1. /\ UNCHANGED <<cpc, cpool, late>> /\ cur \in Pools
          /\ init' = [init EXCEPT ![cur] = FALSE] /\ stop' = [stop EXCEPT ![cur] = TRUE]
          /\ apool' = [apool EXCEPT ![a] = cur] /\ apc' = [apc EXCEPT ![a] = "draining"]
          /\ apc[a] = "idle"
        BY <1>9 DEF CloseBegin, TypeInv
    <2>2. \A p \in Pools : p = cur => ~Drained(p)'
        <3>1. apool'[a] = cur /\ apc'[a] = "draining" /\ cur # None
            BY <1>9, <2>1 DEF CloseBegin, TypeInv
        <3> QED
            BY <3>1 DEF Drained
    <2>3. \A p \in Pools : Drained(p)' => Drained(p)
        BY <2>1, <2>2 DEF Drained, TypeInv
    <2>4. \A c \in Callers : cpool[c] # None => init'[cpool[c]] \/ stop'[cpool[c]]
        BY <2>1 DEF LateInv, TypeInv
    <2>5. \A c \in Callers \ late : cpc[c] \in {"wait", "dead", "msg"} => cpool[c] \in Pools
        BY Constants DEF HoldInv, TypeInv
    <2> QED
        BY <2>1, <2>3, <2>4, <2>5 DEF LateInv
<1>10. ASSUME NEW a \in Admins, CloseDrained(a) PROVE LateInv'
    <2>1. UNCHANGED <<cpc, cpool, late, init, stop, apool>> /\ apc[a] = "draining"
          /\ apc' = [apc EXCEPT ![a] = "closing"] /\ inflight[apool[a]] = 0
        BY <1>10 DEF CloseDrained
    <2>2. apool[a] \in Pools
        BY <2>1, Constants DEF TypeInv, HoldInv
    <2>3. \A c \in Callers : cpool[c] = apool[a] => cpc[c] \notin {"wait", "dead", "msg"}
        <3>1. Counted(apool[a]) = {}
            BY <2>1, <2>2, FS_EmptySet DEF CountInv
        <3> QED
            BY <3>1 DEF Counted
    <2>4. \A p : p # apool[a] /\ Drained(p)' => Drained(p)
        BY <2>1 DEF Drained, TypeInv
    <2> QED
        BY <2>1, <2>3, <2>4 DEF LateInv
<1>11. CASE UNCHANGED vars
    BY <1>11, LateQuiet DEF vars
<1> QED
    BY <1>1, <1>2, <1>3, <1>4, <1>5, <1>6, <1>7, <1>8, <1>9, <1>10, <1>11
       DEF Next, Caller, Admin

\* A queue with no index twice has at most Size elements, and holds an index once or
\* not at all.
LEMMA DistinctQueue ==
    ASSUME NEW s \in Seq(Entries), Distinct(s)
    PROVE  /\ Len(s) <= Size
           /\ \A i \in Entries : Cardinality({n \in DOMAIN s : s[n] = i}) =
                                    IF i \in Elems(s) THEN 1 ELSE 0
<1>1. Len(s) \in Nat /\ DOMAIN s = 1 .. Len(s) /\ \A n \in 1 .. Len(s) : s[n] \in Entries
    BY ElementOfSeq, LenProperties
<1>2. Len(s) <= Size
    <2>1. s \in Injection(1 .. Len(s), Entries)
        BY <1>1 DEF Distinct, Injection, IsInjective
    <2>2. IsFiniteSet(Entries) /\ Cardinality(Entries) = Size
        BY FS_Interval, QPoolAssumption DEF Entries
    <2>3. Cardinality(1 .. Len(s)) = Len(s)
        <3>1. \A n \in Nat : Cardinality(1 .. n) = n
            BY FS_Interval, Z3
        <3> QED
            BY <1>1, <3>1
    <2> QED
        BY <2>1, <2>2, <2>3, FS_Injection
<1>3. ASSUME NEW i \in Entries
      PROVE  Cardinality({n \in DOMAIN s : s[n] = i}) = IF i \in Elems(s) THEN 1 ELSE 0
    <2>1. CASE i \in Elems(s)
        <3>1. PICK m \in DOMAIN s : s[m] = i
            BY <2>1 DEF Elems
        <3>2. {n \in DOMAIN s : s[n] = i} = {m}
            BY <3>1 DEF Distinct
        <3> QED
            BY <2>1, <3>2, FS_Singleton
    <2>2. CASE i \notin Elems(s)
        <3>1. {n \in DOMAIN s : s[n] = i} = {}
            BY <2>2 DEF Elems
        <3> QED
            BY <2>2, <3>1, FS_EmptySet
    <2> QED
        BY <2>1, <2>2
<1> QED
    BY <1>2, <1>3

-----------------------------------------------------------------------------
(* The theorems *)

\* At most one pool is live or being drained, so two calls that are not late, or one
\* and the keepalive thread, are of one pool.
LEMMA OnePoolInUse ==
    ASSUME TypeInv, HoldInv, LifeInv, LateInv, OneAdmin,
           NEW c \in Callers \ late, cidx[c] # None
    PROVE  /\ ~Drained(cpool[c])
           /\ \A d \in Callers \ late : cidx[d] # None => cpool[d] = cpool[c]
           /\ \A p \in Pools : kgot[p] # None => p = cpool[c]
<1> DEFINE Lives(p) == p \in Pools /\ (init[p] \/ \E a \in Admins : apool[a] = p /\ apc[a] = "draining")
<1>1. ASSUME NEW d \in Callers \ late, cidx[d] # None
      PROVE  ~Drained(cpool[d]) /\ Lives(cpool[d])
    <2>1. cpc[d] \in {"wait", "dead", "msg"} /\ cpool[d] # None
        BY <1>1 DEF HoldInv
    <2>2. ~Drained(cpool[d]) /\ (init[cpool[d]] \/ stop[cpool[d]])
        BY <2>1 DEF LateInv
    <2> QED
        BY <2>1, <2>2 DEF Drained, TypeInv
<1>2. ASSUME NEW p, NEW q, Lives(p), Lives(q)
      PROVE  p = q
    <2>1. CASE init[p]
        BY <1>2, <2>1, Constants DEF LifeInv
    <2>2. CASE init[q]
        BY <1>2, <2>2, Constants DEF LifeInv
    <2>3. CASE ~init[p] /\ ~init[q]
        <3>1. PICK a \in Admins : apool[a] = p /\ apc[a] = "draining"
            BY <1>2, <2>3
        <3>2. PICK b \in Admins : apool[b] = q /\ apc[b] = "draining"
            BY <1>2, <2>3
        <3> QED
            BY <3>1, <3>2 DEF OneAdmin
    <2> QED
        BY <2>1, <2>2, <2>3
<1>3. ASSUME NEW p \in Pools, kgot[p] # None
      PROVE  Lives(p)
    BY <1>3 DEF HoldInv, LifeInv
<1> HIDE DEF Lives
<1> QED
    BY <1>1, <1>2, <1>3

\* The invariants give the type correctness the run checks, the conservation, and
\* that only late calls share a connection.
LEMMA Conserved ==
    ASSUME TypeInv, HoldInv, LifeInv, PlaceInv, CountInv, LateInv, OneAdmin
    PROVE  IndexConserved
<1>1. TypeOK
    <2>1. \A p \in Pools : free[p] \in Seq(Entries) /\ Len(free[p]) <= Size
        BY DistinctQueue DEF TypeInv, PlaceInv
    <2>2. \A p \in Pools : inflight[p] \in Nat
        BY FS_CardinalityType DEF CountInv
    <2>3. inflight \in [Pools -> Nat]
        BY <2>2 DEF TypeInv
    <2> QED
        BY <2>1, <2>3 DEF TypeInv, TypeOK, Amounts, Entries
<1>2. ASSUME NEW p \in Pools, NEW i \in Entries
      PROVE  LET places == Cardinality({n \in DOMAIN free[p] : free[p][n] = i})
                           + Cardinality(CallersWith(p, i))
                           + (IF kgot[p] = i THEN 1 ELSE 0)
             IN places <= 1 /\ (init[p] => places = 1)
    <2>1. Cardinality({n \in DOMAIN free[p] : free[p][n] = i}) = IF i \in Queued(p) THEN
             1 ELSE 0
        BY DistinctQueue DEF TypeInv, PlaceInv, Queued
    <2>2. CASE \E c \in Callers : cpool[c] = p /\ cidx[c] = i
        <3>1. PICK c \in Callers : cpool[c] = p /\ cidx[c] = i
            BY <2>2
        <3>2. CallersWith(p, i) = {c}
            BY <3>1, Constants DEF CallersWith, PlaceInv
        <3>3. Cardinality(CallersWith(p, i)) = 1
            BY <3>2, FS_Singleton
        <3>4. i \notin Queued(p) /\ kgot[p] # i
            BY <3>1, Constants DEF PlaceInv
        <3> QED
            BY <2>1, <3>3, <3>4
    <2>3. CASE ~\E c \in Callers : cpool[c] = p /\ cidx[c] = i
        <3>1. CallersWith(p, i) = {}
            BY <2>3 DEF CallersWith
        <3>2. Cardinality(CallersWith(p, i)) = 0
            BY <3>1, FS_EmptySet
        <3>3. ~(i \in Queued(p) /\ kgot[p] = i)
            BY DEF PlaceInv
        <3>4. init[p] => i \in Queued(p) \/ kgot[p] = i
            BY <2>3 DEF PlaceInv
        <3> QED
            BY <2>1, <3>2, <3>3, <3>4
    <2> QED
        BY <2>2, <2>3
<1>3. ASSUME NEW c \in Callers \ late, cidx[c] # None
      PROVE  /\ ~Drained(cpool[c])
             /\ \A d \in Callers \ late : cidx[d] = cidx[c] => d = c
             /\ \A p \in Pools : kgot[p] # cidx[c]
    <2>1. /\ ~Drained(cpool[c])
          /\ \A d \in Callers \ late : cidx[d] # None => cpool[d] = cpool[c]
          /\ \A p \in Pools : kgot[p] # None => p = cpool[c]
        BY <1>3, OnePoolInUse
    <2>2. cpool[c] \in Pools
        <3>1. cpc[c] \in {"dead", "msg"}
            BY <1>3 DEF HoldInv
        <3>2. cpool[c] # None
            BY <3>1 DEF HoldInv
        <3> QED
            BY <3>2 DEF TypeInv
    <2> QED
        BY <1>3, <2>1, <2>2 DEF PlaceInv
<1> QED
    BY <1>1, <1>2, <1>3 DEF IndexConserved

\* The inductive invariant.
IndInv == TypeInv /\ HoldInv /\ LifeInv /\ PlaceInv /\ ConnInv /\ CountInv
          /\ LateInv

\* The inductive invariant holds initially.
LEMMA InitInv == Init => IndInv
<1> SUFFICES ASSUME Init
             PROVE  IndInv
    OBVIOUS
<1> USE Constants DEF Init
<1>1. TypeInv
    <2>1. /\ <<>> \in Seq(Entries)
          /\ 0 \in 0 .. MaxOpens /\ 0 \in 0 .. MaxCalls /\ 0 \in 0 .. MaxFaults
        BY QPoolAssumption, EmptySeq
    <2> QED
        BY <2>1 DEF TypeInv
<1>2. HoldInv
    BY DEF HoldInv
<1>3. LifeInv
    BY QPoolAssumption DEF LifeInv, Fresh
<1>4. PlaceInv
    BY DEF PlaceInv, Distinct, Queued, Elems
<1>5. ConnInv
    BY DEF ConnInv, LiveIsOpen, ClosedIsEmpty
<1>6. CountInv
    <2>1. \A p \in Pools : Counted(p) = {}
        BY DEF Counted
    <2> QED
        BY <2>1, FS_EmptySet DEF CountInv
<1>7. LateInv
    BY DEF LateInv
<1> QED
    BY <1>1, <1>2, <1>3, <1>4, <1>5, <1>6, <1>7 DEF IndInv

\* Every step keeps it, if no two admins are active before and after.
LEMMA IndStep == IndInv /\ OneAdmin /\ OneAdmin' /\ [Next]_vars => IndInv'
    BY TypeStep, HoldStep, LifeStep, PlaceStep, ConnStep, CountStep, LateStep DEF IndInv

\* So it holds throughout any execution in which opens and closes do not overlap.
LEMMA Invariance == Spec /\ []OneAdmin => []IndInv
    BY InitInv, IndStep, PTL DEF Spec

\* No index is lost or duplicated: in a live pool every index is at exactly one of
\* the queue, a caller and the keepalive thread, for any number of callers and
\* entries, whichever of stop and the queue Go's select takes, so a put never blocks
\* on a full queue.  And of all the calls of all the pools of a slot, which use the
\* same handles, only those that counted themselves in after the close of their pool
\* had drained (pool.go:158-165) use a connection beside another thread.
THEOREM IndexIsConserved == Spec /\ []OneAdmin => []IndexConserved
<1>1. IndInv /\ OneAdmin => IndexConserved
    BY Conserved DEF IndInv
<1> QED
    BY <1>1, Invariance, PTL

\* A live entry of a live pool has its connection in the table: reopens of the
\* keepalive thread and closes of an earlier pool, which uses the same app_handles,
\* take none away from it.
THEOREM LiveEntryIsOpen == Spec /\ []OneAdmin => []LiveIsOpen
<1>1. IndInv => LiveIsOpen
    BY DEF IndInv, ConnInv
<1> QED
    BY <1>1, Invariance, PTL

\* After a close or a rolled-back open nothing of the pool is left in the table: the
\* keepalive thread is gone before the connections are closed, so it reopens none
\* after.
THEOREM ClosedPoolIsEmpty == Spec /\ []OneAdmin => []ClosedIsEmpty
<1>1. IndInv => ClosedIsEmpty
    BY DEF IndInv, ConnInv
<1> QED
    BY <1>1, Invariance, PTL
=============================================================================
