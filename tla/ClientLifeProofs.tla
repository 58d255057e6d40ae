-------------------------- MODULE ClientLifeProofs --------------------------
(***************************************************************************)
(* Proofs about the life of a client and its tag caches, for any number of *)
(* threads, databases, paths, handles and caches, any tag tables and any   *)
(* number of restarts of bpServer.                                         *)
(*                                                                         *)
(* The properties are not inductive by themselves.  They rest on which     *)
(* incarnation the client is attached to (LifeInv), on what a cache is     *)
(* (CacheInv), on what a thread inside a call works on (WalkInv), on       *)
(* handles naming the databases they were created for (HandleInv), on the  *)
(* tables behind databases, caches and lookups agreeing (FreshInv), on     *)
(* what a lookup has passed (PassedInv) and on who pays for what is left   *)
(* at the engine (CostInv).                                                *)
(***************************************************************************)
EXTENDS ClientLife, FiniteSetTheorems, SequenceTheorems, TLAPS

-----------------------------------------------------------------------------
(* The inductive invariant *)

\* What a cache and the locals of a thread are.
CacheType == [path : Paths \cup {None}, epoch : Nat, gen : Gens \cup {0}, cap : Nat,
              total : Nat, known : Seq(Symbols)]
WalkType == [db : Dbs \cup {None}, want : Names \cup {None}, c : Caches \cup {0}, idx : Nat,
             got : Symbols \cup {None}]

\* The program counters and locals of the threads.
ThreadTypes ==
    /\ pc \in [Threads -> {"idle", "missed", "scan", "ipc", "append", "reset"}]
    /\ walk \in [Threads -> WalkType]

\* All variables: the types the proofs work with, a little more than TypeOK says.
TypeInv ==
    /\ epoch \in Int /\ attached \in Nat /\ stale \subseteq Dbs
    /\ raced \in BOOLEAN /\ crossed \in BOOLEAN
    /\ gen \in Gens
    /\ engine \in [Handles -> Contents \cup {None}]
    /\ handle \in [Dbs -> Handles \cup {0}]
    /\ caches \in [Caches -> CacheType]
    /\ ThreadTypes
    /\ ops \in 0 .. MaxOps /\ faults \in 0 .. MaxFaults
    /\ client \in {"open", "broken", "closed", "crashed"}
    /\ pools \in [PoolSlots -> 0 .. MaxEpochs]
    /\ held \in BOOLEAN /\ sessions \in Nat /\ strays \in Nat
    /\ lops \in 0 .. MaxLife

\* A database of this incarnation that the client has open.
Open(d) == handle[d] # 0 /\ d \notin stale

\* A thread inside a lookup or a preload; one that has gone to the engine; a thread
\* inside a build.
Walking(t) == pc[t] \in {"scan", "ipc", "append"}
Asking(t) == pc[t] \in {"ipc", "append"}
Building(t) == pc[t] = "reset"

\* The client and the incarnations of bpServer.
LifeInv ==
    /\ epoch # 0 /\ -MaxEpochs <= epoch /\ epoch <= MaxEpochs
    /\ attached <= epoch \/ attached <= -epoch
    /\ client = "open" <=> attached # 0
    /\ client # "open" => \A t \in Threads : ~Walking(t) /\ ~Building(t)
    /\ client = "open" /\ ~reach => \A h \in Handles : engine[h] = None
    /\ \A d \in stale : handle[d] # 0
    /\ \A s \in PoolSlots : pools[s] \in {0, attached}

\* The caches, whatever threads fill and empty them.
CacheInv ==
    /\ \A c \in Caches : /\ Len(caches[c].known) <= caches[c].cap
                         /\ caches[c].cap \in {0, caches[c].total}
                         /\ caches[c].path = None => caches[c] = NoCache
    /\ \A c, e \in Caches : caches[c].path = caches[e].path => c = e \/ caches[c].path = None
    /\ \A c \in Caches : caches[c].cap > 0 =>
          /\ caches[c].epoch = attached
          /\ caches[c].gen \in Gens /\ caches[c].total = Len(Tables[caches[c].gen])
    /\ \A c \in Caches : \A i \in 1 .. Len(caches[c].known) : caches[c].known[i].idx = i

\* What a thread inside a lookup, a preload or a build works on.
WalkInv ==
    /\ \A t \in Threads : Walking(t) \/ Building(t) =>
          /\ walk[t].db \in Dbs /\ handle[walk[t].db] # 0
          /\ reach => walk[t].db \notin stale
    /\ \A t \in Threads : Walking(t) =>
          walk[t].c \in Caches /\ caches[walk[t].c].path = PathOf[walk[t].db]
    /\ \A t \in Threads : Asking(t) => walk[t].idx >= 1
    /\ \A t \in Threads : Building(t) => walk[t].idx \in Gens
    /\ \A t \in Threads : pc[t] = "append" => walk[t].got \in Symbols /\ walk[t].got.idx = walk[t].idx

\* Handles name the databases they were created for, unless a stale one was closed; so
\* symbols are of the path they were asked for, in the walks and in the caches.
DbsNamed ==
    /\ \A d \in Dbs : Open(d) => /\ engine[handle[d]] # None
                                 /\ engine[handle[d]].path = PathOf[d]
    /\ \A d, e \in Dbs : Open(d) /\ Open(e) /\ handle[d] = handle[e] => d = e
GotNamed == \A t \in Threads : pc[t] = "append" => walk[t].got.path = PathOf[walk[t].db]
KnownNamed ==
    \A c \in Caches : \A i \in 1 .. Len(caches[c].known) : caches[c].known[i].path = caches[c].path
Named == DbsNamed /\ GotNamed /\ KnownNamed
HandleInv == ~crossed => Named

\* The tables behind databases, caches and lookups agree, unless something raced:
\* a build is alone with its path, and what it finds there is empty or as new as its own
\* table; so are the databases of a cache that nobody is about to empty.
OneBuilder ==
    \A t, u \in Threads : /\ Building(t) /\ (Asking(u) \/ Building(u))
                          /\ PathOf[walk[t].db] = PathOf[walk[u].db]
                          => t = u
BuildNewest ==
    \A t \in Threads : Building(t) =>
        \A d \in Dbs : Open(d) /\ PathOf[d] = PathOf[walk[t].db]
                          => engine[handle[d]].gen \in {0, walk[t].idx}
CacheNewest ==
    \A c \in Caches : \A d \in Dbs :
        /\ caches[c].cap > 0 /\ Open(d) /\ PathOf[d] = caches[c].path
        /\ \A t \in Threads : Building(t) => PathOf[walk[t].db] # caches[c].path
        => engine[handle[d]].gen \in {0, caches[c].gen}
AskingFilled == \A t \in Threads : Asking(t) => caches[walk[t].c].cap > 0
GotFresh == \A t \in Threads : pc[t] = "append" => walk[t].got.gen = caches[walk[t].c].gen
KnownFresh ==
    \A c \in Caches : \A i \in 1 .. Len(caches[c].known) : caches[c].known[i].gen = caches[c].gen
Fresh == /\ OneBuilder /\ BuildNewest /\ CacheNewest
         /\ AskingFilled /\ GotFresh /\ KnownFresh
FreshInv == ~raced /\ ~crossed => Fresh

\* What a lookup has passed has another name.
PassedBy(w, known) ==
    /\ w.idx <= Len(known) + 1
    /\ \A k \in 1 .. Len(known) : k < w.idx => w.want = None \/ NameOf(known[k]) # w.want
Passed == \A t \in Threads : Asking(t) => PassedBy(walk[t], caches[walk[t].c].known)
PassedInv == ~raced /\ ~crossed => Passed

\* Handles of databases that no bp_tagdb_t names.
Lost == {h \in Handles : engine[h] # None} \ {handle[d] : d \in Dbs}

\* Every one of them cost a failure; every session a stray, or the caller holds it.
CostInv ==
    /\ Cardinality(Lost) <= faults
    /\ sessions <= strays + (IF held THEN 1 ELSE 0)

\* All of it.
IndInv == /\ TypeInv /\ LifeInv /\ CacheInv /\ WalkInv
          /\ HandleInv /\ FreshInv /\ PassedInv /\ CostInv

-----------------------------------------------------------------------------
(* The constants and the records *)

\* None, 0 and the empty records are where the definitions need them.
LEMMA Constants ==
    /\ None \notin Paths /\ None \notin Contents /\ None \notin Names
    /\ 0 \notin Handles /\ 0 \notin Caches /\ 0 \notin Gens
    /\ \A d \in Dbs : PathOf[d] \in Paths
    /\ 1 \in Gens /\ Gens \subseteq Nat /\ Caches \subseteq Nat
    /\ \A g \in Gens : Tables[g] \in Seq(Names) /\ Len(Tables[g]) \in Nat
    /\ NoWalk \in WalkType /\ NoCache \in CacheType
<1>1. Len(Tables) \in Nat /\ Len(Tables) >= 1
    BY TagCacheAssumption, LenProperties, EmptySeq
<1>2. \A g \in Gens : Tables[g] \in Seq(Names)
    BY TagCacheAssumption, ElementOfSeq DEF Gens
<1>3. \A s \in Seq(Names) : Len(s) \in Nat
    BY LenProperties
<1>4. << >> \in Seq(Symbols)
    BY EmptySeq
<1>5. NoWalk \in WalkType /\ NoCache \in CacheType
    BY <1>4 DEF NoWalk, WalkType, NoCache, CacheType
<1> QED
    BY <1>1, <1>2, <1>3, <1>5, TagCacheAssumption DEF Paths, Handles, Caches, Gens

\* The fields of a cache.
LEMMA CacheFields ==
    ASSUME NEW c \in CacheType
    PROVE  /\ c.path \in Paths \cup {None} /\ c.epoch \in Nat /\ c.gen \in Gens \cup {0}
           /\ c.cap \in Nat /\ c.total \in Nat /\ c.known \in Seq(Symbols)
           /\ Len(c.known) \in Nat
<1>1. c.known \in Seq(Symbols)
    BY DEF CacheType
<1>2. Len(c.known) \in Nat
    BY <1>1, LenProperties
<1> QED
    BY <1>1, <1>2 DEF CacheType

\* The fields of a thread's locals.
LEMMA WalkFields ==
    ASSUME NEW w \in WalkType
    PROVE  /\ w.db \in Dbs \cup {None} /\ w.want \in Names \cup {None}
           /\ w.c \in Caches \cup {0} /\ w.idx \in Nat /\ w.got \in Symbols \cup {None}
    BY DEF WalkType

\* The fields of a symbol.
LEMMA SymbolFields ==
    ASSUME NEW s \in Symbols
    PROVE  s.path \in Paths /\ s.gen \in Gens /\ s.idx \in Nat /\ s.idx >= 1
    BY DEF Symbols

\* The fields of a database the engine keeps.
LEMMA ContentFields ==
    ASSUME NEW e \in Contents
    PROVE  e.path \in Paths /\ e.gen \in Gens \cup {0}
    BY DEF Contents

\* The other threads go on as they were.
OthersKept(t) == \A u \in Threads : u # t => pc'[u] = pc[u] /\ walk'[u] = walk[u]

\* A thread that leaves its call rests.
LEMMA Leaves ==
    ASSUME ThreadTypes, NEW t \in Threads, NEW s \in {"idle", "missed"}, Leave(t, s)
    PROVE  pc'[t] = s /\ OthersKept(t) /\ ThreadTypes'
    BY Constants DEF Leave, Goto, ThreadTypes, OthersKept

\* More: the thread goes to the engine for the next symbol, or gives up.
Asks(t, c) ==
    /\ Len(c.known) < c.total
    /\ pc'[t] = "ipc"
    /\ walk'[t].db = walk[t].db /\ walk'[t].want = walk[t].want /\ walk'[t].c = walk[t].c
    /\ walk'[t].idx = Len(c.known) + 1
    /\ raced' = (raced \/ BuildersOf(c.path) # {})
GivesUp(t, c) ==
    /\ ~(Len(c.known) < c.total)
    /\ pc'[t] = IF walk[t].want = None THEN "idle" ELSE "missed"
    /\ raced' = raced

\* The two ways out of a scan that found nothing.
LEMMA Mores ==
    ASSUME ThreadTypes, NEW t \in Threads, NEW c \in CacheType, More(t, c)
    PROVE  (Asks(t, c) \/ GivesUp(t, c)) /\ OthersKept(t) /\ ThreadTypes'
<1>1. CASE Len(c.known) < c.total
    <2>1. PICK w \in WalkType : w = walk[t]
        BY DEF ThreadTypes
    <2>2. PICK n \in Nat : n = Len(c.known) + 1
        BY CacheFields
    <2>3. /\ pc' = [pc EXCEPT ![t] = "ipc"]
          /\ walk' = [walk EXCEPT ![t] = [w EXCEPT !.idx = n, !.got = None]]
          /\ raced' = (raced \/ BuildersOf(c.path) # {})
        BY <1>1, <2>1, <2>2 DEF More, Goto, ThreadTypes
    <2>4. [w EXCEPT !.idx = n, !.got = None] \in WalkType
        BY DEF WalkType
    <2>5. /\ [w EXCEPT !.idx = n, !.got = None].db = w.db
          /\ [w EXCEPT !.idx = n, !.got = None].want = w.want
          /\ [w EXCEPT !.idx = n, !.got = None].c = w.c
          /\ [w EXCEPT !.idx = n, !.got = None].idx = n
        BY DEF WalkType
    <2> QED
        BY <1>1, <2>1, <2>2, <2>3, <2>4, <2>5 DEF Asks, OthersKept, ThreadTypes
<1>2. CASE ~(Len(c.known) < c.total)
    <2>1. PICK s \in {"idle", "missed"} : s = IF walk[t].want = None THEN "idle" ELSE "missed"
        OBVIOUS
    <2>2. Leave(t, s) /\ raced' = raced
        BY <1>2, <2>1 DEF More
    <2>3. pc'[t] = s /\ OthersKept(t) /\ ThreadTypes'
        BY <2>2, Leaves
    <2> QED
        BY <1>2, <2>1, <2>2, <2>3 DEF GivesUp
<1> QED
    BY <1>1, <1>2

\* AppendSymbol: what the cache becomes.
LEMMA Keeps ==
    ASSUME NEW c \in CacheType, NEW t \in Threads, ThreadTypes, walk[t].got \in Symbols
    PROVE  /\ Kept(t, c) \in CacheType
           /\ Kept(t, c).path = c.path /\ Kept(t, c).epoch = c.epoch /\ Kept(t, c).gen = c.gen
           /\ Kept(t, c).cap = c.cap /\ Kept(t, c).total = c.total
           /\ \/ Kept(t, c).known = c.known
              \/ /\ Len(c.known) < c.cap /\ walk[t].idx = Len(c.known) + 1
                 /\ Kept(t, c).known = Append(c.known, walk[t].got)
<1>1. Append(c.known, walk[t].got) \in Seq(Symbols)
    BY CacheFields, AppendProperties
<1>2. PICK s \in Seq(Symbols) : s = Append(c.known, walk[t].got)
    BY <1>1
<1>3. [c EXCEPT !.known = s] \in CacheType
    BY DEF CacheType
<1>4. /\ [c EXCEPT !.known = s].path = c.path /\ [c EXCEPT !.known = s].epoch = c.epoch
      /\ [c EXCEPT !.known = s].gen = c.gen /\ [c EXCEPT !.known = s].cap = c.cap
      /\ [c EXCEPT !.known = s].total = c.total /\ [c EXCEPT !.known = s].known = s
    BY DEF CacheType
<1> QED
    BY <1>2, <1>3, <1>4 DEF Kept

-----------------------------------------------------------------------------
(* What the actions do *)

\* The bounded counters stay in their bounds.
LEMMA Counters ==
    ASSUME TypeInv
    PROVE  /\ \A t \in Threads : Begin(t) => ops' \in 0 .. MaxOps
           /\ Fault \/ CallFails \/ UNCHANGED faults => faults' \in 0 .. MaxFaults
           /\ Spend => lops' \in 0 .. MaxLife
    BY TagCacheAssumption, ClientLifeAssumption
       DEF TypeInv, Begin, Fault, CallFails, Spend

\* The caches that may serve a path: the one it has, or a free one.
LEMMA Serving ==
    ASSUME TypeInv, CacheInv, NEW p \in Paths
    PROVE  /\ \A c \in CachesFor(p) : c \in Caches /\ caches[c].path \in {p, None}
           /\ \A c \in CachesFor(p) : \A e \in Caches : caches[e].path = p => e = c
           /\ CachesFor(p) = {} => \A e \in Caches : caches[e].path # p
<1>1. CASE {c \in Caches : caches[c].path = p} # {}
    BY <1>1, Constants DEF CachesFor, CacheInv
<1>2. CASE {c \in Caches : caches[c].path = p} = {}
    BY <1>2 DEF CachesFor
<1> QED
    BY <1>1, <1>2

\* bp_tagdb_open: the database is there and named, there and unnamed (calloc failed),
\* or not there.
LEMMA OpenDbEffect ==
    ASSUME TypeInv, NEW t \in Threads, NEW d \in Dbs, OpenDb(t, d)
    PROVE  /\ pc'[t] = "idle" /\ OthersKept(t) /\ ThreadTypes'
           /\ handle[d] = 0 /\ UNCHANGED <<lifeVars, gen, caches, raced>>
           /\ \/ UNCHANGED <<engine, handle>>
              \/ \E h \in Handles :
                    /\ reach /\ engine[h] = None
                    /\ engine' = [engine EXCEPT ![h] = [path |-> PathOf[d], gen |-> 0]]
                    /\ \/ handle' = [handle EXCEPT ![d] = h] /\ UNCHANGED faults
                       \/ handle' = handle /\ Fault
           /\ Fault \/ CallFails \/ UNCHANGED faults
<1>1. Leave(t, "idle")
    BY DEF OpenDb, Return
<1>2. pc'[t] = "idle" /\ OthersKept(t) /\ ThreadTypes'
    BY <1>1, Leaves DEF TypeInv
<1> QED
    BY <1>2 DEF OpenDb

\* bp_tagdb_close: the object goes, with the engine's database if the call gets
\* through.
LEMMA CloseDbEffect ==
    ASSUME TypeInv, NEW t \in Threads, NEW d \in Dbs, CloseDb(t, d)
    PROVE  /\ pc'[t] = "idle" /\ OthersKept(t) /\ ThreadTypes'
           /\ UNCHANGED <<epoch, attached, gen, caches, raced>>
           /\ handle[d] \in Handles /\ handle' = [handle EXCEPT ![d] = 0]
           /\ \A u \in Threads : walk[u].db # d
           /\ stale' = stale \ {d}
           /\ \/ /\ reach /\ engine' = [engine EXCEPT ![handle[d]] = None]
                 /\ crossed' = (crossed \/ Crosses(d)) /\ UNCHANGED faults
              \/ CallFails /\ UNCHANGED <<engine, crossed>>
<1>1. Leave(t, "idle")
    BY DEF CloseDb, Return
<1>2. pc'[t] = "idle" /\ OthersKept(t) /\ ThreadTypes'
    BY <1>1, Leaves DEF TypeInv
<1> QED
    BY <1>2 DEF CloseDb, InUse, TypeInv

\* A build either does nothing the client can see, or its answer is on the way, or
\* its answer is lost.
LEMMA BuildEffect ==
    ASSUME TypeInv, NEW t \in Threads, NEW d \in Dbs, Build(t, d)
    PROVE  /\ OthersKept(t) /\ ThreadTypes'
           /\ UNCHANGED <<lifeVars, gen, handle, caches>>
           /\ handle[d] \in Handles /\ (reach => d \notin stale)
           /\ Fault \/ CallFails \/ UNCHANGED faults
           /\ \/ pc'[t] = "idle" /\ UNCHANGED <<engine, raced>>
              \/ /\ reach /\ engine[handle[d]] \in Contents
                 /\ engine' = [engine EXCEPT ![handle[d]] = [engine[handle[d]] EXCEPT !.gen = gen]]
                 /\ \/ pc'[t] = "idle" /\ raced' = TRUE
                    \/ /\ pc'[t] = "reset" /\ walk'[t].db = d /\ walk'[t].idx = gen
                       /\ raced' = (raced \/ LeftBehind(d)
                                       \/ WalkersOf(PathOf[d]) \cup BuildersOf(PathOf[d]) # {})
<1>1. /\ UNCHANGED <<lifeVars, gen, handle, caches>> /\ handle[d] \in Handles
      /\ reach => d \notin stale
      /\ Fault \/ CallFails \/ UNCHANGED faults
    BY DEF Build, Usable, TypeInv
<1>2. CASE Leave(t, "idle") /\ UNCHANGED <<engine, raced>>
    BY <1>1, <1>2, Leaves DEF TypeInv
<1>3. CASE /\ reach /\ Database(d) # None
           /\ engine' = [engine EXCEPT ![handle[d]].gen = gen]
           /\ \/ /\ Goto(t, "reset")
                 /\ walk' = [walk EXCEPT ![t] = [NoWalk EXCEPT !.db = d, !.idx = gen]]
                 /\ raced' = (raced \/ LeftBehind(d)
                               \/ WalkersOf(PathOf[d]) \cup BuildersOf(PathOf[d]) # {})
              \/ Leave(t, "idle") /\ raced' = TRUE
    <2>1. reach /\ engine[handle[d]] \in Contents
        BY <1>1, <1>3 DEF Database, TypeInv
    <2>2. engine' = [engine EXCEPT ![handle[d]] = [engine[handle[d]] EXCEPT !.gen = gen]]
        BY <1>3
    <2>3. CASE Leave(t, "idle") /\ raced' = TRUE
        BY <1>1, <2>1, <2>2, <2>3, Leaves DEF TypeInv
    <2>4. CASE /\ Goto(t, "reset")
               /\ walk' = [walk EXCEPT ![t] = [NoWalk EXCEPT !.db = d, !.idx = gen]]
               /\ raced' = (raced \/ LeftBehind(d)
                               \/ WalkersOf(PathOf[d]) \cup BuildersOf(PathOf[d]) # {})
        <3>1. gen \in Nat
            BY Constants DEF TypeInv
        <3>2. PICK w : w = [NoWalk EXCEPT !.db = d, !.idx = gen]
            OBVIOUS
        <3>3. w \in WalkType /\ w.db = d /\ w.idx = gen
            BY <3>1, <3>2 DEF NoWalk, WalkType
        <3>4. pc'[t] = "reset" /\ walk'[t] = w /\ OthersKept(t) /\ ThreadTypes'
            BY <2>4, <3>2, <3>3 DEF Goto, TypeInv, ThreadTypes, OthersKept
        <3> QED
            BY <1>1, <2>1, <2>2, <2>4, <3>3, <3>4
    <2> QED
        BY <1>3, <2>3, <2>4
<1> QED
    BY <1>2, <1>3 DEF Build, Return

\* bp_tag_cache_reset_after_build empties the path's cache, or takes a free one, or
\* finds none.
LEMMA ResetEffect ==
    ASSUME TypeInv, WalkInv, CacheInv, NEW t \in Threads, Reset(t)
    PROVE  /\ pc[t] = "reset" /\ pc'[t] = "idle" /\ OthersKept(t) /\ ThreadTypes'
           /\ UNCHANGED <<lifeVars, gen, engine, handle, ops, raced>>
           /\ walk[t].db \in Dbs /\ walk[t].idx \in Gens
           /\ Fault \/ UNCHANGED faults
           /\ \/ caches' = caches /\ \A e \in Caches : caches[e].path # PathOf[walk[t].db]
              \/ \E c \in Caches : \E k \in {0, Len(Tables[walk[t].idx])} :
                    /\ caches[c].path \in {PathOf[walk[t].db], None}
                    /\ \A e \in Caches : caches[e].path = PathOf[walk[t].db] => e = c
                    /\ caches' = [caches EXCEPT ![c] =
                          [path |-> PathOf[walk[t].db], epoch |-> attached,
                           gen |-> walk[t].idx, cap |-> k,
                           total |-> Len(Tables[walk[t].idx]), known |-> << >>]]
<1>1. Leave(t, "idle") /\ pc[t] = "reset" /\ UNCHANGED <<lifeVars, gen, engine, handle, ops, raced>>
    BY DEF Reset, Return
<1>2. pc'[t] = "idle" /\ OthersKept(t) /\ ThreadTypes'
    BY <1>1, Leaves DEF TypeInv
<1>3. walk[t].db \in Dbs /\ walk[t].idx \in Gens
    BY <1>1 DEF WalkInv, Building
<1>4. PICK p \in Paths : p = PathOf[walk[t].db]
    BY <1>3, Constants
<1>5. PICK g \in Gens : g = walk[t].idx
    BY <1>3
<1>6. \/ \E c \in CachesFor(p) : \E k \in {0, Len(Tables[g])} :
            caches' = [caches EXCEPT ![c] = [path |-> p, epoch |-> attached, gen |-> g, cap |-> k,
                                             total |-> Len(Tables[g]), known |-> << >>]]
      \/ CachesFor(p) = {} /\ caches' = caches
    BY <1>4, <1>5 DEF Reset
<1>7. Fault \/ UNCHANGED faults
    BY DEF Reset
<1> HIDE DEF Fault
<1>8. CASE CachesFor(p) = {} /\ caches' = caches
    BY <1>1, <1>2, <1>3, <1>4, <1>7, <1>8, Serving
<1>9. CASE \E c \in CachesFor(p) : \E k \in {0, Len(Tables[g])} :
            caches' = [caches EXCEPT ![c] = [path |-> p, epoch |-> attached, gen |-> g, cap |-> k,
                                             total |-> Len(Tables[g]), known |-> << >>]]
    <2>1. PICK c \in CachesFor(p) : \E k \in {0, Len(Tables[g])} :
            caches' = [caches EXCEPT ![c] = [path |-> p, epoch |-> attached, gen |-> g, cap |-> k,
                                             total |-> Len(Tables[g]), known |-> << >>]]
        BY <1>9
    <2>2. /\ c \in Caches /\ caches[c].path \in {p, None}
          /\ \A e \in Caches : caches[e].path = p => e = c
        BY Serving
    <2> QED
        BY <1>1, <1>2, <1>3, <1>4, <1>5, <1>7, <2>1, <2>2
<1> QED
    BY <1>6, <1>8, <1>9

\* A lookup or a preload starts on the path's cache, on a free one, or finds none.
LEMMA WalkBeginEffect ==
    ASSUME TypeInv, CacheInv, NEW t \in Threads, NEW d \in Dbs, NEW n \in Names \cup {None},
           WalkBegin(t, d, n)
    PROVE  /\ OthersKept(t) /\ ThreadTypes'
           /\ UNCHANGED <<lifeVars, gen, engine, handle, faults, raced>>
           /\ handle[d] \in Handles /\ (reach => d \notin stale)
           /\ \/ pc'[t] = "idle" /\ UNCHANGED caches
              \/ \E c \in Caches :
                    /\ caches[c].path \in {PathOf[d], None}
                    /\ \A e \in Caches : caches[e].path = PathOf[d] => e = c
                    /\ \/ caches[c] # NoCache /\ caches' = caches
                       \/ /\ caches[c] = NoCache
                          /\ caches' = [caches EXCEPT ![c] = [NoCache EXCEPT !.path = PathOf[d]]]
                    /\ pc'[t] = "scan" /\ walk'[t].db = d /\ walk'[t].c = c
<1>1. /\ UNCHANGED <<lifeVars, gen, engine, handle, faults, raced>> /\ handle[d] \in Handles
      /\ reach => d \notin stale
    BY DEF WalkBegin, Usable, TypeInv
<1>2. PICK p \in Paths : p = PathOf[d]
    BY Constants
<1>3. CASE Leave(t, "idle") /\ UNCHANGED caches
    BY <1>1, <1>3, Leaves DEF TypeInv
<1>4. CASE \E c \in CachesFor(p) :
            /\ caches' = [caches EXCEPT ![c] = IF @ = NoCache THEN [NoCache EXCEPT !.path = p] ELSE @]
            /\ walk' = [walk EXCEPT ![t] = [NoWalk EXCEPT !.db = d, !.want = n, !.c = c]]
            /\ Goto(t, "scan")
    <2>1. PICK c \in CachesFor(p) :
            /\ caches' = [caches EXCEPT ![c] = IF @ = NoCache THEN [NoCache EXCEPT !.path = p] ELSE @]
            /\ walk' = [walk EXCEPT ![t] = [NoWalk EXCEPT !.db = d, !.want = n, !.c = c]]
            /\ Goto(t, "scan")
        BY <1>4
    <2>2. /\ c \in Caches /\ caches[c].path \in {p, None}
          /\ \A e \in Caches : caches[e].path = p => e = c
        BY Serving
    <2>3. PICK w : w = [NoWalk EXCEPT !.db = d, !.want = n, !.c = c]
        OBVIOUS
    <2>4. w \in WalkType /\ w.db = d /\ w.c = c
        BY <2>2, <2>3 DEF NoWalk, WalkType
    <2>5. pc'[t] = "scan" /\ walk'[t] = w /\ OthersKept(t) /\ ThreadTypes'
        BY <2>1, <2>3, <2>4 DEF Goto, TypeInv, ThreadTypes, OthersKept
    <2>6. \/ caches[c] # NoCache /\ caches' = caches
          \/ caches[c] = NoCache /\ caches' = [caches EXCEPT ![c] = [NoCache EXCEPT !.path = p]]
        BY <2>1, <2>2 DEF TypeInv
    <2> QED
        BY <1>1, <1>2, <2>2, <2>4, <2>5, <2>6
<1> QED
    BY <1>2, <1>3, <1>4 DEF WalkBegin, Return

\* A scan finds the name, goes to the engine, or gives up.
LEMMA ScanEffect ==
    ASSUME TypeInv, WalkInv, NEW t \in Threads, Scan(t)
    PROVE  /\ pc[t] = "scan" /\ OthersKept(t) /\ ThreadTypes'
           /\ UNCHANGED <<lifeVars, gen, engine, handle, caches, ops, faults>>
           /\ walk[t].c \in Caches /\ caches[walk[t].c] \in CacheType
           /\ \/ pc'[t] = "idle" /\ raced' = raced
              \/ /\ caches[walk[t].c].cap > 0
                 /\ Hits(walk[t], caches[walk[t].c].known, 1) = {}
                 /\ Asks(t, caches[walk[t].c]) \/ GivesUp(t, caches[walk[t].c])
<1>1. pc[t] = "scan" /\ UNCHANGED <<lifeVars, gen, engine, handle, caches, ops, faults>>
    BY DEF Scan
<1>2. walk[t].c \in Caches /\ caches[walk[t].c] \in CacheType /\ ThreadTypes
    BY <1>1 DEF WalkInv, Walking, TypeInv
<1>3. CASE Leave(t, "idle") /\ raced' = raced
    BY <1>1, <1>2, <1>3, Leaves
<1>4. CASE /\ caches[walk[t].c].cap > 0
           /\ Hits(walk[t], caches[walk[t].c].known, 1) = {}
           /\ More(t, caches[walk[t].c])
    <2>1. PICK c \in CacheType : c = caches[walk[t].c]
        BY <1>2
    <2>2. (Asks(t, c) \/ GivesUp(t, c)) /\ OthersKept(t) /\ ThreadTypes'
        BY <1>2, <1>4, <2>1, Mores
    <2> QED
        BY <1>1, <1>2, <1>4, <2>1, <2>2
<1> QED
    BY <1>3, <1>4 DEF Scan, Return

\* The engine's answer is the symbol of that index in the database behind the handle.
LEMMA SymbolAtEffect ==
    ASSUME TypeInv, WalkInv, NEW t \in Threads, SymbolAt(t)
    PROVE  /\ pc[t] = "ipc" /\ OthersKept(t) /\ ThreadTypes'
           /\ UNCHANGED <<lifeVars, gen, engine, handle, caches, ops, raced>>
           /\ Fault \/ CallFails \/ UNCHANGED faults
           /\ \/ pc'[t] = "idle"
              \/ /\ reach /\ pc'[t] = "append"
                 /\ engine[handle[walk[t].db]] \in Contents
                 /\ engine[handle[walk[t].db]].gen # 0
                 /\ walk'[t].db = walk[t].db /\ walk'[t].want = walk[t].want
                 /\ walk'[t].c = walk[t].c /\ walk'[t].idx = walk[t].idx
                 /\ walk'[t].got \in Symbols
                 /\ walk'[t].got.path = engine[handle[walk[t].db]].path
                 /\ walk'[t].got.gen = engine[handle[walk[t].db]].gen
                 /\ walk'[t].got.idx = walk[t].idx
<1>1. /\ pc[t] = "ipc" /\ UNCHANGED <<lifeVars, gen, engine, handle, caches, ops, raced>>
      /\ Fault \/ CallFails \/ UNCHANGED faults
    BY DEF SymbolAt
<1>2. PICK w \in WalkType : w = walk[t]
    BY DEF TypeInv, ThreadTypes
<1>3. w.db \in Dbs /\ handle[w.db] \in Handles /\ w.idx >= 1 /\ w.idx \in Nat
    BY <1>1, <1>2, WalkFields DEF WalkInv, Walking, Asking, TypeInv
<1>4. PICK e \in Contents \cup {None} : e = engine[handle[w.db]]
    BY <1>3 DEF TypeInv
<1>5. CASE Leave(t, "idle")
    BY <1>1, <1>5, Leaves DEF TypeInv
<1>6. CASE /\ reach /\ e # None /\ e.gen # 0
           /\ walk' = [walk EXCEPT ![t].got = [path |-> e.path, gen |-> e.gen, idx |-> w.idx]]
           /\ Goto(t, "append")
    <2>1. e \in Contents /\ e.path \in Paths /\ e.gen \in Gens
        BY <1>6, ContentFields
    <2>2. w.idx \in Nat \ {0}
        BY <1>3
    <2>3. [path |-> e.path, gen |-> e.gen, idx |-> w.idx] \in Symbols
        BY <2>1, <2>2 DEF Symbols
    <2>4. PICK s \in Symbols : s = [path |-> e.path, gen |-> e.gen, idx |-> w.idx]
        BY <2>3
    <2>5. s.path = e.path /\ s.gen = e.gen /\ s.idx = w.idx
        BY <2>4
    <2>6. walk' = [walk EXCEPT ![t] = [w EXCEPT !.got = s]]
        BY <1>2, <1>6, <2>4
    <2>7. [w EXCEPT !.got = s] \in WalkType
        BY DEF WalkType
    <2>8. /\ [w EXCEPT !.got = s].db = w.db /\ [w EXCEPT !.got = s].want = w.want
          /\ [w EXCEPT !.got = s].c = w.c /\ [w EXCEPT !.got = s].idx = w.idx
          /\ [w EXCEPT !.got = s].got = s
        BY DEF WalkType
    <2>9. /\ pc'[t] = "append" /\ walk'[t] = [w EXCEPT !.got = s]
          /\ OthersKept(t) /\ ThreadTypes'
        BY <1>6, <2>6, <2>7 DEF Goto, TypeInv, ThreadTypes, OthersKept
    <2> QED
        BY ZenonT(40), <1>1, <1>2, <1>4, <1>6, <2>1, <2>4, <2>5, <2>8, <2>9
<1> QED
    BY <1>2, <1>4, <1>5, <1>6 DEF SymbolAt, Return, Database

\* The answer is kept if it is still the next one, and the scan goes on.
LEMMA AppendEffect ==
    ASSUME TypeInv, WalkInv, NEW t \in Threads, AppendSymbol(t)
    PROVE  /\ pc[t] = "append" /\ OthersKept(t) /\ ThreadTypes'
           /\ UNCHANGED <<lifeVars, gen, engine, handle, ops, faults>>
           /\ walk[t].c \in Caches /\ caches[walk[t].c] \in CacheType
           /\ walk[t].got \in Symbols
           /\ caches' = [caches EXCEPT ![walk[t].c] = Kept(t, caches[walk[t].c])]
           /\ \/ pc'[t] = "idle" /\ raced' = raced
              \/ /\ Hits(walk[t], Kept(t, caches[walk[t].c]).known, walk[t].idx) = {}
                 /\ \/ Asks(t, Kept(t, caches[walk[t].c]))
                    \/ GivesUp(t, Kept(t, caches[walk[t].c]))
<1>1. /\ pc[t] = "append" /\ UNCHANGED <<lifeVars, gen, engine, handle, ops, faults>>
      /\ caches' = [caches EXCEPT ![walk[t].c] = Kept(t, caches[walk[t].c])]
    BY DEF AppendSymbol
<1>2. /\ walk[t].c \in Caches /\ caches[walk[t].c] \in CacheType /\ ThreadTypes
      /\ walk[t].got \in Symbols
    BY <1>1 DEF WalkInv, Walking, TypeInv
<1>3. CASE Leave(t, "idle") /\ raced' = raced
    BY <1>1, <1>2, <1>3, Leaves
<1>4. CASE /\ Hits(walk[t], Kept(t, caches[walk[t].c]).known, walk[t].idx) = {}
           /\ More(t, Kept(t, caches[walk[t].c]))
    <2>1. PICK c \in CacheType : c = Kept(t, caches[walk[t].c])
        BY <1>2, Keeps
    <2>2. (Asks(t, c) \/ GivesUp(t, c)) /\ OthersKept(t) /\ ThreadTypes'
        BY <1>2, <1>4, <2>1, Mores
    <2> QED
        BY <1>1, <1>2, <1>4, <2>1, <2>2
<1> QED
    BY <1>3, <1>4 DEF AppendSymbol, Return

\* Steps that leave databases, caches and threads alone; and those that throw the
\* caches away when no thread is at work.
QuietStep == \/ Download \/ CloseBroken \/ OpenSession \/ CloseSession
             \/ \E s \in PoolSlots : PoolOpen(s)
             \/ UNCHANGED vars
RenewStep == ClientOpen \/ Reconnect \/ ClientClose

\* What quiet steps leave alone.
LEMMA QuietEffect ==
    ASSUME QuietStep
    PROVE  UNCHANGED <<epoch, attached, stale, crossed, engine, handle, caches, pc, walk, raced>>
    BY DEF QuietStep, Download, CloseBroken, OpenSession, CloseSession, PoolOpen,
       lifeVars,
           vars, tagVars

\* Open, reconnect and close empty every cache, with no thread inside a call.
LEMMA RenewEffect ==
    ASSUME TypeInv, LifeInv, RenewStep
    PROVE  /\ UNCHANGED <<epoch, stale, crossed, engine, handle, pc, walk, raced>>
           /\ \A c \in Caches : caches'[c] = NoCache
           /\ \A t \in Threads : pc[t] \in {"idle", "missed"}
<1>1. /\ UNCHANGED <<epoch, stale, crossed, engine, handle, pc, walk, raced>>
      /\ \A c \in Caches : caches'[c] = NoCache
    BY DEF RenewStep, ClientOpen, Reconnect, ClientClose, FreeAll
<1>2. \A t \in Threads : pc[t] \in {"idle", "missed"}
    BY DEF RenewStep, ClientOpen, Reconnect, ClientClose, Quiet, LifeInv, Walking,
       Building,
           TypeInv, ThreadTypes
<1> QED
    BY <1>1, <1>2

-----------------------------------------------------------------------------
(* Types *)

\* Every step keeps the types.
LEMMA TypeStep ==
    TypeInv /\ LifeInv /\ CacheInv /\ WalkInv /\ [Next]_vars => TypeInv'
<1> SUFFICES ASSUME TypeInv, LifeInv, CacheInv, WalkInv, [Next]_vars
             PROVE  TypeInv'
    OBVIOUS
<1> USE DEF TypeInv
<1>1. ASSUME NEW t \in Threads, NEW d \in Dbs, OpenDb(t, d),
             client = "open", UNCHANGED <<client, pools, sessionVars, lops>>
      PROVE  TypeInv'
    <2>1. /\ ThreadTypes' /\ UNCHANGED <<epoch, attached, stale, crossed, gen, caches, raced>>
          /\ \/ UNCHANGED <<engine, handle>>
             \/ \E h \in Handles :
                   /\ engine' = [engine EXCEPT ![h] = [path |-> PathOf[d], gen |-> 0]]
                   /\ handle' = [handle EXCEPT ![d] = h] \/ handle' = handle
          /\ Fault \/ CallFails \/ UNCHANGED faults
        BY <1>1, OpenDbEffect DEF lifeVars
    <2>2. ops' \in 0 .. MaxOps /\ faults' \in 0 .. MaxFaults
        BY <1>1, <2>1, Counters DEF OpenDb
    <2>3. [path |-> PathOf[d], gen |-> 0] \in Contents
        BY Constants DEF Contents
    <2>4. engine' \in [Handles -> Contents \cup {None}] /\ handle' \in [Dbs -> Handles \cup {0}]
        BY <2>1, <2>3
    <2>5. UNCHANGED <<client, pools, held, sessions, strays, lops>>
        BY <1>1 DEF sessionVars
    <2> QED
        BY <2>1, <2>2, <2>4, <2>5
<1>2. ASSUME NEW t \in Threads, NEW d \in Dbs, CloseDb(t, d),
             client = "open", UNCHANGED <<client, pools, sessionVars, lops>>
      PROVE  TypeInv'
    <2>1. /\ ThreadTypes' /\ UNCHANGED <<epoch, attached, gen, caches, raced>>
          /\ handle' = [handle EXCEPT ![d] = 0] /\ stale' = stale \ {d}
          /\ \/ engine' = [engine EXCEPT ![handle[d]] = None] /\ UNCHANGED faults
                /\ crossed' = (crossed \/ Crosses(d))
             \/ CallFails /\ UNCHANGED <<engine, crossed>>
        BY <1>2, CloseDbEffect
    <2>2. ops' \in 0 .. MaxOps /\ faults' \in 0 .. MaxFaults
        BY <1>2, <2>1, Counters DEF CloseDb
    <2>3. engine' \in [Handles -> Contents \cup {None}] /\ handle' \in [Dbs -> Handles \cup {0}]
        BY <2>1
    <2>4. crossed' \in BOOLEAN
        BY <2>1
    <2>5. UNCHANGED <<client, pools, held, sessions, strays, lops>>
        BY <1>2 DEF sessionVars
    <2> QED
        BY <2>1, <2>2, <2>3, <2>4, <2>5
<1>3. ASSUME NEW t \in Threads, NEW d \in Dbs, Build(t, d),
             client = "open", UNCHANGED <<client, pools, sessionVars, lops>>
      PROVE  TypeInv'
    <2>1. /\ ThreadTypes' /\ UNCHANGED <<epoch, attached, stale, crossed, gen, handle, caches>>
          /\ Fault \/ CallFails \/ UNCHANGED faults
        BY <1>3, BuildEffect DEF lifeVars
    <2>2. ops' \in 0 .. MaxOps /\ faults' \in 0 .. MaxFaults
        BY <1>3, <2>1, Counters DEF Build
    <2>3. \/ UNCHANGED engine
          \/ /\ engine[handle[d]] \in Contents
             /\ engine' = [engine EXCEPT ![handle[d]] = [engine[handle[d]] EXCEPT !.gen = gen]]
        BY <1>3, BuildEffect
    <2>4. engine' \in [Handles -> Contents \cup {None}]
        <3>1. \A e \in Contents : [e EXCEPT !.gen = gen] \in Contents
            BY DEF Contents
        <3> QED
            BY <2>3, <3>1
    <2>5. raced' \in BOOLEAN
        BY <1>3, BuildEffect
    <2>6. UNCHANGED <<client, pools, held, sessions, strays, lops>>
        BY <1>3 DEF sessionVars
    <2> QED
        BY <2>1, <2>2, <2>4, <2>5, <2>6
<1>4. ASSUME NEW t \in Threads, NEW d \in Dbs,
             NEW n \in Names \cup {None}, WalkBegin(t, d, n),
             client = "open", UNCHANGED <<client, pools, sessionVars, lops>>
      PROVE  TypeInv'
    <2>1. /\ ThreadTypes' /\ UNCHANGED <<epoch, attached, stale, crossed, gen, engine, handle, faults, raced>>
        BY <1>4, WalkBeginEffect DEF lifeVars
    <2>2. ops' \in 0 .. MaxOps /\ faults' \in 0 .. MaxFaults
        BY <1>4, <2>1, Counters DEF WalkBegin
    <2>3. \/ caches' = caches
          \/ \E c \in Caches : caches' = [caches EXCEPT ![c] = [NoCache EXCEPT !.path = PathOf[d]]]
        BY <1>4, WalkBeginEffect
    <2>4. [NoCache EXCEPT !.path = PathOf[d]] \in CacheType
        BY Constants, EmptySeq DEF NoCache, CacheType
    <2>5. caches' \in [Caches -> CacheType]
        BY <2>3, <2>4
    <2>6. UNCHANGED <<client, pools, held, sessions, strays, lops>>
        BY <1>4 DEF sessionVars
    <2> QED
        BY <2>1, <2>2, <2>5, <2>6
<1>5. ASSUME NEW t \in Threads, Scan(t),
             client = "open", UNCHANGED <<client, pools, sessionVars, lops>>
      PROVE  TypeInv'
    <2>1. /\ ThreadTypes'
          /\ UNCHANGED <<epoch, attached, stale, crossed, gen, engine, handle, caches, ops, faults>>
        BY <1>5, ScanEffect DEF lifeVars
    <2>2. raced' \in BOOLEAN
        BY <1>5, ScanEffect DEF Asks, GivesUp
    <2>3. UNCHANGED <<client, pools, held, sessions, strays, lops>>
        BY <1>5 DEF sessionVars
    <2> QED
        BY <2>1, <2>2, <2>3
<1>6. ASSUME NEW t \in Threads, SymbolAt(t),
             client = "open", UNCHANGED <<client, pools, sessionVars, lops>>
      PROVE  TypeInv'
    <2>1. /\ ThreadTypes'
          /\ UNCHANGED <<epoch, attached, stale, crossed, gen, engine, handle, caches, ops, raced>>
          /\ Fault \/ CallFails \/ UNCHANGED faults
        BY <1>6, SymbolAtEffect DEF lifeVars
    <2>2. faults' \in 0 .. MaxFaults
        BY <2>1, Counters
    <2>3. UNCHANGED <<client, pools, held, sessions, strays, lops>>
        BY <1>6 DEF sessionVars
    <2> QED
        BY <2>1, <2>2, <2>3
<1>7. ASSUME NEW t \in Threads, AppendSymbol(t),
             client = "open", UNCHANGED <<client, pools, sessionVars, lops>>
      PROVE  TypeInv'
    <2>1. /\ ThreadTypes'
          /\ UNCHANGED <<epoch, attached, stale, crossed, gen, engine, handle, ops, faults>>
          /\ walk[t].c \in Caches /\ caches[walk[t].c] \in CacheType /\ walk[t].got \in Symbols
          /\ caches' = [caches EXCEPT ![walk[t].c] = Kept(t, caches[walk[t].c])]
        BY <1>7, AppendEffect DEF lifeVars
    <2>2. raced' \in BOOLEAN
        BY <1>7, AppendEffect DEF Asks, GivesUp
    <2>3. Kept(t, caches[walk[t].c]) \in CacheType
        BY <2>1, Keeps
    <2>4. caches' \in [Caches -> CacheType]
        BY <2>1, <2>3
    <2>5. UNCHANGED <<client, pools, held, sessions, strays, lops>>
        BY <1>7 DEF sessionVars
    <2> QED
        BY <2>1, <2>2, <2>4, <2>5
<1>8. ASSUME NEW t \in Threads, Reset(t),
             client = "open", UNCHANGED <<client, pools, sessionVars, lops>>
      PROVE  TypeInv'
    <2>1. /\ ThreadTypes'
          /\ UNCHANGED <<epoch, attached, stale, crossed, gen, engine, handle, ops, raced>>
          /\ Fault \/ UNCHANGED faults
          /\ walk[t].db \in Dbs /\ walk[t].idx \in Gens
        BY <1>8, ResetEffect DEF lifeVars
    <2>2. faults' \in 0 .. MaxFaults
        BY <2>1, Counters
    <2>3. PICK p \in Paths, g \in Gens : p = PathOf[walk[t].db] /\ g = walk[t].idx
        BY <2>1, Constants
    <2>4. \A k \in Nat : [path |-> p, epoch |-> attached, gen |-> g, cap |-> k,
                          total |-> Len(Tables[g]), known |-> << >>] \in CacheType
        BY Constants, EmptySeq DEF CacheType
    <2>5. \/ caches' = caches
          \/ \E c \in Caches : \E k \in Nat :
                caches' = [caches EXCEPT ![c] =
                      [path |-> p, epoch |-> attached, gen |-> g, cap |-> k,
                       total |-> Len(Tables[g]), known |-> << >>]]
        BY <1>8, <2>3, ResetEffect, Constants
    <2>6. caches' \in [Caches -> CacheType]
        BY <2>4, <2>5
    <2>7. UNCHANGED <<client, pools, held, sessions, strays, lops>>
        BY <1>8 DEF sessionVars
    <2> QED
        BY <2>1, <2>2, <2>6, <2>7
<1>9. ASSUME Download,
             client = "open", UNCHANGED <<client, pools, sessionVars, lops>>
      PROVE  TypeInv'
    <2>1. gen' \in Gens
        <3>1. Len(Tables) \in Nat
            BY TagCacheAssumption, LenProperties
        <3> QED
            BY <1>9, <3>1 DEF Download, Gens
    <2> QED
        BY <1>9, <2>1 DEF Download, lifeVars, sessionVars, ThreadTypes
<1>10. ASSUME ServerStop
      PROVE  TypeInv'
    BY <1>10 DEF ServerStop, ThreadTypes
<1>11. ASSUME ServerStart
      PROVE  TypeInv'
    BY <1>11 DEF ServerStart, sessionVars, ThreadTypes
<1>12. ASSUME ClientOpen
      PROVE  TypeInv'
    <2>1. lops' \in 0 .. MaxLife
        BY <1>12, Counters DEF ClientOpen
    <2>2. caches' \in [Caches -> CacheType]
        BY <1>12, Constants DEF ClientOpen, FreeAll
    <2>3. attached' \in Nat
        BY <1>12 DEF ClientOpen, Up
    <2> QED
        BY <1>12, <2>1, <2>3, <2>2 DEF ClientOpen, sessionVars, ThreadTypes
<1>13. ASSUME Reconnect
      PROVE  TypeInv'
    <2>1. lops' \in 0 .. MaxLife
        BY <1>13, Counters DEF Reconnect
    <2>2. faults' \in 0 .. MaxFaults
        BY <1>13, Counters DEF Reconnect
    <2>3. caches' \in [Caches -> CacheType]
        BY <1>13, Constants DEF Reconnect, FreeAll
    <2>4. attached' \in Nat /\ strays' \in Nat
        BY <1>13 DEF Reconnect, Up
    <2>5. pools' \in [PoolSlots -> 0 .. MaxEpochs]
        BY <1>13, ClientLifeAssumption DEF Reconnect
    <2> QED
        BY <1>13, <2>1, <2>2, <2>3, <2>4, <2>5 DEF Reconnect, ThreadTypes
<1>14. ASSUME ClientClose
      PROVE  TypeInv'
    <2>1. lops' \in 0 .. MaxLife
        BY <1>14, Counters DEF ClientClose
    <2>2. faults' \in 0 .. MaxFaults
        BY <1>14, Counters DEF ClientClose
    <2>3. caches' \in [Caches -> CacheType]
        BY <1>14, Constants DEF ClientClose, FreeAll
    <2>4. sessions' \in Nat /\ strays' \in Nat
        BY <1>14 DEF ClientClose, OneLess
    <2>5. pools' \in [PoolSlots -> 0 .. MaxEpochs]
        BY <1>14, ClientLifeAssumption DEF ClientClose
    <2> QED
        BY <1>14, <2>1, <2>2, <2>3, <2>4, <2>5 DEF ClientClose, ThreadTypes
<1>15. ASSUME CloseBroken
      PROVE  TypeInv'
    <2>1. lops' \in 0 .. MaxLife
        BY <1>15, Counters DEF CloseBroken
    <2> QED
        BY <1>15, <2>1 DEF CloseBroken, lifeVars, sessionVars, ThreadTypes
<1>16. ASSUME OpenSession
      PROVE  TypeInv'
    <2>1. lops' \in 0 .. MaxLife
        BY <1>16, Counters DEF OpenSession
    <2>2. faults' \in 0 .. MaxFaults
        BY <1>16, Counters DEF OpenSession
    <2>3. sessions' \in Nat /\ strays' \in Nat
        BY <1>16 DEF OpenSession, OneLess
    <2> QED
        BY <1>16, <2>1, <2>2, <2>3 DEF OpenSession, lifeVars, ThreadTypes
<1>17. ASSUME CloseSession
      PROVE  TypeInv'
    <2>1. lops' \in 0 .. MaxLife
        BY <1>17, Counters DEF CloseSession
    <2>2. faults' \in 0 .. MaxFaults
        BY <1>17, Counters DEF CloseSession
    <2>3. sessions' \in Nat /\ strays' \in Nat
        BY <1>17 DEF CloseSession, OneLess
    <2> QED
        BY <1>17, <2>1, <2>2, <2>3 DEF CloseSession, lifeVars, ThreadTypes
<1>18. ASSUME NEW s \in PoolSlots, PoolOpen(s)
      PROVE  TypeInv'
    <2>1. lops' \in 0 .. MaxLife
        BY <1>18, Counters DEF PoolOpen
    <2>2. pools' \in [PoolSlots -> 0 .. MaxEpochs]
        <3>1. epoch \in 0 .. MaxEpochs
            BY <1>18, ClientLifeAssumption DEF PoolOpen, reach, LifeInv
        <3> QED
            BY <1>18, <3>1 DEF PoolOpen
    <2> QED
        BY <1>18, <2>1, <2>2 DEF PoolOpen, lifeVars, sessionVars, ThreadTypes
<1>19. CASE UNCHANGED vars
    BY <1>19 DEF vars, tagVars, lifeVars, sessionVars, ThreadTypes
<1> QED
    BY <1>1, <1>2, <1>3, <1>4, <1>5, <1>6, <1>7, <1>8, <1>9, <1>10, <1>11, <1>12, <1>13,
       <1>14, <1>15, <1>16, <1>17, <1>18, <1>19
       DEF Next, Tags, TagNext, TagStart, TagStep

-----------------------------------------------------------------------------
(* The client and bpServer *)

\* Every step keeps the client and the incarnations consistent; a start of bpServer
\* never brings the client's engine back.
LEMMA LifeStep ==
    TypeInv /\ LifeInv /\ CacheInv /\ WalkInv /\ [Next]_vars => LifeInv'
<1> SUFFICES ASSUME TypeInv, LifeInv, CacheInv, WalkInv, [Next]_vars
             PROVE  LifeInv'
    OBVIOUS
<1> USE DEF LifeInv, reach
<1>1. ASSUME NEW t \in Threads, NEW d \in Dbs, OpenDb(t, d),
             client = "open", UNCHANGED <<client, pools, sessionVars, lops>>
      PROVE  LifeInv'
    <2>1. /\ UNCHANGED <<epoch, attached, stale, client, pools>>
          /\ reach \/ UNCHANGED engine
          /\ \/ UNCHANGED handle
             \/ \E h \in Handles : handle' = [handle EXCEPT ![d] = h]
        BY <1>1, OpenDbEffect DEF lifeVars
    <2>2. \A e \in stale : e \in Dbs /\ handle'[e] # 0
        BY <2>1, Constants DEF TypeInv
    <2> QED
        BY <1>1, <2>1, <2>2
<1>2. ASSUME NEW t \in Threads, NEW d \in Dbs, CloseDb(t, d),
             client = "open", UNCHANGED <<client, pools, sessionVars, lops>>
      PROVE  LifeInv'
    <2>1. /\ UNCHANGED <<epoch, attached, client, pools>>
          /\ reach \/ UNCHANGED engine
          /\ handle' = [handle EXCEPT ![d] = 0] /\ stale' = stale \ {d}
        BY <1>2, CloseDbEffect
    <2>2. \A e \in stale' : e \in Dbs /\ handle'[e] # 0
        BY <2>1 DEF TypeInv
    <2> QED
        BY <1>2, <2>1, <2>2
<1>3. ASSUME NEW t \in Threads, NEW d \in Dbs, Build(t, d),
             client = "open", UNCHANGED <<client, pools, sessionVars, lops>>
      PROVE  LifeInv'
    <2>1. /\ UNCHANGED <<epoch, attached, handle, stale, client, pools>>
          /\ reach \/ UNCHANGED engine
        BY <1>3, BuildEffect DEF lifeVars
    <2> QED
        BY <1>3, <2>1
<1>4. ASSUME NEW t \in Threads, NEW d \in Dbs,
             NEW n \in Names \cup {None}, WalkBegin(t, d, n),
             client = "open", UNCHANGED <<client, pools, sessionVars, lops>>
      PROVE  LifeInv'
    <2>1. UNCHANGED <<epoch, attached, engine, handle, stale, client, pools>>
        BY <1>4, WalkBeginEffect DEF lifeVars
    <2> QED
        BY <1>4, <2>1
<1>5. ASSUME NEW t \in Threads, Scan(t),
             client = "open", UNCHANGED <<client, pools, sessionVars, lops>>
      PROVE  LifeInv'
    <2>1. UNCHANGED <<epoch, attached, engine, handle, stale, client, pools>>
        BY <1>5, ScanEffect DEF lifeVars
    <2> QED
        BY <1>5, <2>1
<1>6. ASSUME NEW t \in Threads, SymbolAt(t),
             client = "open", UNCHANGED <<client, pools, sessionVars, lops>>
      PROVE  LifeInv'
    <2>1. UNCHANGED <<epoch, attached, engine, handle, stale, client, pools>>
        BY <1>6, SymbolAtEffect DEF lifeVars
    <2> QED
        BY <1>6, <2>1
<1>7. ASSUME NEW t \in Threads, AppendSymbol(t),
             client = "open", UNCHANGED <<client, pools, sessionVars, lops>>
      PROVE  LifeInv'
    <2>1. UNCHANGED <<epoch, attached, engine, handle, stale, client, pools>>
        BY <1>7, AppendEffect DEF lifeVars
    <2> QED
        BY <1>7, <2>1
<1>8. ASSUME NEW t \in Threads, Reset(t),
             client = "open", UNCHANGED <<client, pools, sessionVars, lops>>
      PROVE  LifeInv'
    <2>1. UNCHANGED <<epoch, attached, engine, handle, stale, client, pools>>
        BY <1>8, ResetEffect DEF lifeVars
    <2> QED
        BY <1>8, <2>1
<1>9. ASSUME Download,
             client = "open", UNCHANGED <<client, pools, sessionVars, lops>>
      PROVE  LifeInv'
    <2>1. UNCHANGED <<epoch, attached, engine, handle, stale, client, pools>>
        BY <1>9 DEF lifeVars, Download
    <2> QED
        BY <1>9, <2>1
<1>10. ASSUME ServerStop
      PROVE  LifeInv'
    <2>1. epoch' = -epoch /\ epoch' <= 0 /\ UNCHANGED <<attached, handle, pc, client, pools>>
        BY <1>10 DEF ServerStop, Up, TypeInv
    <2>2. \A h \in Handles : engine'[h] = None
        BY <1>10 DEF ServerStop
    <2>3. \A d \in stale' : handle'[d] # 0
        BY <1>10 DEF ServerStop
    <2>4. \A t \in Threads : (Walking(t) <=> Walking(t)') /\ (Building(t) <=> Building(t)')
        BY <2>1 DEF Walking, Building
    <2> QED
        BY <2>1, <2>2, <2>3, <2>4, ClientLifeAssumption DEF TypeInv
<1>11. ASSUME ServerStart
      PROVE  LifeInv'
    <2>1. /\ epoch' = 1 - epoch /\ epoch < 0 /\ -epoch < MaxEpochs
          /\ UNCHANGED <<attached, handle, stale, engine, pc, client, pools>>
        BY <1>11 DEF ServerStart, Up, TypeInv
    <2>2. attached < epoch' /\ ~reach
        BY <2>1 DEF TypeInv, reach
    <2>3. \A t \in Threads : (Walking(t) <=> Walking(t)') /\ (Building(t) <=> Building(t)')
        BY <2>1 DEF Walking, Building
    <2> QED
        BY <2>1, <2>2, <2>3, ClientLifeAssumption DEF TypeInv
<1>12. ASSUME ClientOpen
      PROVE  LifeInv'
    <2>1. /\ epoch > 0 /\ attached' = epoch /\ client' = "open" /\ client = "closed"
          /\ UNCHANGED <<epoch, handle, stale, engine, pools>>
        BY <1>12 DEF ClientOpen, Up
    <2>2. attached = 0 /\ \A s \in PoolSlots : pools[s] = 0
        BY <2>1
    <2> QED
        BY <2>1, <2>2 DEF TypeInv
<1>13. ASSUME Reconnect
      PROVE  LifeInv'
    <2>1. /\ \A s \in PoolSlots : pools'[s] = 0
          /\ UNCHANGED <<epoch, handle, stale, engine, pc>>
          /\ \/ epoch > 0 /\ attached' = epoch /\ client' = "open"
             \/ attached' = 0 /\ client' = "broken"
        BY <1>13 DEF Reconnect, Up
    <2>2. \A t \in Threads : ~Walking(t)' /\ ~Building(t)'
        BY <1>13, <2>1 DEF Reconnect, Quiet, Walking, Building
    <2> QED
        BY <2>1, <2>2 DEF TypeInv
<1>14. ASSUME ClientClose
      PROVE  LifeInv'
    <2>1. /\ \A s \in PoolSlots : pools'[s] = 0
          /\ UNCHANGED <<epoch, handle, stale, engine, pc>>
          /\ attached' = 0 /\ client' = "closed"
        BY <1>14 DEF ClientClose
    <2>2. \A t \in Threads : ~Walking(t)' /\ ~Building(t)'
        BY <1>14, <2>1 DEF ClientClose, Quiet, Walking, Building
    <2> QED
        BY <2>1, <2>2 DEF TypeInv
<1>15. ASSUME CloseBroken
      PROVE  LifeInv'
    <2>1. /\ client = "broken" /\ client' = "crashed"
          /\ UNCHANGED <<epoch, attached, engine, handle, stale, pc, pools>>
        BY <1>15 DEF CloseBroken, lifeVars
    <2>2. \A t \in Threads : (Walking(t) <=> Walking(t)') /\ (Building(t) <=> Building(t)')
        BY <2>1 DEF Walking, Building
    <2> QED
        BY <2>1, <2>2
<1>16. ASSUME OpenSession
      PROVE  LifeInv'
    <2>1. client = "open" /\ UNCHANGED <<epoch, attached, engine, handle, stale, client, pools>>
        BY <1>16 DEF OpenSession, lifeVars
    <2> QED
        BY <2>1
<1>17. ASSUME CloseSession
      PROVE  LifeInv'
    <2>1. client = "open" /\ UNCHANGED <<epoch, attached, engine, handle, stale, client, pools>>
        BY <1>17 DEF CloseSession, lifeVars
    <2> QED
        BY <2>1
<1>18. ASSUME NEW s \in PoolSlots, PoolOpen(s)
      PROVE  LifeInv'
    <2>1. client = "open" /\ UNCHANGED <<epoch, attached, engine, handle, stale, client>>
        BY <1>18 DEF PoolOpen, lifeVars
    <2>2. \A u \in PoolSlots : pools'[u] = pools[u] \/ pools'[u] = attached
        BY <1>18 DEF PoolOpen, TypeInv, reach
    <2> QED
        BY <2>1, <2>2
<1>19. CASE UNCHANGED vars
    BY <1>19 DEF vars, tagVars, lifeVars, sessionVars, Walking, Building
<1> QED
    BY <1>1, <1>2, <1>3, <1>4, <1>5, <1>6, <1>7, <1>8, <1>9, <1>10, <1>11, <1>12, <1>13,
       <1>14, <1>15, <1>16, <1>17, <1>18, <1>19
       DEF Next, Tags, TagNext, TagStart, TagStep

-----------------------------------------------------------------------------
(* The caches *)

\* What CacheInv says of one cache of a client attached to incarnation a.
GoodCache(k, a) ==
    /\ Len(k.known) <= k.cap /\ k.cap \in {0, k.total}
    /\ k.path = None => k = NoCache
    /\ k.cap > 0 => k.epoch = a /\ k.gen \in Gens /\ k.total = Len(Tables[k.gen])
    /\ \A i \in 1 .. Len(k.known) : k.known[i].idx = i

\* Caches that know nothing are good.
LEMMA EmptyCaches ==
    /\ NoCache \in CacheType /\ NoCache.path = None /\ NoCache.cap = 0 /\ NoCache.total = 0
    /\ NoCache.known = << >> /\ Len(NoCache.known) = 0
    /\ \A a : GoodCache(NoCache, a)
    /\ \A p \in Paths : /\ [NoCache EXCEPT !.path = p] \in CacheType
                        /\ [NoCache EXCEPT !.path = p].path = p
                        /\ [NoCache EXCEPT !.path = p].cap = 0
                        /\ [NoCache EXCEPT !.path = p].known = << >>
                        /\ Len([NoCache EXCEPT !.path = p].known) = 0
                        /\ \A a : GoodCache([NoCache EXCEPT !.path = p], a)
    /\ \A p \in Paths, g \in Gens, a \in Nat : \A k \in {0, Len(Tables[g])} :
          LET r == [path |-> p, epoch |-> a, gen |-> g, cap |-> k,
                    total |-> Len(Tables[g]), known |-> << >>]
          IN  r \in CacheType /\ GoodCache(r, a) /\ r.path = p /\ r.gen = g /\ r.cap = k
              /\ Len(r.known) = 0
<1>1. << >> \in Seq(Symbols) /\ Len(<< >>) = 0
    BY EmptySeq
<1>2. /\ NoCache \in CacheType /\ NoCache.path = None /\ NoCache.cap = 0
      /\ NoCache.total = 0 /\ NoCache.known = << >>
    BY <1>1 DEF NoCache, CacheType
<1>3. \A a : GoodCache(NoCache, a)
    BY <1>1, <1>2 DEF GoodCache
<1>4. ASSUME NEW p \in Paths
      PROVE  /\ [NoCache EXCEPT !.path = p] \in CacheType
             /\ [NoCache EXCEPT !.path = p].path = p
             /\ [NoCache EXCEPT !.path = p].cap = 0
             /\ [NoCache EXCEPT !.path = p].known = << >>
             /\ \A a : GoodCache([NoCache EXCEPT !.path = p], a)
    <2>1. PICK r : r = [NoCache EXCEPT !.path = p]
        OBVIOUS
    <2>2. r \in CacheType /\ r.path = p /\ r.cap = 0 /\ r.total = 0 /\ r.known = << >>
        BY <1>1, <2>1 DEF NoCache, CacheType
    <2>3. \A a : GoodCache(r, a)
        BY <1>1, <2>2, Constants DEF GoodCache
    <2> QED
        BY <2>1, <2>2, <2>3
<1>5. ASSUME NEW p \in Paths, NEW g \in Gens, NEW a \in Nat, NEW k \in {0, Len(Tables[g])}, NEW r,
             r = [path |-> p, epoch |-> a, gen |-> g, cap |-> k,
                  total |-> Len(Tables[g]), known |-> << >>]
      PROVE  r \in CacheType /\ GoodCache(r, a) /\ r.path = p /\ r.gen = g /\ r.cap = k
             /\ Len(r.known) = 0
    <2>1. k \in Nat /\ Len(Tables[g]) \in Nat
        BY Constants
    <2>2. /\ r \in CacheType /\ r.path = p /\ r.gen = g /\ r.epoch = a /\ r.cap = k
          /\ r.total = Len(Tables[g]) /\ r.known = << >>
        BY <1>1, <1>5, <2>1 DEF CacheType
    <2>3. GoodCache(r, a)
        BY <1>1, <2>1, <2>2, Constants DEF GoodCache
    <2> QED
        BY <1>1, <2>2, <2>3
<1> QED
    BY <1>1, <1>2, <1>3, <1>4, <1>5

\* CacheInv, cache by cache.
LEMMA CachesAre ==
    ASSUME TypeInv
    PROVE  CacheInv <=> /\ \A c \in Caches : GoodCache(caches[c], attached)
                        /\ \A c, e \in Caches : caches[c].path = caches[e].path
                              => c = e \/ caches[c].path = None
    BY DEF CacheInv, GoodCache

\* One cache changes: its path stays, or goes from None to one that no cache has.
LEMMA OneCache ==
    ASSUME TypeInv, TypeInv', CacheInv, attached' = attached,
           NEW c \in Caches, NEW r \in CacheType, GoodCache(r, attached),
           caches' = [caches EXCEPT ![c] = r],
           \A e \in Caches : e # c => caches[e].path # r.path \/ r.path = None
    PROVE  CacheInv'
<1>1. \A e \in Caches : GoodCache(caches[e], attached)
    BY CachesAre
<1>2. \A e \in Caches : caches'[e] = IF e = c THEN r ELSE caches[e]
    BY DEF TypeInv
<1>3. \A e \in Caches : GoodCache(caches'[e], attached)
    BY <1>1, <1>2
<1>4. \A e, f \in Caches : caches'[e].path = caches'[f].path => e = f \/ caches'[e].path = None
    BY <1>2 DEF CacheInv
<1> QED
    BY <1>3, <1>4 DEF CacheInv, GoodCache

\* Every step keeps the caches good: an append is at the next index and within cap.
LEMMA CacheStep ==
    TypeInv /\ TypeInv' /\ LifeInv /\ CacheInv /\ WalkInv /\ [Next]_vars => CacheInv'
<1> SUFFICES ASSUME TypeInv, TypeInv', LifeInv, CacheInv, WalkInv, [Next]_vars
             PROVE  CacheInv'
    OBVIOUS
<1>1. ASSUME NEW t \in Threads, NEW d \in Dbs, OpenDb(t, d),
             client = "open", UNCHANGED <<client, pools, sessionVars, lops>>
      PROVE  CacheInv'
    <2>1. UNCHANGED <<attached, caches>>
        BY <1>1, OpenDbEffect DEF lifeVars
    <2> QED
        BY <2>1 DEF CacheInv
<1>2. ASSUME NEW t \in Threads, NEW d \in Dbs, CloseDb(t, d),
             client = "open", UNCHANGED <<client, pools, sessionVars, lops>>
      PROVE  CacheInv'
    <2>1. UNCHANGED <<attached, caches>>
        BY <1>2, CloseDbEffect DEF lifeVars
    <2> QED
        BY <2>1 DEF CacheInv
<1>3. ASSUME NEW t \in Threads, NEW d \in Dbs, Build(t, d),
             client = "open", UNCHANGED <<client, pools, sessionVars, lops>>
      PROVE  CacheInv'
    <2>1. UNCHANGED <<attached, caches>>
        BY <1>3, BuildEffect DEF lifeVars
    <2> QED
        BY <2>1 DEF CacheInv
<1>4. ASSUME NEW t \in Threads, NEW d \in Dbs,
             NEW n \in Names \cup {None}, WalkBegin(t, d, n),
             client = "open", UNCHANGED <<client, pools, sessionVars, lops>>
      PROVE  CacheInv'
    <2>1. attached' = attached
        BY <1>4, WalkBeginEffect DEF lifeVars
    <2>2. CASE caches' = caches
        BY <2>1, <2>2 DEF CacheInv
    <2>3. CASE caches' # caches
        <3>1. PICK c \in Caches :
                 /\ \A e \in Caches : caches[e].path = PathOf[d] => e = c
                 /\ caches' = [caches EXCEPT ![c] = [NoCache EXCEPT !.path = PathOf[d]]]
            BY <1>4, <2>3, WalkBeginEffect
        <3>2. PICK p \in Paths : p = PathOf[d]
            BY Constants
        <3>3. PICK r \in CacheType :
                 r = [NoCache EXCEPT !.path = p] /\ r.path = p /\ GoodCache(r, attached)
            BY EmptyCaches
        <3> QED
            <4>1. caches' = [caches EXCEPT ![c] = r]
                BY <3>1, <3>2, <3>3
            <4>2. \A e \in Caches : e # c => caches[e].path # r.path \/ r.path = None
                BY <3>1, <3>2, <3>3
            <4> QED
                BY <2>1, <3>3, <4>1, <4>2, OneCache
    <2> QED
        BY <2>2, <2>3
<1>5. ASSUME NEW t \in Threads, Scan(t),
             client = "open", UNCHANGED <<client, pools, sessionVars, lops>>
      PROVE  CacheInv'
    <2>1. UNCHANGED <<attached, caches>>
        BY <1>5, ScanEffect DEF lifeVars
    <2> QED
        BY <2>1 DEF CacheInv
<1>6. ASSUME NEW t \in Threads, SymbolAt(t),
             client = "open", UNCHANGED <<client, pools, sessionVars, lops>>
      PROVE  CacheInv'
    <2>1. UNCHANGED <<attached, caches>>
        BY <1>6, SymbolAtEffect DEF lifeVars
    <2> QED
        BY <2>1 DEF CacheInv
<1>7. ASSUME NEW t \in Threads, AppendSymbol(t),
             client = "open", UNCHANGED <<client, pools, sessionVars, lops>>
      PROVE  CacheInv'
    <2>1. /\ attached' = attached
          /\ walk[t].c \in Caches /\ caches[walk[t].c] \in CacheType /\ walk[t].got \in Symbols
          /\ caches' = [caches EXCEPT ![walk[t].c] = Kept(t, caches[walk[t].c])]
          /\ pc[t] = "append"
        BY <1>7, AppendEffect DEF lifeVars
    <2>2. PICK c \in Caches, k \in CacheType : c = walk[t].c /\ k = caches[c]
        BY <2>1
    <2>3. /\ Kept(t, k) \in CacheType
          /\ Kept(t, k).path = k.path /\ Kept(t, k).epoch = k.epoch /\ Kept(t, k).gen = k.gen
          /\ Kept(t, k).cap = k.cap /\ Kept(t, k).total = k.total
          /\ \/ Kept(t, k).known = k.known
             \/ /\ Len(k.known) < k.cap /\ walk[t].idx = Len(k.known) + 1
                /\ Kept(t, k).known = Append(k.known, walk[t].got)
        BY <2>1, Keeps DEF TypeInv
    <2>4. PICK r \in CacheType : r = Kept(t, k)
        BY <2>3
    <2>5. GoodCache(k, attached)
        BY <2>2, CachesAre
    <2>6. k.path # None /\ walk[t].got.idx = walk[t].idx
        BY <2>1, <2>2, Constants DEF WalkInv, Walking
    <2>7. Len(k.known) \in Nat /\ k.known \in Seq(Symbols) /\ k.cap \in Nat
        BY CacheFields
    <2>8. GoodCache(r, attached)
        <3>1. CASE r.known = k.known
            BY <2>3, <2>4, <2>5, <2>6, <3>1 DEF GoodCache
        <3>2. CASE /\ Len(k.known) < k.cap /\ walk[t].idx = Len(k.known) + 1
                   /\ r.known = Append(k.known, walk[t].got)
            <4>1. /\ Len(r.known) = Len(k.known) + 1
                  /\ \A i \in 1 .. Len(k.known) : r.known[i] = k.known[i]
                  /\ r.known[Len(k.known) + 1] = walk[t].got
                BY <2>1, <2>7, <3>2, AppendProperties
            <4>2. \A i \in 1 .. Len(r.known) : r.known[i].idx = i
                BY <2>5, <2>6, <2>7, <3>2, <4>1 DEF GoodCache
            <4>3. Len(r.known) <= r.cap
                BY <2>3, <2>4, <2>7, <3>2, <4>1
            <4> QED
                BY <2>3, <2>4, <2>5, <2>6, <4>2, <4>3 DEF GoodCache
        <3> QED
            BY <2>3, <2>4, <3>1, <3>2
    <2>9. \A e \in Caches : e # c => caches[e].path # r.path
        <3>1. r.path = caches[c].path /\ caches[c].path # None
            BY <2>2, <2>3, <2>4, <2>6
        <3>2. \A e \in Caches : caches[c].path = caches[e].path => c = e \/ caches[c].path = None
            BY DEF CacheInv
        <3> QED
            BY <3>1, <3>2
    <2>10. caches' = [caches EXCEPT ![c] = r]
        BY <2>1, <2>2, <2>4
    <2> QED
        BY ZenonT(40), <2>1, <2>8, <2>9, <2>10, OneCache
<1>8. ASSUME NEW t \in Threads, Reset(t),
             client = "open", UNCHANGED <<client, pools, sessionVars, lops>>
      PROVE  CacheInv'
    <2>1. attached' = attached /\ walk[t].db \in Dbs /\ walk[t].idx \in Gens
        BY <1>8, ResetEffect DEF lifeVars
    <2>2. CASE caches' = caches
        BY <2>1, <2>2 DEF CacheInv
    <2>3. CASE caches' # caches
        <3>1. PICK p \in Paths, g \in Gens : p = PathOf[walk[t].db] /\ g = walk[t].idx
            BY <2>1, Constants
        <3>2. PICK c \in Caches, k \in {0, Len(Tables[g])} :
                 /\ \A e \in Caches : caches[e].path = p => e = c
                 /\ caches' = [caches EXCEPT ![c] =
                       [path |-> p, epoch |-> attached, gen |-> g, cap |-> k,
                        total |-> Len(Tables[g]), known |-> << >>]]
            BY <1>8, <2>3, <3>1, ResetEffect
        <3>3. attached \in Nat
            BY DEF TypeInv
        <3>4. PICK r : r = [path |-> p, epoch |-> attached, gen |-> g, cap |-> k,
                            total |-> Len(Tables[g]), known |-> << >>]
            OBVIOUS
        <3>5. r \in CacheType /\ GoodCache(r, attached) /\ r.path = p
            BY <3>3, <3>4, EmptyCaches
        <3> QED
            BY ZenonT(40), <2>1, <3>2, <3>4, <3>5, OneCache
    <2> QED
        BY <2>2, <2>3
<1>9. ASSUME ServerStop
      PROVE  CacheInv'
    <2>1. UNCHANGED <<attached, caches>>
        BY <1>9 DEF lifeVars, ServerStop
    <2> QED
        BY <2>1 DEF CacheInv
<1>10. ASSUME ServerStart
      PROVE  CacheInv'
    <2>1. UNCHANGED <<attached, caches>>
        BY <1>10 DEF lifeVars, ServerStart
    <2> QED
        BY <2>1 DEF CacheInv
<1>11. CASE RenewStep
    BY <1>11, RenewEffect, EmptyCaches DEF CacheInv, GoodCache
<1>12. CASE QuietStep
    BY <1>12, QuietEffect DEF CacheInv
<1> QED
    BY <1>1, <1>2, <1>3, <1>4, <1>5, <1>6, <1>7, <1>8, <1>9, <1>10, <1>11, <1>12
       DEF Next, Tags, TagNext, TagStart, TagStep, RenewStep, QuietStep

-----------------------------------------------------------------------------
(* The walks *)

\* What WalkInv says of one thread.
GoodWalk(t) ==
    /\ Walking(t) \/ Building(t) => /\ walk[t].db \in Dbs /\ handle[walk[t].db] # 0
                                    /\ reach => walk[t].db \notin stale
    /\ Walking(t) => walk[t].c \in Caches /\ caches[walk[t].c].path = PathOf[walk[t].db]
    /\ Asking(t) => walk[t].idx >= 1
    /\ Building(t) => walk[t].idx \in Gens
    /\ pc[t] = "append" => walk[t].got \in Symbols /\ walk[t].got.idx = walk[t].idx

\* WalkInv, thread by thread.
LEMMA WalksAre == WalkInv <=> \A t \in Threads : GoodWalk(t)
    BY DEF WalkInv, GoodWalk

\* A step of one thread leaves the walks of the others good.
LEMMA OneWalk ==
    ASSUME WalkInv, NEW t \in Threads, OthersKept(t), GoodWalk(t)',
           UNCHANGED <<epoch, attached>>, stale' \subseteq stale,
           \A d \in Dbs : handle[d] # 0 => handle'[d] # 0 \/ \A u \in Threads : walk[u].db # d,
           \A c \in Caches : caches[c].path # None => caches'[c].path = caches[c].path
    PROVE  WalkInv'
<1>1. ASSUME NEW u \in Threads, u # t
      PROVE  GoodWalk(u)'
    <2>1. GoodWalk(u) /\ pc'[u] = pc[u] /\ walk'[u] = walk[u]
        BY <1>1, WalksAre DEF OthersKept
    <2>2. /\ Walking(u)' <=> Walking(u)
          /\ Building(u)' <=> Building(u)
          /\ Asking(u)' <=> Asking(u)
        BY <2>1 DEF Walking, Building, Asking
    <2>3. reach' <=> reach
        BY DEF reach
    <2> HIDE DEF Walking, Building, Asking, reach
    <2>4. Walking(u) => caches'[walk[u].c].path = caches[walk[u].c].path
        BY <2>1, Constants DEF GoodWalk
    <2>5. Walking(u) \/ Building(u) => handle'[walk[u].db] # 0
        BY <2>1 DEF GoodWalk
    <2> QED
        BY <2>1, <2>2, <2>3, <2>4, <2>5 DEF GoodWalk
<1>2. \A u \in Threads : GoodWalk(u)'
    BY <1>1
<1> QED
    BY <1>2 DEF WalkInv, GoodWalk

\* Nothing is asked of a thread at rest.
LEMMA Resting ==
    ASSUME NEW t \in Threads, pc[t] \in {"idle", "missed"}
    PROVE  GoodWalk(t) /\ ~Walking(t) /\ ~Asking(t) /\ ~Building(t)
    BY DEF GoodWalk, Walking, Asking, Building

\* The same after a step.
LEMMA RestingNext ==
    ASSUME NEW t \in Threads, pc'[t] \in {"idle", "missed"}
    PROVE  GoodWalk(t)' /\ ~Walking(t)' /\ ~Asking(t)' /\ ~Building(t)'
    BY DEF GoodWalk, Walking, Asking, Building

\* A step of no thread.
LEMMA NoWalker ==
    ASSUME WalkInv, UNCHANGED <<pc, walk, handle>>,
           reach' => reach /\ stale' = stale,
           \A c \in Caches : caches[c].path # None => caches'[c].path = caches[c].path
    PROVE  WalkInv'
<1>1. ASSUME NEW u \in Threads
      PROVE  GoodWalk(u)'
    <2>1. GoodWalk(u) /\ pc'[u] = pc[u] /\ walk'[u] = walk[u]
        BY WalksAre
    <2>2. /\ Walking(u)' <=> Walking(u)
          /\ Building(u)' <=> Building(u)
          /\ Asking(u)' <=> Asking(u)
        BY <2>1 DEF Walking, Building, Asking
    <2>3. Walking(u) => caches'[walk[u].c].path = caches[walk[u].c].path
        BY <2>1, Constants DEF GoodWalk
    <2> QED
        BY <2>1, <2>2, <2>3 DEF GoodWalk
<1> QED
    BY <1>1 DEF WalkInv, GoodWalk

\* Every step keeps the walks good: no database is closed under a thread, and no
\* cache changes its path while one is at work on it.
LEMMA WalkStep ==
    TypeInv /\ TypeInv' /\ LifeInv /\ CacheInv /\ WalkInv /\ [Next]_vars => WalkInv'
<1> SUFFICES ASSUME TypeInv, TypeInv', LifeInv, CacheInv, WalkInv, [Next]_vars
             PROVE  WalkInv'
    OBVIOUS
<1>1. ASSUME NEW t \in Threads, NEW d \in Dbs, OpenDb(t, d),
             client = "open", UNCHANGED <<client, pools, sessionVars, lops>>
      PROVE  WalkInv'
    <2>1. /\ OthersKept(t) /\ UNCHANGED <<epoch, attached>> /\ stale' \subseteq stale
        BY <1>1, OpenDbEffect DEF lifeVars
    <2>2. \A e \in Dbs : handle[e] # 0 => handle'[e] # 0 \/ \A u \in Threads : walk[u].db # e
        BY SMTT(40), <1>1, OpenDbEffect, Constants DEF TypeInv
    <2>3. \A c \in Caches : caches[c].path # None => caches'[c].path = caches[c].path
        BY <1>1, OpenDbEffect DEF lifeVars
    <2>4. GoodWalk(t)'
        BY <1>1, OpenDbEffect, RestingNext
    <2> QED
        BY <2>1, <2>2, <2>3, <2>4, OneWalk
<1>2. ASSUME NEW t \in Threads, NEW d \in Dbs, CloseDb(t, d),
             client = "open", UNCHANGED <<client, pools, sessionVars, lops>>
      PROVE  WalkInv'
    <2>1. /\ OthersKept(t) /\ UNCHANGED <<epoch, attached>> /\ stale' \subseteq stale
        BY <1>2, CloseDbEffect DEF lifeVars
    <2>2. \A e \in Dbs : handle[e] # 0 => handle'[e] # 0 \/ \A u \in Threads : walk[u].db # e
        BY <1>2, CloseDbEffect DEF TypeInv
    <2>3. \A c \in Caches : caches[c].path # None => caches'[c].path = caches[c].path
        BY <1>2, CloseDbEffect DEF lifeVars
    <2>4. GoodWalk(t)'
        BY <1>2, CloseDbEffect, RestingNext
    <2> QED
        BY <2>1, <2>2, <2>3, <2>4, OneWalk
<1>3. ASSUME NEW t \in Threads, NEW d \in Dbs, Build(t, d),
             client = "open", UNCHANGED <<client, pools, sessionVars, lops>>
      PROVE  WalkInv'
    <2>1. /\ OthersKept(t) /\ UNCHANGED <<epoch, attached>> /\ stale' \subseteq stale
        BY <1>3, BuildEffect DEF lifeVars
    <2>2. \A e \in Dbs : handle[e] # 0 => handle'[e] # 0 \/ \A u \in Threads : walk[u].db # e
        BY <1>3, BuildEffect DEF lifeVars
    <2>3. \A c \in Caches : caches[c].path # None => caches'[c].path = caches[c].path
        BY <1>3, BuildEffect DEF lifeVars
    <2>4. GoodWalk(t)'
        <3>1. CASE pc'[t] = "idle"
            BY <3>1, RestingNext
        <3>2. CASE pc'[t] = "reset" /\ walk'[t].db = d /\ walk'[t].idx = gen
            <4>1. /\ handle'[d] \in Handles /\ (reach => d \notin stale)
                  /\ UNCHANGED <<epoch, attached, stale>>
                BY <1>3, BuildEffect DEF lifeVars
            <4>2. gen \in Gens /\ handle'[d] # 0
                BY <4>1, Constants DEF TypeInv
            <4> QED
                BY <3>2, <4>1, <4>2 DEF GoodWalk, Walking, Asking, Building, reach
        <3> QED
            BY <1>3, <3>1, <3>2, BuildEffect
    <2> QED
        BY <2>1, <2>2, <2>3, <2>4, OneWalk
<1>4. ASSUME NEW t \in Threads, NEW d \in Dbs,
             NEW n \in Names \cup {None}, WalkBegin(t, d, n),
             client = "open", UNCHANGED <<client, pools, sessionVars, lops>>
      PROVE  WalkInv'
    <2>1. /\ OthersKept(t) /\ UNCHANGED <<epoch, attached>> /\ stale' \subseteq stale
        BY <1>4, WalkBeginEffect DEF lifeVars
    <2>2. \A e \in Dbs : handle[e] # 0 => handle'[e] # 0 \/ \A u \in Threads : walk[u].db # e
        BY <1>4, WalkBeginEffect DEF lifeVars
    <2>3. \A c \in Caches : caches[c].path # None => caches'[c].path = caches[c].path
        <3>1. \/ caches' = caches
              \/ \E c \in Caches : /\ caches[c] = NoCache
                                   /\ caches' = [caches EXCEPT ![c] = [NoCache EXCEPT !.path = PathOf[d]]]
            BY <1>4, WalkBeginEffect
        <3> QED
            BY <3>1, EmptyCaches DEF TypeInv
    <2>4. GoodWalk(t)'
        <3>1. CASE pc'[t] = "idle"
            BY <3>1, RestingNext
        <3>2. CASE pc'[t] # "idle"
            <4>1. PICK c \in Caches :
                    /\ caches[c].path \in {PathOf[d], None}
                    /\ \/ caches[c] # NoCache /\ caches' = caches
                       \/ /\ caches[c] = NoCache
                          /\ caches' = [caches EXCEPT ![c] = [NoCache EXCEPT !.path = PathOf[d]]]
                    /\ pc'[t] = "scan" /\ walk'[t].db = d /\ walk'[t].c = c
                BY <1>4, <3>2, WalkBeginEffect
            <4>2. /\ handle'[d] \in Handles /\ (reach => d \notin stale)
                  /\ UNCHANGED <<epoch, attached, stale>>
                BY <1>4, WalkBeginEffect DEF lifeVars
            <4>3. caches'[c].path = PathOf[d]
                <5>1. caches[c] # NoCache => caches[c].path # None
                    BY DEF CacheInv
                <5> QED
                    BY ZenonT(40), <4>1, <5>1, EmptyCaches, Constants DEF TypeInv
            <4>4. handle'[d] # 0
                BY <4>2, Constants
            <4> QED
                BY <4>1, <4>2, <4>3, <4>4 DEF GoodWalk, Walking, Asking, Building, reach
        <3> QED
            BY <3>1, <3>2
    <2> QED
        BY <2>1, <2>2, <2>3, <2>4, OneWalk
<1>5. ASSUME NEW t \in Threads, Scan(t),
             client = "open", UNCHANGED <<client, pools, sessionVars, lops>>
      PROVE  WalkInv'
    <2>1. /\ OthersKept(t) /\ UNCHANGED <<epoch, attached>> /\ stale' \subseteq stale
        BY <1>5, ScanEffect DEF lifeVars
    <2>2. \A e \in Dbs : handle[e] # 0 => handle'[e] # 0 \/ \A u \in Threads : walk[u].db # e
        BY <1>5, ScanEffect DEF lifeVars
    <2>3. \A c \in Caches : caches[c].path # None => caches'[c].path = caches[c].path
        BY <1>5, ScanEffect DEF lifeVars
    <2>4. GoodWalk(t)'
        <3>1. CASE pc'[t] \in {"idle", "missed"}
            BY <3>1, RestingNext
        <3>2. CASE ~(pc'[t] \in {"idle", "missed"})
            <4>1. PICK k \in CacheType : Asks(t, k)
                BY <1>5, <3>2, ScanEffect DEF GivesUp
            <4>2. /\ pc'[t] = "ipc" /\ walk'[t].db = walk[t].db /\ walk'[t].c = walk[t].c
                  /\ walk'[t].idx >= 1
                BY <4>1, CacheFields DEF Asks
            <4>3. GoodWalk(t) /\ Walking(t)
                BY <1>5, WalksAre, ScanEffect DEF Walking
            <4>4. walk[t].db \in Dbs /\ handle[walk[t].db] # 0 /\ (reach => walk[t].db \notin stale)
                BY <4>3 DEF GoodWalk
            <4>5. walk[t].c \in Caches /\ caches[walk[t].c].path = PathOf[walk[t].db]
                BY <4>3 DEF GoodWalk
            <4>6. UNCHANGED <<epoch, attached, stale, handle>>
                BY <1>5, ScanEffect DEF lifeVars
            <4>7. caches'[walk[t].c].path = caches[walk[t].c].path
                BY <2>3, <4>4, <4>5, Constants
            <4> QED
                BY <4>1, <4>2, <4>4, <4>5, <4>6, <4>7 DEF GoodWalk, Walking, Asking,
                   Building, reach
        <3> QED
            BY <3>1, <3>2
    <2> QED
        BY <2>1, <2>2, <2>3, <2>4, OneWalk
<1>6. ASSUME NEW t \in Threads, SymbolAt(t),
             client = "open", UNCHANGED <<client, pools, sessionVars, lops>>
      PROVE  WalkInv'
    <2>1. /\ OthersKept(t) /\ UNCHANGED <<epoch, attached>> /\ stale' \subseteq stale
        BY <1>6, SymbolAtEffect DEF lifeVars
    <2>2. \A e \in Dbs : handle[e] # 0 => handle'[e] # 0 \/ \A u \in Threads : walk[u].db # e
        BY <1>6, SymbolAtEffect DEF lifeVars
    <2>3. \A c \in Caches : caches[c].path # None => caches'[c].path = caches[c].path
        BY <1>6, SymbolAtEffect DEF lifeVars
    <2>4. GoodWalk(t)'
        <3>1. CASE pc'[t] \in {"idle", "missed"}
            BY <3>1, RestingNext
        <3>2. CASE ~(pc'[t] \in {"idle", "missed"})
            <4>1. /\ pc'[t] = "append" /\ walk'[t].db = walk[t].db /\ walk'[t].c = walk[t].c
                  /\ walk'[t].idx = walk[t].idx
                  /\ walk'[t].got \in Symbols /\ walk'[t].got.idx = walk[t].idx
                BY <1>6, <3>2, SymbolAtEffect
            <4>2. walk[t].idx >= 1
                BY <1>6, SymbolAtEffect DEF WalkInv, Asking
            <4>3. GoodWalk(t) /\ Walking(t)
                BY <1>6, WalksAre, SymbolAtEffect DEF Walking
            <4>4. walk[t].db \in Dbs /\ handle[walk[t].db] # 0 /\ (reach => walk[t].db \notin stale)
                BY <4>3 DEF GoodWalk
            <4>5. walk[t].c \in Caches /\ caches[walk[t].c].path = PathOf[walk[t].db]
                BY <4>3 DEF GoodWalk
            <4>6. UNCHANGED <<epoch, attached, stale, handle>>
                BY <1>6, SymbolAtEffect DEF lifeVars
            <4>7. caches'[walk[t].c].path = caches[walk[t].c].path
                BY <2>3, <4>4, <4>5, Constants
            <4> QED
                BY <4>1, <4>2, <4>4, <4>5, <4>6, <4>7 DEF GoodWalk, Walking, Asking,
                   Building, reach
        <3> QED
            BY <3>1, <3>2
    <2> QED
        BY <2>1, <2>2, <2>3, <2>4, OneWalk
<1>7. ASSUME NEW t \in Threads, AppendSymbol(t),
             client = "open", UNCHANGED <<client, pools, sessionVars, lops>>
      PROVE  WalkInv'
    <2>1. /\ OthersKept(t) /\ UNCHANGED <<epoch, attached>> /\ stale' \subseteq stale
        BY <1>7, AppendEffect DEF lifeVars
    <2>2. \A e \in Dbs : handle[e] # 0 => handle'[e] # 0 \/ \A u \in Threads : walk[u].db # e
        BY <1>7, AppendEffect DEF lifeVars
    <2>3. \A c \in Caches : caches[c].path # None => caches'[c].path = caches[c].path
        <3>1. PICK c \in Caches, k \in CacheType : c = walk[t].c /\ k = caches[c]
            BY <1>7, AppendEffect
        <3>2. Kept(t, k).path = k.path
            BY <1>7, AppendEffect, Keeps DEF TypeInv
        <3>3. caches' = [caches EXCEPT ![c] = Kept(t, k)]
            BY <1>7, <3>1, AppendEffect
        <3> QED
            BY <3>1, <3>2, <3>3 DEF TypeInv
    <2>4. GoodWalk(t)'
        <3>1. CASE pc'[t] \in {"idle", "missed"}
            BY <3>1, RestingNext
        <3>2. CASE ~(pc'[t] \in {"idle", "missed"})
            <4>1. PICK r : r = caches[walk[t].c] /\ r \in CacheType /\ walk[t].got \in Symbols
                BY <1>7, AppendEffect
            <4>2. Kept(t, r) \in CacheType
                BY <4>1, Keeps DEF TypeInv
            <4>3. PICK k \in CacheType : Asks(t, k)
                BY <1>7, <3>2, <4>1, <4>2, AppendEffect DEF GivesUp
            <4>4. /\ pc'[t] = "ipc" /\ walk'[t].db = walk[t].db /\ walk'[t].c = walk[t].c
                  /\ walk'[t].idx >= 1
                BY <4>3, CacheFields DEF Asks
            <4>5. GoodWalk(t) /\ Walking(t)
                BY <1>7, WalksAre, AppendEffect DEF Walking
            <4>6. walk[t].db \in Dbs /\ handle[walk[t].db] # 0 /\ (reach => walk[t].db \notin stale)
                BY <4>5 DEF GoodWalk
            <4>7. walk[t].c \in Caches /\ caches[walk[t].c].path = PathOf[walk[t].db]
                BY <4>5 DEF GoodWalk
            <4>8. UNCHANGED <<epoch, attached, stale, handle>>
                BY <1>7, AppendEffect DEF lifeVars
            <4>9. caches'[walk[t].c].path = caches[walk[t].c].path
                BY <2>3, <4>6, <4>7, Constants
            <4> QED
                BY <4>3, <4>4, <4>6, <4>7, <4>8, <4>9 DEF GoodWalk, Walking, Asking,
                   Building, reach
        <3> QED
            BY <3>1, <3>2
    <2> QED
        BY <2>1, <2>2, <2>3, <2>4, OneWalk
<1>8. ASSUME NEW t \in Threads, Reset(t),
             client = "open", UNCHANGED <<client, pools, sessionVars, lops>>
      PROVE  WalkInv'
    <2>1. /\ OthersKept(t) /\ UNCHANGED <<epoch, attached>> /\ stale' \subseteq stale
        BY <1>8, ResetEffect DEF lifeVars
    <2>2. \A e \in Dbs : handle[e] # 0 => handle'[e] # 0 \/ \A u \in Threads : walk[u].db # e
        BY <1>8, ResetEffect DEF lifeVars
    <2>3. \A c \in Caches : caches[c].path # None => caches'[c].path = caches[c].path
        <3>1. PICK p : p = PathOf[walk[t].db]
            OBVIOUS
        <3>2. \/ caches' = caches
              \/ \E c \in Caches : /\ caches[c].path \in {p, None}
                                   /\ \E r : r.path = p /\ caches' = [caches EXCEPT ![c] = r]
            BY ZenonT(40), <1>8, <3>1, ResetEffect
        <3> QED
            BY <3>2 DEF TypeInv
    <2>4. GoodWalk(t)'
        BY <1>8, ResetEffect, RestingNext
    <2> QED
        BY <2>1, <2>2, <2>3, <2>4, OneWalk
<1>9. ASSUME ServerStop
      PROVE  WalkInv'
    <2>1. UNCHANGED <<pc, walk, handle, caches>>
        BY <1>9 DEF ServerStop
    <2>2. reach' => reach /\ stale' = stale
        BY <1>9 DEF ServerStop, reach, Up, LifeInv, TypeInv
    <2> QED
        BY <2>1, <2>2, NoWalker
<1>10. ASSUME ServerStart
      PROVE  WalkInv'
    <2>1. UNCHANGED <<pc, walk, handle, caches>>
        BY <1>10 DEF ServerStart
    <2>2. reach' => reach /\ stale' = stale
        BY <1>10 DEF ServerStart, reach, Up, LifeInv, TypeInv
    <2> QED
        BY <2>1, <2>2, NoWalker
<1>11. CASE RenewStep
    <2>1. \A u \in Threads : GoodWalk(u)'
        BY <1>11, RenewEffect, RestingNext
    <2> QED
        BY <2>1 DEF WalkInv, GoodWalk
<1>12. CASE QuietStep
    BY <1>12, QuietEffect, NoWalker DEF reach
<1> QED
    BY <1>1, <1>2, <1>3, <1>4, <1>5, <1>6, <1>7, <1>8, <1>9, <1>10, <1>11, <1>12
       DEF Next, Tags, TagNext, TagStart, TagStep, RenewStep, QuietStep

-----------------------------------------------------------------------------
(* The handles *)

\* The flags that say something raced or crossed.
FlagsKept == (raced => raced') /\ (crossed => crossed')

\* raced and crossed stay set.
LEMMA FlagsStay ==
    TypeInv /\ LifeInv /\ CacheInv /\ WalkInv /\ [Next]_vars => FlagsKept
<1> SUFFICES ASSUME TypeInv, LifeInv, CacheInv, WalkInv, [Next]_vars
             PROVE  FlagsKept
    OBVIOUS
<1>1. ASSUME NEW t \in Threads, NEW d \in Dbs, OpenDb(t, d),
             client = "open", UNCHANGED <<client, pools, sessionVars, lops>>
      PROVE  FlagsKept
    BY <1>1, OpenDbEffect DEF lifeVars, Asks, GivesUp, FlagsKept
<1>2. ASSUME NEW t \in Threads, NEW d \in Dbs, CloseDb(t, d),
             client = "open", UNCHANGED <<client, pools, sessionVars, lops>>
      PROVE  FlagsKept
    BY <1>2, CloseDbEffect DEF lifeVars, Asks, GivesUp, FlagsKept
<1>3. ASSUME NEW t \in Threads, NEW d \in Dbs, Build(t, d),
             client = "open", UNCHANGED <<client, pools, sessionVars, lops>>
      PROVE  FlagsKept
    BY <1>3, BuildEffect DEF lifeVars, Asks, GivesUp, FlagsKept
<1>4. ASSUME NEW t \in Threads, NEW d \in Dbs,
             NEW n \in Names \cup {None}, WalkBegin(t, d, n),
             client = "open", UNCHANGED <<client, pools, sessionVars, lops>>
      PROVE  FlagsKept
    BY <1>4, WalkBeginEffect DEF lifeVars, Asks, GivesUp, FlagsKept
<1>5. ASSUME NEW t \in Threads, Scan(t),
             client = "open", UNCHANGED <<client, pools, sessionVars, lops>>
      PROVE  FlagsKept
    BY <1>5, ScanEffect DEF lifeVars, Asks, GivesUp, FlagsKept
<1>6. ASSUME NEW t \in Threads, SymbolAt(t),
             client = "open", UNCHANGED <<client, pools, sessionVars, lops>>
      PROVE  FlagsKept
    BY <1>6, SymbolAtEffect DEF lifeVars, Asks, GivesUp, FlagsKept
<1>7. ASSUME NEW t \in Threads, AppendSymbol(t),
             client = "open", UNCHANGED <<client, pools, sessionVars, lops>>
      PROVE  FlagsKept
    BY <1>7, AppendEffect DEF lifeVars, Asks, GivesUp, FlagsKept
<1>8. ASSUME NEW t \in Threads, Reset(t),
             client = "open", UNCHANGED <<client, pools, sessionVars, lops>>
      PROVE  FlagsKept
    BY <1>8, ResetEffect DEF lifeVars, Asks, GivesUp, FlagsKept
<1>9. ASSUME ServerStop
      PROVE  FlagsKept
    BY <1>9 DEF lifeVars, ServerStop, FlagsKept
<1>10. ASSUME ServerStart
      PROVE  FlagsKept
    BY <1>10 DEF lifeVars, ServerStart, FlagsKept
<1>11. CASE RenewStep
    BY <1>11, RenewEffect DEF FlagsKept
<1>12. CASE QuietStep
    BY <1>12, QuietEffect DEF FlagsKept
<1> QED
    BY <1>1, <1>2, <1>3, <1>4, <1>5, <1>6, <1>7, <1>8, <1>9, <1>10, <1>11, <1>12
       DEF Next, Tags, TagNext, TagStart, TagStep, RenewStep, QuietStep

\* Handles name what they named when nothing about them changes.
LEMMA DbsSame ==
    ASSUME DbsNamed, UNCHANGED <<engine, handle, stale>>
    PROVE  DbsNamed'
    BY DEF DbsNamed, Open

\* A step that brings no symbol leaves the ones on their way alone.
LEMMA GotSame ==
    ASSUME GotNamed, NEW t \in Threads, OthersKept(t), pc'[t] # "append"
    PROVE  GotNamed'
    BY DEF GotNamed, OthersKept

\* An emptied cache has no symbol of another path.
LEMMA KnownEmptied ==
    ASSUME TypeInv, KnownNamed, NEW c \in Caches, NEW r, Len(r.known) = 0,
           caches' = [caches EXCEPT ![c] = r]
    PROVE  KnownNamed'
<1>1. \A e \in Caches : caches'[e] = IF e = c THEN r ELSE caches[e]
    BY DEF TypeInv
<1> QED
    BY <1>1 DEF KnownNamed

\* Every step keeps handles at their databases: a new handle is not in use, and a
\* close removes only its own, unless it crosses.
LEMMA HandleStep ==
    TypeInv /\ LifeInv /\ CacheInv /\ WalkInv /\ HandleInv /\ ~crossed' /\ [Next]_vars
       => Named'
<1> SUFFICES ASSUME TypeInv, LifeInv, CacheInv, WalkInv, HandleInv, ~crossed', [Next]_vars
             PROVE  Named'
    OBVIOUS
<1>1. DbsNamed /\ GotNamed /\ KnownNamed
    BY FlagsStay DEF FlagsKept, HandleInv, Named
<1>2. ASSUME NEW t \in Threads, NEW d \in Dbs, OpenDb(t, d),
             client = "open", UNCHANGED <<client, pools, sessionVars, lops>>
      PROVE  Named'
    <2>1. DbsNamed'
        <3>1. d \notin stale /\ stale' = stale
            BY <1>2, OpenDbEffect DEF LifeInv, lifeVars
        <3>2. CASE UNCHANGED <<engine, handle>>
            BY <1>1, <3>1, <3>2, DbsSame
        <3>3. CASE ~UNCHANGED <<engine, handle>>
            <4>1. PICK h \in Handles : \E r :
                    /\ engine[h] = None /\ r \in Contents /\ r.path = PathOf[d]
                    /\ engine' = [engine EXCEPT ![h] = r]
                    /\ handle' = [handle EXCEPT ![d] = h] \/ handle' = handle
                <5>1. [path |-> PathOf[d], gen |-> 0] \in Contents
                    BY Constants DEF Contents
                <5> QED
                    BY <1>2, <3>3, <5>1, OpenDbEffect
            <4>2. h # 0 /\ handle[d] = 0 /\ d \notin stale'
                BY <1>2, <3>1, OpenDbEffect, Constants
            <4>3. \A e \in Dbs : Open(e) => handle[e] # h /\ handle[e] \in Handles
                BY <1>1, <4>1 DEF DbsNamed, Open, TypeInv
            <4>4. engine'[h] # None /\ engine'[h].path = PathOf[d]
                BY <4>1, Constants DEF TypeInv
            <4>5. \A e \in Dbs : Open(e) => engine'[handle[e]] = engine[handle[e]]
                BY <4>1, <4>3 DEF TypeInv
            <4>6. \A e \in Dbs : Open(e)' =>
                     \/ Open(e) /\ handle'[e] = handle[e]
                     \/ e = d /\ handle'[e] = h
                <5>1. CASE handle' = handle
                    BY <3>1, <5>1 DEF Open
                <5>2. CASE handle' = [handle EXCEPT ![d] = h]
                    BY <3>1, <5>2 DEF Open, TypeInv
                <5> QED
                    BY <4>1, <5>1, <5>2
            <4> QED
                BY <1>1, <4>3, <4>4, <4>5, <4>6 DEF DbsNamed
        <3> QED
            BY <3>2, <3>3
    <2>2. GotNamed'
        BY <1>1, <1>2, GotSame, OpenDbEffect
    <2>3. KnownNamed'
        BY <1>1, <1>2, OpenDbEffect DEF KnownNamed
    <2> QED
        BY <2>1, <2>2, <2>3 DEF Named
<1>3. ASSUME NEW t \in Threads, NEW d \in Dbs, CloseDb(t, d),
             client = "open", UNCHANGED <<client, pools, sessionVars, lops>>
      PROVE  Named'
    <2>1. DbsNamed'
        <3>1. /\ handle' = [handle EXCEPT ![d] = 0] /\ stale' = stale \ {d}
              /\ handle[d] \in Handles
              /\ \/ /\ engine' = [engine EXCEPT ![handle[d]] = None]
                    /\ crossed' = (crossed \/ Crosses(d))
                 \/ UNCHANGED engine
            BY <1>3, CloseDbEffect
        <3>2. \A e \in Dbs : Open(e)' => e # d /\ Open(e) /\ handle'[e] = handle[e]
            BY <3>1 DEF Open, TypeInv
        <3>3. ASSUME NEW e \in Dbs, Open(e), e # d, engine' # engine
              PROVE  handle[e] # handle[d]
            <4>1. CASE d \in stale
                BY <3>1, <3>3, <4>1 DEF Crosses, Open
            <4>2. CASE d \notin stale
                <5>1. Open(d)
                    BY <3>1, <4>2, Constants DEF Open
                <5> QED
                    BY <1>1, <3>3, <5>1 DEF DbsNamed
            <4> QED
                BY <4>1, <4>2
        <3>4. \A e \in Dbs : Open(e) /\ e # d => engine'[handle[e]] = engine[handle[e]]
            <4>1. CASE engine' = engine
                BY <4>1
            <4>2. CASE engine' = [engine EXCEPT ![handle[d]] = None]
                BY <3>1, <3>3, <4>2 DEF TypeInv, Open
            <4> QED
                BY <3>1, <4>1, <4>2
        <3> QED
            BY <1>1, <3>2, <3>4 DEF DbsNamed
    <2>2. GotNamed'
        BY <1>1, <1>3, GotSame, CloseDbEffect
    <2>3. KnownNamed'
        BY <1>1, <1>3, CloseDbEffect DEF KnownNamed
    <2> QED
        BY <2>1, <2>2, <2>3 DEF Named
<1>4. ASSUME NEW t \in Threads, NEW d \in Dbs, Build(t, d),
             client = "open", UNCHANGED <<client, pools, sessionVars, lops>>
      PROVE  Named'
    <2>1. DbsNamed'
        <3>1. UNCHANGED <<handle, stale>>
            BY <1>4, BuildEffect DEF lifeVars
        <3>2. CASE UNCHANGED engine
            BY <1>1, <3>1, <3>2, DbsSame
        <3>3. CASE engine' # engine
            <4>1. PICK h \in Handles : h = handle[d]
                BY <1>4, BuildEffect
            <4>2. PICK r \in Contents :
                     /\ engine[h] = r
                     /\ engine' = [engine EXCEPT ![h] = [r EXCEPT !.gen = gen]]
                BY <1>4, <3>3, <4>1, BuildEffect
            <4>3. [r EXCEPT !.gen = gen] # None /\ [r EXCEPT !.gen = gen].path = r.path
                BY Constants DEF Contents, TypeInv
            <4>4. \A g \in Handles : engine[g] # None => engine'[g] # None /\ engine'[g].path = engine[g].path
                BY <4>2, <4>3 DEF TypeInv
            <4>5. \A e \in Dbs : Open(e)' => Open(e) /\ handle[e] \in Handles
                BY <3>1 DEF Open, TypeInv
            <4> QED
                BY <1>1, <3>1, <4>4, <4>5 DEF DbsNamed
        <3> QED
            BY <3>2, <3>3
    <2>2. GotNamed'
        BY <1>1, <1>4, GotSame, BuildEffect
    <2>3. KnownNamed'
        BY <1>1, <1>4, BuildEffect DEF KnownNamed
    <2> QED
        BY <2>1, <2>2, <2>3 DEF Named
<1>5. ASSUME NEW t \in Threads, NEW d \in Dbs,
             NEW n \in Names \cup {None}, WalkBegin(t, d, n),
             client = "open", UNCHANGED <<client, pools, sessionVars, lops>>
      PROVE  Named'
    <2>1. DbsNamed'
        BY <1>1, <1>5, DbsSame, WalkBeginEffect DEF lifeVars
    <2>2. GotNamed'
        BY <1>1, <1>5, GotSame, WalkBeginEffect
    <2>3. KnownNamed'
        <3>1. CASE caches' = caches
            BY <1>1, <3>1 DEF KnownNamed
        <3>2. CASE caches' # caches
            <4>1. PICK c \in Caches : caches' = [caches EXCEPT ![c] = [NoCache EXCEPT !.path = PathOf[d]]]
                BY <1>5, <3>2, WalkBeginEffect
            <4>2. Len([NoCache EXCEPT !.path = PathOf[d]].known) = 0
                BY EmptyCaches, Constants
            <4> QED
                BY <1>1, <4>1, <4>2, KnownEmptied
        <3> QED
            BY <3>1, <3>2
    <2> QED
        BY <2>1, <2>2, <2>3 DEF Named
<1>6. ASSUME NEW t \in Threads, Scan(t),
             client = "open", UNCHANGED <<client, pools, sessionVars, lops>>
      PROVE  Named'
    <2>1. DbsNamed'
        BY <1>1, <1>6, DbsSame, ScanEffect DEF lifeVars
    <2>2. GotNamed'
        <3>1. pc'[t] # "append"
            BY <1>6, ScanEffect DEF Asks, GivesUp
        <3> QED
            BY <1>1, <1>6, <3>1, GotSame, ScanEffect
    <2>3. KnownNamed'
        BY <1>1, <1>6, ScanEffect DEF KnownNamed
    <2> QED
        BY <2>1, <2>2, <2>3 DEF Named
<1>7. ASSUME NEW t \in Threads, SymbolAt(t),
             client = "open", UNCHANGED <<client, pools, sessionVars, lops>>
      PROVE  Named'
    <2>1. DbsNamed'
        BY <1>1, <1>7, DbsSame, SymbolAtEffect DEF lifeVars
    <2>2. GotNamed'
        <3>1. CASE pc'[t] # "append"
            BY <1>1, <1>7, <3>1, GotSame, SymbolAtEffect
        <3>2. CASE pc'[t] = "append"
            <4>1. /\ reach /\ walk'[t].db = walk[t].db
                  /\ walk'[t].got.path = engine[handle[walk[t].db]].path
                BY <1>7, <3>2, SymbolAtEffect
            <4>2. walk[t].db \in Dbs /\ Open(walk[t].db)
                BY <1>7, <4>1, SymbolAtEffect DEF WalkInv, Walking, Open
            <4>3. walk'[t].got.path = PathOf[walk'[t].db]
                BY <1>1, <4>1, <4>2 DEF DbsNamed
            <4> QED
                BY <1>1, <1>7, <4>3, SymbolAtEffect DEF GotNamed, OthersKept
        <3> QED
            BY <3>1, <3>2
    <2>3. KnownNamed'
        BY <1>1, <1>7, SymbolAtEffect DEF KnownNamed
    <2> QED
        BY <2>1, <2>2, <2>3 DEF Named
<1>8. ASSUME NEW t \in Threads, AppendSymbol(t),
             client = "open", UNCHANGED <<client, pools, sessionVars, lops>>
      PROVE  Named'
    <2>1. DbsNamed'
        BY <1>1, <1>8, DbsSame, AppendEffect DEF lifeVars
    <2>2. GotNamed'
        <3>1. pc'[t] # "append"
            BY <1>8, AppendEffect DEF Asks, GivesUp
        <3> QED
            BY <1>1, <1>8, <3>1, GotSame, AppendEffect
    <2>3. KnownNamed'
        <3>1. PICK c \in Caches, k \in CacheType : c = walk[t].c /\ k = caches[c]
            BY <1>8, AppendEffect
        <3>2. /\ walk[t].got \in Symbols /\ caches' = [caches EXCEPT ![c] = Kept(t, k)]
              /\ k.path = PathOf[walk[t].db] /\ walk[t].got.path = k.path
            BY <1>1, <1>8, <3>1, AppendEffect DEF WalkInv, Walking, GotNamed
        <3>3. /\ Kept(t, k).path = k.path
              /\ \/ Kept(t, k).known = k.known
                 \/ Kept(t, k).known = Append(k.known, walk[t].got)
            BY <3>2, Keeps DEF TypeInv
        <3>4. PICK r : r = Kept(t, k)
            OBVIOUS
        <3>5. \A i \in 1 .. Len(k.known) : k.known[i].path = k.path
            BY <1>1, <3>1 DEF KnownNamed
        <3>6. \A i \in 1 .. Len(r.known) : r.known[i].path = r.path
            <4>1. CASE r.known = k.known
                BY <3>3, <3>4, <3>5, <4>1
            <4>2. CASE r.known = Append(k.known, walk[t].got)
                <5>1. /\ Len(r.known) = Len(k.known) + 1 /\ Len(k.known) \in Nat
                      /\ \A i \in 1 .. Len(k.known) : r.known[i] = k.known[i]
                      /\ r.known[Len(k.known) + 1] = walk[t].got
                    BY <3>2, <4>2, AppendProperties, CacheFields
                <5> QED
                    BY <3>2, <3>3, <3>4, <3>5, <5>1
            <4> QED
                BY <3>3, <3>4, <4>1, <4>2
        <3>7. \A e \in Caches : caches'[e] = IF e = c THEN r ELSE caches[e]
            BY <3>2, <3>4 DEF TypeInv
        <3> QED
            BY <1>1, <3>6, <3>7 DEF KnownNamed
    <2> QED
        BY <2>1, <2>2, <2>3 DEF Named
<1>9. ASSUME NEW t \in Threads, Reset(t),
             client = "open", UNCHANGED <<client, pools, sessionVars, lops>>
      PROVE  Named'
    <2>1. DbsNamed'
        BY <1>1, <1>9, DbsSame, ResetEffect DEF lifeVars
    <2>2. GotNamed'
        BY <1>1, <1>9, GotSame, ResetEffect
    <2>3. KnownNamed'
        <3>1. CASE caches' = caches
            BY <1>1, <3>1 DEF KnownNamed
        <3>2. CASE caches' # caches
            <4>1. PICK c \in Caches, k \in {0, Len(Tables[walk[t].idx])} :
                     caches' = [caches EXCEPT ![c] =
                        [path |-> PathOf[walk[t].db], epoch |-> attached,
                         gen |-> walk[t].idx, cap |-> k,
                         total |-> Len(Tables[walk[t].idx]), known |-> << >>]]
                BY <1>9, <3>2, ResetEffect
            <4>2. PICK r : r = [path |-> PathOf[walk[t].db], epoch |-> attached,
                                gen |-> walk[t].idx, cap |-> k,
                                total |-> Len(Tables[walk[t].idx]), known |-> << >>]
                OBVIOUS
            <4>3. Len(r.known) = 0
                BY <4>2, EmptySeq
            <4> QED
                BY <1>1, <4>1, <4>2, <4>3, KnownEmptied
        <3> QED
            BY <3>1, <3>2
    <2> QED
        BY <2>1, <2>2, <2>3 DEF Named
<1>10. ASSUME ServerStop
      PROVE  Named'
    <2>1. DbsNamed'
        BY <1>10 DEF DbsNamed, Open, ServerStop
    <2>2. GotNamed'
        BY <1>1, <1>10 DEF GotNamed, ServerStop
    <2>3. KnownNamed'
        BY <1>1, <1>10 DEF KnownNamed, ServerStop
    <2> QED
        BY <2>1, <2>2, <2>3 DEF Named
<1>11. ASSUME ServerStart
      PROVE  Named'
    <2>1. DbsNamed'
        BY <1>1, <1>11, DbsSame DEF lifeVars, ServerStart
    <2>2. GotNamed'
        BY <1>1, <1>11 DEF GotNamed, ServerStart
    <2>3. KnownNamed'
        BY <1>1, <1>11 DEF KnownNamed, ServerStart
    <2> QED
        BY <2>1, <2>2, <2>3 DEF Named
<1>12. CASE RenewStep
    <2>1. DbsNamed'
        BY <1>1, <1>12, DbsSame, RenewEffect
    <2>2. GotNamed'
        BY <1>12, RenewEffect DEF GotNamed
    <2>3. KnownNamed'
        BY <1>12, RenewEffect, EmptyCaches DEF KnownNamed
    <2> QED
        BY <2>1, <2>2, <2>3 DEF Named
<1>13. CASE QuietStep
    BY <1>1, <1>13, QuietEffect DEF Named, DbsNamed, GotNamed, KnownNamed, Open
<1> QED
    BY <1>2, <1>3, <1>4, <1>5, <1>6, <1>7, <1>8, <1>9, <1>10, <1>11, <1>12, <1>13
       DEF Next, Tags, TagNext, TagStart, TagStep, RenewStep, QuietStep

-----------------------------------------------------------------------------
(* The tables *)

\* Every database open after a step is empty, or was open with the table it has.
GensKept ==
    \A e \in Dbs : Open(e)' => \/ engine'[handle'[e]].gen = 0
                               \/ /\ Open(e)
                                  /\ engine'[handle'[e]].gen = engine[handle[e]].gen

\* A cache goes on with symbols of its table, or is emptied with nobody at work on it.
CacheKept(c) ==
    \/ /\ caches'[c].path = caches[c].path /\ caches'[c].cap = caches[c].cap
       /\ caches'[c].gen = caches[c].gen
       /\ \A i \in 1 .. Len(caches'[c].known) : caches'[c].known[i].gen = caches'[c].gen
    \/ /\ caches'[c].cap = 0 /\ Len(caches'[c].known) = 0
       /\ \A u \in Threads : Asking(u) => walk[u].c # c

\* What a step of one thread leaves to the others.
LEMMA SameFlags ==
    ASSUME NEW t \in Threads, OthersKept(t)
    PROVE  \A u \in Threads : u # t => /\ walk'[u] = walk[u] /\ pc'[u] = pc[u]
                                       /\ Asking(u)' <=> Asking(u)
                                       /\ Building(u)' <=> Building(u)
                                       /\ Walking(u)' <=> Walking(u)
    BY DEF OthersKept, Asking, Building, Walking

\* A step of a thread that is not in a build, before and after.
LEMMA FreshKept ==
    ASSUME Fresh, WalkInv, NEW t \in Threads, OthersKept(t), GensKept,
           \A c \in Caches : CacheKept(c),
           ~Building(t), ~Building(t)',
           Asking(t)' => /\ \A u \in Threads : u # t /\ Building(u)
                               => PathOf[walk[u].db] # PathOf[walk'[t].db]
                         /\ caches'[walk'[t].c].cap > 0,
           pc'[t] = "append" => walk'[t].got.gen = caches'[walk'[t].c].gen
    PROVE  Fresh'
<1> DEFINE Same(u) == /\ walk'[u] = walk[u] /\ pc'[u] = pc[u]
                      /\ Asking(u)' <=> Asking(u)
                      /\ Building(u)' <=> Building(u)
<1>1. \A u \in Threads : u # t => Same(u)
    BY SameFlags
<1> HIDE DEF Same
<1>2. \A u \in Threads : (Building(u)' <=> Building(u)) /\ (Building(u) => u # t /\ walk'[u] = walk[u])
    BY <1>1 DEF Same
<1>3. OneBuilder'
    <2> SUFFICES ASSUME NEW b \in Threads, NEW u \in Threads, Building(b)',
                        Asking(u)' \/ Building(u)',
                        PathOf[walk'[b].db] = PathOf[walk'[u].db]
                 PROVE  b = u
        BY DEF OneBuilder
    <2>1. b # t /\ Building(b) /\ walk'[b] = walk[b]
        BY <1>2
    <2>2. CASE u = t
        BY <2>1, <2>2
    <2>3. CASE u # t
        BY <1>1, <2>1, <2>3 DEF Fresh, OneBuilder, Same
    <2> QED
        BY <2>2, <2>3
<1>4. BuildNewest'
    BY <1>2 DEF Fresh, BuildNewest, GensKept
<1>5. CacheNewest'
    <2> SUFFICES ASSUME NEW c \in Caches, NEW d \in Dbs,
                        caches'[c].cap > 0, Open(d)', PathOf[d] = caches'[c].path,
                        \A u \in Threads : Building(u)' => PathOf[walk'[u].db] # caches'[c].path
                 PROVE  engine'[handle'[d]].gen \in {0, caches'[c].gen}
        BY DEF CacheNewest
    <2>1. /\ caches'[c].path = caches[c].path /\ caches'[c].cap = caches[c].cap
          /\ caches'[c].gen = caches[c].gen
        BY DEF CacheKept
    <2>2. \A u \in Threads : Building(u) => PathOf[walk[u].db] # caches[c].path
        BY <1>2, <2>1
    <2>3. \/ engine'[handle'[d]].gen = 0
          \/ Open(d) /\ engine'[handle'[d]].gen = engine[handle[d]].gen
        BY DEF GensKept
    <2> QED
        BY <2>1, <2>2, <2>3 DEF Fresh, CacheNewest
<1>6. \A u \in Threads : u # t /\ Asking(u)' =>
         /\ walk[u].c \in Caches /\ walk'[u] = walk[u] /\ Asking(u)
         /\ caches'[walk[u].c].cap = caches[walk[u].c].cap
         /\ caches'[walk[u].c].gen = caches[walk[u].c].gen
    <2> SUFFICES ASSUME NEW u \in Threads, u # t, Asking(u)'
                 PROVE  /\ walk[u].c \in Caches /\ walk'[u] = walk[u] /\ Asking(u)
                        /\ caches'[walk[u].c].cap = caches[walk[u].c].cap
                        /\ caches'[walk[u].c].gen = caches[walk[u].c].gen
        OBVIOUS
    <2>1. Asking(u) /\ walk'[u] = walk[u]
        BY <1>1 DEF Same
    <2>2. PICK c \in Caches : c = walk[u].c
        BY <2>1 DEF WalkInv, Walking, Asking
    <2> QED
        BY <2>1, <2>2 DEF CacheKept
<1>7. AskingFilled'
    BY <1>6 DEF Fresh, AskingFilled
<1>8. GotFresh'
    <2> SUFFICES ASSUME NEW u \in Threads, pc'[u] = "append"
                 PROVE  walk'[u].got.gen = caches'[walk'[u].c].gen
        BY DEF GotFresh
    <2>1. CASE u # t
        <3>1. pc[u] = "append" /\ Asking(u)'
            BY <1>1, <2>1 DEF Same, Asking
        <3> QED
            BY <1>6, <2>1, <3>1 DEF Fresh, GotFresh
    <2> QED
        BY <2>1
<1>9. KnownFresh'
    BY DEF KnownFresh, CacheKept
<1> QED
    BY <1>3, <1>4, <1>5, <1>7, <1>8, <1>9 DEF Fresh

\* An unchanged cache goes on with symbols of its table.
LEMMA SameCaches ==
    ASSUME KnownFresh, NEW c \in Caches, caches'[c] = caches[c]
    PROVE  CacheKept(c)
    BY DEF KnownFresh, CacheKept

\* Unchanged databases keep their tables.
LEMMA SameGens ==
    ASSUME UNCHANGED <<engine, handle, stale>>
    PROVE  GensKept
    BY DEF GensKept, Open

\* Every step keeps the tables in agreement, unless it races.  The hard cases: a
\* build that nothing overlapped and that left no other database behind, the reset
\* after it, and an answer for a cache that nobody is about to empty.
LEMMA FreshStep ==
    TypeInv /\ LifeInv /\ CacheInv /\ WalkInv /\ HandleInv /\ FreshInv /\ ~raced' /\
       ~crossed' /\ [Next]_vars => Fresh'
<1> SUFFICES ASSUME TypeInv, LifeInv, CacheInv, WalkInv, HandleInv, FreshInv, ~raced',
   ~crossed', [Next]_vars
             PROVE  Fresh'
    OBVIOUS
<1>1. Fresh /\ DbsNamed
    BY FlagsStay DEF FlagsKept, FreshInv, HandleInv, Named
<1>2. ASSUME NEW t \in Threads, NEW d \in Dbs, OpenDb(t, d),
             client = "open", UNCHANGED <<client, pools, sessionVars, lops>>
      PROVE  Fresh'
    <2>1. OthersKept(t) /\ pc'[t] = "idle" /\ ~Building(t)' /\ ~Asking(t)'
        BY <1>2, OpenDbEffect, RestingNext
    <2>2. GensKept
        <3>1. d \notin stale /\ stale' = stale
            BY <1>2, OpenDbEffect DEF LifeInv, lifeVars
        <3>2. CASE UNCHANGED <<engine, handle>>
            BY <3>1, <3>2, SameGens
        <3>3. CASE ~UNCHANGED <<engine, handle>>
            <4>1. PICK h \in Handles : \E r :
                    /\ engine[h] = None /\ r.gen = 0
                    /\ engine' = [engine EXCEPT ![h] = r]
                    /\ handle' = [handle EXCEPT ![d] = h] \/ handle' = handle
                BY ZenonT(40), <1>2, <3>3, OpenDbEffect
            <4>2. \A e \in Dbs : Open(e) => handle[e] # h /\ handle[e] \in Handles
                BY <1>1, <4>1 DEF DbsNamed, Open, TypeInv
            <4>3. \A e \in Dbs : Open(e) => engine'[handle[e]] = engine[handle[e]]
                BY <4>1, <4>2 DEF TypeInv
            <4>4. engine'[h].gen = 0
                BY <4>1 DEF TypeInv
            <4>5. CASE handle' = handle
                BY <3>1, <4>3, <4>5 DEF GensKept, Open
            <4>6. CASE handle' = [handle EXCEPT ![d] = h]
                <5>1. \A e \in Dbs : Open(e)' /\ e # d => Open(e) /\ handle'[e] = handle[e]
                    BY <3>1, <4>6 DEF Open, TypeInv
                <5>2. handle'[d] = h
                    BY <4>6 DEF TypeInv
                <5> QED
                    BY <4>3, <4>4, <5>1, <5>2 DEF GensKept
            <4> QED
                BY <4>1, <4>5, <4>6
        <3> QED
            BY <3>2, <3>3
    <2>3. \A c \in Caches : CacheKept(c)
        BY <1>2, <1>1, OpenDbEffect, SameCaches DEF Fresh
    <2>4. ~Building(t)
        BY <1>2 DEF OpenDb, Begin, Building
    <2> QED
        BY <1>1, <2>1, <2>2, <2>3, <2>4, FreshKept
<1>3. ASSUME NEW t \in Threads, NEW d \in Dbs, CloseDb(t, d),
             client = "open", UNCHANGED <<client, pools, sessionVars, lops>>
      PROVE  Fresh'
    <2>1. OthersKept(t) /\ pc'[t] = "idle" /\ ~Building(t)' /\ ~Asking(t)'
        BY <1>3, CloseDbEffect, RestingNext
    <2>2. GensKept
        <3>1. /\ handle' = [handle EXCEPT ![d] = 0] /\ stale' = stale \ {d}
              /\ handle[d] \in Handles
              /\ \/ /\ engine' = [engine EXCEPT ![handle[d]] = None]
                    /\ crossed' = (crossed \/ Crosses(d))
                 \/ UNCHANGED engine
            BY <1>3, CloseDbEffect
        <3>2. \A e \in Dbs : Open(e)' => e # d /\ Open(e) /\ handle'[e] = handle[e]
            BY <3>1 DEF Open, TypeInv
        <3>3. ASSUME NEW e \in Dbs, Open(e), e # d, engine' # engine
              PROVE  handle[e] # handle[d]
            <4>1. CASE d \in stale
                BY <3>1, <3>3, <4>1 DEF Crosses, Open
            <4>2. CASE d \notin stale
                <5>1. Open(d)
                    BY <3>1, <4>2, Constants DEF Open
                <5> QED
                    BY <1>1, <3>3, <5>1 DEF DbsNamed
            <4> QED
                BY <4>1, <4>2
        <3>4. \A e \in Dbs : Open(e) /\ e # d => engine'[handle[e]] = engine[handle[e]]
            <4>1. CASE engine' = engine
                BY <4>1
            <4>2. CASE engine' = [engine EXCEPT ![handle[d]] = None]
                BY <3>1, <3>3, <4>2 DEF TypeInv, Open
            <4> QED
                BY <3>1, <4>1, <4>2
        <3> QED
            BY <3>2, <3>4 DEF GensKept
    <2>3. \A c \in Caches : CacheKept(c)
        BY <1>3, <1>1, CloseDbEffect, SameCaches DEF Fresh
    <2>4. ~Building(t)
        BY <1>3 DEF CloseDb, Begin, Building
    <2> QED
        BY <1>1, <2>1, <2>2, <2>3, <2>4, FreshKept
<1>4. ASSUME NEW t \in Threads, NEW d \in Dbs, Build(t, d),
             client = "open", UNCHANGED <<client, pools, sessionVars, lops>>
      PROVE  Fresh'
    <2>1. OthersKept(t) /\ UNCHANGED <<handle, stale, caches>> /\ ~Building(t) /\ ~Asking(t)
        BY <1>4, BuildEffect DEF lifeVars, Build, Begin, Building, Asking
    <2>2. CASE pc'[t] = "idle" /\ UNCHANGED engine
        <3>1. ~Building(t)' /\ ~Asking(t)'
            BY <2>2, RestingNext
        <3>2. GensKept
            BY <2>1, <2>2, SameGens
        <3>3. \A c \in Caches : CacheKept(c)
            BY <1>1, <2>1, SameCaches DEF Fresh
        <3> QED
            BY <1>1, <2>1, <2>2, <3>1, <3>2, <3>3, FreshKept
    <2>3. CASE ~(pc'[t] = "idle" /\ UNCHANGED engine)
        <3>1. /\ engine[handle[d]] \in Contents /\ handle[d] \in Handles
              /\ engine' = [engine EXCEPT ![handle[d]] = [engine[handle[d]] EXCEPT !.gen = gen]]
              /\ pc'[t] = "reset" /\ walk'[t].db = d /\ walk'[t].idx = gen
              /\ ~LeftBehind(d) /\ WalkersOf(PathOf[d]) = {} /\ BuildersOf(PathOf[d]) = {}
              /\ d \notin stale
            BY <1>4, <2>3, BuildEffect
        <3>2. Building(t)' /\ ~Asking(t)' /\ Open(d)
            BY <3>1, Constants DEF Building, Asking, Open
        <3>3. \A u \in Threads : u # t => /\ walk'[u] = walk[u] /\ pc'[u] = pc[u]
                                          /\ Asking(u)' <=> Asking(u)
                                          /\ Building(u)' <=> Building(u)
            BY <2>1, SameFlags
        <3>4. \A u \in Threads : u # t /\ (Asking(u) \/ Building(u)) => PathOf[walk[u].db] # PathOf[d]
            BY <3>1 DEF WalkersOf, BuildersOf, Asking, Building
        <3>5. \A e \in Dbs : (Open(e)' <=> Open(e)) /\ handle'[e] = handle[e]
            BY <2>1 DEF Open
        <3>6. \A e \in Dbs : Open(e) /\ e # d => engine'[handle[e]] = engine[handle[e]]
            BY <1>1, <3>1, <3>2 DEF DbsNamed, TypeInv, Open
        <3>7. engine'[handle[d]].gen = gen
            BY <3>1 DEF TypeInv, Contents
        <3>8. OneBuilder'
            <4> SUFFICES ASSUME NEW b \in Threads, NEW u \in Threads, Building(b)',
                                Asking(u)' \/ Building(u)',
                                PathOf[walk'[b].db] = PathOf[walk'[u].db]
                         PROVE  b = u
                BY DEF OneBuilder
            <4>1. CASE b = t \/ u = t
                BY <3>1, <3>2, <3>3, <3>4, <4>1
            <4>2. CASE b # t /\ u # t
                BY <1>1, <3>3, <4>2 DEF Fresh, OneBuilder
            <4> QED
                BY <4>1, <4>2
        <3>9. BuildNewest'
            <4> SUFFICES ASSUME NEW b \in Threads, Building(b)', NEW e \in Dbs, Open(e)',
                                PathOf[e] = PathOf[walk'[b].db]
                         PROVE  engine'[handle'[e]].gen \in {0, walk'[b].idx}
                BY DEF BuildNewest
            <4>1. CASE b = t /\ e = d
                BY <3>1, <3>5, <3>7, <4>1
            <4>2. CASE b = t /\ e # d
                <5>1. Open(e) /\ PathOf[e] = PathOf[d] /\ handle[e] # 0 /\ engine[handle[e]] # None
                    BY <1>1, <3>1, <3>5, <4>2 DEF Open, DbsNamed
                <5>2. engine[handle[e]].gen \in {0, gen}
                    BY <3>1, <4>2, <5>1 DEF LeftBehind, Database
                <5> QED
                    BY <3>1, <3>5, <3>6, <4>2, <5>1, <5>2
            <4>3. CASE b # t
                <5>1. Building(b) /\ walk'[b] = walk[b] /\ PathOf[walk[b].db] # PathOf[d]
                    BY <3>3, <3>4, <4>3
                <5>2. e # d /\ Open(e)
                    BY <3>5, <5>1
                <5> QED
                    BY <1>1, <3>5, <3>6, <5>1, <5>2 DEF Fresh, BuildNewest
            <4> QED
                BY <4>1, <4>2, <4>3
        <3>10. CacheNewest'
            <4> SUFFICES ASSUME NEW c \in Caches, NEW e \in Dbs,
                                caches'[c].cap > 0, Open(e)', PathOf[e] = caches'[c].path,
                                \A u \in Threads : Building(u)' => PathOf[walk'[u].db] # caches'[c].path
                         PROVE  engine'[handle'[e]].gen \in {0, caches'[c].gen}
                BY DEF CacheNewest
            <4>1. e # d
                BY <3>1, <3>2
            <4>2. \A u \in Threads : Building(u) => PathOf[walk[u].db] # caches[c].path
                BY <2>1, <3>3
            <4> QED
                BY <1>1, <2>1, <3>5, <3>6, <4>1, <4>2 DEF Fresh, CacheNewest
        <3>11. AskingFilled'
            BY <1>1, <2>1, <3>2, <3>3 DEF Fresh, AskingFilled
        <3>12. GotFresh'
            BY <1>1, <2>1, <3>1, <3>3 DEF Fresh, GotFresh
        <3>13. KnownFresh'
            BY <1>1, <2>1 DEF Fresh, KnownFresh
        <3> QED
            BY <3>8, <3>9, <3>10, <3>11, <3>12, <3>13 DEF Fresh
    <2> QED
        BY <2>2, <2>3
<1>5. ASSUME NEW t \in Threads, NEW d \in Dbs,
             NEW n \in Names \cup {None}, WalkBegin(t, d, n),
             client = "open", UNCHANGED <<client, pools, sessionVars, lops>>
      PROVE  Fresh'
    <2>1. OthersKept(t) /\ ~Building(t)' /\ ~Asking(t)' /\ pc'[t] # "append"
        BY <1>5, WalkBeginEffect, RestingNext DEF Building, Asking
    <2>2. GensKept
        BY <1>5, WalkBeginEffect, SameGens DEF lifeVars
    <2>3. \A c \in Caches : CacheKept(c)
        <3>1. CASE caches' = caches
            BY <1>1, <3>1, SameCaches DEF Fresh
        <3>2. CASE caches' # caches
            <4>1. PICK c \in Caches :
                     /\ caches[c] = NoCache
                     /\ caches' = [caches EXCEPT ![c] = [NoCache EXCEPT !.path = PathOf[d]]]
                BY <1>5, <3>2, WalkBeginEffect
            <4>2. PICK r : r = [NoCache EXCEPT !.path = PathOf[d]]
                OBVIOUS
            <4>3. r.cap = 0 /\ Len(r.known) = 0 /\ caches[c].path = None
                BY <4>1, <4>2, EmptyCaches, Constants
            <4>4. \A e \in Caches : caches'[e] = IF e = c THEN r ELSE caches[e]
                BY <4>1, <4>2 DEF TypeInv
            <4>5. \A u \in Threads : Asking(u) => walk[u].c # c
                BY <4>3, Constants DEF WalkInv, Walking, Asking
            <4>6. CacheKept(c)
                BY <4>3, <4>4, <4>5 DEF CacheKept
            <4>7. \A e \in Caches : e # c => CacheKept(e)
                BY <1>1, <4>4, SameCaches DEF Fresh
            <4> QED
                BY <4>6, <4>7
        <3> QED
            BY <3>1, <3>2
    <2>4. ~Building(t)
        BY <1>5 DEF WalkBegin, Begin, Building
    <2> QED
        BY <1>1, <2>1, <2>2, <2>3, <2>4, FreshKept
<1>6. ASSUME NEW t \in Threads, Scan(t),
             client = "open", UNCHANGED <<client, pools, sessionVars, lops>>
      PROVE  Fresh'
    <2>1. OthersKept(t) /\ ~Building(t)' /\ pc'[t] # "append" /\ caches' = caches
        BY <1>6, ScanEffect DEF Building, Asks, GivesUp
    <2>2. GensKept
        BY <1>6, ScanEffect, SameGens DEF lifeVars
    <2>3. \A c \in Caches : CacheKept(c)
        BY <1>1, <2>1, SameCaches DEF Fresh
    <2>4. ~Building(t)
        BY <1>6, ScanEffect DEF Building
    <2>5. ASSUME Asking(t)'
          PROVE  /\ \A u \in Threads : u # t /\ Building(u) => PathOf[walk[u].db] # PathOf[walk'[t].db]
                 /\ caches'[walk'[t].c].cap > 0
        <3>1. /\ Asks(t, caches[walk[t].c]) /\ caches[walk[t].c].cap > 0
              /\ caches[walk[t].c].path = PathOf[walk[t].db]
            BY <1>6, <2>5, ScanEffect DEF GivesUp, Asking, WalkInv, Walking
        <3>2. /\ BuildersOf(PathOf[walk[t].db]) = {}
              /\ walk'[t].c = walk[t].c /\ walk'[t].db = walk[t].db
            BY <3>1 DEF Asks
        <3> QED
            BY <2>1, <3>1, <3>2 DEF BuildersOf, Building
    <2> QED
        BY <1>1, <2>1, <2>2, <2>3, <2>4, <2>5, FreshKept
<1>7. ASSUME NEW t \in Threads, SymbolAt(t),
             client = "open", UNCHANGED <<client, pools, sessionVars, lops>>
      PROVE  Fresh'
    <2>1. OthersKept(t) /\ ~Building(t)' /\ caches' = caches
        BY <1>7, SymbolAtEffect DEF Building
    <2>2. GensKept
        BY <1>7, SymbolAtEffect, SameGens DEF lifeVars
    <2>3. \A c \in Caches : CacheKept(c)
        BY <1>1, <2>1, SameCaches DEF Fresh
    <2>4. ~Building(t) /\ Asking(t)
        BY <1>7, SymbolAtEffect DEF Building, Asking
    <2>5. ASSUME Asking(t)'
          PROVE  /\ \A u \in Threads : u # t /\ Building(u) => PathOf[walk[u].db] # PathOf[walk'[t].db]
                 /\ caches'[walk'[t].c].cap > 0
        <3>1. walk'[t].c = walk[t].c /\ walk'[t].db = walk[t].db
            BY <1>7, <2>5, SymbolAtEffect DEF Asking
        <3> QED
            BY <1>1, <2>1, <2>4, <3>1 DEF Fresh, OneBuilder, AskingFilled
    <2>6. ASSUME pc'[t] = "append"
          PROVE  walk'[t].got.gen = caches'[walk'[t].c].gen
        <3>1. /\ reach /\ walk'[t].c = walk[t].c
              /\ walk'[t].got.gen = engine[handle[walk[t].db]].gen
              /\ engine[handle[walk[t].db]].gen # 0
            BY <1>7, <2>6, SymbolAtEffect
        <3>2. PICK d \in Dbs, c \in Caches : /\ d = walk[t].db /\ c = walk[t].c
                                             /\ Open(d) /\ PathOf[d] = caches[c].path
            BY <1>7, <3>1, SymbolAtEffect DEF WalkInv, Walking, Open
        <3>3. caches[c].cap > 0
            BY <1>1, <2>4, <3>2 DEF Fresh, AskingFilled
        <3>4. \A u \in Threads : Building(u) => PathOf[walk[u].db] # caches[c].path
            BY <1>1, <2>4, <3>2 DEF Fresh, OneBuilder
        <3> QED
            BY <1>1, <2>1, <3>1, <3>2, <3>3, <3>4 DEF Fresh, CacheNewest
    <2> QED
        BY <1>1, <2>1, <2>2, <2>3, <2>4, <2>5, <2>6, FreshKept
<1>8. ASSUME NEW t \in Threads, AppendSymbol(t),
             client = "open", UNCHANGED <<client, pools, sessionVars, lops>>
      PROVE  Fresh'
    <2>1. OthersKept(t) /\ ~Building(t)' /\ pc'[t] # "append"
        BY <1>8, AppendEffect DEF Building, Asks, GivesUp
    <2>2. GensKept
        BY <1>8, AppendEffect, SameGens DEF lifeVars
    <2>3. PICK c \in Caches, k \in CacheType : c = walk[t].c /\ k = caches[c]
        BY <1>8, AppendEffect
    <2>4. PICK r : r = Kept(t, k) /\ caches' = [caches EXCEPT ![c] = r] /\ walk[t].got \in Symbols
        BY <1>8, <2>3, AppendEffect
    <2>5. /\ r.path = k.path /\ r.cap = k.cap /\ r.gen = k.gen
          /\ r.known = k.known \/ r.known = Append(k.known, walk[t].got)
        BY <2>4, Keeps DEF TypeInv
    <2>6. \A e \in Caches : caches'[e] = IF e = c THEN r ELSE caches[e]
        BY <2>4 DEF TypeInv
    <2>7. \A e \in Caches : CacheKept(e)
        <3>1. walk[t].got.gen = k.gen
            BY <1>8, <1>1, <2>3, AppendEffect DEF Fresh, GotFresh
        <3>2. \A i \in 1 .. Len(k.known) : k.known[i].gen = k.gen
            BY <1>1, <2>3 DEF Fresh, KnownFresh
        <3>3. \A i \in 1 .. Len(r.known) : r.known[i].gen = r.gen
            <4>1. CASE r.known = k.known
                BY <2>5, <3>2, <4>1
            <4>2. CASE r.known = Append(k.known, walk[t].got)
                <5>1. /\ Len(r.known) = Len(k.known) + 1 /\ Len(k.known) \in Nat
                      /\ \A i \in 1 .. Len(k.known) : r.known[i] = k.known[i]
                      /\ r.known[Len(k.known) + 1] = walk[t].got
                    BY <2>4, <4>2, AppendProperties, CacheFields
                <5> QED
                    BY SMTT(40), <2>5, <3>1, <3>2, <5>1
            <4> QED
                BY <2>5, <4>1, <4>2
        <3>4. CacheKept(c)
            BY <2>3, <2>5, <2>6, <3>3 DEF CacheKept
        <3>5. \A e \in Caches : e # c => CacheKept(e)
            BY <1>1, <2>6, SameCaches DEF Fresh
        <3> QED
            BY <3>4, <3>5
    <2>8. ~Building(t) /\ Asking(t)
        BY <1>8, AppendEffect DEF Building, Asking
    <2>9. ASSUME Asking(t)'
          PROVE  /\ \A u \in Threads : u # t /\ Building(u) => PathOf[walk[u].db] # PathOf[walk'[t].db]
                 /\ caches'[walk'[t].c].cap > 0
        <3>1. walk'[t].c = c /\ walk'[t].db = walk[t].db
            BY <1>8, <2>9, <2>3, AppendEffect DEF Asks, GivesUp, Asking
        <3> QED
            BY <1>1, <2>8, <2>3, <2>5, <2>6, <3>1 DEF Fresh, OneBuilder, AskingFilled
    <2> QED
        BY <1>1, <2>1, <2>2, <2>7, <2>8, <2>9, FreshKept
<1>9. ASSUME NEW t \in Threads, Reset(t),
             client = "open", UNCHANGED <<client, pools, sessionVars, lops>>
      PROVE  Fresh'
    <2>1. /\ OthersKept(t) /\ UNCHANGED <<engine, handle, stale>> /\ walk[t].db \in Dbs
          /\ pc'[t] = "idle" /\ Building(t)
        BY <1>9, ResetEffect DEF lifeVars, Building
    <2>2. ~Building(t)' /\ ~Asking(t)'
        BY <2>1, RestingNext
    <2>3. PICK p, g : p = PathOf[walk[t].db] /\ g = walk[t].idx
        OBVIOUS
    <2>4. \A u \in Threads : u # t => /\ walk'[u] = walk[u] /\ pc'[u] = pc[u]
                                      /\ Asking(u)' <=> Asking(u)
                                      /\ Building(u)' <=> Building(u)
        BY <2>1, SameFlags
    <2>5. \A u \in Threads : u # t /\ (Asking(u) \/ Building(u)) => PathOf[walk[u].db] # p
        BY <1>1, <2>1, <2>3 DEF Fresh, OneBuilder
    <2>6. \A e \in Dbs : /\ Open(e)' <=> Open(e)
                         /\ engine'[handle'[e]] = engine[handle[e]]
        BY <2>1 DEF Open
    <2>7. \A c \in Caches : \/ caches'[c] = caches[c] /\ caches[c].path # p
                            \/ /\ caches'[c].path = p /\ caches'[c].gen = g
                               /\ Len(caches'[c].known) = 0 /\ caches[c].path \in {p, None}
        <3>1. CASE caches' = caches /\ \A e \in Caches : caches[e].path # p
            BY <3>1
        <3>2. CASE ~(caches' = caches /\ \A e \in Caches : caches[e].path # p)
            <4>1. PICK c \in Caches, k \in {0, Len(Tables[g])} :
                     /\ caches[c].path \in {p, None}
                     /\ \A e \in Caches : caches[e].path = p => e = c
                     /\ caches' = [caches EXCEPT ![c] =
                           [path |-> p, epoch |-> attached, gen |-> g, cap |-> k,
                            total |-> Len(Tables[g]), known |-> << >>]]
                BY <1>9, <2>3, <3>2, ResetEffect
            <4>2. PICK r : r = [path |-> p, epoch |-> attached, gen |-> g, cap |-> k,
                                total |-> Len(Tables[g]), known |-> << >>]
                OBVIOUS
            <4>3. r.path = p /\ r.gen = g /\ r.known = << >>
                BY <4>2
            <4>4. \A e \in Caches : caches'[e] = IF e = c THEN r ELSE caches[e]
                BY <4>1, <4>2 DEF TypeInv
            <4> QED
                BY <4>1, <4>3, <4>4, EmptySeq
        <3> QED
            BY <3>1, <3>2
    <2>8. OneBuilder'
        BY <1>1, <2>2, <2>4 DEF Fresh, OneBuilder
    <2>9. BuildNewest'
        BY <1>1, <2>2, <2>4, <2>6 DEF Fresh, BuildNewest
    <2>10. CacheNewest'
        <3> SUFFICES ASSUME NEW c \in Caches, NEW d \in Dbs,
                            caches'[c].cap > 0, Open(d)', PathOf[d] = caches'[c].path,
                            \A u \in Threads : Building(u)' => PathOf[walk'[u].db] # caches'[c].path
                     PROVE  engine'[handle'[d]].gen \in {0, caches'[c].gen}
            BY DEF CacheNewest
        <3>1. CASE caches'[c].path = p /\ caches'[c].gen = g
            BY <1>1, <2>1, <2>3, <2>6, <3>1 DEF Fresh, BuildNewest
        <3>2. CASE caches'[c] = caches[c] /\ caches[c].path # p
            <4>1. \A u \in Threads : Building(u) => PathOf[walk[u].db] # caches[c].path
                BY <2>3, <2>4, <3>2
            <4> QED
                BY <1>1, <2>6, <3>2, <4>1 DEF Fresh, CacheNewest
        <3> QED
            BY <2>7, <3>1, <3>2
    <2>11. \A u \in Threads : u # t /\ Asking(u) => caches'[walk[u].c] = caches[walk[u].c]
        <3> SUFFICES ASSUME NEW u \in Threads, u # t, Asking(u)
                     PROVE  caches'[walk[u].c] = caches[walk[u].c]
            OBVIOUS
        <3>1. PICK c \in Caches : /\ c = walk[u].c /\ walk[u].db \in Dbs
                                  /\ caches[c].path = PathOf[walk[u].db]
            BY DEF WalkInv, Walking, Asking
        <3>2. caches[c].path \notin {p, None}
            BY <2>5, <3>1, Constants
        <3> QED
            BY <2>7, <3>1, <3>2
    <2>12. AskingFilled'
        BY <1>1, <2>2, <2>4, <2>11 DEF Fresh, AskingFilled
    <2>13. GotFresh'
        <3>1. \A u \in Threads : pc'[u] = "append" => u # t /\ pc[u] = "append" /\ Asking(u)
            BY <2>1, <2>4 DEF Asking
        <3> QED
            BY <1>1, <2>4, <2>11, <3>1 DEF Fresh, GotFresh
    <2>14. KnownFresh'
        BY <1>1, <2>7 DEF Fresh, KnownFresh
    <2> QED
        BY <2>8, <2>9, <2>10, <2>12, <2>13, <2>14 DEF Fresh
<1>10. ASSUME ServerStop
      PROVE  Fresh'
    <2>1. UNCHANGED <<pc, walk, caches>> /\ \A e \in Dbs : ~Open(e)'
        BY <1>10 DEF ServerStop, Open
    <2> QED
        BY <1>1, <2>1 DEF Fresh, OneBuilder, BuildNewest, CacheNewest, AskingFilled,
           GotFresh, KnownFresh, Asking, Building
<1>11. ASSUME ServerStart
      PROVE  Fresh'
    <2>1. UNCHANGED <<pc, walk, engine, handle, stale, caches>>
        BY <1>11 DEF lifeVars, ServerStart
    <2> QED
        BY <1>1, <2>1 DEF Fresh, OneBuilder, BuildNewest, CacheNewest, AskingFilled,
           GotFresh, KnownFresh, Open, Asking, Building
<1>12. CASE RenewStep
    <2>1. \A u \in Threads : ~Asking(u)' /\ ~Building(u)' /\ pc'[u] # "append"
        BY <1>12, RenewEffect, RestingNext
    <2>2. \A c \in Caches : caches'[c].cap = 0 /\ Len(caches'[c].known) = 0
        BY <1>12, RenewEffect, EmptyCaches
    <2> QED
        BY <2>1, <2>2 DEF Fresh, OneBuilder, BuildNewest, CacheNewest, AskingFilled,
           GotFresh, KnownFresh
<1>13. CASE QuietStep
    BY <1>1, <1>13, QuietEffect DEF Fresh, OneBuilder, BuildNewest, CacheNewest,
       AskingFilled, GotFresh, KnownFresh, Open, Asking, Building
<1> QED
    BY <1>2, <1>3, <1>4, <1>5, <1>6, <1>7, <1>8, <1>9, <1>10, <1>11, <1>12, <1>13
       DEF Next, Tags, TagNext, TagStart, TagStep, RenewStep, QuietStep

-----------------------------------------------------------------------------
(* What a lookup has passed *)

\* Symbols are only added at the end of what a cache knows.
Grows(s, r) == Len(s) <= Len(r) /\ \A i \in 1 .. Len(s) : r[i] = s[i]

\* What was passed stays passed when symbols are added at the end.
LEMMA GrowsKeeps ==
    ASSUME NEW s \in Seq(Symbols), NEW r \in Seq(Symbols), Grows(s, r), NEW w \in WalkType,
           PassedBy(w, s)
    PROVE  PassedBy(w, r)
<1>1. Len(s) \in Nat /\ Len(r) \in Nat /\ w.idx \in Nat
    BY LenProperties, WalkFields
<1> QED
    BY <1>1 DEF Grows, PassedBy

\* A step of one thread leaves what the others have passed.
LEMMA PassedKept ==
    ASSUME TypeInv, TypeInv', WalkInv, Passed, NEW t \in Threads, OthersKept(t),
           \A u \in Threads : u # t /\ Asking(u) =>
                Grows(caches[walk[u].c].known, caches'[walk[u].c].known),
           Asking(t)' => PassedBy(walk'[t], caches'[walk'[t].c].known)
    PROVE  Passed'
<1>1. SUFFICES ASSUME NEW u \in Threads, Asking(u)'
               PROVE  PassedBy(walk'[u], caches'[walk'[u].c].known)
    BY DEF Passed, PassedBy, NameOf
<1>2. CASE u = t
    BY <1>1, <1>2
<1>3. CASE u # t
    <2>1. Asking(u) /\ walk'[u] = walk[u]
        BY <1>1, <1>3, SameFlags
    <2>2. PICK w \in WalkType, c \in Caches : w = walk[u] /\ c = w.c
        BY <2>1 DEF WalkInv, Walking, Asking, TypeInv, ThreadTypes
    <2>3. caches[c].known \in Seq(Symbols) /\ caches'[c].known \in Seq(Symbols)
        BY CacheFields DEF TypeInv
    <2>4. PassedBy(w, caches[c].known) /\ Grows(caches[c].known, caches'[c].known)
        BY <1>3, <2>1, <2>2 DEF Passed
    <2> QED
        BY <2>1, <2>2, <2>3, <2>4, GrowsKeeps
<1> QED
    BY <1>2, <1>3

\* An unchanged cache, seen by a walk.
LEMMA SameGrows ==
    ASSUME TypeInv, WalkInv, NEW u \in Threads, Asking(u), caches'[walk[u].c] = caches[walk[u].c]
    PROVE  Grows(caches[walk[u].c].known, caches'[walk[u].c].known)
<1>1. walk[u].c \in Caches
    BY DEF WalkInv, Walking, Asking
<1>2. Len(caches[walk[u].c].known) \in Nat
    BY <1>1, CacheFields DEF TypeInv
<1> QED
    BY <1>2 DEF Grows

\* An append adds at the end.
LEMMA AppendGrows ==
    ASSUME NEW c \in CacheType, NEW t \in Threads, ThreadTypes, walk[t].got \in Symbols
    PROVE  Grows(c.known, Kept(t, c).known)
<1>1. c.known \in Seq(Symbols) /\ Len(c.known) \in Nat
    BY CacheFields
<1>2. \/ Kept(t, c).known = c.known
      \/ Kept(t, c).known = Append(c.known, walk[t].got)
    BY Keeps
<1>3. CASE Kept(t, c).known = c.known
    BY <1>1, <1>3 DEF Grows
<1>4. CASE Kept(t, c).known = Append(c.known, walk[t].got)
    BY <1>1, <1>4, AppendProperties DEF Grows
<1> QED
    BY <1>2, <1>3, <1>4

\* Every step keeps what a lookup has passed under other names.
LEMMA PassedStep ==
    TypeInv /\ TypeInv' /\ LifeInv /\ CacheInv /\ WalkInv /\ FreshInv /\ PassedInv /\
       ~raced' /\ ~crossed' /\ [Next]_vars => Passed'
<1> SUFFICES ASSUME TypeInv, TypeInv', LifeInv, CacheInv, WalkInv, FreshInv, PassedInv,
   ~raced', ~crossed', [Next]_vars
             PROVE  Passed'
    OBVIOUS
<1>1. Fresh /\ Passed
    BY FlagsStay DEF FlagsKept, FreshInv, PassedInv
<1>2. ASSUME NEW t \in Threads, NEW d \in Dbs, OpenDb(t, d),
             client = "open", UNCHANGED <<client, pools, sessionVars, lops>>
      PROVE  Passed'
    <2>1. OthersKept(t) /\ caches' = caches /\ pc'[t] \in {"idle", "reset"}
        BY <1>2, OpenDbEffect
    <2>2. ~Asking(t)'
        BY <2>1 DEF Asking
    <2>3. \A u \in Threads : u # t /\ Asking(u) =>
             Grows(caches[walk[u].c].known, caches'[walk[u].c].known)
        BY <2>1, SameGrows
    <2> QED
        BY <1>1, <2>1, <2>2, <2>3, PassedKept
<1>3. ASSUME NEW t \in Threads, NEW d \in Dbs, CloseDb(t, d),
             client = "open", UNCHANGED <<client, pools, sessionVars, lops>>
      PROVE  Passed'
    <2>1. OthersKept(t) /\ caches' = caches /\ pc'[t] \in {"idle", "reset"}
        BY <1>3, CloseDbEffect
    <2>2. ~Asking(t)'
        BY <2>1 DEF Asking
    <2>3. \A u \in Threads : u # t /\ Asking(u) =>
             Grows(caches[walk[u].c].known, caches'[walk[u].c].known)
        BY <2>1, SameGrows
    <2> QED
        BY <1>1, <2>1, <2>2, <2>3, PassedKept
<1>4. ASSUME NEW t \in Threads, NEW d \in Dbs, Build(t, d),
             client = "open", UNCHANGED <<client, pools, sessionVars, lops>>
      PROVE  Passed'
    <2>1. OthersKept(t) /\ caches' = caches /\ pc'[t] \in {"idle", "reset"}
        BY <1>4, BuildEffect
    <2>2. ~Asking(t)'
        BY <2>1 DEF Asking
    <2>3. \A u \in Threads : u # t /\ Asking(u) =>
             Grows(caches[walk[u].c].known, caches'[walk[u].c].known)
        BY <2>1, SameGrows
    <2> QED
        BY <1>1, <2>1, <2>2, <2>3, PassedKept
<1>5. ASSUME NEW t \in Threads, NEW d \in Dbs,
             NEW n \in Names \cup {None}, WalkBegin(t, d, n),
             client = "open", UNCHANGED <<client, pools, sessionVars, lops>>
      PROVE  Passed'
    <2>1. OthersKept(t) /\ pc'[t] \in {"idle", "scan"}
        BY <1>5, WalkBeginEffect
    <2>2. ~Asking(t)'
        BY <2>1 DEF Asking
    <2>3. \A u \in Threads : u # t /\ Asking(u) =>
             Grows(caches[walk[u].c].known, caches'[walk[u].c].known)
        <3> SUFFICES ASSUME NEW u \in Threads, Asking(u)
                     PROVE  caches'[walk[u].c] = caches[walk[u].c]
            BY SameGrows
        <3>1. walk[u].c \in Caches /\ caches[walk[u].c].path # None
            BY Constants DEF WalkInv, Walking, Asking
        <3>2. \/ caches' = caches
              \/ \E c \in Caches : /\ caches[c] = NoCache
                                   /\ caches' = [caches EXCEPT ![c] = [NoCache EXCEPT !.path = PathOf[d]]]
            BY <1>5, WalkBeginEffect
        <3> QED
            BY <3>1, <3>2, EmptyCaches DEF TypeInv
    <2> QED
        BY <1>1, <2>1, <2>2, <2>3, PassedKept
<1>6. ASSUME NEW t \in Threads, Scan(t),
             client = "open", UNCHANGED <<client, pools, sessionVars, lops>>
      PROVE  Passed'
    <2>1. OthersKept(t) /\ caches' = caches
        BY <1>6, ScanEffect
    <2>2. Asking(t)' => PassedBy(walk'[t], caches'[walk'[t].c].known)
        <3> SUFFICES ASSUME Asking(t)'
                     PROVE  PassedBy(walk'[t], caches'[walk'[t].c].known)
            OBVIOUS
        <3>1. PICK k \in CacheType : /\ k = caches[walk[t].c] /\ Asks(t, k)
                                     /\ Hits(walk[t], k.known, 1) = {}
            BY <1>6, ScanEffect DEF Asking, GivesUp
        <3>2. PICK s \in Seq(Symbols) : s = k.known /\ Len(s) \in Nat
            BY CacheFields
        <3>3. /\ walk'[t].want = walk[t].want /\ walk'[t].idx = Len(s) + 1
              /\ caches'[walk'[t].c].known = s
            BY <2>1, <3>1, <3>2 DEF Asks
        <3>4. \A i \in 1 .. Len(s) : walk[t].want = None \/ NameOf(s[i]) # walk[t].want
            BY <3>1, <3>2 DEF Hits
        <3>5. PassedBy(walk'[t], s)
            BY <3>2, <3>3, <3>4 DEF PassedBy
        <3> QED
            BY <3>3, <3>5
    <2>3. \A u \in Threads : u # t /\ Asking(u) =>
             Grows(caches[walk[u].c].known, caches'[walk[u].c].known)
        BY <2>1, SameGrows
    <2> QED
        BY <1>1, <2>1, <2>2, <2>3, PassedKept
<1>7. ASSUME NEW t \in Threads, SymbolAt(t),
             client = "open", UNCHANGED <<client, pools, sessionVars, lops>>
      PROVE  Passed'
    <2>1. OthersKept(t) /\ caches' = caches
        BY <1>7, SymbolAtEffect
    <2>2. Asking(t)' => PassedBy(walk'[t], caches'[walk'[t].c].known)
        <3> SUFFICES ASSUME Asking(t)'
                     PROVE  PassedBy(walk'[t], caches'[walk'[t].c].known)
            OBVIOUS
        <3>1. /\ walk'[t].want = walk[t].want /\ walk'[t].idx = walk[t].idx
              /\ walk'[t].c = walk[t].c /\ Asking(t)
            BY <1>7, SymbolAtEffect DEF Asking
        <3>2. PassedBy(walk[t], caches[walk[t].c].known)
            BY <1>1, <3>1 DEF Passed
        <3> QED
            BY <2>1, <3>1, <3>2 DEF PassedBy
    <2>3. \A u \in Threads : u # t /\ Asking(u) =>
             Grows(caches[walk[u].c].known, caches'[walk[u].c].known)
        BY <2>1, SameGrows
    <2> QED
        BY <1>1, <2>1, <2>2, <2>3, PassedKept
<1>8. ASSUME NEW t \in Threads, AppendSymbol(t),
             client = "open", UNCHANGED <<client, pools, sessionVars, lops>>
      PROVE  Passed'
    <2>1. OthersKept(t) /\ ThreadTypes /\ walk[t].got \in Symbols /\ Asking(t)
        BY <1>8, AppendEffect DEF TypeInv, Asking
    <2>2. PICK c \in Caches, k \in CacheType : c = walk[t].c /\ k = caches[c]
        BY <1>8, AppendEffect
    <2>3. PICK r \in CacheType : r = Kept(t, k)
        BY <2>1, Keeps
    <2>4. \A e \in Caches : caches'[e] = IF e = c THEN r ELSE caches[e]
        BY <1>8, <2>2, <2>3, AppendEffect DEF TypeInv
    <2>5. Grows(k.known, r.known)
        BY <2>1, <2>3, AppendGrows
    <2>6. Asking(t)' => PassedBy(walk'[t], caches'[walk'[t].c].known)
        <3> SUFFICES ASSUME Asking(t)'
                     PROVE  PassedBy(walk'[t], caches'[walk'[t].c].known)
            OBVIOUS
        <3>1. Asks(t, r) /\ Hits(walk[t], r.known, walk[t].idx) = {}
            BY <1>8, <2>2, <2>3, AppendEffect DEF Asking, GivesUp
        <3>2. PICK s \in Seq(Symbols) : s = r.known /\ Len(s) \in Nat
            BY CacheFields
        <3>3. /\ walk'[t].want = walk[t].want /\ walk'[t].idx = Len(s) + 1
              /\ caches'[walk'[t].c].known = s
            BY <2>2, <2>4, <3>1, <3>2 DEF Asks
        <3>4. walk[t].idx \in Nat
            BY <2>1, WalkFields DEF ThreadTypes
        <3>5. \A i \in walk[t].idx .. Len(s) : walk[t].want = None \/ NameOf(s[i]) # walk[t].want
            BY <3>1, <3>2 DEF Hits
        <3>6. PassedBy(walk[t], k.known)
            BY <1>1, <2>1, <2>2 DEF Passed
        <3>7. PassedBy(walk[t], s)
            BY <2>1, <2>5, <3>2, <3>6, GrowsKeeps, CacheFields DEF ThreadTypes
        <3>8. \A i \in 1 .. Len(s) : walk[t].want = None \/ NameOf(s[i]) # walk[t].want
            BY <3>2, <3>4, <3>5, <3>7 DEF PassedBy
        <3>9. PassedBy(walk'[t], s)
            BY <3>2, <3>3, <3>8 DEF PassedBy
        <3> QED
            BY <3>3, <3>9
    <2>7. \A u \in Threads : u # t /\ Asking(u) =>
             Grows(caches[walk[u].c].known, caches'[walk[u].c].known)
        <3> SUFFICES ASSUME NEW u \in Threads, Asking(u)
                     PROVE  Grows(caches[walk[u].c].known, caches'[walk[u].c].known)
            OBVIOUS
        <3>1. walk[u].c \in Caches
            BY DEF WalkInv, Walking, Asking
        <3>2. CASE walk[u].c = c
            BY <2>2, <2>4, <2>5, <3>2
        <3>3. CASE walk[u].c # c
            BY <2>4, <3>1, <3>3, SameGrows
        <3> QED
            BY <3>2, <3>3
    <2> QED
        BY <1>1, <2>1, <2>6, <2>7, PassedKept
<1>9. ASSUME NEW t \in Threads, Reset(t),
             client = "open", UNCHANGED <<client, pools, sessionVars, lops>>
      PROVE  Passed'
    <2>1. OthersKept(t) /\ pc'[t] = "idle" /\ Building(t)
        BY <1>9, ResetEffect DEF Building
    <2>2. ~Asking(t)'
        BY <2>1 DEF Asking
    <2>3. \A u \in Threads : u # t /\ Asking(u) =>
             Grows(caches[walk[u].c].known, caches'[walk[u].c].known)
        <3> SUFFICES ASSUME NEW u \in Threads, u # t, Asking(u)
                     PROVE  caches'[walk[u].c] = caches[walk[u].c]
            BY SameGrows
        <3>1. PICK c \in Caches : /\ c = walk[u].c /\ caches[c].path = PathOf[walk[u].db]
                                  /\ walk[u].db \in Dbs
            BY DEF WalkInv, Walking, Asking
        <3>2. caches[c].path # PathOf[walk[t].db] /\ caches[c].path # None
            BY <1>1, <2>1, <3>1, Constants DEF Fresh, OneBuilder
        <3>3. \/ caches' = caches
              \/ \E e \in Caches : /\ caches[e].path \in {PathOf[walk[t].db], None}
                                   /\ \E r : caches' = [caches EXCEPT ![e] = r]
            BY <1>9, ResetEffect
        <3> QED
            BY <3>1, <3>2, <3>3 DEF TypeInv
    <2> QED
        BY <1>1, <2>1, <2>2, <2>3, PassedKept
<1>10. ASSUME ServerStop
      PROVE  Passed'
    <2>1. UNCHANGED <<pc, walk, caches>>
        BY <1>10 DEF ServerStop
    <2> QED
        BY <1>1, <2>1 DEF Passed, PassedBy, NameOf, Asking
<1>11. ASSUME ServerStart
      PROVE  Passed'
    <2>1. UNCHANGED <<pc, walk, caches>>
        BY <1>11 DEF ServerStart
    <2> QED
        BY <1>1, <2>1 DEF Passed, PassedBy, NameOf, Asking
<1>12. CASE RenewStep
    <2>1. \A u \in Threads : ~Asking(u)'
        BY <1>12, RenewEffect, RestingNext
    <2> QED
        BY <2>1 DEF Passed
<1>13. CASE QuietStep
    BY <1>1, <1>13, QuietEffect DEF Passed, PassedBy, NameOf, Asking
<1> QED
    BY <1>2, <1>3, <1>4, <1>5, <1>6, <1>7, <1>8, <1>9, <1>10, <1>11, <1>12, <1>13
       DEF Next, Tags, TagNext, TagStart, TagStep, RenewStep, QuietStep

-----------------------------------------------------------------------------
(* What is left behind *)

\* The unnamed databases can be counted.
LEMMA HandlesFinite ==
    /\ IsFiniteSet(Lost) /\ Cardinality(Lost) \in Nat
    /\ IsFiniteSet(Lost)' /\ Cardinality(Lost)' \in Nat
<1>1. IsFiniteSet(Handles)
    BY TagCacheAssumption, FS_Interval DEF Handles
<1>2. Lost \subseteq Handles /\ Lost' \subseteq Handles
    BY DEF Lost
<1>3. IsFiniteSet(Lost) /\ IsFiniteSet(Lost')
    BY <1>1, <1>2, FS_Subset
<1> QED
    BY <1>3, FS_CardinalityType

\* Fewer of them count less.
LEMMA FewerLost ==
    ASSUME Lost' \subseteq Lost
    PROVE  Cardinality(Lost)' <= Cardinality(Lost)
    BY HandlesFinite, FS_Subset

\* One more counts one more.
LEMMA OneMoreLost ==
    ASSUME NEW h, Lost' \subseteq Lost \cup {h}
    PROVE  Cardinality(Lost)' <= Cardinality(Lost) + 1
<1>1. /\ IsFiniteSet(Lost \cup {h}) /\ Cardinality(Lost \cup {h}) \in Nat
      /\ Cardinality(Lost \cup {h}) <= Cardinality(Lost) + 1
    <2>1. IsFiniteSet(Lost \cup {h})
        BY HandlesFinite, FS_AddElement
    <2>2. \/ Cardinality(Lost \cup {h}) = Cardinality(Lost)
          \/ Cardinality(Lost \cup {h}) = Cardinality(Lost) + 1
        BY HandlesFinite, FS_AddElement
    <2> QED
        BY <2>1, <2>2, HandlesFinite
<1>2. Cardinality(Lost)' <= Cardinality(Lost \cup {h})
    BY <1>1, FS_Subset
<1> QED
    BY <1>1, <1>2, HandlesFinite

\* A failure is counted; a call that fails because nobody is there is not.
LEMMA FaultsGrow ==
    ASSUME TypeInv
    PROVE  /\ faults \in Nat
           /\ Fault => faults' = faults + 1
           /\ Fault \/ CallFails \/ UNCHANGED faults => faults' \in Nat /\ faults <= faults'
           /\ CallFails => faults' = faults + 1 \/ ~reach
    BY TagCacheAssumption DEF TypeInv, Fault, CallFails

\* Databases and handles unchanged: no new debt.
LEMMA SameLost ==
    ASSUME TypeInv, CostInv, UNCHANGED <<engine, handle>>, Fault \/ CallFails \/ UNCHANGED faults
    PROVE  Cardinality(Lost)' <= faults'
<1>1. Lost' = Lost
    BY DEF Lost
<1> QED
    BY <1>1, FaultsGrow, HandlesFinite DEF CostInv

\* The second half of CostInv.
SessionsPaid == sessions <= strays + (IF held THEN 1 ELSE 0)

\* Every step keeps the accounts: a database loses its name only with a failure, or
\* with the engine gone; a session its holder only with a stray.
LEMMA CostStep ==
    TypeInv /\ LifeInv /\ CacheInv /\ WalkInv /\ CostInv /\ [Next]_vars => CostInv'
<1> SUFFICES ASSUME TypeInv, LifeInv, CacheInv, WalkInv, CostInv, [Next]_vars
             PROVE  CostInv'
    OBVIOUS
<1>1. /\ Cardinality(Lost) <= faults /\ faults \in Nat /\ SessionsPaid
      /\ CostInv' <=> Cardinality(Lost)' <= faults' /\ SessionsPaid'
    BY FaultsGrow DEF CostInv, SessionsPaid
<1>2. ASSUME NEW t \in Threads, NEW d \in Dbs, OpenDb(t, d),
             client = "open", UNCHANGED <<client, pools, sessionVars, lops>>
      PROVE  CostInv'
    <2>1. Cardinality(Lost)' <= faults'
        <3>1. \A e \in Dbs : handle[d] = 0 /\ handle[e] \in Handles \cup {0} /\ 0 \notin Handles
            BY <1>2, OpenDbEffect, Constants DEF TypeInv
        <3>2. Fault \/ CallFails \/ UNCHANGED faults
            BY <1>2, OpenDbEffect
        <3>3. CASE UNCHANGED <<engine, handle>>
            <4>1. Lost' = Lost
                BY <3>3 DEF Lost
            <4> QED
                BY <1>1, <3>2, <4>1, FaultsGrow, HandlesFinite
        <3>4. CASE ~UNCHANGED <<engine, handle>>
            <4>1. PICK h \in Handles : \E r :
                     /\ engine' = [engine EXCEPT ![h] = r]
                     /\ handle' = [handle EXCEPT ![d] = h] \/ (handle' = handle /\ Fault)
                BY <1>2, <3>4, OpenDbEffect
            <4>2. CASE handle' = [handle EXCEPT ![d] = h]
                <5>1. Lost' \subseteq Lost
                    BY <3>1, <4>1, <4>2 DEF Lost, TypeInv
                <5> QED
                    BY <1>1, <3>2, <5>1, FaultsGrow, FewerLost, HandlesFinite
            <4>3. CASE handle' = handle /\ Fault
                <5>1. Lost' \subseteq Lost \cup {h}
                    BY <4>1, <4>3 DEF Lost, TypeInv
                <5> QED
                    BY <1>1, <4>3, <5>1, FaultsGrow, OneMoreLost, HandlesFinite
            <4> QED
                BY <4>1, <4>2, <4>3
        <3> QED
            BY <3>3, <3>4
    <2>2. SessionsPaid'
        BY <1>1, <1>2 DEF SessionsPaid, sessionVars
    <2> QED
        BY <1>1, <2>1, <2>2
<1>3. ASSUME NEW t \in Threads, NEW d \in Dbs, CloseDb(t, d),
             client = "open", UNCHANGED <<client, pools, sessionVars, lops>>
      PROVE  CostInv'
    <2>1. Cardinality(Lost)' <= faults'
        <3>1. /\ handle' = [handle EXCEPT ![d] = 0] /\ handle[d] \in Handles
              /\ \/ engine' = [engine EXCEPT ![handle[d]] = None] /\ UNCHANGED faults
                 \/ CallFails /\ UNCHANGED engine
            BY <1>3, CloseDbEffect
        <3>2. CASE engine' = [engine EXCEPT ![handle[d]] = None] /\ UNCHANGED faults
            <4>1. Lost' \subseteq Lost
                BY <3>1, <3>2 DEF Lost, TypeInv
            <4> QED
                BY <1>1, <3>2, <4>1, FewerLost, HandlesFinite
        <3>3. CASE faults' = faults + 1 /\ UNCHANGED engine
            <4>1. Lost' \subseteq Lost \cup {handle[d]}
                BY <3>1, <3>3 DEF Lost, TypeInv
            <4> QED
                BY <1>1, <3>3, <4>1, OneMoreLost, HandlesFinite
        <3>4. CASE ~reach /\ UNCHANGED engine /\ CallFails
            <4>1. Lost' = {} /\ faults' \in Nat
                BY <1>3, <3>4, FaultsGrow DEF Lost, LifeInv
            <4> QED
                BY <4>1, FS_EmptySet
        <3> QED
            BY <3>1, <3>2, <3>3, <3>4, FaultsGrow
    <2>2. SessionsPaid'
        BY <1>1, <1>3 DEF SessionsPaid, sessionVars
    <2> QED
        BY <1>1, <2>1, <2>2
<1>4. ASSUME NEW t \in Threads, NEW d \in Dbs, Build(t, d),
             client = "open", UNCHANGED <<client, pools, sessionVars, lops>>
      PROVE  CostInv'
    <2>1. Cardinality(Lost)' <= faults'
        <3>1. Lost' \subseteq Lost
            <4>1. handle' = handle /\ handle[d] \in Handles
                BY <1>4, BuildEffect
            <4>2. \/ engine' = engine
                  \/ /\ engine[handle[d]] \in Contents
                     /\ \E r : engine' = [engine EXCEPT ![handle[d]] = r]
                BY <1>4, BuildEffect
            <4> QED
                BY <4>1, <4>2, Constants DEF Lost, TypeInv
        <3>2. faults' \in Nat /\ faults <= faults'
            BY <1>4, BuildEffect, FaultsGrow
        <3> QED
            BY <1>1, <3>1, <3>2, FewerLost, HandlesFinite
    <2>2. SessionsPaid'
        BY <1>1, <1>4 DEF SessionsPaid, sessionVars
    <2> QED
        BY <1>1, <2>1, <2>2
<1>5. ASSUME NEW t \in Threads, NEW d \in Dbs,
             NEW n \in Names \cup {None}, WalkBegin(t, d, n),
             client = "open", UNCHANGED <<client, pools, sessionVars, lops>>
      PROVE  CostInv'
    <2>1. Cardinality(Lost)' <= faults'
        BY <1>5, SameLost, WalkBeginEffect
    <2>2. SessionsPaid'
        BY <1>1, <1>5 DEF SessionsPaid, sessionVars
    <2> QED
        BY <1>1, <2>1, <2>2
<1>6. ASSUME NEW t \in Threads, Scan(t),
             client = "open", UNCHANGED <<client, pools, sessionVars, lops>>
      PROVE  CostInv'
    <2>1. Cardinality(Lost)' <= faults'
        BY <1>6, SameLost, ScanEffect
    <2>2. SessionsPaid'
        BY <1>1, <1>6 DEF SessionsPaid, sessionVars
    <2> QED
        BY <1>1, <2>1, <2>2
<1>7. ASSUME NEW t \in Threads, SymbolAt(t),
             client = "open", UNCHANGED <<client, pools, sessionVars, lops>>
      PROVE  CostInv'
    <2>1. Cardinality(Lost)' <= faults'
        BY <1>7, SameLost, SymbolAtEffect
    <2>2. SessionsPaid'
        BY <1>1, <1>7 DEF SessionsPaid, sessionVars
    <2> QED
        BY <1>1, <2>1, <2>2
<1>8. ASSUME NEW t \in Threads, AppendSymbol(t),
             client = "open", UNCHANGED <<client, pools, sessionVars, lops>>
      PROVE  CostInv'
    <2>1. Cardinality(Lost)' <= faults'
        BY <1>8, SameLost, AppendEffect
    <2>2. SessionsPaid'
        BY <1>1, <1>8 DEF SessionsPaid, sessionVars
    <2> QED
        BY <1>1, <2>1, <2>2
<1>9. ASSUME NEW t \in Threads, Reset(t),
             client = "open", UNCHANGED <<client, pools, sessionVars, lops>>
      PROVE  CostInv'
    <2>1. Cardinality(Lost)' <= faults'
        BY <1>9, SameLost, ResetEffect
    <2>2. SessionsPaid'
        BY <1>1, <1>9 DEF SessionsPaid, sessionVars
    <2> QED
        BY <1>1, <2>1, <2>2
<1>10. ASSUME Download,
             client = "open", UNCHANGED <<client, pools, sessionVars, lops>>
      PROVE  CostInv'
    <2>1. Cardinality(Lost)' <= faults'
        BY <1>10, SameLost DEF Download
    <2>2. SessionsPaid'
        BY <1>1, <1>10 DEF SessionsPaid, sessionVars
    <2> QED
        BY <1>1, <2>1, <2>2
<1>11. ASSUME ServerStop
      PROVE  CostInv'
    <2>1. Cardinality(Lost)' <= faults'
        <3>1. Lost' = {} /\ faults' \in Nat
            BY <1>11, FaultsGrow DEF ServerStop, Lost
        <3> QED
            BY <3>1, FS_EmptySet
    <2>2. SessionsPaid'
        BY <1>1, <1>11 DEF SessionsPaid, ServerStop, TypeInv
    <2> QED
        BY <1>1, <2>1, <2>2
<1>12. ASSUME ServerStart
      PROVE  CostInv'
    <2>1. Cardinality(Lost)' <= faults'
        BY <1>12, SameLost DEF ServerStart
    <2>2. SessionsPaid'
        BY <1>1, <1>12 DEF SessionsPaid, ServerStart, sessionVars
    <2> QED
        BY <1>1, <2>1, <2>2
<1>13. ASSUME ClientOpen
      PROVE  CostInv'
    <2>1. Cardinality(Lost)' <= faults'
        BY <1>13, SameLost DEF ClientOpen
    <2>2. SessionsPaid'
        BY <1>1, <1>13 DEF SessionsPaid, ClientOpen, sessionVars
    <2> QED
        BY <1>1, <2>1, <2>2
<1>14. ASSUME Reconnect
      PROVE  CostInv'
    <2>1. Cardinality(Lost)' <= faults'
        BY <1>14, SameLost DEF Reconnect
    <2>2. SessionsPaid'
        BY <1>1, <1>14 DEF SessionsPaid, Reconnect, TypeInv
    <2> QED
        BY <1>1, <2>1, <2>2
<1>15. ASSUME ClientClose
      PROVE  CostInv'
    <2>1. Cardinality(Lost)' <= faults'
        BY <1>15, SameLost DEF ClientClose
    <2>2. SessionsPaid'
        BY <1>1, <1>15 DEF SessionsPaid, ClientClose, TypeInv, OneLess
    <2> QED
        BY <1>1, <2>1, <2>2
<1>16. ASSUME CloseBroken
      PROVE  CostInv'
    <2>1. Cardinality(Lost)' <= faults'
        BY <1>16, SameLost DEF CloseBroken
    <2>2. SessionsPaid'
        BY <1>1, <1>16 DEF SessionsPaid, CloseBroken, sessionVars
    <2> QED
        BY <1>1, <2>1, <2>2
<1>17. ASSUME OpenSession
      PROVE  CostInv'
    <2>1. Cardinality(Lost)' <= faults'
        BY <1>17, SameLost DEF OpenSession
    <2>2. SessionsPaid'
        BY <1>1, <1>17 DEF SessionsPaid, OpenSession, TypeInv
    <2> QED
        BY <1>1, <2>1, <2>2
<1>18. ASSUME CloseSession
      PROVE  CostInv'
    <2>1. Cardinality(Lost)' <= faults'
        BY <1>18, SameLost DEF CloseSession
    <2>2. SessionsPaid'
        BY <1>1, <1>18 DEF SessionsPaid, CloseSession, TypeInv, OneLess
    <2> QED
        BY <1>1, <2>1, <2>2
<1>19. ASSUME NEW s \in PoolSlots, PoolOpen(s)
      PROVE  CostInv'
    <2>1. Cardinality(Lost)' <= faults'
        BY <1>19, SameLost DEF PoolOpen
    <2>2. SessionsPaid'
        BY <1>1, <1>19 DEF SessionsPaid, PoolOpen, sessionVars
    <2> QED
        BY <1>1, <2>1, <2>2
<1>20. CASE UNCHANGED vars
    <2>1. UNCHANGED <<engine, handle, faults, held, sessions, strays>>
        BY <1>20 DEF vars, tagVars, sessionVars
    <2> QED
        BY <2>1 DEF CostInv, Lost
<1> QED
    BY <1>2, <1>3, <1>4, <1>5, <1>6, <1>7, <1>8, <1>9, <1>10, <1>11, <1>12, <1>13,
       <1>14, <1>15, <1>16, <1>17, <1>18, <1>19, <1>20
       DEF Next, Tags, TagNext, TagStart, TagStep

-----------------------------------------------------------------------------
(* Lookups that find nothing *)

\* NotFoundIsTrue of one step.
Missing ==
    \A t \in Threads : pc[t] # "missed" /\ pc'[t] = "missed" /\ ~raced /\ ~crossed =>
        \A i \in DOMAIN Tables[caches[walk[t].c].gen] :
            Tables[caches[walk[t].c].gen][i] # walk[t].want

\* A cache that knows its whole table knows every name of it.
LEMMA WholeTable ==
    ASSUME NEW r \in CacheType, NEW a, GoodCache(r, a), r.cap > 0, ~(Len(r.known) < r.total),
           \A i \in 1 .. Len(r.known) : r.known[i].gen = r.gen,
           NEW n, \A i \in 1 .. Len(r.known) : NameOf(r.known[i]) # n
    PROVE  \A i \in DOMAIN Tables[r.gen] : Tables[r.gen][i] # n
<1>1. /\ r.gen \in Gens /\ r.total = Len(Tables[r.gen]) /\ Len(r.known) = r.total
      /\ \A i \in 1 .. Len(r.known) : r.known[i].idx = i
    BY CacheFields DEF GoodCache
<1>2. DOMAIN Tables[r.gen] = 1 .. Len(r.known)
    BY <1>1, Constants, LenProperties
<1> QED
    BY <1>1, <1>2 DEF NameOf

\* Steps in which no lookup ends with nothing found.
LEMMA OnlyScans ==
    ASSUME \A u \in Threads : pc'[u] # "missed" \/ pc'[u] = pc[u]
    PROVE  Missing
    BY DEF Missing

\* A lookup that ends with nothing found has seen the whole table: what it passed
\* before its call to the engine, and what it scanned after.
LEMMA MissStep ==
    TypeInv /\ LifeInv /\ CacheInv /\ WalkInv /\ FreshInv /\ PassedInv /\ CacheInv' /\
       FreshInv' /\ [Next]_vars => Missing
<1> SUFFICES ASSUME TypeInv, LifeInv, CacheInv, WalkInv, FreshInv, PassedInv, CacheInv',
   FreshInv', [Next]_vars
             PROVE  Missing
    OBVIOUS
<1>1. ASSUME NEW t \in Threads, NEW d \in Dbs, OpenDb(t, d),
             client = "open", UNCHANGED <<client, pools, sessionVars, lops>>
      PROVE  Missing
    BY <1>1, OpenDbEffect, OnlyScans DEF OthersKept
<1>2. ASSUME NEW t \in Threads, NEW d \in Dbs, CloseDb(t, d),
             client = "open", UNCHANGED <<client, pools, sessionVars, lops>>
      PROVE  Missing
    BY <1>2, CloseDbEffect, OnlyScans DEF OthersKept
<1>3. ASSUME NEW t \in Threads, NEW d \in Dbs, Build(t, d),
             client = "open", UNCHANGED <<client, pools, sessionVars, lops>>
      PROVE  Missing
    BY <1>3, BuildEffect, OnlyScans DEF OthersKept
<1>4. ASSUME NEW t \in Threads, NEW d \in Dbs,
             NEW n \in Names \cup {None}, WalkBegin(t, d, n),
             client = "open", UNCHANGED <<client, pools, sessionVars, lops>>
      PROVE  Missing
    BY <1>4, WalkBeginEffect, OnlyScans DEF OthersKept
<1>5. ASSUME NEW t \in Threads, Scan(t),
             client = "open", UNCHANGED <<client, pools, sessionVars, lops>>
      PROVE  Missing
    <2> SUFFICES ASSUME pc'[t] = "missed", ~raced, ~crossed
                 PROVE  \A i \in DOMAIN Tables[caches[walk[t].c].gen] :
                            Tables[caches[walk[t].c].gen][i] # walk[t].want
        BY <1>5, ScanEffect DEF Missing, OthersKept
    <2>1. PICK c \in Caches, r \in CacheType : c = walk[t].c /\ r = caches[c]
        BY <1>5, ScanEffect
    <2>2. r.cap > 0 /\ Hits(walk[t], r.known, 1) = {} /\ GivesUp(t, r)
        BY <1>5, <2>1, ScanEffect DEF Asks
    <2>3. GoodCache(r, attached)
        BY <2>1, CachesAre
    <2>4. \A i \in 1 .. Len(r.known) : r.known[i].gen = r.gen
        BY <2>1 DEF FreshInv, Fresh, KnownFresh
    <2>5. \A i \in 1 .. Len(r.known) : NameOf(r.known[i]) # walk[t].want
        BY <2>2 DEF Hits, GivesUp
    <2>6. \A i \in DOMAIN Tables[r.gen] : Tables[r.gen][i] # walk[t].want
        BY <2>2, <2>3, <2>4, <2>5, WholeTable DEF GivesUp
    <2> QED
        BY <2>1, <2>6
<1>6. ASSUME NEW t \in Threads, SymbolAt(t),
             client = "open", UNCHANGED <<client, pools, sessionVars, lops>>
      PROVE  Missing
    BY <1>6, SymbolAtEffect, OnlyScans DEF OthersKept
<1>7. ASSUME NEW t \in Threads, AppendSymbol(t),
             client = "open", UNCHANGED <<client, pools, sessionVars, lops>>
      PROVE  Missing
    <2> SUFFICES ASSUME pc'[t] = "missed", ~raced, ~crossed
                 PROVE  \A i \in DOMAIN Tables[caches[walk[t].c].gen] :
                            Tables[caches[walk[t].c].gen][i] # walk[t].want
        BY <1>7, AppendEffect DEF Missing, OthersKept
    <2>1. PICK c \in Caches, k \in CacheType : c = walk[t].c /\ k = caches[c]
        BY <1>7, AppendEffect
    <2>2. /\ ThreadTypes /\ walk[t].got \in Symbols /\ Asking(t) /\ UNCHANGED <<attached, crossed>>
        BY <1>7, AppendEffect DEF TypeInv, Asking, lifeVars
    <2>3. PICK r \in CacheType : r = Kept(t, k) /\ r.gen = k.gen /\ r.cap = k.cap
        BY <2>2, Keeps
    <2>4. caches'[c] = r
        BY <1>7, <2>1, <2>3, AppendEffect DEF TypeInv
    <2>5. Hits(walk[t], r.known, walk[t].idx) = {} /\ GivesUp(t, r)
        BY <1>7, <2>1, <2>3, AppendEffect DEF Asks
    <2>6. GoodCache(r, attached)
        BY <2>2, <2>4 DEF CacheInv, GoodCache
    <2>7. \A i \in 1 .. Len(r.known) : r.known[i].gen = r.gen
        BY <2>2, <2>4, <2>5 DEF GivesUp, FreshInv, Fresh, KnownFresh
    <2>8. r.cap > 0
        BY <2>1, <2>2, <2>3 DEF FreshInv, Fresh, AskingFilled
    <2>9. \A i \in 1 .. Len(r.known) : NameOf(r.known[i]) # walk[t].want
        <3>1. PassedBy(walk[t], k.known)
            BY <2>1, <2>2 DEF PassedInv, Passed
        <3>2. /\ k.known \in Seq(Symbols) /\ r.known \in Seq(Symbols) /\ Len(r.known) \in Nat
              /\ walk[t] \in WalkType /\ walk[t].idx \in Nat
            BY <2>2, CacheFields, WalkFields DEF ThreadTypes
        <3>3. Grows(k.known, r.known)
            BY <2>2, <2>3, AppendGrows
        <3>4. PassedBy(walk[t], r.known)
            BY <3>1, <3>2, <3>3, GrowsKeeps
        <3>5. walk[t].want # None
            BY <2>5 DEF GivesUp
        <3> QED
            BY <2>5, <3>2, <3>4, <3>5 DEF PassedBy, Hits
    <2>10. \A i \in DOMAIN Tables[r.gen] : Tables[r.gen][i] # walk[t].want
        BY <2>5, <2>6, <2>7, <2>8, <2>9, WholeTable DEF GivesUp
    <2> QED
        BY <2>1, <2>3, <2>10
<1>8. ASSUME NEW t \in Threads, Reset(t),
             client = "open", UNCHANGED <<client, pools, sessionVars, lops>>
      PROVE  Missing
    BY <1>8, ResetEffect, OnlyScans DEF OthersKept
<1>9. ASSUME ServerStop
      PROVE  Missing
    BY <1>9, OnlyScans DEF ServerStop
<1>10. ASSUME ServerStart
      PROVE  Missing
    BY <1>10, OnlyScans DEF ServerStart
<1>11. CASE RenewStep
    BY <1>11, RenewEffect, OnlyScans
<1>12. CASE QuietStep
    BY <1>12, QuietEffect, OnlyScans
<1> QED
    BY <1>1, <1>2, <1>3, <1>4, <1>5, <1>6, <1>7, <1>8, <1>9, <1>10, <1>11, <1>12
       DEF Next, Tags, TagNext, TagStart, TagStep, RenewStep, QuietStep

-----------------------------------------------------------------------------
(* The theorems *)

\* The inductive invariant holds initially.
LEMMA InitInv == Init => IndInv
<1> SUFFICES ASSUME Init
             PROVE  IndInv
    OBVIOUS
<1> USE DEF Init, TagInit
<1>1. \A t \in Threads : pc[t] = "idle" /\ GoodWalk(t) /\ ~Walking(t) /\ ~Asking(t) /\ ~Building(t)
    BY Resting
<1>2. \A c \in Caches : caches[c] = NoCache
    OBVIOUS
<1>3. TypeInv
    <2>1. caches \in [Caches -> CacheType] /\ ThreadTypes
        BY Constants DEF ThreadTypes
    <2>2. /\ gen \in Gens /\ ops \in 0 .. MaxOps /\ faults \in 0 .. MaxFaults /\ lops \in 0 .. MaxLife
        BY Constants, TagCacheAssumption, ClientLifeAssumption
    <2>3. pools \in [PoolSlots -> 0 .. MaxEpochs]
        BY ClientLifeAssumption
    <2>4. /\ engine \in [Handles -> Contents \cup {None}] /\ handle \in [Dbs -> Handles \cup {0}]
          /\ stale \subseteq Dbs
        OBVIOUS
    <2>5. /\ epoch \in Int /\ attached \in Nat /\ sessions \in Nat /\ strays \in Nat
          /\ client \in {"open", "broken", "closed", "crashed"}
        OBVIOUS
    <2>6. raced \in BOOLEAN /\ crossed \in BOOLEAN /\ held \in BOOLEAN
        OBVIOUS
    <2> HIDE DEF Init, TagInit
    <2> QED
        BY <2>1, <2>2, <2>3, <2>4, <2>5, <2>6 DEF TypeInv
<1>4. LifeInv
    BY <1>1, ClientLifeAssumption DEF LifeInv, reach
<1>5. CacheInv
    BY <1>2, EmptyCaches DEF CacheInv, GoodCache
<1>6. WalkInv
    BY <1>1, WalksAre
<1>7. \A d \in Dbs : ~Open(d)
    BY DEF Open
<1>8. HandleInv
    BY <1>1, <1>2, <1>7, EmptyCaches DEF HandleInv, Named, DbsNamed, GotNamed, KnownNamed
<1>9. FreshInv
    BY <1>1, <1>2, <1>7, EmptyCaches
       DEF FreshInv, Fresh, OneBuilder, BuildNewest, CacheNewest, AskingFilled,
          GotFresh, KnownFresh
<1>10. PassedInv
    BY <1>1 DEF PassedInv, Passed
<1>11. CostInv
    <2>1. Lost = {}
        BY DEF Lost
    <2> QED
        BY <2>1, FS_EmptySet DEF CostInv
<1> QED
    BY <1>3, <1>4, <1>5, <1>6, <1>8, <1>9, <1>10, <1>11 DEF IndInv

\* Every step keeps it, and tells the truth about names not found.
LEMMA StepInv == IndInv /\ [Next]_vars => IndInv' /\ Missing
<1> SUFFICES ASSUME IndInv, [Next]_vars
             PROVE  IndInv' /\ Missing
    OBVIOUS
<1>1. /\ TypeInv /\ LifeInv /\ CacheInv /\ WalkInv
      /\ HandleInv /\ FreshInv /\ PassedInv /\ CostInv
    BY DEF IndInv
<1>2. TypeInv'
    BY <1>1, TypeStep
<1>3. LifeInv'
    BY <1>1, LifeStep
<1>4. CacheInv'
    BY <1>1, <1>2, CacheStep
<1>5. WalkInv'
    BY <1>1, <1>2, WalkStep
<1>6. HandleInv'
    BY <1>1, HandleStep DEF HandleInv
<1>7. FreshInv'
    BY <1>1, FreshStep DEF FreshInv
<1>8. PassedInv'
    BY <1>1, <1>2, PassedStep DEF PassedInv
<1>9. CostInv'
    BY <1>1, CostStep
<1>10. Missing
    BY <1>1, <1>4, <1>7, MissStep
<1> QED
    BY <1>2, <1>3, <1>4, <1>5, <1>6, <1>7, <1>8, <1>9, <1>10 DEF IndInv

\* So it holds throughout.
THEOREM Inductive == Spec => []IndInv
<1>1. Init => IndInv
    BY InitInv
<1>2. IndInv /\ [Next]_vars => IndInv'
    BY StepInv
<1> QED
    BY <1>1, <1>2, PTL DEF Spec

\* It implies the type invariant the runs check.
LEMMA TypesFollow == IndInv => TypeOK
<1> SUFFICES ASSUME TypeInv, LifeInv, CacheInv, WalkInv
             PROVE  TypeOK
    BY DEF IndInv
<1>1. \A c \in Caches : caches[c].path \in Paths \cup {None} /\ caches[c].known \in Seq(Symbols)
    BY CacheFields DEF TypeInv
<1>2. \A c, e \in Caches : caches[c].path = caches[e].path => c = e \/ caches[c] = NoCache
    BY DEF CacheInv
<1>3. \A t \in Threads : pc[t] \in {"scan", "ipc", "append"} => walk[t].c \in Caches
    BY DEF WalkInv, Walking
<1>4. \A c \in Caches : Len(caches[c].known) <= caches[c].cap /\ caches[c].cap \in {0, caches[c].total}
    BY DEF CacheInv
<1> HIDE DEF CacheInv
<1>5. TagTypeOK
    BY <1>1, <1>2, <1>3, <1>4 DEF TagTypeOK, TypeInv, ThreadTypes
<1> QED
    BY <1>5 DEF TypeOK, TypeInv, LifeInv

\* Every variable keeps its type; a cache never knows more symbols than it has room
\* for, and no two caches serve one path.
THEOREM TypeCorrect == Spec => []TypeOK
    BY Inductive, TypesFollow, PTL

\* For any number of threads filling and emptying the caches: entry i of a cache is
\* the engine's answer for index i; it is of the cache's path unless a database from
\* before a restart was closed over a new one; and it is of the table of the last
\* build unless a build raced.
THEOREM CachedSymbolsAreFresh == Spec => []CacheFresh
<1>1. IndInv => CacheFresh
    <2> SUFFICES ASSUME IndInv
                 PROVE  CacheFresh
        OBVIOUS
    <2>1. TagTypeOK
        BY TypesFollow DEF TypeOK
    <2>2. \A c \in Caches : DOMAIN caches[c].known = 1 .. Len(caches[c].known)
        BY LenProperties, CacheFields DEF IndInv, TypeInv
    <2>3. ASSUME NEW c \in Caches, NEW i \in 1 .. Len(caches[c].known)
          PROVE  /\ caches[c].known[i].idx = i
                 /\ ~crossed => caches[c].known[i].path = caches[c].path
                 /\ ~crossed /\ ~raced => caches[c].known[i].gen = caches[c].gen
        BY <2>3 DEF IndInv, CacheInv, HandleInv, Named, KnownNamed, FreshInv, Fresh,
           KnownFresh
    <2> QED
        BY <2>1, <2>2, <2>3 DEF CacheFresh
<1> QED
    BY <1>1, Inductive, PTL

\* After any restarts and reconnects, no pool or cached symbol of an earlier
\* incarnation of bpServer is usable while the client is attached to the running one.
THEOREM StateIsOfThisEngine == Spec => []StateOfThisEngine
<1>1. IndInv => StateOfThisEngine
    BY DEF IndInv, LifeInv, CacheInv, StateOfThisEngine, reach
<1> QED
    BY <1>1, Inductive, PTL

\* A database at the engine without a bp_tagdb_t cost a failed call or allocation
\* each; a session without a holder a lost answer, a second open or a reconnect.
THEOREM LeftBehindIsPaid == Spec => []LeftBehindCosts
<1>1. IndInv => LeftBehindCosts
    BY TypesFollow DEF IndInv, CostInv, Lost, LeftBehindCosts
<1> QED
    BY <1>1, Inductive, PTL

\* A lookup answers "not in the PLC's table" only when the table of the last build
\* does not have the name, for any number of threads, unless something raced or
\* crossed.
THEOREM NotFoundMeansAbsent == Spec => NotFoundIsTrue
<1>1. IndInv /\ [Next]_vars => [Missing]_tagVars
    BY StepInv
<1>2. [][Missing]_tagVars => NotFoundIsTrue
    BY PTL DEF NotFoundIsTrue, Missing
<1> QED
    BY <1>1, <1>2, Inductive, PTL DEF Spec
=============================================================================
