------------------------------ MODULE TagCache ------------------------------
(***************************************************************************)
(* Tag databases and the per-path symbol cache (c/src/tagdb.c,             *)
(* c/src/tagcache.c).                                                      *)
(*                                                                         *)
(* A bp_tagdb_t names a database the engine keeps; BuildTagDb copies the   *)
(* controller's tag table into it.  Databases of one path share a cache,   *)
(* which lookups and preloads fill one symbol at a time, releasing the     *)
(* cache's lock around every call to the engine, while a build of another  *)
(* thread empties it.  A call to the engine may fail, before or after the  *)
(* engine has carried it out.  A symbol is the path, table and index it    *)
(* was read for; the rest of its descriptor goes with it.                  *)
(***************************************************************************)
EXTENDS Integers, Sequences, FiniteSets

CONSTANTS
    Threads,    \* threads of the client
    Dbs,        \* bp_tagdb_t objects
    PathOf,     \* PathOf[d]: db->path
    Tables,     \* Tables[g]: names of the controller's g-th tag table, in order
    Names,      \* names that are looked up
    MaxCaches,  \* BP_TAG_CACHE_MAX, 8
    MaxHandles, \* databases the engine can keep
    MaxOps,     \* bound: operations started
    MaxFaults,  \* bound: calls and allocations that fail
    None

Paths == {PathOf[d] : d \in Dbs}
Gens == 1 .. Len(Tables)

\* A database the engine keeps: its path, and the table built into it (0: none yet).
Contents == [path : Paths, gen : Gens \cup {0}]

ASSUME TagCacheAssumption ==
    /\ PathOf \in [Dbs -> STRING]
    /\ Tables \in Seq(Seq(Names)) /\ Tables # <<>>
    /\ {MaxCaches, MaxHandles, MaxOps, MaxFaults} \subseteq Nat
    /\ None \notin Names /\ None \notin Paths /\ None \notin Contents

VARIABLES
    epoch,   \* incarnations of bpServer so far; negative while it is down
    attached,\* the incarnation whose memory and semaphores the client has open, or 0
    stale,   \* databases opened at an earlier incarnation
    crossed, \* a stale database was closed while another one had its handle
    gen,     \* the controller's present tag table
    engine,  \* engine[h]: the database behind handle h, or None
    handle,  \* handle[d]: db->handle, 0 when d is not open
    caches,  \* caches[c]: cl->tag_caches[c]
    pc,      \* pc[t]: where thread t is; "missed" after a lookup that found nothing
    walk,    \* walk[t]: locals of t's lookup, preload or build
    ops, faults,
    raced    \* a build has overlapped a walk or another build of its path, has
             \* lost its answer, or has left another database of the path behind

lifeVars == <<epoch, attached, stale, crossed>>
tagVars == <<lifeVars, gen, engine, handle, caches, pc, walk, ops, faults, raced>>

Handles == 1 .. MaxHandles
Caches == 1 .. MaxCaches
Symbols == [path : Paths, gen : Gens, idx : Nat \ {0}]
NameOf(s) == Tables[s.gen][s.idx]

\* epoch and gen are the incarnation and the table of the last build; the code
\* does not record them.
NoCache == [path |-> None, epoch |-> 0, gen |-> 0, cap |-> 0, total |-> 0, known |-> <<>>]
NoWalk == [db |-> None, want |-> None, c |-> 0, idx |-> 0, got |-> None]

TagTypeOK ==
    /\ epoch \in Int /\ attached \in Nat /\ stale \subseteq Dbs
    /\ raced \in BOOLEAN /\ crossed \in BOOLEAN
    /\ gen \in Gens
    /\ engine \in [Handles -> Contents \cup {None}]
    /\ handle \in [Dbs -> Handles \cup {0}]
    /\ \A c \in Caches :
          /\ caches[c].path \in Paths \cup {None}
          /\ caches[c].known \in Seq(Symbols)
          /\ Len(caches[c].known) <= caches[c].cap /\ caches[c].cap \in {0, caches[c].total}
    /\ \A c, e \in Caches : caches[c].path = caches[e].path => c = e \/ caches[c] = NoCache
    /\ pc \in [Threads -> {"idle", "missed", "scan", "ipc", "append", "reset"}]
    /\ \A t \in Threads : pc[t] \in {"scan", "ipc", "append"} => walk[t].c \in Caches
    /\ ops \in 0 .. MaxOps /\ faults \in 0 .. MaxFaults

TagInit ==
    /\ epoch = 1 /\ attached = 1 /\ stale = {}
    /\ raced = FALSE /\ crossed = FALSE
    /\ gen = 1
    /\ engine = [h \in Handles |-> None]
    /\ handle = [d \in Dbs |-> 0]
    /\ caches = [c \in Caches |-> NoCache]
    /\ pc = [t \in Threads |-> "idle"]
    /\ walk = [t \in Threads |-> NoWalk]
    /\ ops = 0 /\ faults = 0

\* The engine the client is attached to is there to answer.
reach == attached = epoch

Goto(t, where) == pc' = [pc EXCEPT ![t] = where]
Begin(t) == pc[t] \in {"idle", "missed"} /\ ops < MaxOps /\ ops' = ops + 1
Fault == faults < MaxFaults /\ faults' = faults + 1

\* A call to the engine fails: an answer was lost, or nobody is there to answer.
CallFails == Fault \/ (~reach /\ UNCHANGED faults)

Leave(t, where) == Goto(t, where) /\ walk' = [walk EXCEPT ![t] = NoWalk]
Return(t) == Leave(t, "idle")

Database(d) == engine[handle[d]]

\* Callers re-open their databases after a reconnect (bpclient.h:222-223).
Usable(d) == handle[d] # 0 /\ (reach => d \notin stale)
InUse(d) == \E t \in Threads : walk[t].db = d
WalkersOf(p) == {t \in Threads : pc[t] \in {"ipc", "append"} /\ PathOf[walk[t].db] = p}
BuildersOf(p) == {t \in Threads : pc[t] = "reset" /\ PathOf[walk[t].db] = p}

-----------------------------------------------------------------------------
(* tagdb_open, tagdb_close *)

\* CreateTagDbHandle, then calloc: when that fails the engine keeps a database
\* nobody has the handle of.
OpenDb(t, d) ==
    /\ Begin(t) /\ handle[d] = 0 /\ ~InUse(d)
    /\ \/ /\ reach
          /\ \E h \in Handles :
                /\ engine[h] = None
                /\ engine' = [engine EXCEPT ![h] = [path |-> PathOf[d], gen |-> 0]]
                /\ \/ handle' = [handle EXCEPT ![d] = h] /\ Return(t) /\ UNCHANGED faults
                   \/ Fault /\ Return(t) /\ UNCHANGED handle
       \/ CallFails /\ Return(t) /\ UNCHANGED <<engine, handle>>
    /\ UNCHANGED <<lifeVars, gen, caches, raced>>

\* The handle of a database of an earlier incarnation now names another one.
Crosses(d) == d \in stale /\ \E e \in Dbs \ stale : handle[e] = handle[d]

\* DeleteTagDbHandle, best effort, and the object is freed.  Reconnect does not free
\* bp_tagdb_t objects, so a caller may do this after it, with the old handle.
CloseDb(t, d) ==
    /\ Begin(t) /\ handle[d] # 0 /\ ~InUse(d)
    /\ \/ /\ reach
          /\ engine' = [engine EXCEPT ![handle[d]] = None]
          /\ crossed' = (crossed \/ Crosses(d))
          /\ UNCHANGED faults
       \/ CallFails /\ UNCHANGED <<engine, crossed>>
    /\ handle' = [handle EXCEPT ![d] = 0]
    /\ stale' = stale \ {d}
    /\ Return(t)
    /\ UNCHANGED <<epoch, attached, gen, caches, raced>>

-----------------------------------------------------------------------------
(* tagdb_build *)

\* Another database of the path holds a different table than the one about to be
\* built.
LeftBehind(d) ==
    \E e \in Dbs \ {d} : /\ PathOf[e] = PathOf[d] /\ handle[e] # 0 /\ Database(e) # None
                         /\ Database(e).gen \notin {0, gen}

\* The engine builds; the answer is on its way, or lost (the build is done or not).
Build(t, d) ==
    /\ Begin(t) /\ Usable(d)
    /\ \/ /\ reach /\ Database(d) # None
          /\ engine' = [engine EXCEPT ![handle[d]].gen = gen]
          /\ \/ /\ Goto(t, "reset")
                /\ walk' = [walk EXCEPT ![t] = [NoWalk EXCEPT !.db = d, !.idx = gen]]
                /\ raced' = (raced \/ LeftBehind(d) \/ WalkersOf(PathOf[d]) \cup BuildersOf(PathOf[d]) # {})
                /\ UNCHANGED faults
             \/ Fault /\ Return(t) /\ raced' = TRUE
       \/ CallFails /\ Return(t) /\ UNCHANGED <<engine, raced>>
       \/ reach /\ Database(d) = None /\ Return(t) /\ UNCHANGED <<engine, raced, faults>>
    /\ UNCHANGED <<lifeVars, gen, handle, caches>>

\* bp_tag_cache_find_or_alloc: the caches that may serve path p; none when all
\* are taken by other paths.
CachesFor(p) ==
    LET mine == {c \in Caches : caches[c].path = p}
        free == {c \in Caches : caches[c].path = None}
    IN  IF mine # {} THEN mine ELSE {c \in free : \A e \in free : c <= e}

\* Wrong variant of Reset: known_count survives.
ResetKeeps(t) ==
    /\ pc[t] = "reset"
    /\ LET p == PathOf[walk[t].db]
           n == Len(Tables[walk[t].idx])
       IN  \/ \E c \in CachesFor(p) :
                caches' = [caches EXCEPT ![c] = [@ EXCEPT !.path = p, !.epoch = attached, !.gen = walk[t].idx, !.total = n, !.cap = n]]
           \/ CachesFor(p) = {} /\ UNCHANGED caches
    /\ Return(t)
    /\ UNCHANGED <<lifeVars, gen, engine, handle, ops, faults, raced>>

\* bp_tag_cache_reset_after_build; whatever becomes of it, build returns OK.  When
\* calloc fails total_count is set and cap_count is not.
Reset(t) ==
    /\ pc[t] = "reset"
    /\ LET p == PathOf[walk[t].db]
           g == walk[t].idx
           n == Len(Tables[g])
           Emptied(cap) == [path |-> p, epoch |-> attached, gen |-> g, cap |-> cap, total |-> n, known |-> <<>>]
       IN  \/ \E c \in CachesFor(p) :
                \/ caches' = [caches EXCEPT ![c] = Emptied(n)] /\ UNCHANGED faults
                \/ Fault /\ n > 0 /\ caches' = [caches EXCEPT ![c] = Emptied(0)]
           \/ CachesFor(p) = {} /\ UNCHANGED <<caches, faults>>
    /\ Return(t)
    /\ UNCHANGED <<lifeVars, gen, engine, handle, ops, raced>>

-----------------------------------------------------------------------------
(* lookup_symbol and preload_symbols (want = None) *)

WalkBegin(t, d, name) ==
    /\ Begin(t) /\ Usable(d)
    /\ \/ \E c \in CachesFor(PathOf[d]) :
            /\ caches' = [caches EXCEPT ![c] = IF @ = NoCache THEN [NoCache EXCEPT !.path = PathOf[d]] ELSE @]
            /\ walk' = [walk EXCEPT ![t] = [NoWalk EXCEPT !.db = d, !.want = name, !.c = c]]
            /\ Goto(t, "scan")
       \/ CachesFor(PathOf[d]) = {} /\ Return(t) /\ UNCHANGED caches
    /\ UNCHANGED <<lifeVars, gen, engine, handle, faults, raced>>

\* The entries from position i on that have the wanted name.
Hits(w, known, i) == {k \in i .. Len(known) : w.want # None /\ NameOf(known[k]) = w.want}

\* The scan came to the end of what is known: ask for the next symbol or give up.
More(t, c) ==
    IF Len(c.known) < c.total
    THEN /\ Goto(t, "ipc")
         /\ walk' = [walk EXCEPT ![t].idx = Len(c.known) + 1, ![t].got = None]
         /\ raced' = (raced \/ BuildersOf(c.path) # {})
    ELSE Leave(t, IF walk[t].want = None THEN "idle" ELSE "missed") /\ UNCHANGED raced

Scan(t) ==
    /\ pc[t] = "scan"
    /\ LET w == walk[t]
           c == caches[w.c]
       IN  \/ c.cap = 0 /\ Return(t) /\ UNCHANGED raced
           \/ c.cap > 0 /\ Hits(w, c.known, 1) # {} /\ Return(t) /\ UNCHANGED raced
           \/ c.cap > 0 /\ Hits(w, c.known, 1) = {} /\ More(t, c)
    /\ UNCHANGED <<lifeVars, gen, engine, handle, caches, ops, faults>>

\* symbol_at without the lock.  The engine knows nothing of a database that was
\* not built, nor of an index beyond its table.
SymbolAt(t) ==
    /\ pc[t] = "ipc"
    /\ LET e == Database(walk[t].db)
           known == reach /\ e # None /\ e.gen # 0 /\ walk[t].idx <= Len(Tables[e.gen])
       IN  \/ /\ known
              /\ walk' = [walk EXCEPT ![t].got = [path |-> e.path, gen |-> e.gen, idx |-> walk[t].idx]]
              /\ Goto(t, "append")
              /\ UNCHANGED faults
           \/ CallFails /\ Return(t)
           \/ reach /\ ~known /\ Return(t) /\ UNCHANGED faults
    /\ UNCHANGED <<lifeVars, gen, engine, handle, caches, ops, raced>>

\* Under the lock again: the symbol is kept if its index is still the next one.
Kept(t, c) ==
    IF walk[t].idx = Len(c.known) + 1 /\ Len(c.known) < c.cap
    THEN [c EXCEPT !.known = Append(@, walk[t].got)] ELSE c

\* Wrong variant of AppendSymbol: only entries beyond the thread's own are looked at.
AppendScanLate(t) ==
    /\ pc[t] = "append"
    /\ LET c == Kept(t, caches[walk[t].c])
       IN  /\ caches' = [caches EXCEPT ![walk[t].c] = c]
           /\ \/ Hits(walk[t], c.known, walk[t].idx + 1) # {} /\ Return(t) /\ UNCHANGED raced
              \/ Hits(walk[t], c.known, walk[t].idx + 1) = {} /\ More(t, c)
    /\ UNCHANGED <<lifeVars, gen, engine, handle, ops, faults>>

AppendSymbol(t) ==
    /\ pc[t] = "append"
    /\ LET c == Kept(t, caches[walk[t].c])
       IN  /\ caches' = [caches EXCEPT ![walk[t].c] = c]
           /\ \/ Hits(walk[t], c.known, walk[t].idx) # {} /\ Return(t) /\ UNCHANGED raced
              \/ Hits(walk[t], c.known, walk[t].idx) = {} /\ More(t, c)
    /\ UNCHANGED <<lifeVars, gen, engine, handle, ops, faults>>

-----------------------------------------------------------------------------

\* A program download changes the controller's tags.
Download ==
    /\ gen < Len(Tables)
    /\ gen' = gen + 1
    /\ UNCHANGED <<lifeVars, engine, handle, caches, pc, walk, ops, faults, raced>>

TagStart(t) == \E d \in Dbs : \/ OpenDb(t, d) \/ CloseDb(t, d) \/ Build(t, d)
                              \/ \E n \in Names \cup {None} : WalkBegin(t, d, n)
TagStep(t) == Scan(t) \/ SymbolAt(t) \/ AppendSymbol(t) \/ Reset(t)
TagNext == Download \/ \E t \in Threads : TagStart(t) \/ TagStep(t)

-----------------------------------------------------------------------------
(* Properties *)

\* Threads that fill a cache together neither duplicate nor skip a symbol, and no
\* symbol lands in the cache of another path: entry i is what the engine reported
\* for index i of this path (tagcache.c:153-159, "append only if our index is
\* still the next slot").  And every cached symbol is of the table of the last build,
\* unless a build overlapped a walk or another build of its path, lost its answer,
\* or left another database of the path at an older table ("bp_tagdb_build
\* invalidates the cache for db->path so the next lookup re-fetches fresh
\* descriptors", bpclient.h:947-948).  A bp_tagdb_close of a database from before a
\* restart deletes the database that has its handle now, and later opens may give
\* that handle to another path: after one of those (crossed) only idx is sure.
CacheFresh ==
    /\ TagTypeOK
    /\ \A c \in Caches : \A i \in DOMAIN caches[c].known :
          LET s == caches[c].known[i]
          IN  /\ s.idx = i
              /\ ~crossed => s.path = caches[c].path
              /\ ~crossed /\ ~raced => s.gen = caches[c].gen

\* A lookup answers "not in the PLC's table" only for a name the table of the last
\* build does not have, though other threads fill the cache meanwhile and only
\* entries from the thread's own index on are looked at again (tagcache.c:162-168).
\* As in CacheFresh, a race or a crossed handle excepts what follows it.
NotFoundIsTrue ==
    [][\A t \in Threads : pc[t] # "missed" /\ pc'[t] = "missed" /\ ~raced /\ ~crossed =>
          \A i \in DOMAIN Tables[caches[walk[t].c].gen] : Tables[caches[walk[t].c].gen][i] # walk[t].want]_tagVars

=============================================================================
