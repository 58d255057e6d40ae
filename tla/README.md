# Specifications of the 1756-CMEE1Y1 client SDKs

TLA+ specifications of the C, Go and Python clients in this repository, with
TLC configurations that check them on small instances and TLAPS proofs of the
results that matter most. Every module is a translation of the source;
`PROJECT.json` lists, definition by definition, the lines it stands for.

Run a model with `tlc -workers 2 -config MCSlotIpc.cfg MCSlotIpc`, check proofs
with `tlapm SlotIpcProofs.tla`.

## 1. The system

The three SDKs offer one API with one semantics. All of them talk to `bpServer`
(not part of the repository) through POSIX shared memory and named semaphores,
and through it to PLCs on the backplane. There is no daemon of their own: all
state is in the shared memory segment or in the client object.

| Part | State | Operations | Hard because |
|---|---|---|---|
| Slot dispatcher (`c/src/client.c`, `go/ocxbp/shm`, `python/.../_ipc.py`) | 16 slots with an owner word and a payload area, `/bpShm`, `/bpReqNN`, `/bpRespNN` | one request/response exchange: reserve a slot, fill, post, timed wait, poll fallback, read, release | several processes and threads; timeouts with late answers; signals during waits; clients that die |
| TxRx connection table (`conn.c`, `conn.go`, `client.py`) | up to 16 connections per client, by `app_handle` | `txrx_open`, `txrx_msg`, `txrx_close`, force-close | the PLC exchange happens outside the table lock; messages are lost; duplicate handles |
| C pool (`pool.c`) | entries with `in_use`, `dead`, backoff; one mutex, one condition variable; keepalive thread | `pool_open`, `pool_txrx`, `pool_batch`, `pool_close`, ping and reopen passes | one condition variable with three kinds of waiter; close against calls and keepalive |
| Go and Python pool (`pool.go`, `client.py`) | the same entries behind a FIFO queue of free indices, `initialized`, `stop`, an in-flight count | the same | pools published before they are open; calls that outlive their pool; claiming only by taking the head of the queue |
| Session, reconnect, close (`client.c`, `client.go`) | IPC handles, session | open, reconnect, close | what a partial failure leaves behind |
| CIP error record | last CIP error of the client | record, take | one record for all threads |
| Tag database and symbol cache (`tagdb`, `tagcache`) | per-PLC database handle and symbol cache | build, test, lookup, preload, reset | a rebuild during a lookup |
| Multi-tag and typed access (`multitag`, `access`, `accessdb`) | none | read/write lists of tags, arrays, strings | chunking, validation before the wire, BOOL packing |
| Route, message, path, module, identity, clock, struct | none | one payload, one dispatcher call | numeric edges (ticks, sizes) |
| Error codes | tables | | |

Who calls whom: everything above the dispatcher ends in `bp_client_call`. The
pool opens, uses and closes connections through the TxRx table, whose operations
are messages sent by the dispatcher. Reconnect and close tear down pools and
caches and then the dispatcher. Keepalive threads run beside the callers.

What makes each part correct:

* dispatcher: a slot has one user; every return path gives it back; a call
  returns its own reply or an error; a call always returns.
* connection table: a connection has one holder; none is forgotten except
  through a lost message; at most 16; the table behaves like the simple map its
  users see.
* pools: an entry has one user; a live entry has its connection; after a close,
  or an open that failed, nothing is left behind; dead entries come back; no call,
  open or close waits forever.
* tag cache: the cache holds each symbol of the last build once, at its index;
  "not found" is true; nothing outlives the engine it came from.
* tag access: a value goes to and comes from the tag the caller named; success
  means every tag of the batch; a string reads back whole.
* messages: a request lies in its slot and comes apart at the other end into what
  the caller put together; a rejection is reported.

The hazards, each with its line and the properties aimed at it, are in
`PROJECT.json` under `hazards`.

## 2. The modules

| Module | Models | Run by | Proved in |
|---|---|---|---|
| `SlotIpc` | the slot dispatcher of all three SDKs, with the server's side of a slot | `MCSlotIpc` | `SlotIpcProofs` |
| `CPool` | the C pool and its keepalive thread | `MCCPool` | `CPoolProofs` |
| `ConnTable` | abstract: what a connection table promises | | |
| `TxRxConn` | the connection table of all three SDKs; implements `ConnTable` | `MCTxRxConn` | `TxRxConnProofs` |
| `QPool` | the Go and the Python pool and their keepalive loops | `MCQPool` | `QPoolProofs` |
| `PoolBatch` | `pool_batch`: workers over one index, on a pool that others use and close | `MCPoolBatch` | `PoolBatchProofs` |
| `TagCache` | tag databases and the symbol caches of a client | through `ClientLife` | `ClientLifeProofs` |
| `ClientLife` | extends `TagCache`: client open, session, reconnect, close, bpServer restarts | `MCClientLife` | `ClientLifeProofs` |
| `TagAccess` | batches of tag accesses: typed scalars and arrays, BOOL arrays, strings, `read_tags`, `write_tags` | `MCTagAccess` | `TagAccessProofs` |
| `SlotLayout` | where every one-shot operation keeps its fields in a slot | through `Messages` | `MessagesProofs` |
| `Messages` | wrappers, CIP messages, structures, Forward_Open/Close bytes, routes, the CIP error record | `MCMessages` | `MessagesProofs` |

Operators whose comment begins with "Wrong variant" are not part of any
specification: they are plausible mistakes, kept to show that the property named
in `PROJECT.json` under `mutants` notices them.

### SlotIpc

One thread is one member of `Threads`, of whatever process; the owner word names
the thread, as in the code. `shmlock`, `req`, `resp` are the semaphores' values,
`owner`, `errcode`, `request`, `reply` the fields of a slot. A call is named
`<<thread, number>>`, so that a reply can be compared with the request it
answers; the bytes are not modelled. `pc` walks through `bp_client_call`:
`reserve` (waiting for `/bpShm`), `scan`, `claim` (owner word and drains),
`fill`, `post`, `wait` (`sem_timedwait`), `poll` (the 200 ms fallback), `check`,
`read`, `release`, `free`. Steps that another process can observe are separate
actions.

`Sdk[t]` selects what differs: an interrupted wait on `/bpShm` returns an error
(C), is retried (Go), or raises inside or outside the `try` block (Python).
`Interruptible` and `Crashable` say which threads meet signals and sudden death.
The server has one worker per slot (`SrvTake`, `SrvRead`, `SrvReply`, `SrvPost`)
and collects slots of dead owners; it is external and is modelled from
`docs/protocol.md` and from how the callers use it. It may be arbitrarily slow.

### TxRxConn and ConnTable

Threads open, use and close connections. A section under `txrx_mu` is one action;
the Large Forward Open and the Forward_Close are steps of their own because the
lock is not held across them, except in Python, which closes a connection it
cannot keep inside its `with` block (`mu`). A connection is named by its serial.
The code draws serials at random and says "unique within a few seconds"
(`conn.c:147`); the model takes this to mean that a draw avoids the serials the
client still holds. The PLC accepts, refuses, loses messages and times out.

`ConnTable` has two actions, `Open` and `Close`, on a set of handles bounded by
`MaxConns`. The refinement mapping takes the handles with a table entry.

### CPool

Sections under `pool->mu` are actions. The condition variable is modelled by who
sleeps on it: a signal wakes one sleeper of any kind, a broadcast all, and
spurious wakeups happen. `pools_mu` is held through all of open and close. Open,
close and force-close of an entry's connection are single steps; `conn`, `live`
and `orphans` keep what the client and the PLC each believe. Time is two sets:
entries idle for `keepalive_ms` and dead entries whose backoff is over.

### QPool

Each `PoolOpen` makes a new pool object (a number); all of them share the
app_handles of the slot, so a connection is named by its entry index and a call
that started on an old pool meets the connections of the next one. `free[p]` is
the channel or `queue.Queue`. `sdk` selects the differences: Go's `select` picks
at random between a queue operation and a closed `stop`, Python decides by
`initialized` and polls every 0.5 s; Python's test of `initialized` and the put that
follows it (`client.py:897-898`, `916-917`, ...) are one step here. `Silence` stands for a pause of
`keepalive_ms` between two ticks: all live entries become idle together, and
those used afterwards become busy again. `inflight.Add` is separate from the test
of `initialized`, as in the code: a close may drain and end in between, and the next
pool open. `late` is the set of calls to which that happened.

### PoolBatch

`Draw` is `next_idx++` under `idx_mu`. `pool_txrx` is `Borrow` (an entry), `Post` (the
request is in the slot and the server is called) and `Served`, which returns from any of
the points at which the code does: before the entry for a missing argument (`Args`) or
a closed pool, with the entry and nothing posted for a request that is too long or a
`bp_client_call` that got no lock, no slot or no post (`NotPosted`), and after the post
with `OK` or `ERROR`. `ERROR` stands for every failure after the post, the engine's own
error code included, whose number may be that of any of the others. The pool is the one of `CPool`, reduced to a number of entries that
are borrowed and given back; another caller competes for them, and a close turns
waiters away and waits for borrowers. `pool_batch` reads the pool's size under
`pools_mu`, which a close holds to its end. Any `pthread_create` may fail
(`CreateEnd` before all are created). `sent` counts posts; it is a history variable.

### TagCache and ClientLife

`engine[h]` is the database behind a handle at the engine, `handle[d]` the handle
a `bp_tagdb_t` holds, `caches[c]` one of the client's caches with the symbols it
knows. A lookup or preload is `Scan` (under the cache's lock), `SymbolAt` (a call
to the engine without the lock), `AppendSymbol` (under it again), and so on. A build
copies the controller's present table, which `Download` replaces, and `Reset` then
empties the cache; both steps are in `bp_tagdb_build`, with no lock across them.
A symbol remembers the path, table and index it was read for, so that a cached
one can be compared with what it should be. `raced` marks the overlap of a build
with a walk or another build of its path, a build whose answer was lost, and a
build that left another database of the path at an older table: in these cases
the code does keep old symbols. `crossed` marks the close of a database from before
a restart whose handle number the new engine has given to another one: from then on
a handle may name a database of another path.

`ClientLife` adds what the life-cycle calls do: `Reconnect` closes the pools,
frees the caches, detaches, and attaches to the engine that runs now or fails and
leaves the client broken; `ClientClose` also closes the session. `ServerStop` and
`ServerStart` are incarnations of bpServer (`epoch`); a pool or a cache remembers
the one it was made with. An open that fails is left out with what it undoes: its
`bp_client_close` on a half-open client calls the dispatcher (`client.c:87-89`, see the
deviations), which no property is about. Callers re-open databases after a reconnect, as the
header asks, and reconnect and close do not run beside calls of other threads.

### TagAccess

A call becomes one or two batches. `AccessFill` lays the values out in the data
area, the engine executes one descriptor per step, `AccessRead` takes results and
data back by walking the sizes again. Bytes have `ByteBits` bits (2 in the run, 8
in the code), so that widths, byte order, signs and bit numbers are real and the
state space stays small; the offsets of descriptors and data are the code's. The
controller's memory `mem` is bytes, as the engine writes them, and what they mean is
a definition of its own (`PlcValue`, from the most significant byte down), against
which the client's encoding and decoding (from the least significant byte up) are
compared. The controller refuses tags, threads interleave between descriptors, an
answer is lost, and the engine may carry out the rest of each abandoned batch later
(`late`). Each tag of a `write_tags` batch gets its own status back (`WriteTagsAnswer`,
the `cip_status` of `multitag.c:300`). `held` remembers which bytes a tag has had during a call, `alone` and
`whole` which string was last written undisturbed; a late write ends what they say.

An answer is taken to be that of the call's own batch. After a call that gave up the
dispatcher does not promise this (`stale_reply` below): of an abandoned batch the module
has what it does to the tags, and not its late reply in the slot's next call.

Three more assumptions, named in the module, say what the code may rely on. `CallsAssumption`: arguments have
the types of `bpclient.h`, a buffer has the bytes its request announces, and
`payload_size` does not wrap (see the deviations below). `MemoryAssumption`: the
controller's tags are of known types and consist of bytes. `StringsAssumption`: LEN
and DATA of a string are written by `write_string` only and the string is empty at
first, and a length of 65,535 fits a DINT; it is needed for `StringWhole` alone, which
speaks of what `write_string` and `read_string` do together.

### SlotLayout and Messages

`SlotLayout` is a table: for each operation its payload size and the offset and
length of what it fills and reads. `Messages` builds requests byte by byte as the
code does, and the controller, written from the CIP rules and not from the code,
takes them apart: symbolic paths and their pad, `Unconnected_Send` with ticks,
embedded request, its pad and route, the identity of a connection in Forward_Open and
Forward_Close. The embedded request of a route is any sequence of bytes (`RoutedSend`).
The controller answers, rejects, and drops connections it has not heard of
(`PlcTimeout`, `expired`); an answer is cut short at any byte (`Cut`) or lost. As in
`TxRxConn`, a draw of serials avoids those the client still holds. `cipErr` is the
client's single record of the last rejection; each rejection has a number.

`write_struct` puts its request together in a buffer of 761 bytes and measures it
afterwards. A request that is longer than the buffer has two outcomes, as the language
leaves it undefined: the call returns `PARAM_RANGE`, or it never comes back (`overrun`).
What an overrun may do to the rest of the process is not modelled.

Two assumptions are not the code's: an answer is that of the call's own message, as in
`TagAccess`; and a message whose call gave up before the controller had acted is not
executed later (`TagAccess` and `TxRxConn` have that case for batches and connections).

Limits of the code (500 bytes of request, 761 of its buffer, 250 characters of name, 512
bytes of reply) are constants with smaller values; a run crosses each of them.

## 3. What TLC checks

| Run | Instance | Result |
|---|---|---|
| `slot_ipc` | a C thread and a Go thread that can die, 2 slots, 2 calls each | `SlotExclusive`, `NoSlotLeak`, `CleanReply`, `CleanOnce`, `OwnerHandover` hold |
| `slot_ipc_return` | C and Python threads on 1 slot, signals, server may be silent | `CallReturns` holds |
| `stale_reply` | 2 C threads, 2 slots | `OwnReply` is **violated** |
| `c_pool` | 2 callers, 2 administrators, 2 entries, 2 opens, 2 failures | `EntryExclusive`, `AcquiredIsOpen`, `ClosedIsEmpty`, `LeakCostsFault` hold; `TypeOK` includes that a dead entry has a backoff |
| `c_pool_live` | 2 callers, 1 entry, 2 opens, 2 failures | `TxrxReturns`, `AdminReturns`, `DeadIsReopened` hold |
| `txrx_conn` | 3 threads, 3 handles, 2 table entries, 6 operations, 2 lost messages, each SDK | `OneHolder`, `OrphanCostsFault`, `ImplementsConnTable` hold |
| `q_pool` | 2 callers, 2 entries, 2 pools one after the other, 2 lost messages, Go and Python | `IndexConserved`, `LiveIsOpen`, `ClosedIsEmpty` hold; a call that outlives its pool does share a connection with the next one, and `IndexConserved` says that only such a call can |
| `q_pool_live` | the same with one pool | `TxrxReturns`, `AdminReturns` hold |
| `pool_batch` | 4 items, one with a missing argument and one too long, 2 entries, another caller, a close | `SentOnce`, `BatchReported`, `BatchReturns` hold |
| `client_life` | 2 threads, 3 databases of 2 paths, 1 cache, 2 tables, 2 incarnations of bpServer, 5 tag and 2 life-cycle operations, 1 failure | `CacheFresh`, `NotFoundIsTrue`, `StateOfThisEngine`, `LeftBehindCosts` hold |
| `tag_access` | 2 threads, 3 calls out of 18, batches of at most 2, 1 failure | `BatchFaithful`, `ReadTrue`, `WriteTrue`, `StringWhole` hold |
| `messages` | 2 threads, 3 calls out of structures, routes of odd and even requests, connections and every wrapper, 1 failure at any byte, idle timeouts at any time | `FieldsFit`, `StructTrue`, `RouteSound`, `ConnsAgree`, `RejectionReported` hold |

Each module's type invariant is checked with its main run, on its own or as a
conjunct of the run's first invariant.

Bounds. Two users of a resource and one resource fewer than users (slots,
entries, table entries) are enough for every race the code's comments speak of;
two calls, opens or pools let a later one meet what an earlier one left behind;
two failures let a recovery fail as well. One failure and three calls are enough
in `tag_access` and `messages`: a call that fails half-way, one that overlaps it, and one
that observes what they left. One cache for two paths reaches the limit of caches. Retry and backoff limits are small
numbers with a different value at the cap (`BackoffMin` 2, `BackoffCap` 3).
Threads, callers and serials are interchangeable and reduced by symmetry in the
runs without liveness. The clients may stop at any time (nobody has to make
another call), so deadlock is not checked as such; the liveness properties say
that whatever has begun ends.

Fairness. `SlotIpc`: weak fairness of each thread's steps, that is, scheduling;
nothing of the server, because both waits of a call are bounded. `CPool`:
scheduling, the passage of time, and strong fairness for a woken caller to get a
free entry: the keepalive thread sleeps at least 500 ms between passes
(`pool.c:249`), so a caller does not lose every race. `QPool`: scheduling; strong
fairness for a waiting caller to get an index, because a Go channel serves
waiting receivers in order; strong fairness for the keepalive loop to notice
`stop`, because Go's `select` chooses at random and Python tests it every time.
`PoolBatch`: scheduling, the end of every exchange (`CallReturns`), and strong
fairness for a worker to get an entry, which is `TxrxReturns` of `CPool`.
No fairness makes anybody open, close or call.

### Disagreement found

`stale_reply`: a call that gives up while the server still works on it frees the
slot; the late reply then reaches the slot's next owner after both drains.
`CleanReply`, which holds, is what remains: a call is safe if the server had
nothing left to do for the slot when it was claimed.

### Deviations seen while modelling

These are not runs; the models contain the behaviour where it is within their
scope, and the properties are stated so as to hold beside it.

* C's `release_slot` does not clear the owner word when a signal interrupts its
  wait for `/bpShm` (`client.c:185`); Go's wrapper retries. `NoSlotLeak` is checked
  and proved without interrupted C waits.
* Python's `_release_slot` posts `/bpShm` in `finally` even when it did not get it
  (`_ipc.py:173`); two scans can then claim one slot. `SlotExclusion` excludes it.
* The keepalive thread's timed wait can consume the signal meant for a caller of
  `pool_txrx` (`pool.c:236`, `257`), which then sleeps beside a free entry until the
  next ping; `TxrxReturns` still holds.
* The Go and Python keepalive loop claims entry *i* only if it is the head of the
  queue (`pool.go:378`). On an idle pool whose queue is rotated, one tick rotates it
  once around and pings no entry, for ever.
* `PoolClose` says "In-flight calls complete first" (`pool.go:285-287`). A call that has
  looked the pool up and not yet counted itself in (`pool.go:158-165`) is not waited for;
  it goes on with indices of a pool that is gone, whose `app_handle`s the next pool uses
  too, so that two threads exchange messages on one connection. `IndexConserved` says
  that this happens to such calls (`late`) and to no others.
* Go's and Python's retry cap counts draws, not entries (`pool.go:188`): with one dead
  entry in the queue and the live ones in use, a call draws the same dead entry until it
  reports all entries dead.
* `bpclient.h:795-796` says of `pool_batch` that "Worker thread creation failures return
  BP_ERR_GENERIC immediately". The code goes on with the workers it has
  (`pool.c:439-450`), and may return `BP_OK`; only without any worker is every item, and
  the result, `BP_ERR_GENERIC`. `BatchReported` states what the code does.
* Two threads that open and close the Go or Python pool of one slot at once can
  leave connections behind: the pool is published before it is open (`pool.go:87`).
* Reconnect says it invalidates everything, the recorded CIP error included
  (`client.c:344-347`, `docs/protocol.md:296-298`), and leaves both the CIP error and
  the entries of the TxRx table that no pool owns.
* Close after a reconnect that failed calls `OCXcip_Close` and waits on a semaphore
  that is NULL (`client.c:107`, `160`): `CloseBroken`. An open that fails half-way
  calls it as well (`client.c:87-89`), with slot semaphores that may be NULL.
* A `bp_tagdb_t` of before a restart that is closed after the reconnect deletes
  whatever database the new engine has under that number (`tagdb.c:74-89`), and a
  later open may give the number to another path while the first database still
  uses it: `crossed`. `bpclient.h:219-221` says reconnect tears databases down; it
  does not free them. The attempt to prove `CacheFresh` without this exception
  showed it: six operations are needed, one more than the run makes.
* A build that overlaps a lookup of the same path can leave a symbol of the old
  table in the new cache (`tagcache.c:149-158`): `raced`.
* A reset whose `calloc` fails keeps `total_count` and has no room
  (`tagcache.c:217-223`): a walk that is inside `symbol_at` then never ends.
* `write_tags` documents chunks of 16 (`bpclient.h:1040-1041`) and refuses more than
  16 tags; `read_tags` documents STRING (`bpclient.h:1027-1029`) and refuses it.
* `read_struct` cuts a structure larger than its reply buffer without saying so, and
  takes an answer that ends inside the payload for a shorter structure
  (`struct.c:116-126`); `StructTrue` states what is then returned.
* `write_struct` copies `data_len` bytes into `req[761]` (`struct.c:159`) before it tests
  the length (`struct.c:163`): a longer write overruns the stack, where `struct.c:25-26`
  and `bpclient.h:325` promise `BP_ERR_PARAM_RANGE`. `StructTrue` speaks of the calls that
  come back.
* One CIP error record serves all threads: a caller whose request was rejected may find
  another's rejection, or none. `bpclient.h:80-92` documents it, and `RejectionReported`
  permits it.
* The client does not learn of the PLC's idle timeout (`conn.c:337-339`) and keeps such a
  connection in its table: `expired`. `ConnsAgree` says that nothing else makes the two
  sides differ.
* `total_data_bytes` is a `uint32_t` sum of up to 16 products of two `uint16_t`
  values (`access.c:87`) and can wrap past the test against the slot's size;
  `CallsAssumption` excludes such batches.

## 4. What is proved

For every number of threads, slots, handles, serials and operations
(assumptions: the named `ASSUME`s on the constants, which TLC evaluates too).

`SlotIpcProofs`:

* `TypeCorrect`.
* `SlotExclusion`: no two calls share a slot, provided no Python thread's wait is
  interrupted (see the deviations above). `SlotExclusive` is not inductive:
  `OwnInv` adds `ShmLockInv` (the value of `/bpShm` and the number of threads inside
  it add up to at most one) and `ScanInv` (the slot a scan found is still free when
  it is claimed).
* `NoHandover`: an owner word changes only from free, or to free by its owner's
  release or after its owner's death.
* `NoLeak`: no return path leaks a slot if the only interrupted waits are Go's.
* `CleanCallGetsOwnReply`: strengthened by `ExchangeInv`, which says where a call
  and the server's worker can be relative to each other.
* `CleanCallRunsOnce`: a call that found its slot clean is executed at most once,
  again without interrupted Python waits. `OnceInv` follows the request: until its
  slot is filled no slot carries it (`Unsent`); from then on at most one does, and the
  executions begun plus the one a posted or taken request can still lead to are at
  most one (`Single`), which the drains at claim and release make true and keep true.

`CPoolProofs`, for any number of callers, administrators and entries:

* `TypeCorrect`: the loop indices of open, rollback and close stay inside the entry
  array; a dead entry has a backoff between its first value and its cap.
* `EntryHasOneUser`, `AcquiredEntryIsOpen`, `ClosedPoolIsEmpty`, `LeakIsPaid`. They rest
  on one inductive invariant: `AdminInv` (who holds `pools_mu`), `UseInv` (the keepalive
  thread is gone before close drains, and every user before it takes connections
  away), `ConnInv` (which connections the entries own at each point of open,
  rollback, ping, reopen and close) and `LeakInv` (a connection that is forgotten, or
  that a reopen is going to forget, was paid for by a failure; the second half is
  what makes it inductive).

`QPoolProofs`, for any number of callers, entries and pools that follow each other:

* `IndexIsConserved`, `LiveEntryIsOpen`, `ClosedPoolIsEmpty`, each for behaviours in which
  calls of `PoolOpen` and `PoolClose` do not overlap (`[]OneAdmin`). The hypothesis is
  needed: with two administrators at once the code does leave connections behind
  (`pool.go:87`, see the deviations). Any number of administrators may take turns.
  The inductive invariant has seven parts: types; `HoldInv` (what a thread holds at each
  of its points); `LifeInv` (which pool is published, being opened or being closed,
  and that a keepalive thread outlives its pool only into the drain); `PlaceInv` (an
  index is in the queue once, with one caller, or with the keepalive thread);
  `ConnInv` (the connections in the table at every point of open, rollback, reopen and
  close); `CountInv` (`inflight` is the number of calls between `Add` and `Done`, which
  is why the drain of a close ends only when no counted call is left);
  `LateInv` (a call that is counted in a drained pool is one of `late`, so of two users of
  one handle in different pools one is).

`ClientLifeProofs`, for any number of threads, databases, paths, handles, caches, any
tag tables and any number of restarts of bpServer:

* `TypeCorrect`; `CachedSymbolsAreFresh` and the action property `NotFoundMeansAbsent`,
  outside the cases `raced` and `crossed` mark; `StateIsOfThisEngine`; `LeftBehindIsPaid`.
  Again one inductive invariant: `LifeInv` (the incarnation the client is attached to),
  `CacheInv` (caches of distinct paths, each symbol at its index), `WalkInv` (what a
  thread inside a lookup, preload or build works on), `HandleInv` (a handle names the
  database it was created for), `FreshInv` (a build is alone with its path, and the
  databases behind a cache hold the cache's table or none), `PassedInv` (what a lookup
  has passed has another name) and `CostInv`. `FreshInv` is what the properties hide:
  a cached symbol is fresh because the engine's database was, when it was asked.

`MessagesProofs`, for any number of threads, any calls with arguments of the C types
(`CallTypes`), any structures, and any limits within those of the slot and of a length
byte (`MessagesAssumption`):

* `FieldsAlwaysFit`: `Layouts` is checked operation by operation, a message for every
  length of request and reply buffer up to the areas' 102,400 bytes.
* `StructsAreTrue` (for answers cut at any byte, and beside writes that overran their
  buffer), `RoutesAreSound` (for requests of any length), `ConnectionsAgree` (with idle
  timeouts at any time), `RejectionsAreReported`.
  The first part of the module is about bytes: what each builder's bytes are and that
  the CIP rules take them apart into what the caller put in (`WriteRequest`,
  `LfoRequest`, `FcRequest`, `RoutedRequest`), and what a client hears of a reply that is
  cut to its buffer (`HeardStatus`, `HeardStruct`). None needs induction: a message is a
  fixed number of parts, and `At`, `Width` and `Part` say where each one is.
  The inductive invariant has six parts: `Threading` (a message in flight was built
  from the arguments of its call, an answer tells what the controller did, an outcome
  is what the answer told), `Counters`, `Structures` (handles and sizes never change),
  `Recording` and `Reporting` (the record is newer than what was read and no older
  than any rejection not read yet), and `Connections`: each identity is answered for
  by the table or by exactly one thread, which is opening or closing it, is then the
  controller's or in `expired`, and the controller's connections that nobody answers for are at most
  as many as the faults. `ConnsAgree` alone is not inductive: it does not say that two
  closes never race for one connection.

`TxRxConnProofs`:

* `TypeCorrect`; `ConnectionHasOneHolder` (`OneHolder` is inductive with the type
  invariant).
* `Implements`: every step of `TxRxConn` is a step of `ConnTable` or leaves the
  open handles alone.
* `ForgottenCostsFault`: the connections the PLC holds and the client has
  forgotten are at most as many as the messages lost. The step lemma shows that an
  action without a lost message adds no orphan and one with a lost message adds at
  most one; two lemmas on cardinalities turn that into the bound.

`PoolBatchProofs`, for any number of items, entries and competing callers:

* `SentAtMostOnce`: no item goes to the PLC twice.
* `EveryItemReported`: when `pool_batch` returns, its workers are gone and every item
  has a result: `OK` or a failure after the post exactly for those that were posted,
  another code for the rest, with any number of missing workers. Neither is
  inductive. `BatchInv` adds `DrawnInv` (an active worker has an item of its own, below `next_idx` and not
  yet sent while it waits), `ThreadInv` (which workers exist, and that one that
  exited has seen the end) and `ItemInv` (an item is undrawn, with its one worker, or
  has its result).

`TagAccessProofs`, for any number of threads, any calls, tags and symbols within the
three assumptions, any sizes of batch and slot, and any number of bits in a byte:

* About the encodings: `DecodeIsPlc` (decoding gives the number the controller means),
  `PlcOfEncode` (the bytes of an encoded value mean that value) and `PackBitsIs` (a
  BOOL array survives its packing into words), for every type, value and length.
  Sums, powers of two and the two ways to read a number are recursive functions, and
  what they compute needs induction. The library's induction theorems take a
  predicate, which the provers cannot instantiate, so the claim is made a set of
  numbers: `LeastNat` (a set of numbers with elements has a least one, from the
  library's `WFMin`) gives `Induct`, whose parameter is a set. Each recursive function
  is first shown to exist (`SumsExist`, `HornerExists`), then to have its value.
* `BatchesAreFaithful`, `ReadsAreTrue`, `WritesAreTrue`, from one inductive invariant
  `BInv`. For a thread at the engine it says (`Batch`) that its requests are the ones
  its call asks for (`RequestsOf`); that every write still has its data where
  `Offsets` puts it in the area, so that no read of another request overwrites it;
  and that a request with result 0 was executed, that is, its part of the area is
  what its tag has held during the call (`Executed`). `Seen` adds that what a tag holds
  now is among what it has held. The properties speak of finished calls only, and say
  nothing of what a step has to preserve.
* `StringsAreWhole`, from `SInv` beside `BInv`. The first LEN bytes of DATA have been
  written: for the LEN in the controller (`StringsOK`), for one a reader has read
  (`ReadStr`), for one a writer is about to write (`WriteStr`), and for one left in an
  abandoned batch (`Harmless`). That bytes once written never become NUL again makes
  the four stable against everyone else. A writer that was alone has its string in
  DATA, then in LEN, and `WholeAt` keeps it until the next write begins; `Undisturbed`
  says that one who is alone has no writer beside it.

Only model-checked, and why: all liveness (`CallReturns`, `TxrxReturns`, `AdminReturns`,
`DeadIsReopened`, `BatchReturns`), because fairness and `ENABLED` are out of the prover's
reach. Every invariant and every other action property of the runs is proved, under the
hypotheses named above.

Every inductive invariant was also checked by TLC, with the bounds of the component's
run or larger ones.

## 5. What is not modelled, and the plan

Not modelled:

* `bp_tagdb_test_version` and the structure descriptors: one call, no state of the
  client; only their slot layouts are in `SlotLayout`.
* the decoding of clock values into calendar fields (`wctime.c`), the tables of
  error and status strings, logging, examples, command-line tools and container
  files;
* the Go and Python versions of the tag cache, tag access, batch and message code:
  the C sources are the reference for `PoolBatch`, `TagCache`, `ClientLife`, `TagAccess`
  and `Messages`;
* reconnect or close beside calls of other threads: it closes semaphores under
  their waiters, which is undefined;
* whether a woken waiter has left `pthread_cond_wait` when `pool_close` destroys the
  condition variable (`pool.c:525`), which depends on the C library.

Left for later:

1. One abstract pool that `CPool` and `QPool` both implement, and `PoolBatch` on top
   of it.
2. The Go and Python cache and batch code where it differs from C.
