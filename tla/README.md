# AeroJS in TLA+

Specifications of parts of AeroJS, a JavaScript engine in C++, with the TLC
configurations that check them on small instances and the TLAPS proofs that
carry the main safety properties over to every instance.  Paths are relative to
the repository; the files that are modelled are called by their names alone:

    src/core/runtime/builtins/promise/promise.cpp
    src/core/runtime/builtins/finalization/finalization_registry.cpp (and .h)
    src/utils/containers/hashmap/hashmap.h
    src/core/runtime/builtins/promise/promise_static.cpp
    src/core/runtime/builtins/map/map.cpp (and .h)
    src/core/network/http_server.cpp (and .h)

`PROJECT.json` is the index: components, runs, mutants, the source lines each
definition stands for, findings, hazards and theorems.

CMakeLists.txt builds none of the .cpp files of this list, and hashmap.h is a template
that other headers include.  The bodies of promise.cpp and http_server.cpp do not
agree with their headers either: promise.h declares another class, `Promise`, and http_server.h
lacks four members that http_server.cpp uses.  `RegistryEntry` has a `std::atomic` member
and so no move, which the vector it is kept in needs.  The modules take the functions as
they are written: each of the files says what every operation does, in which order
and under which lock, and that is what is modelled; where a header does agree (the registry's
members, `MapObject`), it gives the state.

## 1. Inventory

What the engine consists of, what each part keeps and does, and what makes it
correct.  "Modelled" parts have modules here; the others are left out, for the
reasons of section 7.

| Component | State | Operations | Interacts with |
|---|---|---|---|
| Promise and microtask queue (modelled) | per promise: state, result, reactions, mutex; one static task queue with its own mutex | constructor, resolve, reject, then, catch, finally, enqueueMicrotask, processMicrotasks | scripts (callbacks both ways), any thread that settles a promise, the embedder that drains the queue |
| Promise combinators (modelled) | counters, flags and result arrays shared by lambdas | all, race, allSettled, any | then and resolve of the promises they watch, the script's iterator |
| FinalizationRegistry (modelled) | vector of entries, token map, queue of indices, a cleanup flag, a shared mutex | register_, unregister, cleanupSome, postGCCallback | the collector, weak handles, the script's callback |
| Hash map (modelled) | slots, size, capacity, load factor, threshold | emplace, find, erase, rehash, reserve, clear | objects keep their properties in it |
| Map object (modelled) | entry vector, table from keys to positions, size | constructor, set, get, has, delete, clear, forEach, keys, values, entries | the script's callbacks, which may change it |
| HTTP server (modelled) | run flags, connection queue, a mutex and a condition variable, per connection a socket and two flags, statistics | Start, Stop, accept, take, read, answer, put back, close | accept thread, worker pool, the embedder, handlers, clients |
| ParallelGC | cells with three colours, work-stealing queues, remembered set, generations, phase flags | mark, steal, write barrier, sweep, promote, compact | worker threads, mutators |
| GarbageCollector | cell lists, roots, mode | mark-sweep, incremental steps, generational steps | roots, weak handles |
| Handle manager, weak handles | handle tables, one mutex per handle | register, unregister, clear, assign | the collectors |
| Allocators and pools | free lists, markers, statistics | allocate, free, reset | everything |
| JIT code cache | map of code blocks, total size, limit | store, retrieve, evict | JIT managers |
| JIT managers | tier, counters, compile queue, worker thread | count execution, request, compile, deoptimize | code cache, interpreter |
| Inline caches | state, entries | lookup, update, invalidate | object shapes |
| Engine and context | lifecycle flags, heap, globals | initialize, evaluate, collect, shutdown | all of the above |
| Interpreter, parser, transformers, back ends | data of one run | transform data to data | - |
| WebSocket and MCP servers | sockets, sessions | I/O | operating system |

What is hard, and what correctness is:

* **Promise.**  There is one mutex per promise and one for the queue.  A settle releases the
  promise's before its jobs are queued; resolve with a thenable and then() on a settled promise
  queue their job with it held (promise.cpp:140, 211, 216).  Nobody who holds the queue's takes
  another, so these cannot block each other.  Any number of threads may settle, and
  reactions are queued after the state is visible.
  Correct: a promise settles once; every reaction is delivered exactly once, to
  the handler that fits the outcome, in order of registration; a fulfilled promise
  never holds a thenable; every queued reaction is served; finally waits.
* **FinalizationRegistry.**  cleanupSome is a sequence of short critical sections
  around a script's callback, with indices kept across them while removal moves the
  last entry into the gap.  Correct: only dead targets are reported; each
  registration ends by its callback or its own token; the cleanup flag excludes and
  is always given back; every dead entry is handled in the end.
* **Hash map.**  Sequential, but its invariant is spread over insertion with
  displacement, erasure with backward shift and rehash, and its lookup gives
  up early on the strength of it.  Correct: it is a map, whatever the order of
  calls; nothing is lost, nothing found twice, every loop ends.
* **Promise combinators.**  A loop over a script's iterator subscribes handlers that
  share a counter and an array with it and run in whatever order the elements settle,
  the same promise twice, a foreign thenable or an element that settled long ago among
  them.  Correct: an array is complete and in order when it is handed out; where one
  element decides, it is the first; what is decided is settled.
* **Map object.**  Positions are stored in a table and held by loops while deletion
  moves what they point to.  Correct: an insertion-ordered map; a loop visits in order,
  nothing twice, and, as documented, everything.
* **HTTP server.**  A connection passes from the accept thread through a queue to a
  worker and back, the worker writes to it after it gave it back, notifications come
  outside the mutex, Stop's flag is written without it.  Correct: one owner at a time,
  one close, right counts, nobody asleep while there is work, an end to Stop; a full queue
  gives up the oldest.
* **Collectors.**  Concurrent marking against mutators, termination of marking
  with work stealing, overflow of bounded queues, ordering of sweep and promotion.
* **JIT.**  Background compilation racing deoptimization, eviction of code that is
  in use, tasks that nobody wakes up a worker for.

`PROJECT.json` lists the hazards line by line; those that belong to a modelled
component name the properties that would catch them.

## 2. Modules

| Module | What it is |
|---|---|
| `Promise` | PromiseObject, reactions, adoption of thenables, finally, the microtask queue and its loop |
| `MCPromise` | values and handler pairs for TLC |
| `PromiseProofs`, `PromiseReactionProofs` | theorems about `Promise`: its states and results; who settles a derived promise, and in which order reactions run |
| `FinalizationRegistry` | the registry, its threads and the collector's reports |
| `MCFinalizationRegistry` | the module TLC runs |
| `FinalizationRegistryProofs` | theorems about `FinalizationRegistry` |
| `AbstractMap` | what any map promises: a partial function and the answer to each call |
| `HashMap` | the Robin Hood table, one loop iteration a step; implements `AbstractMap` |
| `MCHashMap` | hashes and load factors for TLC |
| `HashMapAvx2` | the lookup that a build with AVX2 uses for int keys |
| `MCHashMapAvx2` | its instance |
| `HashMapProofs` | theorems about `HashMap`: its order, keys and lookups; that it implements `AbstractMap` |
| `PromiseCombinators` | Promise.all, race, allSettled and any: extends `Promise`, composed with all of it |
| `MCPromiseCombinators` | its values for TLC |
| `PromiseCombinatorsProofs` | the combinators' types, on the theorems about `Promise` |
| `PromiseCombinatorsOutcomeProofs` | what they settle their aggregates with |
| `OrderedMap` | what a JavaScript Map promises: keys in order of insertion with their values |
| `MapObject` | the Map object and its forEach loops; implements `OrderedMap` |
| `MCMapObject` | its instance |
| `MapObjectProofs` | theorems about `MapObject`, the refinement among them |
| `HttpServer` | the server's threads, its queue and the life of a connection |
| `MCHttpServer` | a pool of two workers |
| `HttpServerEviction` | `HttpServer` with a history of arrivals, to say which connection a full queue gives up |
| `HttpServerProofs` | theorems about `HttpServer` |

Definitions marked "Mutant" or "Mutation" are not part of a specification.  Each
stands beside a definition of the code and changes it the way a plausible bug
would; substituted for it, it makes the property named in `PROJECT.json` fail.

### Promise

`state`, `result`, `reactions` and `lock` are the fields of a promise, `queue` the
static queue, `stack[t]` the frames of a thread, innermost first: calls of resolve
and reject, jobs still to be queued after a settle, a batch of the loop, a running
script.  A step is one critical section.  So `Settle` writes state and result and
takes the reactions out (promise.cpp:154-164, 173-188), and `Enqueue` queues one
job per step (363-390) while other threads run.  `resolve` of a promise with itself,
and of an object whose `then` getter throws, calls `reject` with the mutex still
held: `Resolve` keeps `lock` and pushes a frame that can never run.

`processMicrotasks` swaps the queue out and runs the batch (393-405).  A job calls a
handler (`HandlerFrames`), and a handler is a script, a finally wrapper or a native
resolving function; what it returns or throws settles the derived promise
(`ReturnValue`, `ReturnFinally`, `ReturnFinallyPromise`, `Throw`).  A thenable is
adopted by a "then" job, which registers resolving functions (`RunThen`).

Scripts may do anything the interface allows at any time: `CallResolve`, `CallReject`
and `CallThen` take any exposed promise and any value of the instance.  `budget`
reserves room in the pool of promises, so that a script never starts what the
pool has no room to finish; it bounds the model and stands for nothing in the code.
`awaits` records which promise an onFinally returned, for `FinallyWaits` only.

### FinalizationRegistry

`entries`, `tokenMap`, `cleanupQueue` and `inProgress` are the members of the same
names; `phase`, `index` and `held` are where a thread is in cleanupSome and its
locals; `leaving` is a thread between the two locks of unregister.  Indices start at
1.  `SafeRemoveEntry` does what the code does in the order it does it: the last
entry is moved first and the token is read after that, so the token erased is that of
the entry that was moved (finalization_registry.cpp:121-141).  The collector is
external: `Collect` clears a weak handle whenever it likes, `PostGC` is
postGCCallback.  `collected`, `called` and `released` are history.

### HashMap

`entries`, `size`, `capacity`, `load` and `threshold` are the members, load factors
being pairs of numbers.  A call runs through the loops of emplace, erase and rehash
one iteration at a time (`pc`): `Place`, `Refuse` and `Advance` are the three
outcomes of an iteration of emplace, `Shift` one of erase, `Refill` the iterations of
rehash up to the next occupied slot.  rehash calls emplace, so `pc = "reinsert"` is emplace
inside rehash inside the call in `op`.  find_index changes nothing and is an
operator.  `Home` is the hash, any function to the numbers.  Two normalisations: an
empty slot holds default values, and free slots of the old table are skipped in
one step.

Calls are sequential; the class has no locks and its users do not share it between
threads.  The assumptions of the module keep callers from `HashMap(0)` and `rehash(0)` of an
empty map, which leave a table without slots, and from load factors outside
[1/2, 1], which make rehash recurse or fill the table.

`HashMapAvx2` is find_index_avx2: eight contiguous 32-bit words from the
key of a slot are compared with the key, whereas consecutive keys are three words
apart.  The class's other operations keep the portable lookup, since up to the
first difference the two builds are in the same state.

### PromiseCombinators

`PromiseCombinators` extends `Promise`: its state is that module's and seven variables more,
indexed by the aggregate, the promise a combinator returns.  `Combine` makes the
aggregate and pushes two frames: the executor (`Loop`) and, above it, the script that is
its iterator's `next`.  The script may call the rest of the interface, and ends by yielding a value
(`NextValue`), by being done (`NextDone`) or by throwing (`NextThrows`).  A value that is
a promise is subscribed to at once, any other goes through the steps of Promise.resolve
first; `Subscribe` is the element's then().  The element's handlers are reactions
`onFulfilled` and `onRejected` of `Promise`, so that its microtask loop runs them; they
are named by the promise that then() returned, and `element` says which aggregate
and slot that is.  What a handler does is one step (`Record`, `Decide` or `Skip`,
promise_static.cpp:98-134 and so on), since no other code runs in the middle of it, and then the frame that
settles the aggregate.

`remaining` and `decided` are `*remainingCount` and the flag of each kind.  race has no array and no
counter; its `results` only number its elements.  `ready` is history: the order
in which the elements' jobs were queued.  The four functions are also defined in
promise.cpp:591-1073, with a counter that the lambdas capture by copy and then
decrement, which a const copy does not allow: that file's versions do not compile, and a program has
one definition.  The `RecordByCopy` mutant is that bug.

### MapObject

`m_entries`, `m_keyMap` and `m_size` are the members; positions count from 1.
`passes` is the stack of forEach loops under way, each with its position `i` and
whether its callback is running; only then may a script call, and only the innermost
loop turns.  `Delete` corrects the table in the same step, as `remove` does
(map.cpp:126-148): nothing else runs meanwhile.  `born`, `seen`, `gone` and `last` are
history; `gone` counts the removals at positions a loop had come to, its own callback's
included.  A loop reads the size of the vector each turn, so it also visits what its callbacks insert.

### HttpServer

`worker[w]`, `acceptor` and `stopper` say where a thread is; a step is one critical section of
`queueMutex_` or one access to something that another thread writes without it.
Waiting on the condition variable takes two: the predicate is tested (`Take`), the
thread blocks (`Block`), and in between it holds the mutex, which keeps others from the queue but
not Stop from its flag.  recv, parse and handlers are one step (`Read`), since a
connection that is being read has one owner.  The accept thread's push, its
notification and its counting are three (http_server.cpp:443-450).  The worker
that put a connection back clears its flags afterwards, each a step (654-659), while
another may have taken it.

Closing takes two steps.  A worker that gives up its own connection counts it out first and
closes the descriptor after that (501-505, 645-650, 667-671: `CountedOut`, then `HangUp` or
`Shut`).  closeConnection does it the other way round and holds the mutex throughout:
`CloseConnection` closes the descriptor, `closing` is the connection, `CountOut` counts it out
and puts the one it made room for in the queue.  `RequeueFull` closes the head of the
queue.  `RequeueClosed` is both an unhealthy connection and the branch for one that is not
to be kept alive after all (637-641), which closes whatever room there is.

What clients send, what handlers do, whether a connection is healthy and whether its
priority is high are choices.  A descriptor is "none", "open" or "closed": closing is
counted by every path, so a second close would be seen.  Descriptor 0, which closeConnection
would not close, is taken not to occur.  Strings that two threads
touch at once (the buffer, a request being reset while another worker fills it) are
data races the model leaves out: what it has is that the two are at the connection at once.
http_server.cpp uses four members that http_server.h does not declare
(`keepAliveConnections`, `isConnectionHealthy`, `closeConnection`, `cleanupTimer_`); the model takes the bodies.

## 3. What the runs check

| Run | Instance | Properties |
|---|---|---|
| `promise_threads` | 2 threads, 3 promises, every kind of value, reject and finally handlers | `SettledHasNoReactions`, `JobsFitOutcome`, `SoleHolder`, `SettleOnce` |
| `promise_loop` | 1 thread, 4 promises, adoption of promises and of foreign thenables, finally | `TypeOK`, `FulfilledIsPlain`, `SoleHolder`, `ReactionOrder`, `Served` |
| `promise_finally` | 1 thread, 5 promises | `FinallyWaits`, violated |
| `registry` | 2 threads, 2 tokens, 2 registrations | `TypeOK`, `CleanupExclusive`, `NoOtherLeaves`, `DeadIsCollected`, `Finalized` |
| `registry_held` | 2 threads, 1 token, 2 registrations | `HeldIsCollected`, violated |
| `registry_kept` | 1 thread, 1 token, 2 registrations | `KeptUntilDone`, violated |
| `hashmap_table` | 3 keys that collide, 2 values, 1 to 16 slots, load factors 1/2 and 1 | `TypeOK`, `SizeCounts`, `RobinHood`, `LookupFinds`, `IsAMap`, `Returns` |
| `hashmap_avx2` | 3 int keys, 16 slots, load factor 3/4 | `ContainsFinds`, violated |
| `promise_combinators` | 1 thread, 5 promises, one aggregate of any kind, promises, plain values and foreign thenables as elements | `CombTypeOK`, `ResultsComplete`, `FirstWins`, `DecidedSettles` |
| `map_object` | 3 keys, 2 values, 4 insertions, 2 nested loops | `TypeOK`, `IndexAgrees`, `VisitsAscend`, `IsOrderedMap`, `MissesOnlyMovedUp` |
| `map_foreach` | 2 keys, 1 value, 2 insertions, 1 loop | `ForEachCallsAll`, violated |
| `http_connections` | 2 workers, 3 connections, room for 2 in the queue, 1 start | `TypeOK`, `SoleOwner`, `ActiveCountsOpen`, `ReadyIsWatched`, `FreshUnlessReleasing`, `Taken`, `StopReturns` |

Two more configurations, which `PROJECT.json` does not list as runs, are kept for their counterexamples:

| Configuration | Instance | Property |
|---|---|---|
| `PromiseSelf.cfg` of `MCPromise` | 1 thread, 2 promises | `SelfResolutionRejects`, violated |
| `HttpServerEviction.cfg` of `HttpServerEviction` | as `http_connections` | `EvictsOldest`, violated |

What the passing runs show:

* `SettledHasNoReactions`, `SoleHolder`: then() racing resolve() on two threads
  strands no reaction and queues none twice; a promise made by then() has exactly
  one party that will settle it, through settling, queueing, batches, handlers and
  adoption.
* `JobsFitOutcome`, `SettleOnce`: although handlers read the result without a
  lock and long after the settle, job and outcome fit.
* `ReactionOrder` holds on one thread.  It does not on two, where then() can queue
  its job between another thread's settle and the queueing of older reactions; the
  language only knows one thread, so this is stated for one.
* `FulfilledIsPlain`, `Served`: thenables are never handed out as results, and
  every queued reaction settles its derived promise or starts adopting, unless a
  thread has blocked itself.
* `CleanupExclusive`: the flag is up exactly while a thread is inside, on all seven
  ways out.  `NoOtherLeaves` speaks of every registration in every step: it comes in once,
  is held once, and leaves only as the one entry that unregister found by its token, or that
  cleanupSome has at its index with a target that was collected; all the others stay.  It does not
  say that this entry is the one that should go: `KeptUntilDone` does, and is
  violated.  `DeadIsCollected`: the flag that cleanupSome relies on stays with its entry, wherever
  removals move it.  `Finalized`: rescanning makes up for indices that went stale.
* `RobinHood`, `LookupFinds`, `SizeCounts`: the order, the lookups that rely on it and
  the counter survive every sequence of calls.  `IsAMap`: every call answers as a
  plain partial function would, which is a refinement: `Association` maps the table,
  what is being carried and what rehash has yet to bring back to a function, and every
  step of a loop to a stutter.  `Returns`: no loop goes round for ever, also in a full
  table.

* `ResultsComplete`: the array that all and allSettled resolve with, and the errors any
  rejects with, have each element's own outcome in its slot and none missing, with
  elements that settle before, during and after the loop.  `FirstWins`: where one element
  decides, the outcome is that of the first whose job was queued.
  `DecidedSettles`: an aggregate whose outcome is decided is settled in the end.
* `IsOrderedMap` is a refinement: get, has and keys answer as an insertion-ordered
  map would.  `IndexAgrees` is why, and covers size.  `VisitsAscend`: loops
  visit in order of insertion, and nothing twice.  They do not visit everything, which
  map.h:131 promises (`ForEachCallsAll`, violated).  `MissesOnlyMovedUp` says how far the code falls
  short: by one entry at most for each removal at a position the loop had come to, whatever
  is inserted, put again or removed further on.
* `SoleOwner`: no connection is at two places, and no descriptor is used or closed after it
  was closed, evictions and second starts included.  `ActiveCountsOpen`: each
  connection is counted from when it was accepted until it is closed, over both steps of each close,
  but for one between its queueing and its counting, when the size_t may wrap.  `ReadyIsWatched`: no wake-up is lost while the server runs.
  `FreshUnlessReleasing`: the flags of an old request are seen on a queued connection only in the window
  that putting it back before clearing it opens.
* `Taken`: a connection does not stay in the queue for ever unless high-priority ones
  overtake it again and again, or the server stops.  `StopReturns`: Stop comes back unless it
  notifies while a worker is between its test and its wait.  Both state their exception, and
  the exceptions are real: the queue starves ordinary connections, and Stop may hang.

What the violated runs show (the quoted lines are in `PROJECT.json`), and after them the two further
configurations:

* `promise_finally`: finally is documented to wait for the promise that onFinally
  returns.  The code never looks at it again.
* `registry_held`: cleanupSome checks an entry under one lock and reads its held
  value under the next.  An unregister in between puts a live entry there, and the
  callback gets the held value of an object that was not collected.
* `registry_kept`: safeRemoveEntry erases the wrong token.  The one left behind maps
  to a stale index, and a later unregister removes somebody else's entry.
* `hashmap_avx2`: two int keys with one home, both inserted; contains says the
  second is not there.
* `map_foreach`: forEach is documented to call back for all entries.  The callback deletes the entry
  it is called for, the next one moves to the position the loop leaves, and is
  never called back for.
* `PromiseSelf.cfg`: a promise resolved with itself is documented to reject with a
  TypeError (promise.cpp:97).  resolve calls reject at line 99 under its own non-recursive mutex; the thread
  stops there.
* `HttpServerEviction.cfg`: a full queue is documented to give up the oldest connection
  (http_server.cpp:625).  It gives up its head, which may be one with high priority, accepted
  and queued last (598-608, 629).

### Bounds

Three promises are enough for two derived promises or for adoption with one
derived promise, and two threads for every race between then, resolve, reject and the
queue.  Four on one thread give chains: adoption of an adopting promise, finally
behind then.  The violation of finally needs five.  Two registrations are enough for
the swap with the last entry, with the removed entry first or last, and two
threads for a cleanup and a caller; the history variables make more than that grow fast
without new orders.  Three keys, two with the last slot of a table of four for
their home and one with the first, give displacement, wrapping, refused
insertions, shifts over the end of the table, and full tables of one and two slots;
reserve reaches 16 slots.  Two values tell a lost or mixed-up association
from a right one.  Five promises are two of the script's, an aggregate and two elements, or a
plain value with the promise Promise.resolve makes of it; one combinator, called
from a script that is not nested, with iterators that call the rest of the interface.  Three keys
and four insertions let a key be deleted and inserted again in the middle of two nested
loops.  Two workers and three connections fill a queue of two and evict from it, with an
accept and a Stop under way.  The run has one start, since a second one, which finds the queue that the
first one left, makes liveness take four minutes; the invariants are theorems for any number of starts,
and `MaxStarts = 2` can be set to check the rest.
No run is restricted by a state constraint: bounds are guards of
the actions (`budget`, `MaxPromises`, `MaxCombined`, `MaxDepth`, `MaxRegistrations`, `HasRoom`,
`MaxBorn`, `MaxConns`, `MaxStarts`); `Wrap`, the modulus of a size_t, is 8.

`CHECK_DEADLOCK FALSE` is set for promises, combinators, the registry and the server, where the
system may stop: scripts are finished, the pool is used up, the server is stopped for good.  The
hash map and the map object always accept a call.

### Fairness

* Promises: `WF` of `Native(t)`, what a running thread goes on to do by itself;
  `SF` of `EndScript(t)`, scripts and handlers end though they may do much before;
  `SF` of `ProcessMicrotasks(t)`, the embedder drains the queue between scripts.
  Nothing else calls it: without that assumption nothing is ever served.
* Registry: `WF` of `PostGC`, each collection is reported; `WF` of the steps inside
  cleanupSome and unregister; `SF` of the end of the callback and of `Begin(t)`:
  threads call cleanupSome again and again.  The registry never does that itself.
* Hash map: `WF` of the loops.  A call runs on its caller's thread.
* Combinators: as for promises; iterators are scripts, and end.
* HTTP server: `WF` of what each thread goes on to do: Stop, the accept thread after it
  has accepted (and its end once the flag is up: epoll_wait has a timeout), and each
  worker, whose handlers are assumed to return.  Between two steps the mutex is held only
  by a worker about to block or inside closeConnection, and both go on to release it.  Weak fairness promises a thread no mutex that others
  keep taking, and the properties do not need it.  No client is assumed to come, no call of
  Start or Stop, no spurious wake-up.

Callers are never assumed to call anything.

## 4. What is proved

For every value of the constants that the named assumptions allow: any threads, values,
tokens, keys, hashes, capacities, nested loops, worker pools and queue sizes.

| Theorem | Statement |
|---|---|
| `PromiseProofs!TypeCorrect` | `Spec => []TypeOK` |
| `PromiseProofs!NoReactionStranded` | `Spec => []SettledHasNoReactions` |
| `PromiseProofs!FulfilledPlain` | `Spec => []FulfilledIsPlain` |
| `PromiseProofs!JobsFit` | `Spec => []JobsFitOutcome` |
| `PromiseProofs!SettledOnce` | `Spec => SettleOnce` |
| `PromiseReactionProofs!OneSettler` | `Spec => []SoleHolder` |
| `PromiseReactionProofs!RunInOrder` | `Threads = {t}` implies `Spec => []ReactionOrder` |
| `PromiseCombinatorsProofs!CombTypeCorrect` | `CombSpec => []CombTypeOK` |
| `PromiseCombinatorsOutcomeProofs!CompleteWhenDone` | `Threads = {t}` implies `CombSpec => []ResultsComplete` |
| `PromiseCombinatorsOutcomeProofs!FirstDecides` | `Threads = {t}` implies `CombSpec => []FirstWins` |
| `FinalizationRegistryProofs!Exclusive` | `Spec => []CleanupExclusive` |
| `FinalizationRegistryProofs!OneLeaves` | `Spec => NoOtherLeaves` |
| `FinalizationRegistryProofs!DeadCollected` | `Spec => []DeadIsCollected` |
| `FinalizationRegistryProofs!TypeCorrect` | `Spec => []TypeOK` |
| `HashMapProofs!TypeCorrect` | `Spec => []TypeOK` |
| `HashMapProofs!RobinHoodKept` | `Spec => []RobinHood` |
| `HashMapProofs!SizeIsRight` | `Spec => []SizeCounts` |
| `HashMapProofs!LookupIsComplete` | `Spec => []LookupFinds` |
| `HashMapProofs!HashMapIsAMap` | `Spec => IsAMap`, the refinement |
| `MapObjectProofs!MapTypeOK` | `Spec => []TypeOK` |
| `MapObjectProofs!MapIndexAgrees` | `Spec => []IndexAgrees` |
| `MapObjectProofs!MapVisitsAscend` | `Spec => []VisitsAscend` |
| `MapObjectProofs!MapMissesOnlyMovedUp` | `Spec => MissesOnlyMovedUp` |
| `MapObjectProofs!MapIsOrderedMap` | `Spec => IsOrderedMap`, the refinement |
| `HttpServerProofs!HttpTypeOK` | `Spec => []TypeOK` |
| `HttpServerProofs!HttpSoleOwner` | `Spec => []SoleOwner` |
| `HttpServerProofs!HttpFresh` | `Spec => []FreshUnlessReleasing` |
| `HttpServerProofs!HttpActiveCountsOpen` | `Spec => []ActiveCountsOpen` |
| `HttpServerProofs!HttpReadyIsWatched` | `Spec => []ReadyIsWatched` |

`PromiseProofs`, `FinalizationRegistryProofs` and `HashMapProofs` have an inductive invariant
`IInv` and a theorem `Invariance == Spec => []IInv`; the other modules name theirs.

* **Promise.**  `TypeOK` is not inductive: that a queued job is well typed does not say
  that it fits its promise, and only that keeps "resolve with the result" away from
  thenables.  `IInv` types frames and jobs by the subsets that fit the current states
  (`FitFrame`, `FitJob`), numbers promises in the order they were made, and has
  fulfilled promises hold plain results and settled ones no reactions.  Each action has a lemma;
  `FitGrows` says that fitting survives any change of state that leaves settled
  promises alone, which is the only way a job could stop fitting.

  Invariant and lemmas take a parameter `K`, what a component built on promises adds: its native
  handlers, each with the promise and the outcome it is called for, and the promises it alone
  settles.  For `Promise` by itself `K` is `Alone`, without any.  So each lemma about a step of
  `Promise` is proved once and used again for the combinators.

  `SoleHolder` counts holders over reactions, jobs, calls and callbacks of all threads.  A holder is
  named by its place (`Holds`), and places on a stack are counted from the bottom, where frames do
  not move when others come and go; that there is one is then that two places are equal
  (`OneHolder`), and each step either leaves q's place alone or moves it to one other.
  `HInv` adds `OwnersExposed`: a script that settles no derived promise holds an exposed one, so
  nothing it does later can take up a derived promise.  Cardinality enters in one lemma at
  the end, from places to the sets of the property.

  `ReactionOrder` is about one thread, and the theorem has `Threads = {t}` as a hypothesis: the
  comment above the property says the same, and with two threads it is false.  `Line(t)` says that
  the running batch, the queue and the jobs about to be queued are in order, each of them and one
  after the other, that a stack has at most one batch, at its bottom, and jobs to be queued at
  the top only, and that reactions are in the order of their derived promises (`Rising`).
* **Combinators.**  `CombTypeOK` says that `*remainingCount`, a size_t, never goes below zero; that
  it does not is a fact about handlers that have not run yet.  `CombInv` has three parts.  Frames (`ExecInv`): an
  executor stands under its iterator or under the then() of its element (`Stacked`), on one stack
  and there once (`OneLoop`), and while then() is called the newest slot belongs to no
  element yet (`SubscribeInv`).  Slots (`SlotsInv`, `ElementsInv`): `remaining` is the
  number of empty slots, and elements have slots of their own.  Holders (`Handled`): an element
  that a script can settle, or whose slot is full, has no handler left anywhere.  It is stated as
  the promises' invariant for less than `Combined`, `Without` that element's handlers; while the
  element is not exposed it has one holder at most (`HInv`), so when its handler is on a
  stack nothing else can call it (`SoleBare`), and the slot it fills was empty.  Handlers are
  one step each in the model, on any number of threads; in the code threads that ran two at once
  would race on the counter.

  `ResultsComplete` and `FirstWins` are about one thread (with several, a handler can run while the
  executor is in its loop and find no element missing), and the theorems have `Threads = {t}` as
  a hypothesis.  `OneInv(t)` is `CombInv` with `Line(t)` and two groups of conjuncts.  About
  frames (`Frames`): handlers of elements run on top of the batch and of nothing else (`OnBatch`),
  so never inside a loop; an aggregate is in its loop exactly while the executor's frame is on the stack
  (`Phases`); a full slot holds the outcome of its element's promise (`Recorded`); and
  whatever an aggregate is settled with, or is about to be, is what it may be settled with
  (`Verdicts`): the array or the errors once no element is missing and the loop is over, or the outcome of the
  first element that decides (`Earned`).  About order: an element enters `ready` once, after its
  promise settled (`ReadyInv`, `Passed`); the jobs of batch and queue are in the order of
  `ready`, and the handler that runs comes before them (`Queue`); an element that decides is
  still on its way until the aggregate is decided (`Undecided`).  So the handler that finds the
  aggregate undecided is that of the first element that could decide it.  `Flow` sums up what a step
  may do to reactions, queue, batch and handlers; each action is shown to be one, and the
  conjuncts about order are kept by every `Flow`.  `ResultsComplete` then needs that no missing
  element leaves no empty slot, and so a bijection from elements to slots (`Counted`).
* **Registry.**  `IInv` has entries distinct and no larger than the count of
  registrations, dead entries collected, and the flag up exactly while one thread is
  inside.  It splits into a part about the entries, which `SafeRemoveEntryInv` carries
  through the swap with the last, and a part about the flag.  It leaves queue and token map out, since
  their indices are compared with the entries before they are used.  `TypeOK` bounds them, and
  `TInv` adds what that needs: no more entries than registrations, and `postGCCallback` queues
  only indices of entries, each once at most.  For `NoOtherLeaves`, `SafeRemoveEntryLeaves` says that a
  removal takes out the entry at its index and keeps all others, through the swap, and
  `LeavesStep` which steps remove, at which index, and what was checked of it.
* **Hash map.**  `RobinHood` says nothing of what happens in the middle of a call, so
  `IInv` adds two things.  `Carried`: the carried entry is at the end of a way that a
  search for it would have gone, so putting it down there, or in place of an entry
  closer to home, keeps the order (`PutKeepsOrder`), and the entry taken out goes on
  from a place it had reached (`AdvanceInvariant`).  `OrderedBut`: while erase shifts,
  the order holds except for one hole; whoever's way passes the hole, the slot behind
  it is occupied by an entry far enough from home (`BehindHole`), so either that one can
  move up (`ShiftMovesHole`) or no way passes the hole (`HoleCloses`).  Slots are numbers
  modulo the capacity; `MaskNext` is the only fact about that.

  `UInv` adds that no key is in the table twice and that `m_size` counts its entries.  An
  insertion may be about a key that is there, so while emplace carries its own entry, `Passed`
  says that no slot behind it holds the key.  With the order that is enough: where a search
  would give up, the key is in no slot (`NotPassedNotThere`), so it is safe to put it down.
  `LookupFinds` follows because a lookup stops at the least distance that has the key, and
  there is one such slot (`EntryFound`).

  `RInv` adds what the refinement needs.  `Apart`: what rehash has yet to bring back is not in
  the new table.  `WalkedFor(s)`: emplace is `s` steps from where it began, fewer than the
  capacity, through occupied slots, and once it has swapped, its own entry is behind it.
  `Room`: there is a free slot, since the threshold is at most the capacity and a rehash for
  an insertion at least doubles the table, so it comes to that slot before it has gone round
  (`AdvanceR`).  This is what makes it harmless that emplace compares with its argument and not
  with what it carries: it never meets its own key after a swap (`RefusedEntry`), and no carried
  entry is dropped.
* **Map object.**  `MapInv` has the types, `IndexAgrees`, and entries in order of birth; removal at
  a position keeps both because the positions behind it move with the entries.  For loops,
  `LoopsOK`: what a loop has visited was born before what is ahead of its position, in order, and
  the unvisited entries behind its position (`Missed`) are no more than `gone`.  A removal
  moves an unvisited entry behind a position only if it is at or behind that position, and then one
  only (`LoopRemoved`).  Of the steps that make the stack shorter only `Finish` leaves a loop that is not
  calling back (`OnlyFinishEnds`), with nothing ahead of it.  The refinement shows
  each call to be the call of `OrderedMap`, with `RemoveAt` of the keys for that of the
  entries, and each turn of a loop a stutter.
* **HTTP server.**  Four invariants.  `OwnInv` is the types (`TypeInv`), `Idle` (workers
  are all off when the server can be started), `MutexOK` (one holder of the mutex between steps;
  a connection is `closing` exactly while a worker is at `countOut`, and its descriptor is closed) and
  `Owners`: queue and workers own disjoint, open connections.  A worker inside
  closeConnection for another's sake still owns its own, until `CountOut` queues it.  `FreshInv`: a
  connection's flags are down unless its owner, or the worker about to reset them, is past the
  read.  `GaugeInv`: the counter is the size of `Counted` less the one to be counted.  A worker takes
  its connection out of `Counted` when it counts it out and still owns it, and closing the descriptor
  then changes nothing; closeConnection keeps it there by `closing`.  So each close needs that the
  connection is open and nobody else's, which is `OwnInv`.  `WatchInv`: while somebody
  sleeps, queue length is at most the lookers and notifiers; a worker blocks only on an empty queue
  while it holds the mutex (`BlockEmpty`), which is what makes the test and the wait one.  It stands
  on `Idle` and `MutexOK`, since closing, too, happens between two steps that hold the mutex.

Assumptions: `MapObjectAssumption`, `HttpServerAssumption`, `PromiseAssumption`, `RegistryAssumption`, and for the hash map
`HomeAssumption`, `CapacitiesAssumption`, `ArgumentsAssumption`, `LoadsAssumption` and
`DefaultAssumption`.  TLC evaluates them in every run of the module.

## 5. What is only model-checked

* Liveness, `Served`, `Finalized`, `Returns`, `DecidedSettles`, `Taken`, `StopReturns`: out
  of the prover's reach.
* The seven violated properties.

## 6. Findings

`PROJECT.json` has five violated properties as findings, with the lines of code
that break them and the lines that promise them.  The other two, `SelfResolutionRejects` and
`EvictsOldest`, are as real, and stand in section 3.

## 7. What is not modelled, and why

* Promise: the JavaScript wrappers' argument checks, the getters that read without a
  lock and have no caller here, C++ exceptions other than the engine's out of a task; a `then`
  getter that runs a script, with the promise's mutex held (promise.cpp:109), and does not
  throw: a getter is atomic here, and gives a function, gives something else, or throws.
* Registry: addToCleanupQueue and removeInvalidEntries, which nothing calls; the
  wrappers' argument checks; the mark and sweep behind `Collect`.
* Hash map: iterators, copying and moving a map; the wrap of the 16-bit probe distance
  (`MaxCapacity` rules it out); what follows from a table without slots, which is
  undefined behaviour; load factors as floating-point numbers (pairs of numbers here).
* generational_gc.cpp, incremental_gc.cpp and memory_leak_detector.cpp: alternatives to
  garbage_collector.cpp, which is the collector that is built.  Read and left aside by choice; that they are
  not built and do not agree with their headers is as true of files that are modelled, whose
  bodies could be taken as they are written.
* Combinators: argument checks; a `resolve` or `then` that scripts have replaced; aggregates
  of aggregates, beyond the bound of the run; several threads, with which the plain counter can reach
  zero in the middle of the loop.
* Map object: hashing and equality of values; iterators, which map.cpp makes of the
  snapshots of keys, values and entries.
* HTTP server: TLS, parsing, routing, middlewares, static files, compression, the
  statistics other than activeConnections; ResetStats; cleanupExpiredConnections and
  startCleanupTimer, which nothing calls.
* ParallelGC: `pop` of a queue that is empty with head 0 wraps its size_t tail
  (parallel_gc.cpp:165), so a worker pops stale cells for ever.  steal against pop (180), a full queue whose `push` is ignored
  (780), termination while a worker holds a cell (838) and sweep before promotion (1052)
  lie behind that.
* GarbageCollector: the mark phase marks roots and nothing they refer to
  (garbage_collector.cpp:80-85, 147-150).
* MemoryPool: allocate and deallocate lock a mutex they already hold, through
  updateFragmentationInfo and getFreeSize: no call returns.
* JIT managers: function states live in an unordered_map that all threads use without a
  lock (jit_manager.cpp:565).  JIT code cache: each operation is one critical section on one map; what can
  go wrong lies in a single call (a replaced entry's code is freed and the entry may be evicted
  again, code_cache.cpp:116-123).
* Handle manager and weak handles, inline caches, engine and context: small, sequential
  or with undefined behaviour at the point of interest (a shutdown followed by initialize).
* The interpreter and its instruction set, the parser, the transformers, the IR and
  back ends of the JIT, and the built-in library: transformations of large data by one thread, with no state
  of several actors for TLC to interleave.  They are most of the repository's lines.
* WebSocket and MCP servers: I/O.  hyper_gc.cpp, quantum_jit.cpp, world_class_engine.cpp:
  stubs that report numbers.

## 8. Plan

What is done, in the order it was planned: `Promise`; `FinalizationRegistry`; `AbstractMap`,
`HashMap` and `HashMapAvx2`; then `MapObject` with its refinement, `HttpServer`, and
`PromiseCombinators`.  The modules once planned for the collectors, the JIT and the handles were
dropped for the reasons of section 7.

Proved since: the registry's `TypeOK`, `SoleHolder`, `ReactionOrder`, `CombTypeOK`,
`ResultsComplete` and `FirstWins`.  Every invariant that a passing run checks is now a theorem, and so is every
action property and refinement; liveness is left to TLC.

## 9. Running

    tlc -config PromiseThreads.cfg MCPromise
    tlc -config PromiseLoop.cfg MCPromise
    tlc -config Registry.cfg MCFinalizationRegistry
    tlc -config HashMapTable.cfg MCHashMap
    tlc -config HttpServer.cfg MCHttpServer
    tlc -config HttpServerEviction.cfg HttpServerEviction
    tlapm PromiseProofs.tla

and so on for the other rows.  The longest run takes about two minutes on two cores.
