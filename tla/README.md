# MiniLang compiler: TLA+ models of the managed runtime and of the build

The MiniLang compiler (`src/mlc/`) is written in MiniLang and translates MiniLang
programs to native Windows and Linux executables. Most of it is a sequential
translator. Two things about it are hard to get right and hard to test. One is the
runtime it emits into every threaded program and the concurrent library written on
top of it: native threads that share one managed heap, a cooperative
stop-the-world handshake, a collector that marks and sweeps while the program runs,
and channels, thread pools and futures built from locks, semaphores and events.
The other is what a build reuses instead of computing: caches of functions, objects
and whole programs, an AST visitor generated from the parser, a second copy of the
Linux runtime, and the release packages made of all that, each of which may be
older than what it stands for. This directory models those parts, checks them with
TLC on small instances and proves, with TLAPS, what matters most for every instance.

## 1. Inventory

| part | source | state it keeps | operations | hard behaviour | what makes it correct | module |
|---|---|---|---|---|---|---|
| managed-thread runtime | `mlc/codegen/codegen_threads.ml` | the collector state of each thread context, `gc_requested`, `managed_thread_count`, the heap and coordination monitors, a bypass depth per thread | poll, safepoint, native enter and leave, managed exit, heap enter and leave, world stop and resume, the synchronized monitor | a thread may leave native code, be started, be refused by the OS or exit at any point of a handshake; a lone thread enters the heap without the monitor | no managed code in a stopped world; one thread in the heap; the handshake completes and loses no wake-up | `Safepoint`, `StopTheWorld`, `SafepointProofs` |
| native `Thread` object | same file | status word, native handle, its user count, payload | Start, Stop, Join, Close, SetLogicalId, the worker's entry and epilogue, rooting and reaping by the collector | lock-free races of every operation with every other and with the worker; a closer waits for a worker that may itself wait for the collector | one owner per handle, none used after close; stop requests survive; blocking calls return | `ThreadLifecycle`, `ThreadLifecycleProofs` |
| heap and concurrent cycle | `codegen_memory.ml`, `codegen_concurrent_gc.ml` | block headers, free bins, TLABs, mark, deletion log, reuse bitmap, weak registry of threads | allocation, barriered stores, snapshot, marking, remark, overflow fallback, sweep, publication | mutators run while the worker marks and sweeps; the log may overflow; blocks freed before the snapshot are reused during it | nothing reachable is freed; nothing is in two hands; the cycle frees exactly the garbage of its snapshot | `SnapshotGC`, `HeapProofs` |
| heap of a synchronously collected program | `codegen_memory.ml` | block headers, a list of free blocks, two caches of its searches, TLABs, the heap's end | small and large allocation, refill and retirement of a TLAB, growth, sweep | a cache outlives the blocks it was about; a TLAB's tail is free in its header and in no list; a collection rebuilds all of it between any two calls | blocks tile the heap and have one owner; a search misses no block that would do | `FreeList`, `RangeHeap`, `HeapProofs` |
| collection requests | `codegen_concurrent_gc.ml` | phase, completion number, two events | request, `gc_collect`, the worker loop | requests coalesce with a cycle that began before them; an allocator waits without the monitor it needs | a collect waits for a cycle that began after it; no request is lost or doubled; it returns | `GCRequest`, `GCRequestProofs` |
| `std.concurrent.channel` | `std/concurrent/channel.ml` | ring buffer, two semaphores, two manual-reset events, a closed event | send, receive (waiting, timed, try), close, dispose | permit taken before the lock, events waited for outside it | bounded FIFO; permits add up; no lost wake-up; close releases all | `Channel`, `BoundedFifo`, `ChannelProofs` |
| `std.concurrent.thread_pool` | `std/concurrent/thread_pool.ml` | circular queue, semaphore, three flags, a status per job | submit, cancel, shutdown, stop, join, close, workers | the signal follows the insertion outside the lock; workers decide to leave | each accepted job runs at most once and ends; workers end after shutdown | `ThreadPool`, `JobService`, `JobQueue`, `PendingJobs`, `ThreadPoolProofs` |
| `std.concurrent.task` | `std/concurrent/task.ml` | an event per wait, listeners per job | `whenAnyFor` | a job ends between the scan and the registration; the event is closed while jobs still end | no missed completion; no event used after its close | `WhenAny`, `WhenAnyProofs` |
| `std.threading` primitives | `std/threading.ml` | gates, condition variables | Lock, Semaphore, Event | interrupted and timed waits on Linux | mutual exclusion, counting | used as contracts; planned |
| cancellation, shared value, concurrent containers | `std/concurrent/`, `std/ds/concurrent_*` | one lock each | get, set, update | copies in and out of the lock | linearizability | planned |
| project cache | `mlc/project.ml`, `run_cli` of `mlc/compiler.ml` | `build.state`, an artifact and an object directory per digest, with a marker | fingerprint, restore, restoreObjects, storeObjects, store | builds share the directory; inputs are edited between two reads; a kill or a power failure between two writes | a hit is a whole program made from the fingerprinted inputs with these arguments | `ProjectCache`, `BuildToolsProofs` |
| function cache | `mlc/incremental.ml` | `.mfc` fragments, `.mif` declarations, keyed by digests | configure, prepare, seal, begin, replay, finish | sources, options, callees and the compiler itself change between builds and during one | cached and clean output are identical | `FunctionCache`, `ProgramView`, `BuildToolsProofs` |
| AST visitor | `mlc/incremental_ast.ml`, `tools/generate_incremental_ast.py` | the generated branches | generate, check, write | a node type changes and the committed visitor does not | a key tells apart what callers can see, and nothing else | `AstVisitor` |
| Linux runtime blob | `mlc/linux_runtime.ml`, `scripts/check_linux_runtime_blob.py` | literals, offsets, relocations | compare, print a patch; cut, patch and link | the emitter changes between a patch and its application | a file that passes links what the assembler emits | `RuntimeBlob` |
| release packaging | `scripts/package_binary.py` | temporary directory, archive, digest | check, collect, manifest, pack, digest | inputs change while they are collected; an attempt fails or dies anywhere | the digest vouches for a whole archive; the manifest is true | `ReleasePackage`, `BuildToolsProofs` |
| encoder, front end, lowering, object files | the rest of `src/mlc/` | sequential | translation passes | size and breadth, no concurrency | relation of two languages | not modelled, see section 7 |

How the parts meet: compiled code polls and calls the *managed-thread runtime*
around every blocking call and every heap operation. The *heap* relies on it for
its pauses (`fn_gc_world_stop` … `fn_gc_world_resume`) and for the monitor that
serialises allocators. The *requests* decide when a cycle begins. A *Thread*
object is a heap object whose life the collector and the OS thread share. The
library modules use Thread and `std.threading` only. Accordingly each module
assumes of the one below only its contract, and names it: `ThreadLifecycle` and
`SnapshotGC` take a stop of the world as one step under the guard that
`Safepoint` establishes (`StoppedWorld`, proved), and `GCRequest` takes a pause as
a step that needs the heap monitor. The build tools meet in the file system only: a
process of one kind reads what another has written, and says in its key what it
believes it read. The *function cache* takes its keys of declarations from the *AST
visitor*: in `FunctionCache` they are a constant operator, `Declarations`, which
`ProgramView` computes with the visitor of `AstVisitor`; the *project cache* takes a
compilation as a function of its inputs, which is what `FunctionCache` is about
(`OutputIsClean`).

## 2. Modules

* **Safepoint** - one step per shared access or critical section of the
  coordination monitor (its acquisition is a step of its own). `pc` is the
  instruction a thread is at, `op` the operation its managed code is in. Actions
  carry the names of the helpers: `SpCheck`, `SpFirst`, `SpWait`, `SpAgain`,
  `SpVerify` are fn_gc_safepoint; `Ne…` and `Nl…` native enter and leave; `He…` heap
  enter; `Gc…` world stop and resume; `Mx…` managed exit; `Start…` and `Entry` the
  accounting of started threads.
* **StopTheWorld** - the abstract promise: a thread stops the world when nobody
  mutates, and nobody mutates until it resumes.
* **ThreadLifecycle** - one Thread object, several callers, its worker and the
  collector; a step is one load, store or compare-and-exchange, or one OS call.
* **Channel**, **BoundedFifo** - a step is one call of a primitive, with the
  accesses to fields that only the holder of the lock touches; the abstract
  module is the FIFO the callers see, with a linearisation point for each call.
* **ThreadPool**, **JobService** - a critical section is a step; the semaphore,
  the ends of threads and the flags read without the lock are steps of their own. The
  queue is a sequence.
* **JobQueue**, **PendingJobs** - the circular array behind that sequence, one step per
  operation under the pool's lock, with its growth and its cap; the abstract module
  also says which jobs the array keeps alive.
* **WhenAny** - one step per job guard entered by whenAnyFor, and per event call.
* **SnapshotGC** - the heap as a set of equal blocks with `Slots` references each.
  `LogStore` and `Store` are the two halves of a barriered store (they race with
  other threads; there is no safepoint between them). `Snapshot`, `Remark`,
  `RemarkOverflow`, `ReapRetained` and `Publish` are the pauses; `Drain`, `Pick`,
  `ScanSlot`, `Retain` and `Sweep` run beside the mutators, a slot or a block at
  a time. `reuse`, `frontier`, `bins`, `tlab`, `detached` are the code's structures.
  A history variable, `live`, remembers what was reachable at the snapshot.
* **FreeList**, **RangeHeap** - the other heap, of a program compiled without the
  concurrent collector: addresses and sizes are numbers, `size` is the headers, `free` the FREE
  bits, `next` the links. A step is one call, but for a search of the list, which is a step per
  block (`Advance`, `Found`). Which blocks a collection keeps is left to chance: any set of them
  that are not free. The abstract module is a heap of disjoint ranges, held or spare, that
  grows only for a request no spare range can serve.
* **GCRequest** - callers of `gc_collect` (explicit, or an allocator out of memory
  that holds the heap monitor), allocations that request a cycle and go on, and
  the worker. `fresh` is history: which cycle has begun, and ended, since the call.
* **ProjectCache** - one step per file read or written of run_cli, restore,
  restoreObjects, storeObjects and store, for builders of different arguments and outputs
  that share the cache directory; `Edit`, `Kill` and `PowerCut` come anywhere. A digest is what it is the
  digest of. `touched` is history: how often an input was changed since a build began.
* **AstVisitor** - the field rules of the generator (`Rule`, `Generate`) and the
  visitor they yield (`Write`), as functions from an AST value to a stream.
* **FunctionCache** - a compiler under development, a program of two modules, and
  compilations that share a cache directory: `ParseLib` identifies the declarations,
  `Replay` or `Compile` adds one function to the stream. `Lower` says what the code
  of a function depends on: its text, the compiler and options, what callers can see
  of its callee (`Facts`), and the stream it is added to. What the visitor writes of a
  program's declarations is its constant `Declarations`.
* **ProgramView** - the AST of that program under the parser's node types, old and new,
  and the streams the visitor of `AstVisitor` yields for it (`ViewDigest`), which the
  configurations give to `Declarations`. It is apart because the visitor is recursive,
  and proofs cannot reach a recursive operator.
* **RuntimeBlob** - the emitter, the embedded copy and printed patches. `Expected` is
  the script's refreshed file; `Linked` is what emit_runtime makes of a file.
* **ReleasePackage** - the script as a sequence of steps, between which the executable,
  the bridge, the tree and the tag change; `Die` comes anywhere.
* **MCBuildTools** - one instance of the four models above, which share no variable: a
  behaviour is one of exactly one of them (`tool`), and all of them in one run. **MCHeaps** does
  the same for the two heaps (`part`).
* **SafepointProofs**, **ThreadLifecycleProofs**, **HeapProofs**, **GCRequestProofs**,
  **ChannelProofs**, **ThreadPoolProofs**, **WhenAnyProofs**, **BuildToolsProofs** - the
  theorems; `HeapProofs` holds those of both heaps, `BuildToolsProofs` those of release
  packaging, of both caches and of the embedded runtime.
* **MC…** - instances for TLC; the others declare the symmetry of their model values or
  a value of a constant, no more.

Definitions whose comment begins with "Mutant" are wrong variants of the definition
below them, kept to show that each property depends on the code it is about.
None is reachable from a specification.

## 3. Runs

| run | instance | what it shows |
|---|---|---|
| safepoint | main and one thread it starts, recursion and collections up to 1 | `StoppedWorld`; `HeapExclusive`; the refinement of StopTheWorld; a stop completes; a parked thread runs again |
| thread_lifecycle | 2 callers, timeouts forever, 0, 1; waits may fail | who owns the handle, that it is used open, that the payload outlives the worker, that reaping is safe, stop requests and joins; Close and unlimited Join return |
| join_during_startup | 3 callers | expected violation, see section 6 |
| channel | 2 threads, capacity 2, messages void and false | permits and events (`SignalsAgree`), refinement of BoundedFifo; close releases everybody, no lost wake-up |
| channel_receive_after_close | 3 threads, capacity 1 | expected violation |
| thread_pool | 2 clients, 2 workers, 2 jobs, queue of 1; or a circular queue alone, with arrays of 2, 4 and 5 cells | token accounting, refinement of JobService, jobs and workers end; the array implements PendingJobs |
| thread_pool_stop | 2 clients, 1 worker, 2 jobs | expected violation |
| when_any | 2 waiters, 2 jobs, up to 2 futures a call | listeners are live, no missed completion, the answer, the return |
| heaps | concurrent: 2 blocks of 1 slot, 2 mutators, 2 roots, 1 thread object, log of 1, TLAB of 1; or synchronous: a heap of 7 units, see Bounds | concurrent: nothing reachable is freed; one owner per block; exactness; the weak registry; synchronous: refinement of RangeHeap |
| gc_request | 3 threads | fresh cycles, sound retry, no lost or doubled request, return of the explicit call |
| build_tools | the four models of the build, see Bounds | a hit of the project cache is clean; a replayed build equals a clean one, its declarations are those it would compute, and keys tell apart what callers see; a refreshed runtime links what is assembled, and keeps its legacy range; a release's digest and manifest are true |
| stale_visitor | FunctionCache without the generator's check | expected violation |

### Bounds

* Safepoint: two threads are enough for one to collect while the other is in each
  of its states, and for the lone-thread bypass to begin and end; the safety
  properties and the refinement are proved for any set of threads, recursion and
  number of collections. `MaxCollect` stands for the allocator's three attempts.
* ThreadLifecycle: two callers and the worker race on one object, each caller with any
  sequence of operations, so that Close meets each of them at each point; the three
  callers of join_during_startup put Start, Stop and Join on it at once. A timeout of 1 ms is long enough to expire in and after the startup loop.
* Channel: a thread sends, receives and closes in any order, so two threads meet in
  every pair of operations, and a capacity of two lets the ring wrap and be partly full.
  In channel_receive_after_close a third comes between the steps of two. Void and false are the
  two values the representation treats specially (a void is stored as a flag).
* ThreadPool: a queue of one is full with one job; two workers compete for a token. A
  client may cancel and close a job that is queued; its identity is used again.
  At these sizes an array never wraps and grows at once, so `MCThreadPool` runs the
  circular queue apart from the pool, as `MCBuildTools` does its parts: its first array has
  two cells in place of 64, the second four, and the third is cut to the capacity of five.
* WhenAny: two waiters may listen to one job, and the same job may be given twice in
  an array. `MaxWatches` bounds how many registrations a job keeps: a slot that was
  emptied is not reused, so a guard stops calls that would exceed it.
* SnapshotGC: with two blocks and two mutators, every reference a racing store can
  hide from the marker is hidden: the log overflows with two entries. Blocks may
  point to themselves and to each other. The instance with three blocks, one
  mutator and a thread object (3.5 million states, two minutes) passes all five
  invariants as well and is not kept as a run.
* FreeList: a heap of 7 units, small objects of 1, large ones of 2, batches of 3, and remainders
  from 1 on become blocks; one thread with batches, the others allocate directly. The list gets
  three entries, so that a search goes past the head, stores its predecessor and resumes
  there; batches are split, used up, retired next to the head and elsewhere; the heap fills
  and collects in an emergency, and ends. That is what it takes to use a cache that a sweep
  or a retired batch has made void. Caches that dangle in other ways need larger heaps, and
  the proof, which has no bounds.
* GCRequest: three threads are two callers and a third that keeps requesting. The
  completion number is replaced by whether a waiter is still due, so nothing grows.
* RuntimeBlob: five emitters: another thread thunk, another prefix and suffix, another
  set of labels, a wrong order of relocations, a wrong opcode before the exit word. Two
  printed patches may wait while the file changes, so the second may be stale.
* ReleasePackage: two builds and two trees, of which one is releasable; four changes let
  an input change away and back, or every input change once. Proved without bounds.
* ProjectCache: two inputs, so that an edit comes between the reads of both; two objects,
  so that a directory may be half copied; two builders of different arguments and outputs; two
  builds and two edits or power cuts, in an empty cache or in one that a build has filled,
  so that a cache that is damaged, half written or stale meets two further builds.
* FunctionCache: two modules, of which one depends on the other; two compilations with
  different options, two edits and three starts: a build, a second that fills the cache
  while it is edited, and one that reads what both left. `MaxDepth` is 6 in place of 128: it is
  reached by the deepest body. Under it `stale_visitor` needs two starts.

### Fairness

Weak fairness of a thread's steps: the operating system schedules every runnable
thread. Strong fairness of acquiring a monitor or a lock that is released again and
again: the waiters of a critical section or of a pthread mutex are admitted in the
end. Nothing is assumed of user code: managed code may run for ever without
calling anything, but it polls (the compiler puts polls at loop heads and calls), which
is why `Safepoint` makes `Poll` fair once a collection is requested; callbacks
of threads and jobs return, which the liveness properties of Thread and pool need
and say. A wait of the operating system may fail, and need not: the failure is an action
without fairness, so `BlockingCallsReturn` does not live on it. A call may be started at any time, or never: starting one is never fair.
`channel` runs without the deadlock check, because a channel nobody closes may
leave every caller waiting for a message or for room; all other runs check it.

### Abstractions worth knowing

* Lock, Semaphore and Event are atomic and never fail. Running out of semaphore
  counts (2147483647 pending signals) and interrupted waits are not modelled.
* SnapshotGC has blocks of one size: the size bins of concurrent mode, with their splitting
  and coalescing, are absent, and a store writes one slot: the range barrier of `copyArray`
  is absent.
* FreeList has no mark phase: that what is reachable is kept is what `SnapshotGC` is about, for
  the concurrent cycle; the synchronous one stops the world for all of it. When to collect
  is accounting, and left out: a collection may come before any call. `fn_heap_grow`
  succeeds up to the end of the reserve or fails at once; the pages a sweep gives back to the
  system hold nothing.
* A failure to create the collector's thread ends the process and is left out.
* `whenAnyFor` on a disposed future, and disposing a pool or a lock while another thread
  is inside one of its operations, are excluded as the language reference excludes them
  ("must not race their active users"). A job that was cancelled and closed while it is
  still queued is not excluded.
* A digest is a value that equals another only when what was digested is equal. Files that are
  replaced by a rename are replaced as a whole; a power failure may lose the content of
  one that was written and not flushed, never its name.
* In `ProjectCache` an input that is changed and changed again between two fingerprints is
  beyond what comparing them can tell; `DeliveredIsClean` says so (`flipped`).
* Two builders of `ProjectCache` differ in their arguments and in their output. Nothing in
  the code keeps two processes of one project from running at once, and of those nothing is
  claimed. They share the temporary objects (`_tmp_obj_dir`, named for the output), the
  output file and, the digest being made of arguments, manifest, sources and compiler, its
  directory of objects. When both missed, the second may clear the marker and the
  objects that the first has just published, although storeObjects says "Complete entries
  return before this function is called and are never rewritten" (`mlc/project.ml:981`): the
  look at the marker came earlier, in restoreObjects, and is not repeated; and a third
  may be linking from there.
* In `FunctionCache` what a function's code depends on is stated by `Lower` and `Facts`,
  read from the lowering of calls, inlined bodies and `is`; another dependency the lowering
  had, and the key had not, would be missed. Reading its own executable is how a compiler
  identifies itself: in the model a process is what it was started from.
* In `ReleasePackage` nobody runs a second packager for the same platform and version.

## 4. Theorems

`SafepointProofs` (any finite set of threads, any bounds):

* `Invariance`: `IInv`, the inductive invariant. `HeapExclusive` alone is not
  inductive, because the bypass decision rests on `managed_thread_count`. `IInv`
  adds that the count is exactly the number of threads that may still enter the
  heap (`CountOK`: running, started and not yet counted out), that a thread with a bypass
  depth is alone (`BypassOK`), what each monitor's owner and depth are at each
  instruction (`OwnerOK`, `HoldOK`, `SyncOK`), the collector state published at each
  instruction (`StateOK`) and who may have set the request (`RequestOK`).
* From it `TypeCorrect`, `HeapExclusion`, `WorldIsStopped`; and `Refinement`: every
  critical section that publishes RUNNING maps to an abstract `Enter`, the others to
  `Leave`, the successful scan to `Stop`, the end of the collection to `Resume`.

`GCRequestProofs` (any set of threads):

* `Invariance`: the phase, the event and the worker's place agree
  (`RequestReachesWorker`); what a waiter's `busy` and `due` say of the cycle
  (`FreshOK`: a waiter that found the collector idle is due to a cycle that begins after
  its request, one that found it busy asks again); a thread that retries holds
  the monitor, and no cycle is active while it does (`RetryOK`, `HeldOK`).
* From it `TypeCorrect`, `CollectionIsFresh`, `RetryIsSound`, `RequestsAreServedOnce`.

`HeapProofs`, the concurrent cycle (any heap, any threads, roots, slots and log size):

* `Invariance`: while a cycle runs, the program holds only what was reachable at the
  snapshot or was allocated since (`Safe`, `RootsOK`, `StoreOK`), and no free block
  below the frontier escapes the reuse bitmap (`OwnerOK`), so an allocation never
  lands among the blocks being marked. The core is `CoverOK`: all that was reachable at
  the snapshot can be reached from what is marked or logged, along slots the marker
  has not read, and without the slots a thread has logged and is about to overwrite. A
  `LogStore` moves a reference from such a slot to the log, `Store` overwrites a slot
  that already did not count, `ScanSlot` and `Drain` turn a slot or an entry into a mark.
  It is stated as "every set closed under those steps contains `live`", so that its
  preservation needs no induction. When worklist and log are empty no slot is unread,
  the marks are such a set, and `SnapshotExact` follows. `GarbageOK` (the snapshot's
  garbage leads only to blocks of the snapshot) carries the overflow fallback
  and the thread objects that are kept.
* From it `TypeCorrect`, `NothingIsLost`, `SnapshotIsExact`, `OneOwner`,
  `RegistryIsSound`.

`HeapProofs`, the synchronous heap (any sets of threads and of sizes, any thresholds, any
reserve):

* `HeapInvariance`: `HeapInv`. Blocks tile the heap: each begins at its base or where another
  ends, none overlap, and each ends at the top or where another begins (`Tiles`). A batch's
  cursor and end delimit one free block nobody else's batch has (`Private`). The list holds
  exactly the other free blocks: there is an order of them such that the head is the first and
  each link leads to the next one (`ListOK`), which says that the list is finite, without a
  cycle and complete, and needs no induction. The order is what a step of the proof gives
  anew: a retired tail comes before all, a split remainder too, an unlinked block drops out, a
  sweep orders by address downwards. `Cached` is the hard part: while `gc_free_search_size` is a
  size, `gc_free_search_prev` is a block of the list, and every block up to it but the head is
  smaller than that size; the head is what every search looks at first, and what becomes
  the head pushes the one before it behind itself only when it is smaller or the cache is
  forgotten. `Reached` says the same of a search under way, and `MissOK` of the smallest size
  that failed.
* From it `RangesAreImplemented`: `Found` is `Take`, `Bump` is `Extend` and by then no spare
  range would have done, a retired tail is `Return`, an object from a batch is `Divide`, a sweep is `Collect`: the
  gaps it leaves are the whole room between what is kept, however the dead blocks lay.

`ThreadLifecycleProofs` (any finite set of callers, any bounds on timeouts; a wait may
fail or not):

* `Invariance`: the status is one the worker's progress allows (`StatusFits`) and the one
  each caller has won or seen (`CallersFit`); one caller at a time creates the thread or
  writes its id (`OneClaim`); the kernel handle is in the object's field or in the hands of
  exactly one call (`OwnersOK`); the count of users is the number of Joins with a pin, and
  no closer is past one that waits (`PinsOK`); what the worker returned stays until Close
  clears it (`PayloadOK`); a recycled object is held by nobody (`HeapOK`).
  None of the four properties is inductive: that a closer's handle is open rests on who
  owned it before, that the pins are all gone rests on their count, and that Close comes
  after the worker rests on the status it read some steps ago and nobody may change.
* From it `HandleIsSoundAlways`, `ObjectOutlivesWorkerAlways`,
  `StopIsHonouredAlways`, `JoinMeansDoneAlways`.

`ChannelProofs` (any finite set of threads, any capacity, any values):

* `SignalsAgree`, what the run checks, is `PermitsBalance` and `EventsAgree`.
* `Invariance`: permits add up (`PermitsBalance`), the lock's holder is the one thread in a
  critical section (`GuardOK`), the tail is `size` slots behind the head (`RingOK`), and
  `LagOK`: inside a critical section, how far each event is behind the ring at each
  instruction. `EventsAgree` speaks of the free lock only, so it is inductive only with
  `LagOK`, and `LagOK` only with the balance of the permits: `put_write` has room because its
  thread holds a permit. `OutcomeOK` says which calls are decided.
* From it `PermitsAreBalanced`, `EventsAreRight`, together `SignalsAreRight`, and `ChannelIsAFifo`: a write appends to
  the abstract queue, a read takes its head, wherever the ring wraps (`WriteAppends`,
  `ReadTakesHead`); a refused call maps to a refusal, everything else stutters.

`ThreadPoolProofs` (any finite sets of clients and workers, any jobs, any capacity):

* `Invariance`: `TokensCoverWork` is not inductive, because a worker on its way out looks
  at the queue twice: `Leaving` counts the workers that still need a token to end, which
  leaves out one that saw an empty queue and would still see it so. `EndedOK`: a worker
  ends when nothing is left and nothing can come. `JobsOK` says where every job that
  waits or runs is: in the queue, with one worker, or with the client that brings it.
* `QueueInvariance` and `QueueKeepsOrder` (any jobs, any capacity, any size of the first array):
  the queued jobs are in the cells from the head on, the tail is behind them, and every other
  cell is empty. With that a grown array holds the same jobs in the same order
  (`GrownFacts`), a job is appended behind the others or the oldest is removed, wherever
  the positions wrap, and `_poolEnsureQueueSpaceLocked` never refuses a job there is room for.
* From `Invariance` follow `TokensAlwaysCoverWork` and `PoolIsAJobService`: the insertion is the
  abstract acceptance, `_begin` and `cancel` the two claims of which one wins, the end of
  join the termination, for which `EndedOK` shows that no accepted job is left.

`WhenAnyProofs` (any finite set of waiters, any jobs, any bounds):

* `Invariance`: what a job holds is a registration whose owner knows the slot (`HeldOK`), a
  job that has not ended holds every registration it was given, in different slots
  (`KeptOK`; the same job may be in an array twice), the event is set when, and only when, a
  registered future has ended (`NoticeOK`), the second scan finds what woke the waiter
  (`ResultOK`), and the bound on registrations is never met in mid-call (`RoomOK`).
* From it `ListenersStayLive`, `NoCompletionIsMissed`, `AnswersAreDone`.

`BuildToolsProofs`, release packaging (any builds, trees, tags, number of changes and
attempts):

* `ReleaseInvariance`: what the temporary directory holds at each step is what the input still
  is, unless that input changed since the process began (`PackageOK`); the archive is
  coherent from the moment it is opened (`ArchiveOK`); a digest was taken of a whole archive
  and is the digest of this one, unless it is being replaced or an attempt died doing so
  (`SidecarOK`). `SidecarVouches` is not inductive without the last: an old digest next to an
  archive that has just been opened must be known to be one of a whole archive.
* From it `DigestVouches` and `ArchiveIsCoherent`.

`BuildToolsProofs`, project cache (any inputs, builders and finite set of objects, any number
of builds, edits, kills and power failures):

* `ProjectInvariance`: `ReadsOK` relates what the fingerprint, the emitter and the
  comparison read of each input, as far as each of them has come, to how often the input was
  changed: this is what makes the comparison after compiling sufficient. `PublishedOK`: the
  pointer and every marker describe a whole program of their digest. `StoreOK`: a
  directory that is being filled has no marker and holds nothing but objects of that digest,
  as many as were copied, so that the leavings of a dead attempt are not taken for part
  of the set that is marked. `OutputOK`: what a build has in its hands at each step.
* From it `DeliveryIsClean`, under the restriction on builders named in section 3.

`BuildToolsProofs`, function cache (any compilers that pass the generator's check, any
options, edits and compilations):

* `FunctionInvariance`: `OutputIsClean` speaks of finished builds; inductive is that every
  fragment in the cache is what its function compiles to in every build its key stands for
  (`FragmentsOK`), that cached declarations were computed from the texts in their key
  (`InterfacesOK`), and that a build in progress has produced what a clean build would have
  produced so far (`JobsOK`).
* From it `FunctionsAreClean`. Both assume `Gated`: without it the property is false, as
  `stale_visitor` shows.
* `DeclarationsStayFresh`: declarations a build has are those its visitor writes of the texts
  the build itself parsed, also when they came from a file another build wrote. Inductive is
  `SightedInv`: cached declarations belong to the visitor and the texts in their key, and a
  build looks under the key of what it runs and has parsed. It takes no `Gated`, and
  nothing of the visitor.

`BuildToolsProofs`, Linux runtime (any emitters, labels and literals in any number and of any
length, any number of patches):

* `InductionOverNat`: a set that holds 0 and, with every number, the next holds all numbers.
  It is had from the well-foundedness of < on the naturals, as a fact about sets, and by it
  `MarkedStepByStep` shows that the recursion of emit_runtime over its labels is defined and
  steps as it is written. `MarkedIs` is the loop's invariant: after i labels the output is the
  blob up to the last of them, each marked where the emitter has it. It takes
  `InEmissionOrder`: a label behind its successor would cut bytes out.
* `LinkedIsAssembled` puts that together with `BlobIsCode`: cutting the container at the two
  constants, inserting the pthread thunks and turning exit back into exit_group gives the
  emitted code, byte by byte, although the container stores another number and the range it
  holds is of another length than what replaces it.
* `BlobInvariance`: `LineOK` of the file, and of both sides of every patch that was printed: the
  container holds the legacy implementation once, and the two constants are its bounds.
  `LegacyKept` is not inductive: a patch printed for one emitter applied after that of
  another replaces some of three lines. It replaces the container and the start together or
  not at all where the start moved, because the start can be read off the container
  (`StandsOnce`); when only the container differs, the start is right already.
* From it `BlobIsFaithful` and `LegacyStays`.

The assumptions are those named in the modules. The sets that are counted (threads, callers,
clients, workers, waiters, objects) are finite, the "nobody" values and the values for a
missing or lost file are none of the things they stand beside, the log and the channel have
room for an entry, sizes are positive and a batch has room for every small object and more, there is at least one worker, a free cell's 0 is no job. `InputsAssumption` says that a program has an input and
`CompiledAssumption` that no compiled object is the value for a missing one.
`EmitterAssumption` and `CommittedAssumption` are what the script takes of its two inputs
without a look: labels lie in the code, exit before the thread thunk and that before fmod,
exit leaves by exit_group ("emit_runtime deliberately patches it to exit_group(231)"), and
the 864 bytes of the legacy implementation, which are code of a kind nothing else in the
container is, stand in it once. They hold of the committed file, and TLC evaluates them for
the run's.
`DeclarationsAssumption` is another with content: a visitor generated from the node types of
its parser writes different streams for declarations in which a caller could tell a
difference. TLC evaluates it, for the visitor that `AstVisitor` defines over the program of
`ProgramView`, and `ViewIsExact` checks the same and its converse; so what is proved of
the function cache is that its keys and its order of work are right if the
visitor is, whatever the visitor is.
The types of `Safepoint`, `GCRequest`, `SnapshotGC` and `FreeList` are proved (`TypeCorrect`,
`HeapTypes` of `HeapInvariance`) and no run repeats them; elsewhere the type invariant is a conjunct of the first invariant of the run.
The inductive invariants were checked with TLC on the instances of the runs, `HeapInv` with
the order that the links of the list give.

What stays with TLC, and why:

* All liveness (`WorldStopCompletes`, `ParkedResumes`, `BlockingCallsReturn`,
  `CloseReleasesAll`, `NoLostWakeUp`, `AcceptedJobsEnd`, `WorkersEnd`, `WhenAnyReturns`,
  `CollectReturns`): fairness and ENABLED are out of the prover's reach.
* That the visitor is exact (`ViewIsExact`, and `DeclarationsAssumption`, which is half of
  it): it is defined by recursion on the AST with RECURSIVE operators, which the prover does
  not accept. build_tools checks it for the visitor of `AstVisitor` and the program of
  `ProgramView`, of builds that parse each pair of texts.
* The four violations, of course.

## 5. Plan

1. Done: the managed-thread runtime, Thread, the concurrent cycle and its requests,
   channel, pool and whenAny, with their abstract specifications; proofs of the
   handshake, of the cycle and of its requests.
2. Done: the caches of a build, the visitor and its generator, the check of the Linux
   runtime, release packaging; the proof of the last.
3. Done: proofs of the Thread object, the channel and its FIFO, the pool and its service,
   whenAny, the project cache and the function cache; the circular queue of the pool as a
   module, implementing the sequence `ThreadPool` takes it for; proofs of the embedded
   runtime and of the interface files, so that every safety property the runs check, but
   for `ViewIsExact`, is a theorem; the heap of a synchronously collected program, with the proof that it
   implements disjoint ranges.
4. Next, models: the size bins of the concurrent allocator, the Linux primitives of
   `std/threading.ml` (gates and condition variables implementing Event and Semaphore), the
   range barrier of copyArray.
5. Then: the order of module initialisation, label patching with short branches, the
   hash map's probes.

Abstract specifications worth stating there: a flag and a counter for Event and Semaphore,
and `RangeHeap` again for the bins.

## 6. Where the code and its documentation part

* **join_during_startup** - Join waits for the publication of the native handle
  while the status is STARTING. Stop changes STARTING to STOP_REQUESTED, and Start
  stores the handle later: a Join in between finds another status and no handle, and
  answers false at once, whatever its timeout. The language reference promises that a
  Join racing Start "waits for native-handle publication instead of failing early".
* **channel_receive_after_close** - `receive` looks for a value, finds none, then asks
  whether the queue is sealed, two critical sections. A send and a close in between
  make it report a drained channel while it holds the value that was sent.
* **thread_pool_stop** - `stop` promises to "cancel every job that is still queued" and
  walks the circular queue. A job a worker has taken and not begun still has the status
  Queued, and runs after stop has returned.
* **stale_visitor** - the committed `mlc/incremental_ast.ml` is not what its generator makes
  of the parser's node types: its branches for classes and interfaces have none of the
  fields of inheritance. A class that gets another base leaves the key of the declarations
  as it was, and a function of another module that asks `is` for that base is replayed
  with the old answer, where docs/INCREMENTAL_BUILDS.md promises the output of a clean build.
  The generator's `--check` reports the difference, and its own comment says "Run with --check in
  tests", but nothing in the repository runs it. The run leaves the check out (`Gated` is
  FALSE); in build_tools a compiler is installed only when it passes, and the outputs
  are clean.

Also seen while modelling, and claimed by no property: an allocator out of memory
retries only when it has the heap monitor and no cycle is active, and other threads may
start a cycle between its two looks for ever; `CollectReturns` is therefore stated of
the explicit call alone.

## 7. Not modelled

The compiler proper (front end, lowering, encoder, object writers) is sequential:
its correctness is a relation between source and machine code that a model of this
size would only restate; parts with state of their own (relaxation, initialisation
order) are in the plan. Of the caches, the reading of the manifest, the token cache,
the field-by-field validation of damaged records and the byte layout of the codec are
left out: a damaged record is a miss. Two builds of one project at the same time are
left out too, and the code does not prevent them (section 3). The modules of `std/` that wrap the
operating system or a system library are I/O. Codecs, containers and pure helpers are
sequential functions with known-answer tests; those whose representation differs from
the abstraction are in the plan. PROJECT.json lists every component with its status,
every hazard with the line it bites at, and the lines each definition stands for.
