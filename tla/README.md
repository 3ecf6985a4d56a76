# A TLA+ verification project for GPUInfra

GPUInfra runs frames through GPU tasks on NUMA-local worker threads. Its core is
a bounded cache of frames in GPU memory that hands out scoped leases; around it
are the owner of the per-graph GPU data, the process-wide table of GPU contexts,
the tasks and the scheduler that execute frames, the program that drives several
schedulers, and a three-stage pipeline of its own. This project models these
parts in TLA+, checks small instances with TLC and proves with TLAPS, for
instances of every size, every safety property the runs check, and that cache,
residency table and scheduler implement their abstract specifications.

## 1. The system: inventory

| Component | State | Operations | Interacts with |
|---|---|---|---|
| `GpuDataCache` (src/DataCache/GpuDataCache.cpp) | lifecycle flags, entries, residency table, empty stack, recency and fill-order lists, counts of leases and sleepers | `initialize`, `getCacheData` (with a bounded wait), `resetCache`, `release`; completion and abort called back by a lease | called by any number of tasks; waits on one condition variable |
| `GpuDataAccess` | one lease: status, entry, stream, owner | `freeCacheData` (synchronize, then complete), move, destructor (abort) | calls back into its manager |
| `GpuDataCacheEntry` | device buffer, state Empty / Loading / Valid, readers, discard mark, metadata | allocate, free, link fields | owned by the manager |
| `GpuResidencyTable` | open-addressing slots | `initialize`, `find`, `insert`, `erase`, `clear`, `release` | under the manager's lock |
| `CacheStatistics` | counters | updated inside the manager's critical sections | snapshot and reset |
| `StaticData`, `StaticGpuData` | frame layout, the cache, static buffers, upload stream | `init`, `upload`, `finalize`, `execute`, `validateFrame`, `getCacheData`, `release` | owns the cache; kernels of leases read the static buffers |
| `GpuContextManager`, `GpuTopology` | retained contexts, each with a slot table of tasks | `init`, `shutdown`, `registerTask`, `makeTaskCurrent`, `unregisterTask`, GPU resolution | static, one lock, an atomic read outside it |
| `DummyGraph`, `PhaseGate`, `GraphSink` (demo/Grape) | ready queue, free tasks, phase counters, worker threads, lifecycle flags | `initialize`, `start`, `changeParameters`, `startPhase`, `waitForPhase`, `stop`, `shutdown`, the worker loop | shares `cancellation` with all graph copies; owns the tasks and `StaticData` |
| `DummyTask` and its algorithms (demo/Algo) | lifecycle, CUDA handles, applied revision, pinned staging, stream, outputs | `registerParameters`, `load`, `start`, `execute`, `notifyParameters`, `stop`, `unload` | registers with `GpuContextManager`, takes leases, submits to a stream the device runs later |
| `ParameterRegistry` | two typed values, revision, seal | set, seal, snapshot | the graph changes it, tasks apply snapshots |
| `ResultPipeline` | slots in three queues, their atoms, start barrier, failure flag | `runPipeline`; `TaskA`, CPU tasks, `TaskB` in three threads | a cache of its own, leased with Keep or Discard |
| `main.cpp` | the graphs, `cancellation`, two gates, success flags | one pass: contexts, initialize, start, two phases, stop, shutdown, exit status | drives all graphs through one thread |
| `NumaExecutor` | none | runs or starts a callback on a pinned thread | failures surface in its callers |
| diagnostics, benchmark tools | none shared | | |

What is hard here: requests that sleep and are overtaken by every other
operation; synchronization failures that become known in one critical section
and are acted on in another; discards asked for by one of several readers; CUDA
calls that fail half-way through allocating or freeing; lists, table and entries
that must agree after any sequence of fills, hits, evictions and resets; flags
read outside the lock; results that four different code paths may deliver; work
that is still on a stream when the host goes on; stages that wait for each other
through one condition variable; graphs of which one refuses what the others
accepted.
`PROJECT.json` lists these hazards at their lines, with the properties that
guard them.

## 2. Modules

| Module | Models | Remarks |
|---|---|---|
| `GpuDataCache` | manager, entries, leases | one action per critical section |
| `LeaseStore` | what the manager promises | abstract specification, refined by `GpuDataCache` |
| `GpuDataCacheInvariant`, `GpuDataCacheProofs` | | the inductive invariant; its proof and the theorems (so too the pairs below); also the proofs of the next two specifications, which extend the cache |
| `GpuDataCacheStatistics` | the counters | extends `GpuDataCache`, a product with its steps |
| `StaticData` | `StaticData` and `StaticGpuData` | composed with the cache: extends `GpuDataCache` |
| `StaticDataInvariant` | | extends that of the cache |
| `GpuResidencyTable` | the hash table, `eraseSlot` loop step by step | refines `ResidencyMap` |
| `ResidencyMap` | a partial map | what `GpuDataCache` uses for the table |
| `IntrusiveList` | the doubly linked lists through the entries | proved to be the sequences `GpuDataCache` uses |
| `CacheStructureProofs` | | the proofs of table and lists, with their invariants |
| `ListLemmas` | | removing from and appending to sequences without repetition |
| `GpuContextManager` | contexts, registration, topology | |
| `GpuContextManagerInvariant`, `GpuContextManagerProofs` | | |
| `GraphContract` | what graph copies promise `main` | abstract specification; refined by `DummyGraph` for one copy |
| `DummyGraph` | the scheduler of one graph copy | |
| `DummyGraphInvariant`, `DummyGraphProofs` | | with the refinement of `GraphContract` |
| `MainProgram` | `main()` | composed with any number of copies: extends `GraphContract` |
| `MainProgramInvariant`, `MainProgramProofs` | | |
| `DummyTask` | the tasks of a graph, their algorithms, the parameter registry | clients of `LeaseStore` |
| `DummyTaskProofs` | | the invariant and its proof |
| `ResultPipeline` | the pipeline, its scheduler and tasks | clients of `LeaseStore` |
| `ResultPipelineInvariant`, `ResultPipelineProofs` | | |
| `MC*.tla`, `MC*.cfg` | | instances for TLC |

Definitions commented *Mutant* are wrong variants of the definition after them.
Each names a plausible mistake; substituted for the original they make the
property they belong to fail, which shows that the property constrains the code.
Nothing else uses them.

### GpuDataCache

An element of `Accesses` is a `GpuDataAccess` object together with the
`getCacheData` call that fills it; `pc` says whether it is idle, asleep in
`waitForCacheChange`, holding a lease, holding one whose synchronization failed
(`syncFailed`, between `noteSyncFailure` and completion) or drained. `Admins`
are threads in `initialize`, `release` or `resetCache`; the first two have an
unlocked middle (allocation, freeing), so they are two actions each. An action
is a whole critical section: finding the key, choosing and evicting a victim,
inserting the key and reserving the entry are one step, as they are one hold of
the lock. A wake-up re-examines the cache from the start, as the loop does.
`notified` and `expired` say why a sleeper may wake; a sleeper may also wake for
no reason. `content` and `undrained` have no counterpart in the code: they say
what the device memory holds and which buffers a failed synchronization left
work on, and exist so that properties can speak of them.

Data is abstracted to keys, *shapes* (the rest of the metadata) and a wait that
is zero or positive. Pointer, stream and size arguments that are rejected before
any state changes are stuttering. There is one replica per entry, the limit the
code enforces.

### GpuResidencyTable

Slots, a hash function chosen arbitrarily, and the loops of `insert`, `find` and
`eraseSlot`. Sizes have `Width` bits, so the overflow tests of `initialize` are
met. `eraseSlot` takes one step per scanned slot; the refinement maps the middle
of an erase to the map with the key already gone.

### StaticData

The cold-path operations of both classes, each a step that succeeds or stops at
an arbitrary CUDA call and keeps what it had made until then, around the
unchanged actions of the cache. The framework serializes the cold
path, but leases and sleepers may be there when `release` is called. Sizes are
`SizeBits` wide.

### GpuContextManager

`init` holds the lock throughout but is one step per device, because
`initialised` is read without it. `registerTask` and `gpuIdsForCurrentNumaNode`
are split at their unlocked test. A context carries an identity that tells two
initializations apart, so a dangling pointer cannot look valid. Host topology
(reported node of each device, the only online node, the node of each task) is
chosen in `Init` in every way. Releasing a primary context is assumed to
succeed: the code only logs the error.

### DummyGraph

One controlling thread makes the calls, as `main` and the tests do; each public
method holds `schedulerLock` from its tests to its end and is one action, except
`initialize` and `shutdown`, which wait for workers in the middle. A worker is
asleep, parked (about to test its predicate), or holds a frame: at the gate,
executing, about to deliver, about to return the task. `cancellation` may be
raised by other graph copies at any time and without a notification. Failures of
`NumaExecutor` (the callback never runs), of a parameter notification at any
task, of an execution and of unloading are alternatives of the actions. The two
parameters are one value. `sink` keeps the results per frame where `GraphSink`
keeps two counts.

The refinement mapping to `GraphContract` has one graph copy; it forgets workers,
tasks, queues and counters and keeps the results, the frames in execution, and
phase and lifecycle as the caller can tell them apart.

### MainProgram

`main()` is one thread: `pc` is where it is and `index` the graph its loop is at,
so a call on a graph is one step and the workers of every graph run in between.
`runPhase` (warmup) and the pair `startPhase`, `waitForPhase` (timed) do the same
and share their actions. A graph is whatever `GraphContract` allows; `shutdown`
is two steps, since workers finish their frames in the middle. `fault` remembers
that a call outside this logic failed, so that a property can tell a failure from
a misjudgement. Argument parsing, sizing and the report are left out; frame
numbers that do not fit are an alternative of `ContextsReady`.

### DummyTask

A task's `execute` is four steps: the lease; the submission, up to the call that
fails if one does; the one synchronization inside `freeCacheData`; and the end of
the lease with the collection of the outputs. The device is a process: `stream`
holds what was submitted and `DeviceStep` runs its oldest operation, so buffers
change when the device gets there. Bytes are named by the frame they come from;
the upload, a kernel and a copy back move names. CEL, SDD and MI have the same
host code and are `AlgoCount` instances of it; repetitions of a copy or a kernel
(the size multipliers) are one. None of the three asks for scratch bytes, so a
loaded task owns no `d_scratch`. When the wait fails, work may remain on the
stream after `execute` has returned. The caller is more liberal than
`DummyGraph`: it calls in any order between executions and goes on after a
failure. The registry holds a name and a blob under one revision number that
stops at `MaxRevision`.

### ResultPipeline

One process per worker thread and one for the thread in `runPipeline`. `take`,
`pass`, `cancel` and `awaitStart` are critical sections with their notification;
a thread that finds its predicate false sleeps (`Sleep`) until `changed` is
notified. `execute` of A and B is the lease, the submission, the synchronization
and the end of the lease, each of which may fail. `load` and `unload` work
through five resources and may stop after any of them. An atom keeps what the
stages test: its key, `ready`, `cpuStages`, and whose bytes its result holds.

## 3. Runs

All are exhaustive within two minutes or so.

| Run | Question | Bounds |
|---|---|---|
| `cache_leases` | Are fills exclusive; do readers keep their payload; can a request sleep through a change that could serve it; does a discard happen? | 3 requests, 1 lifecycle thread, 2 keys, 2 shapes, 1 entry: three requests on one entry is the smallest case with a filler, a reader and a sleeper |
| `cache_eviction` | Do entries, lists and table stay in step; are the defensive branches dead; is `LeaseStore` implemented? | 2 requests, 3 keys, up to 2 entries, LRU and FIFO: one key more than entries forces evictions past an entry with readers |
| `cache_lifecycle` | Can a lifecycle call pass a lease or a sleeper; does a failure stick; does every call return? | 2 requests, 2 lifecycle threads, 2 keys, up to 2 entries: partial frees need two entries |
| `cache_statistics` | Do the counters reconcile? | 2 accesses making at most 4 requests (`MaxRequests`) |
| `residency_table` | Is the table the map it stands for? | 4 keys under every hash function of the set; limits that are zero, small, and beyond the width |
| `static_data` | Order of release, completeness of Ready data, sizes | 2 requests, 2 shapes, 2-bit sizes |
| `intrusive_list` | Are the links the sequence? | 5 entries, every order of operations |
| `graph_phases` | One result per frame, exclusive tasks, no execution across a lifecycle boundary; is `GraphContract` implemented; do phases end and calls return? | 3 workers, 2 tasks, 1 + 3 frames, 2 parameter values: more workers than tasks and as many timed frames as workers |
| `context_manager` | Dangling contexts, slots, driver retains, affinity | 3 tasks, 2 devices, 2 nodes, 2 initializations (`MaxInits`) |
| `main_program` | Do the graphs run phases together; is the exit status right; does `main` return? | 2 graphs, 1 + 2 frames each: one graph can fail before, while or after the other works |
| `task_execution` | Are outputs of the right frame; is staging memory reused under pending work; can a task run with mixed parameters? | 2 tasks, 2 algorithms, 2 frames, 1 entry (hit, fill and fallback all occur), both execution models, 3 revisions (`MaxRevision`: two set the initial pair, so a change of both values meets the limit), 2 executions (`MaxExecutions`: one leaves work behind, the next meets it) |
| `result_pipeline` | Are slots conserved; does the pipeline ever fail on its own; is its verdict right; does it return? | 4 frames, 2 slots, 2 entries, 2 CPU stages: every slot is reused, entries are evicted under Keep, and A, the CPU tasks and B can all be busy or all wait |

Three properties are conjunctions whose parts are named in the modules:
`Bookkeeping` (`LeaseAccounting`, `ListsMatchEntries`, `ResidencyMatchesEntries`,
`LeasesCanEnd`), `CountersReconcile` and `SchedulerAccounting`
(`ResultsExactlyOnce`, `TaskCheckout`, `PhaseAccounting`).

Accesses, tasks and parameter values are interchangeable and are symmetry sets in
the runs without liveness properties. Four runs do not check for deadlock, because
the system comes to an end: `context_manager` and `task_execution` when their
bounds are used up, `main_program` and `result_pipeline` when the program returns.

`ImplementsStore` says that every behaviour of the manager is one of
`LeaseStore`: a store of published payloads of bounded size, where a lease is a
hit on a published payload, a reservation nobody else reads, or a fallback.
`DummyTask` and `ResultPipeline` are checked over `LeaseStore`, so what they show
holds over the manager. In the same way `ImplementsContract` shows that a graph
copy is one of `GraphContract`, over which `MainProgram` is checked.

### Fairness

`cache_lifecycle` (`EveryRequestReturns`) assumes that deadlines pass and that a
sleeper that was notified, or whose deadline has passed, is scheduled. Nobody is
obliged to end a lease or to make a request or a lifecycle call: a request returns
even when every lease is kept for ever.
`graph_phases` assumes that worker threads and a thread inside a call are
scheduled and that an execution ends. It does not assume that the caller opens
the gate: phases are required to end only once it is open, `shutdown` in any
case. `EraseTerminates` assumes that a started erase goes on.
`main_program` assumes that `main` is scheduled, and that a graph goes on with a
phase whose gate is open; a graph behind a closed gate owes nothing. Both are what
`CallsReturn` and `PhaseEnds` establish for a graph.
`result_pipeline` assumes that its four threads are scheduled and that CUDA calls
and `getCacheData` return, the latter by `EveryRequestReturns`. A thread asleep on
`changed` is not obliged to wake: it takes a notification, so a missing one shows.

### What the runs show

Every property holds; no disagreement between code and documents was met. Points
that a reader of the code may wonder about and that the runs settle:

- the checks in `completeAccess`, `abortAccess` and the fill path that would
  refuse a lease never fail (`LeasesCanEnd`, `RequestsAreServable`);
- a request is never left asleep while an entry could serve it, although only
  some operations notify (`NoLostWakeup`);
- `phaseActive` is the only protection of the caller's `PhaseGate`, and it is
  enough (`GateOutlivesItsWorkers`);
- cancellation by another graph copy reaches no sleeping worker, and the phase
  ends all the same because a worker that is awake, or returns its task, passes
  it on (`PhaseEnds`);
- the unlocked test of `initialised` is harmless (`RegistrationsAreExact`).

- the pipeline never fails on its own: neither slot reuse nor eviction between A
  and B makes a stage reject an atom (`NoSpuriousFailure`);
- a worker that fails before the start barrier frees the caller and the two other
  workers, wherever they wait (`PipelineReturns`);
- a torn pair of parameters can be left in the registry, at its last revision
  only, and reaches no task, because no snapshot is taken of it
  (`UsableIsComplete`);
- after a failed synchronization a task may be called again while its stream is
  busy; it does not touch the staging buffer, because the cache refuses every
  request from then on (`StagingIsQuiet`);
- when one graph refuses a phase, the graphs that accepted it execute none of its
  frames, because cancellation is raised before the gate opens
  (`PhasesAreCommon`).

## 4. Proofs

Each proof module proves `Spec => []IInv` for an inductive invariant of its own,
one lemma or step per action and, under it, one per part of the invariant that the
action touches; the theorems follow from it. All hold for every value of the
constants that the named assumptions of the modules allow. Every invariant was
checked with TLC on a small instance before it was proved.

**The cache** (`GpuDataCacheProofs`; `CacheAssumption`: finitely many accesses,
the default key is a key, the default shape is not a valid one). Proved: `TypeOK`,
`Bookkeeping` with its four parts, `FillIsExclusive`, `ReaderSeesItsFrame`,
`NoFillOverUndrainedWork`, `UseImpliesRunning`, `DiscardIsPending`,
`NoLostWakeup`, `RequestsAreServable`, the action properties `DiscardIsFinal` and
`FailureIsSticky`, and the refinement `ImplementsStore`.

The properties are not inductive alone. That a reader sees its frame needs that
its entry stays Valid while it reads, hence that eviction skips entries with
readers, hence that the recency list holds idle entries only and that readers are
counted exactly; and a fill publishes its payload correctly only if the entry it
loads belongs to nobody else. `IInv` therefore adds to the properties what a lease
says of its entry (`AccessShape`, `LeaseShape`), what an entry's state says of its
fields (`EntryShape`), the lifecycle of the manager (`Lifecycle`), that no list
holds an entry twice, and that an undrained buffer is known to the manager or to
the lease about to report it (`UndrainedIsKnown`). Counting leases uses the
library's facts on cardinality; removing from and appending to the lists uses
`ListLemmas`. `NoLostWakeup` needs the same for the sleepers (`SleepersStuck`: one
without a notification finds nothing to lease), which every action keeps because
it notifies, or makes no entry idle or valid. `ImplementsStore` maps entries to
the set of published payloads and an access to the lease it holds; every action is
a step of `LeaseStore` or a stutter, which needs the invariant wherever an entry
is looked up through a key.

**The statistics** (`GpuDataCacheProofs`, `StatisticsReconcile`). `CountersReconcile`
for any number of requests, resets and retries. `StatInv` adds to it the `IInv` of
the cache, which every step keeps because it is a step of the cache, and that the
calls whose local flags `blocked` and `waited` are set are the sleepers. From `IInv`
come the facts the counting rests on: the branches of a pass exclude one another, so
a pass counts one outcome; a candidate is empty, or published and then its eviction
is counted; the end of a fill finds its entry loading and the end of a read finds it
published, so each changes the two sums by what it counts.

**The residency table** (`CacheStructureProofs`; `TableAssumption`: the answer for an
absent key is no entry index, hashes and limits are natural numbers). `FindIsExact`
and the refinement `ImplementsMap`, for every set of keys, every hash function, every
limit and every table size. `TableInv` says that a search for a resident key meets
no free slot (`PathsUnbroken`), that no key is stored twice, and that at least half
of the slots are free (`TableSizes`), so that every search stops. In the middle of
`eraseSlot` there is a hole: a key whose path leads over it is still ahead of the
scan (`HoleIsAhead`), and what was scanned since the hole last moved is occupied
(`ScanFits`), so that when the scan meets a free slot no path leads over the hole. A
shift moves the hole to the slot of a key that may stand in front of it, by the
comparison of probe distances in the code; the arithmetic is that of distances on a
ring (`RingFacts`, `ScanFacts`). The refinement maps a slot's key to its entry; insert
and erase change that map at one key, and the steps of a running erase not at all.

**The lists** (`CacheStructureProofs`, any number of entries). The links through
the entries read from either end are the sequence of the model
(`LinksAreTheOrder`). With it the sequences of `GpuDataCache` stand for the
pointer manipulation of the code, not only in small lists.

**Static data** (`GpuDataCacheProofs`; `SizeAssumption`: at least one bit, and the
number of sizes is a positive number, said because the provers know nothing of
powers). Every behaviour of `StaticData` is one of `GpuDataCache`
(`CacheIsUsedAsSpecified`), so the theorems on the cache hold under it
(`ReadersAreBacked` collects them). `StaticBuffersOutliveLeases`,
`ReadyIsComplete`, `FreshStart` and `SizesAreExact` follow from `DataInv`, which
adds to `IInv` that users of the cache came through a gate that is still open,
that buffers are freed after the cache, and that an attempt on its way to Ready
has no failed upload.

**The context manager** (`GpuContextManagerProofs`; at least one device, node 0
exists, the mark of a free slot is no task). `RegistrationsAreExact`,
`RetainsAreBalanced` and `TasksStayOnTheirNode`, for any topology. The invariant
says that the list of contexts is empty, being built under the lock, or complete,
and that only a complete one has tasks; that is why the unlocked test is harmless.
That a device resolved before a shutdown is right after the next `init` needs that
its node depends on the host alone.

**The scheduler** (`DummyGraphProofs`; finitely many workers, at least one, and
the sizes `SizesAssumption` lists). `SchedulerAccounting` (one result per frame,
task checkout, phase counters), `GateOutlivesItsWorkers` and
`ExecutionsAreFenced`. The three rest on each other: a frame gets one result
because it is queued once or held by one worker, a phase ends late enough because
`inFlight` counts those workers, and an execution meets started tasks because
nothing that stops them runs beside a phase. `ImplementsContract` needs `RInv`
besides: nothing fails without a cancellation, and a shutdown that waits has given
every frame that was never submitted its result.

**The main program** (`MainProgramProofs`; graphs are numbered from one, at least
one timed frame, as the argument parser demands). `PhasesAreCommon` and
`ExitIsHonest` for any number of graphs that keep `GraphContract`. A gate that is
open before cancellation belongs to a phase everyone accepted; each loop of `main`
leaves behind what the next one builds on (`Acceptance`, `Verdicts`, `RunSoFar`,
`Closing`).

**The pipeline** (`ResultPipelineProofs`; `ConfigAssumption`: the counts
`runPipeline` checks are positive). `SlotsAreConserved`, `NoSpuriousFailure`,
`NoLeaseAcrossCpuGap` and `VerdictIsHonest`, for any number of frames, slots,
entries and CPU stages, over any cache that keeps `LeaseStore`. That B accepts a
frame is the end of a chain: the queue between two stages holds, in frame order,
what the first has passed and the second has yet to take (`InOrder`); so A,
reusing a slot, overwrites a frame B is done with (`FreeAtoms`); so an atom on its
way has what the stages before wrote (`PassedAtoms`, `HeldBy...`); A never finds
its own frame published, as only frames behind A are (`PublishedFit`); and what a
hit copies back is the frame's bytes (`LeasesFit`, `CopiesFit`). `FaultsAreTold`
says that a fault is known to the flag or to a stage about to raise it, and with
`CountersFollowB` makes the verdict exact.

**The tasks** (`DummyTaskProofs`; `TaskSizes`: at least one algorithm, frame and
entry; `ParameterValues`: there is a value to set). `ResultsAreExact`,
`UsableIsComplete` and the action property `StagingIsQuiet`, for any number of tasks,
algorithms, frames, revisions and executions, over any cache that keeps `LeaseStore`.
One wait is enough because of what it waits for: while an execution has submitted its
work, the stream holds the end of that execution's program and every operation before
it has done its part (`Pending`), so an empty stream means outputs of this frame
(`Done`), in both execution models. Nothing older is on the stream, as only a failed
wait leaves work behind and the cache grants nothing after it (`StreamFits`); and a
read finds the frame's own bytes, as a fill publishes only what has drained
(`PublishedFits`). For the parameters, a task loads from a registry that still is as
it was configured (`RegistryIsWhole`), snapshots have both values they were taken for
(`SnapshotsAreWhole`), and a task that could be started uses one of them (`UsableFits`).

Only model-checked is liveness, as the prover has no fairness: `EveryRequestReturns`,
`PhaseEnds`, `CallsReturn`, `EraseTerminates`, `MainReturns` and `PipelineReturns`. What
`EraseTerminates` needs beside fairness is proved: the scan always has a free slot
ahead (`ScanFits`).

## 5. Not modelled

- What the kernels of the algorithms and of the pipeline compute: synthetic
  arithmetic. Their host code is modelled.
- Diagnostics, NVTX ranges, `CUDA_CHECK` printing, `CudaDeviceGuard`:
  thread-local or stateless, and nothing reads them back.
- The benchmark tools: single-threaded drivers that replay an access pattern
  against the cache, or call `runPipeline`, and print what they measured. The
  calls they make are among those the models of cache and pipeline allow.
- Argument parsing, image sizing, sysfs parsing and thread pinning: input and
  output, or constants of a run.
- Wait durations of the statistics, latencies and throughput: clock arithmetic.

## 6. Plan

Done: the cache with its contract, invariant and proofs; statistics; residency
table; lists; static data; context manager; graph scheduler with its contract;
tasks, algorithms and parameters; result pipeline; the main program.

Proved: every invariant and every safety action property that a run checks, and the
three refinements, of `LeaseStore`, `ResidencyMap` and `GraphContract` (section 4).

What remains is outside the tools, or small beside it:

1. Liveness for every instance: the arguments behind the six temporal properties
   (a deadline that passes, a count of frames that falls, a scan that comes closer to
   a free slot) need fairness and `ENABLED`, which this prover does not handle.
2. Fill contents byte by byte, and the layout arithmetic of the algorithms: nothing in
   the host code depends on them.
