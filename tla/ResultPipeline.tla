---------------------------- MODULE ResultPipeline ----------------------------
(***************************************************************************)
(* demo/ResultPipeline: three worker threads (TaskA on the GPU, the chain  *)
(* of CPU tasks, TaskB on the GPU) hand a bounded set of atom slots round  *)
(* three queues that share one lock and one condition variable, while A    *)
(* and B lease the result of a frame from a cache of their own.  The       *)
(* thread that called runPipeline creates them, releases them together,    *)
(* joins them and cleans up.                                               *)
(*                                                                         *)
(* The cache is the store GpuDataCache is shown to implement (LeaseStore). *)
(* A result is named by the frame whose bytes it was computed from.  Any   *)
(* CUDA call, thread creation or allocation may fail; fault remembers that *)
(* one did.                                                                *)
(***************************************************************************)
EXTENDS Integers, Sequences, SequencesExt, FiniteSetsExt

CONSTANTS FrameCount,   \* config.frames
          InFlight,     \* config.inFlight
          Entries,      \* config.entries
          CpuStages     \* config.cpuStages

\* The bounds runPipeline checks before it starts, without their upper limits.
ASSUME ConfigAssumption == {FrameCount, InFlight, Entries, CpuStages} \subseteq Nat \ {0}

Frames == 1..FrameCount
SlotCount == IF InFlight < FrameCount THEN InFlight ELSE FrameCount
Slots == 1..SlotCount
GpuStages == {"A", "B"}
Stages == {"A", "Cpu", "B"}
Next3 == [s \in Stages |-> CASE s = "A" -> "Cpu" [] s = "Cpu" -> "B" [] s = "B" -> "A"]

\* What ResultTaskResources::load acquires, in this order: ctx, stream, h_in,
\* d_input, d_scratch.
AllResources == 5

VARIABLES
    queue,       \* stage -> the slots waiting for it: freeSlots, cpuQueue, consumerQueue
    ready, active, peak, start, failed,   \* the rest of Scheduler
    sleeping,    \* threads waiting on Scheduler::changed
    atom,        \* slot -> its ResultAtom
    worker,      \* stage -> its thread
    runner,      \* where the thread in runPipeline is
    owned,       \* GPU stage -> how many of its resources it has acquired
    stored,      \* frame -> the bytes behind its published cache entry
    completed,   \* measurement.completed
    hits, uploads,   \* TaskB::hits; uploadedBytes in frames
    keep,        \* config.retention is Keep
    fault,       \* history: some external call failed
    verdict,     \* what runPipeline returned
    capacity, broken, published, lease    \* the result cache

schedulerVars == <<queue, ready, active, peak, start, failed, sleeping>>
cacheVars == <<capacity, broken, published, lease, stored>>
runnerVars == <<runner, verdict, keep>>
counterVars == <<completed, hits, uploads>>
vars == <<schedulerVars, cacheVars, runnerVars, atom, worker, owned, counterVars, fault>>

Cache == INSTANCE LeaseStore
    WITH Accesses <- GpuStages, Keys <- Frames, Shapes <- {"result"}, MaxEntryCount <- Entries

Result(f) == [key |-> f, shape |-> "result"]

\* frame and result hold the bytes of frame 0 until the first use: makeAtom(0, bytes).
FreshAtom == [frameId |-> 0, frame |-> 0, result |-> 0, checksum |-> 0, ready |-> FALSE, cpuStages |-> 0]

Init ==
    /\ queue = [s \in Stages |-> <<>>]
    /\ ready = 0 /\ active = 0 /\ peak = 0 /\ start = FALSE /\ failed = FALSE /\ sleeping = {}
    /\ atom = [i \in Slots |-> FreshAtom]
    /\ worker = [s \in Stages |-> [pc |-> "absent", frame |-> 1, slot |-> 0, ok |-> FALSE, h_in |-> 0]]
    /\ runner = "configure" /\ verdict = FALSE /\ keep \in BOOLEAN
    /\ owned = [s \in GpuStages |-> 0]
    /\ stored = [f \in Frames |-> 0]
    /\ completed = 0 /\ hits = 0 /\ uploads = 0 /\ fault = FALSE
    /\ Cache!Init

-----------------------------------------------------------------------------
(* Scheduler.                                                              *)

NotifyAll == sleeping' = {}

\* cancel(), called by a thread of the pipeline after a failure.
Cancel == failed' = TRUE /\ NotifyAll /\ UNCHANGED <<queue, ready, active, peak, start>>

\* Mutant: a slot is handed on without waking anyone.
PassQuietly(s, completing) ==
    /\ queue' = [queue EXCEPT ![Next3[s]] = Append(@, worker[s].slot)]
    /\ active' = IF completing THEN active - 1 ELSE active
    /\ UNCHANGED <<ready, peak, start, failed, sleeping>>

\* pass(): to the queue of the next stage.
Pass(s, completing) ==
    /\ queue' = [queue EXCEPT ![Next3[s]] = Append(@, worker[s].slot)]
    /\ active' = IF completing THEN active - 1 ELSE active
    /\ NotifyAll
    /\ UNCHANGED <<ready, peak, start, failed>>

\* Where each thread waits on changed, and for what.
Waits(t) == IF t = "runner" THEN runner = "barrier" ELSE worker[t].pc \in {"await", "take"}
MayProceed(t) ==
    failed \/ (CASE t = "runner" -> ready = 3
                 [] t \in Stages /\ worker[t].pc = "await" -> start
                 [] OTHER -> queue[t] # <<>>)

\* Under the lock a wait either finds its predicate true or goes to sleep.
Sleep(t) ==
    /\ Waits(t) /\ t \notin sleeping /\ ~MayProceed(t)
    /\ sleeping' = sleeping \cup {t}
    /\ UNCHANGED <<queue, ready, active, peak, start, failed, atom, worker, owned, counterVars, fault,
                   cacheVars, runnerVars>>

Passes(t) == Waits(t) /\ t \notin sleeping /\ MayProceed(t)

Goto(s, pc) == worker' = [worker EXCEPT ![s].pc = pc]

\* A worker that returns after cancel(), or whose body threw.
Abandon(s) == Cancel /\ Goto(s, "exit")

-----------------------------------------------------------------------------
(* A worker up to its first frame.                                         *)

\* The first half of awaitStart(loaded).
Announce(loaded) ==
    /\ ready' = ready + 1
    /\ failed' = (failed \/ ~loaded)
    /\ NotifyAll
    /\ UNCHANGED <<queue, active, peak, start>>

\* NumaExecutor's thread pins itself and runs the callback either way; a
\* failed load keeps what it acquired before the call that failed.
Load(s) ==
    /\ worker[s].pc = "born"
    /\ \E acquired \in 0..AllResources :
        /\ s \notin GpuStages => acquired \in {0, AllResources}
        /\ owned' = [t \in GpuStages |-> IF t = s THEN acquired ELSE owned[t]]
        /\ Announce(acquired = AllResources)
        /\ fault' = (fault \/ acquired < AllResources)
    /\ Goto(s, "await")
    /\ UNCHANGED <<cacheVars, runnerVars, atom, counterVars>>

\* load() throws: the worker never reaches awaitStart.
LoadThrows(s) ==
    /\ worker[s].pc = "born"
    /\ Abandon(s) /\ fault' = TRUE
    /\ UNCHANGED <<cacheVars, runnerVars, atom, owned, counterVars>>

\* The second half of awaitStart.
Started(s) ==
    /\ worker[s].pc = "await" /\ Passes(s)
    /\ Goto(s, IF failed THEN "exit" ELSE "take")
    /\ UNCHANGED <<schedulerVars, cacheVars, runnerVars, atom, owned, counterVars, fault>>

-----------------------------------------------------------------------------
(* The frames.                                                             *)

\* Mutant: A's slot is not counted as active.
TakeUncounted(s) ==
    IF failed
    THEN Goto(s, "exit") /\ UNCHANGED schedulerVars
    ELSE /\ worker' = [worker EXCEPT ![s].slot = Head(queue[s]), ![s].pc = "execute"]
         /\ queue' = [queue EXCEPT ![s] = Tail(@)]
         /\ UNCHANGED <<ready, active, peak, start, failed, sleeping>>

\* take() after its wait: freeSlots is A's queue, and A counts the slot as active.
TakeSlot(s) ==
    IF failed
    THEN Goto(s, "exit") /\ UNCHANGED schedulerVars
    ELSE /\ worker' = [worker EXCEPT ![s].slot = Head(queue[s]), ![s].pc = "execute"]
         /\ queue' = [queue EXCEPT ![s] = Tail(@)]
         /\ active' = IF s = "A" THEN active + 1 ELSE active
         /\ peak' = Max({peak, active'})
         /\ UNCHANGED <<ready, start, failed, sleeping>>

Take(s) ==
    /\ worker[s].pc = "take" /\ Passes(s)
    /\ TakeSlot(s)
    /\ UNCHANGED <<cacheVars, runnerVars, atom, owned, counterVars, fault>>

\* The atom a worker holds.
Held(s) == atom[worker[s].slot]

\* Mutant: the reused atom keeps the count of its last trip.
PreparedAtomKeepsCount(a, f) == [a EXCEPT !.frameId = f, !.frame = f, !.ready = FALSE, !.checksum = 0]

\* What A writes into a free slot before TaskA::execute; the old result stays.
PreparedAtom(a, f) ==
    [a EXCEPT !.frameId = f, !.frame = f, !.ready = FALSE, !.cpuStages = 0, !.checksum = 0]

Prepare ==
    /\ worker["A"].pc = "execute"
    /\ atom' = [atom EXCEPT ![worker["A"].slot] = PreparedAtom(@, worker["A"].frame)]
    /\ Goto("A", "request")
    /\ UNCHANGED <<schedulerVars, cacheVars, runnerVars, owned, counterVars, fault>>

\* One DummyCPUTask::execute, or the end of the chain.
CpuTask ==
    LET a == Held("Cpu") IN
    /\ worker["Cpu"].pc = "execute"
    /\ IF ~a.ready
       THEN Abandon("Cpu") /\ UNCHANGED atom
       ELSE /\ atom' = [atom EXCEPT ![worker["Cpu"].slot].checksum = a.result,
                                    ![worker["Cpu"].slot].cpuStages = @ + 1]
            /\ Goto("Cpu", IF a.cpuStages + 1 < CpuStages THEN "execute" ELSE "pass")
            /\ UNCHANGED schedulerVars
    /\ UNCHANGED <<cacheVars, runnerVars, owned, counterVars, fault>>

\* The checks at the head of the two execute functions.
Accepts(s) == IF s = "A" THEN ~Held(s).ready ELSE Held(s).ready /\ Held(s).cpuStages = CpuStages

\* getCacheData: a hit, a fill, or the caller's own buffer.
Acquire(s) ==
    LET r == Result(Held(s).frameId)
    IN  Cache!Borrow(s, r) \/ Cache!Reserve(s, r) \/ Cache!GoPrivate(s, r)

\* A request that gets a lease.
Request(s) ==
    /\ worker[s].pc = "request" \/ (s = "B" /\ worker[s].pc = "execute")
    /\ Accepts(s) /\ Acquire(s)
    /\ Goto(s, "submit")
    /\ UNCHANGED <<schedulerVars, runnerVars, stored, atom, owned, counterVars, fault>>

\* A request that is refused: by the head of execute, by makeTaskCurrent, or
\* by a cache that is no longer usable.
Refuse(s) ==
    /\ worker[s].pc = "request" \/ (s = "B" /\ worker[s].pc = "execute")
    /\ \/ (~Accepts(s) \/ broken) /\ UNCHANGED fault
       \/ fault' = TRUE
    /\ Abandon(s)
    /\ UNCHANGED <<cacheVars, runnerVars, atom, owned, counterVars>>

\* The copies and the kernel of one execute, up to the call that fails if one
\* does.  h_in names the bytes the last copy brings back once the stream has
\* drained: A's kernel result, or what the lease (or the upload into it) holds.
\* A treats a hit as an error of the harness, submits nothing and lets the
\* access abort itself.
Submit(s) ==
    LET hit == lease[s].kind = "read" IN
    /\ worker[s].pc = "submit"
    /\ \E submitted \in IF s = "A" /\ hit THEN {FALSE} ELSE BOOLEAN, uploaded \in BOOLEAN :
        /\ submitted => uploaded
        /\ worker' = [worker EXCEPT
             ![s].pc = "synchronize", ![s].ok = submitted,
             ![s].h_in = CASE s = "A" -> Held(s).frame
                           [] s = "B" /\ hit -> stored[lease[s].frame.key]
                           [] OTHER -> Held(s).result]
        /\ hits' = IF s = "B" /\ hit THEN hits + 1 ELSE hits
        /\ uploads' = IF s = "B" /\ ~hit /\ uploaded THEN uploads + 1 ELSE uploads
        /\ fault' = (fault \/ (~submitted /\ ~(s = "A" /\ hit)))
    /\ UNCHANGED <<schedulerVars, cacheVars, runnerVars, atom, owned, completed>>

\* freeCacheData (or the access's destructor) waits for the stream; when that
\* fails the cache refuses further requests: noteSyncFailure.
Synchronize(s) ==
    /\ worker[s].pc = "synchronize"
    /\ \/ Goto(s, "complete") /\ UNCHANGED <<fault, cacheVars>>
       \/ /\ worker' = [worker EXCEPT ![s].pc = "complete", ![s].ok = FALSE]
          /\ fault' = TRUE
          /\ Cache!Break /\ UNCHANGED stored
    /\ UNCHANGED <<schedulerVars, runnerVars, atom, owned, counterVars>>

\* Mutant: A leaves its lease open for B to find.
EndLeaseOfB(s) == IF s = "A" THEN UNCHANGED cacheVars ELSE Cache!EndPrivate(s) /\ UNCHANGED stored

\* completeAccess: a successful fill is published unless it is not to be kept
\* (A always keeps); the last reader with Discard takes the frame out.
EndLease(s) ==
    LET r == lease[s].frame
        ok == worker[s].ok
        kept == keep \/ s = "A"
    IN  \/ /\ Cache!Settle(s)
           /\ published' = IF ok /\ kept THEN published \cup {r} ELSE published
           /\ stored' = IF ok /\ kept THEN [stored EXCEPT ![r.key] = worker[s].h_in] ELSE stored
        \/ /\ Cache!Return(s)
           /\ published' = IF kept THEN published ELSE published \ {r}
           /\ UNCHANGED stored
        \/ Cache!EndPrivate(s) /\ UNCHANGED stored

\* What TaskB compares after its lease ended.
Verified(s) ==
    LET a == Held(s)
    IN  worker[s].h_in = a.result /\ worker[s].h_in = a.frame /\ a.checksum = a.result

\* The rest of execute: A copies the result into the atom and marks it ready,
\* B verifies and the frame counts as completed.
Complete(s) ==
    LET ok == worker[s].ok /\ (s = "B" => Verified(s)) IN
    /\ worker[s].pc = "complete"
    /\ EndLease(s)
    /\ IF ok THEN Goto(s, "pass") /\ UNCHANGED schedulerVars ELSE Abandon(s)
    /\ atom' = IF ok /\ s = "A"
               THEN [atom EXCEPT ![worker[s].slot].result = worker[s].h_in, ![worker[s].slot].ready = TRUE]
               ELSE atom
    /\ completed' = IF ok /\ s = "B" THEN completed + 1 ELSE completed
    /\ UNCHANGED <<runnerVars, owned, hits, uploads, fault>>

\* pass(), and the loop's next turn.
HandOn(s) ==
    /\ worker[s].pc = "pass"
    /\ Pass(s, s = "B")
    /\ worker' = [worker EXCEPT ![s].slot = 0, ![s].frame = @ + 1,
                                ![s].pc = IF worker[s].frame = FrameCount THEN "exit" ELSE "take"]
    /\ UNCHANGED <<cacheVars, runnerVars, atom, owned, counterVars, fault>>

\* push_back throws: the slot is lost with its worker.
HandOnThrows(s) ==
    /\ worker[s].pc = "pass"
    /\ Abandon(s) /\ fault' = TRUE
    /\ UNCHANGED <<cacheVars, runnerVars, atom, owned, counterVars>>

-----------------------------------------------------------------------------
(* runPipeline.                                                            *)

\* No GPU for this node, or the cache cannot be initialized.
Reject ==
    /\ runner = "configure"
    /\ runner' = "returned" /\ verdict' = FALSE /\ fault' = TRUE
    /\ UNCHANGED <<schedulerVars, cacheVars, keep, atom, worker, owned, counterVars>>

Configure ==
    /\ runner = "configure"
    /\ Cache!Open(Entries)
    /\ queue' = [queue EXCEPT !["A"] = [i \in Slots |-> i]]
    /\ runner' = "create"
    /\ UNCHANGED <<ready, active, peak, start, failed, sleeping, stored, verdict, keep, atom, worker, owned,
                   counterVars, fault>>

\* Workers are created in stage order.
NextWorker == <<"A", "Cpu", "B">>[Cardinality({s \in Stages : worker[s].pc # "absent"}) + 1]

CreateWorker ==
    /\ runner = "create"
    /\ Goto(NextWorker, "born")
    /\ runner' = IF NextWorker = "B" THEN "barrier" ELSE "create"
    /\ UNCHANGED <<schedulerVars, cacheVars, verdict, keep, atom, owned, counterVars, fault>>

\* A thread cannot be created: the ones that wait for the start are released.
CreateThrows ==
    /\ runner = "create"
    /\ Cancel
    /\ runner' = "join" /\ fault' = TRUE
    /\ UNCHANGED <<cacheVars, verdict, keep, atom, worker, owned, counterVars>>

\* Every worker has announced itself, or one has failed: start is set either way.
Barrier ==
    /\ Passes("runner")
    /\ start' = TRUE /\ NotifyAll
    /\ runner' = "join"
    /\ UNCHANGED <<queue, ready, active, peak, failed, cacheVars, verdict, keep, atom, worker, owned,
                   counterVars, fault>>

Join ==
    /\ runner = "join"
    /\ \A s \in Stages : worker[s].pc \in {"absent", "exit"}
    /\ runner' = "cleanup"
    /\ UNCHANGED <<schedulerVars, cacheVars, verdict, keep, atom, worker, owned, counterVars, fault>>

\* The outcomes of ResultTaskResources::unload: the task cannot be made
\* current and everything stays, or all handles are dropped and the context
\* too unless it cannot be unregistered.
UnloadOutcomes(n) ==
    IF n = 0 THEN {[left |-> 0, ok |-> TRUE]}
    ELSE {[left |-> 0, ok |-> TRUE], [left |-> 1, ok |-> FALSE], [left |-> n, ok |-> FALSE]}
         \cup {[left |-> 0, ok |-> FALSE] : i \in 2..n}

\* Mutant: the verdict forgets what cleanup reported.
VerdictOfFrames(a, b, c) == ~failed /\ completed = FrameCount

\* What runPipeline returns.
Verdict(producerReleased, consumerReleased, cacheReleased) ==
    ~failed /\ completed = FrameCount /\ producerReleased /\ consumerReleased /\ cacheReleased

\* Unload A, unload B, release the cache (refused while an access is out), and
\* return.
Cleanup ==
    /\ runner = "cleanup"
    /\ \E a \in UnloadOutcomes(owned["A"]), b \in UnloadOutcomes(owned["B"]), freed \in BOOLEAN :
        /\ owned' = [s \in GpuStages |-> IF s = "A" THEN a.left ELSE b.left]
        /\ IF Cache!AllReturned THEN Cache!Close ELSE UNCHANGED <<capacity, broken, published, lease>>
        /\ verdict' = Verdict(a.ok, b.ok, freed /\ Cache!AllReturned)
        /\ fault' = (fault \/ ~a.ok \/ ~b.ok \/ ~freed)
    /\ runner' = "returned"
    /\ UNCHANGED <<schedulerVars, stored, keep, atom, worker, counterVars>>

\* The destructors of the tasks try once more what unload could not do.
Destroy ==
    /\ runner = "returned"
    /\ \E a \in UnloadOutcomes(owned["A"]), b \in UnloadOutcomes(owned["B"]) :
        owned' = [s \in GpuStages |-> IF s = "A" THEN a.left ELSE b.left]
    /\ runner' = "gone"
    /\ UNCHANGED <<schedulerVars, cacheVars, verdict, keep, atom, worker, counterVars, fault>>

WorkerNext(s) ==
    \/ Sleep(s) \/ Load(s) \/ LoadThrows(s) \/ Started(s) \/ Take(s)
    \/ HandOn(s) \/ HandOnThrows(s)
GpuNext(s) == Request(s) \/ Refuse(s) \/ Submit(s) \/ Synchronize(s) \/ Complete(s)
RunnerNext ==
    \/ Reject \/ Configure \/ CreateWorker \/ CreateThrows \/ Sleep("runner") \/ Barrier \/ Join
    \/ Cleanup \/ Destroy

StageNext(s) ==
    \/ WorkerNext(s)
    \/ s \in GpuStages /\ GpuNext(s)
    \/ s = "A" /\ Prepare
    \/ s = "Cpu" /\ CpuTask

Next == RunnerNext \/ (\E s \in Stages : StageNext(s))

Spec == Init /\ [][Next]_vars

\* Every thread is scheduled, every CUDA call and every getCacheData returns.
FairSpec == Spec /\ WF_vars(RunnerNext) /\ \A s \in Stages : WF_vars(StageNext(s))

-----------------------------------------------------------------------------
(* Properties.                                                             *)

QueuedFor(s) == ToSet(queue[s])
HeldSlots == {worker[s].slot : s \in {t \in Stages : worker[t].slot # 0}}

\* Scheduler::take and pass hand every slot from one owner to the next: no slot
\* is lost (a worker that gives up keeps its own), queued twice or used by two
\* stages, the active count is exactly the slots that are not free (so peakInFlight is the
\* true peak), and the frames reach the CPU stage and B in frame order, which
\* is what attributes a latency to its frame.
SlotsAreConserved ==
    /\ \A s \in Stages : IsInjective(queue[s])
    /\ \A s \in Stages, t \in Stages : s # t =>
        /\ QueuedFor(s) \cap QueuedFor(t) = {}
        /\ worker[s].slot = 0 \/ worker[s].slot # worker[t].slot
    /\ \A s \in Stages : QueuedFor(s) \cap HeldSlots = {}
    /\ capacity > 0 =>
        /\ (UNION {QueuedFor(s) : s \in Stages}) \cup HeldSlots = Slots
        /\ active = Cardinality(Slots \ QueuedFor("A"))
    /\ active <= peak /\ peak <= SlotCount
    /\ \A s \in {"Cpu", "B"} : worker[s].slot # 0 => Held(s).frameId = worker[s].frame

\* Nothing the pipeline does to itself makes it fail: A never finds its own
\* result already cached, the CPU task never meets an atom that is not ready,
\* B never meets one that skipped a CPU stage, and what B reads back through
\* the cache, evicted and refilled or not, is always the result of its frame.
NoSpuriousFailure == failed => fault

\* No GPU lease spans the CPU stages: a frame is leased only by the stage that
\* holds its slot, and a worker that has left holds none, so the cache can be
\* released after the join.
NoLeaseAcrossCpuGap ==
    \A s \in GpuStages : lease[s] # Cache!Nothing =>
        /\ worker[s].pc \in {"submit", "synchronize", "complete"}
        /\ lease[s].frame.key = Held(s).frameId
        /\ \A t \in Stages \ {s} : worker[t].slot # 0 => Held(t).frameId # lease[s].frame.key

\* runPipeline returns true exactly when nothing failed anywhere; then every
\* frame was verified, restored either from the cache or by one upload, and
\* nothing is left allocated.
VerdictIsHonest ==
    runner \in {"returned", "gone"} =>
        /\ verdict <=> ~fault
        /\ verdict => /\ completed = FrameCount /\ hits + uploads = completed
                      /\ capacity = 0 /\ \A s \in GpuStages : owned[s] = 0

\* Whatever fails and wherever the workers are when it does, all of them are
\* joined and runPipeline returns.
PipelineReturns == <>(runner = "gone")
=============================================================================
