------------------------------- MODULE DummyTask -------------------------------
(***************************************************************************)
(* The tasks of one graph (demo/DummyTask.cpp) with the parameter registry *)
(* they register with and the algorithms they own (demo/Algo; Cel, Sdd and *)
(* Mi have the same host code).  A task uploads a frame through a cache    *)
(* lease, launches a kernel and a copy back per algorithm on a stream of   *)
(* its own, waits for the stream once, and collects the outputs.           *)
(*                                                                         *)
(* What is submitted to a stream runs later, in order: DeviceStep.  Bytes  *)
(* are named by the frame they come from, 0 when they come from none.  The *)
(* cache is the store GpuDataCache is shown to implement (LeaseStore).     *)
(* The caller is any caller that, as DummyGraph does, makes lifecycle      *)
(* calls on a task only while it does not execute; it may go on after a    *)
(* call that failed.                                                       *)
(***************************************************************************)
EXTENDS Integers, Sequences, SequencesExt, FiniteSets

CONSTANTS Tasks,
          AlgoCount,
          FrameCount,
          Entries,         \* cache entries
          Names, Blobs,    \* values of the two parameters
          MaxRevision,     \* the largest revision number (uint64 in the code)
          MaxExecutions    \* bound on the execute calls

ASSUME TaskSizes == {AlgoCount, FrameCount, Entries} \subseteq Nat \ {0} /\ {MaxRevision, MaxExecutions} \subseteq Nat
ASSUME ParameterValues == Names # {} /\ Blobs # {}

Algos == 1..AlgoCount
Frames == 1..FrameCount
Unset == "unset"

\* What a loaded task holds in TaskGpuResources.  Its d_scratch stays null: load
\* allocates it only if some algorithm asks for scratch bytes, and Cel, Sdd and
\* Mi ask for none.
Handles == {"ctx", "stream", "h_in", "d_input"}

VARIABLES
    registry,    \* ParameterRegistry: name, blob, revision, sealed
    snapshots,   \* the snapshots the graph has taken, all of them still usable,
                 \* each with the pair it was taken for (history)
    model,       \* executionModel, the same for all tasks
    state,       \* TaskLifecycle
    owned,       \* the handles in TaskGpuResources
    algorithms,  \* per task its algorithms: initialized, and the parameters they use
    applied,     \* appliedParameterRevision
    unclean,     \* tasks whose releaseResources reported a failure
    executions,  \* execute calls so far
    exec,        \* the execute call of a task: where it is, its frame and result
    h_in,        \* pinned staging
    writable,    \* the buffer a fill or fallback access writes
    d_out, h_out,    \* per algorithm its output on the device and its pinned copy
    stream,      \* submitted and not yet run
    payload,     \* frame -> the bytes of its published cache entry
    capacity, broken, published, lease

parameterVars == <<registry, snapshots>>
lifecycleVars == <<state, owned, algorithms, applied, unclean>>
bufferVars == <<h_in, writable, d_out, h_out, stream>>
cacheVars == <<capacity, broken, published, lease, payload>>
vars == <<parameterVars, model, lifecycleVars, exec, executions, bufferVars, cacheVars>>

Cache == INSTANCE LeaseStore
    WITH Accesses <- Tasks, Keys <- Frames, Shapes <- {"frame"}, MaxEntryCount <- Entries

Frame(f) == [key |-> f, shape |-> "frame"]
NoOutput == [a \in Algos |-> 0]
Idle(ok, f, outputs) == [pc |-> "idle", ok |-> ok, frame |-> f, outputs |-> outputs]

Init ==
    /\ registry = [name |-> Unset, blob |-> Unset, revision |-> 0, sealed |-> FALSE]
    /\ snapshots = {}
    /\ model \in {"Batched", "Interleaved"}
    /\ state = [t \in Tasks |-> "Constructed"]
    /\ owned = [t \in Tasks |-> {}] /\ algorithms = [t \in Tasks |-> <<>>]
    /\ applied = [t \in Tasks |-> 0] /\ unclean = {} /\ executions = 0
    /\ exec = [t \in Tasks |-> Idle(FALSE, 0, NoOutput)]
    /\ h_in = [t \in Tasks |-> 0] /\ writable = [t \in Tasks |-> 0]
    /\ d_out = [t \in Tasks |-> NoOutput] /\ h_out = [t \in Tasks |-> NoOutput]
    /\ stream = [t \in Tasks |-> <<>>]
    /\ payload = [f \in Frames |-> 0]
    /\ capacity = Entries /\ broken = FALSE /\ published = {}
    /\ lease = [t \in Tasks |-> Cache!Nothing]

-----------------------------------------------------------------------------
(* ParameterRegistry, and the graph's use of it.                           *)

\* setValue: an equal value is accepted as it is; at the last revision number
\* a new one is refused.
SetAccepts(r, field, v) == r[field] = v \/ r.revision < MaxRevision
SetValue(r, field, v) ==
    IF r[field] = v THEN r ELSE [r EXCEPT ![field] = v, !.revision = @ + 1]

\* setString for the name, then setBytes for the blob unless the name failed.
NamedRegistry(p) ==
    IF SetAccepts(registry, "name", p.name) THEN SetValue(registry, "name", p.name) ELSE registry
SetBothAccepts(p) ==
    SetAccepts(registry, "name", p.name) /\ SetAccepts(NamedRegistry(p), "blob", p.blob)
SetBoth(p) ==
    IF SetBothAccepts(p) THEN SetValue(NamedRegistry(p), "blob", p.blob) ELSE NamedRegistry(p)

Snapshot(r, p) == [name |-> r.name, blob |-> r.blob, revision |-> r.revision, askedFor |-> p]

\* Mutant: the snapshot is taken whether or not both values went in.
TakenSnapshotAnyway(before, after, accepted, p) == {Snapshot(after, p)}

\* The snapshot a change yields: none if a value was refused or nothing changed.
TakenSnapshot(before, after, accepted, p) ==
    IF accepted /\ after.revision # before.revision THEN {Snapshot(after, p)} ELSE {}

\* The graph sets the configured values and seals the registry, once, after
\* every task has registered.
Configure(p) ==
    LET r == [SetBoth(p) EXCEPT !.sealed = TRUE] IN
    /\ ~registry.sealed /\ SetBothAccepts(p)
    /\ \A t \in Tasks : state[t] = "Registered"
    /\ registry' = r
    /\ snapshots' = {Snapshot(r, p)}
    /\ UNCHANGED <<model, lifecycleVars, exec, executions, bufferVars, cacheVars>>

\* The graph changes the parameters between executions, once it has loaded its
\* tasks; what it does with the snapshot is Notify, task by task.
Change(p) ==
    /\ \A t \in Tasks : exec[t].pc = "idle" /\ state[t] \notin {"Constructed", "Registered"}
    /\ registry' = SetBoth(p)
    /\ snapshots' = snapshots \cup TakenSnapshot(registry, SetBoth(p), SetBothAccepts(p), p)
    /\ UNCHANGED <<model, lifecycleVars, exec, executions, bufferVars, cacheVars>>

-----------------------------------------------------------------------------
(* The lifecycle of a task.                                                *)

Quiet(t) == exec[t].pc = "idle"
Usable == {"Loaded", "Started", "Stopped"}
Enter(t, s) == state' = [state EXCEPT ![t] = s]

RegisterParameters(t) ==
    /\ state[t] = "Constructed" /\ ~registry.sealed
    /\ Enter(t, "Registered")
    /\ UNCHANGED <<parameterVars, model, owned, algorithms, applied, unclean, exec, executions, bufferVars, cacheVars>>

\* applyParameters: every algorithm takes the same snapshot; notifyParameter
\* refuses only before init.
Applied(algos, s) == [a \in DOMAIN algos |-> [algos[a] EXCEPT !.params = <<s.name, s.blob>>]]

\* load() with every step succeeding: all handles, every algorithm's init
\* (buffers zeroed, no scratch bytes asked for), a stream that has drained, and
\* the current snapshot applied.
Load(t) ==
    LET s == registry
        created == [a \in Algos |-> [initialized |-> TRUE, params |-> <<>>]] IN
    /\ Quiet(t) /\ state[t] = "Registered" /\ registry.sealed
    /\ owned' = [owned EXCEPT ![t] = Handles]
    /\ algorithms' = [algorithms EXCEPT ![t] = Applied(created, s)]
    /\ applied' = [applied EXCEPT ![t] = s.revision]
    /\ Enter(t, "Loaded")
    /\ UNCHANGED <<parameterVars, model, unclean, exec, executions, bufferVars, cacheVars>>

\* releaseResources: the stream is waited for, the algorithms closed and
\* dropped, and every handle freed and cleared whatever failed before it.  It
\* succeeds only if the stream had drained.
ReleaseResources(t, ok) ==
    /\ ok => stream[t] = <<>>
    /\ unclean' = IF ok THEN unclean ELSE unclean \cup {t}
    /\ owned' = [owned EXCEPT ![t] = {}]
    /\ algorithms' = [algorithms EXCEPT ![t] = <<>>]
    /\ stream' = [stream EXCEPT ![t] = <<>>]
    /\ UNCHANGED <<h_in, writable, d_out, h_out>>

\* Some step of load() fails and what was acquired before it is given back.
LoadFails(t) ==
    /\ Quiet(t) /\ state[t] = "Registered" /\ registry.sealed
    /\ \E ok \in BOOLEAN : ReleaseResources(t, ok)
    /\ Enter(t, "Failed")
    /\ UNCHANGED <<parameterVars, model, applied, exec, executions, cacheVars>>

\* A snapshot older than the applied one is refused, the same one is accepted
\* without effect.
NotifyNeeded(t, s) == s.revision > applied[t]

Notify(t, s) ==
    /\ Quiet(t) /\ state[t] \in Usable /\ NotifyNeeded(t, s)
    /\ algorithms' = [algorithms EXCEPT ![t] = Applied(@, s)]
    /\ applied' = [applied EXCEPT ![t] = s.revision]
    /\ UNCHANGED state
    /\ UNCHANGED <<parameterVars, model, owned, unclean, exec, executions, bufferVars, cacheVars>>

\* The task cannot be made current.
NotifyFails(t, s) ==
    /\ Quiet(t) /\ state[t] \in Usable /\ NotifyNeeded(t, s)
    /\ Enter(t, "Failed")
    /\ UNCHANGED <<parameterVars, model, owned, algorithms, applied, unclean, exec, executions, bufferVars, cacheVars>>

Start(t) ==
    /\ Quiet(t) /\ state[t] = "Loaded" /\ Enter(t, "Started")
    /\ UNCHANGED <<parameterVars, model, owned, algorithms, applied, unclean, exec, executions, bufferVars, cacheVars>>

Stop(t) ==
    /\ Quiet(t) /\ state[t] = "Started" /\ Enter(t, "Stopped")
    /\ UNCHANGED <<parameterVars, model, owned, algorithms, applied, unclean, exec, executions, bufferVars, cacheVars>>

Unload(t) ==
    /\ Quiet(t) /\ state[t] \notin {"Unloaded", "Started"}
    /\ \E ok \in BOOLEAN : ReleaseResources(t, ok)
    /\ Enter(t, "Unloaded")
    /\ applied' = [applied EXCEPT ![t] = 0]
    /\ UNCHANGED <<parameterVars, model, exec, executions, cacheVars>>

-----------------------------------------------------------------------------
(* execute().                                                              *)

H2D == [op |-> "H2D", algo |-> 0, source |-> 0]
Kernel(a, source) == [op |-> "kernel", algo |-> a, source |-> source]
D2H(a) == [op |-> "D2H", algo |-> a, source |-> 0]

\* What execute submits: the upload unless the frame is cached, then all
\* kernels and all copies, or kernel and copy of one algorithm after the other.
Program(kind, f) ==
    LET source == IF kind = "read" THEN f ELSE 0
        upload == IF kind = "read" THEN <<>> ELSE <<H2D>>
    IN  upload \o IF model = "Batched"
                  THEN [a \in Algos |-> Kernel(a, source)] \o [a \in Algos |-> D2H(a)]
                  ELSE [i \in 1..(2 * AlgoCount) |->
                           IF i % 2 = 1 THEN Kernel((i + 1) \div 2, source) ELSE D2H(i \div 2)]

\* The checks before the lease, and the lease: a hit, a fill or the task's own
\* buffer.  A writable buffer holds nothing of this frame yet.
Execute(t, f) ==
    /\ executions < MaxExecutions /\ executions' = executions + 1
    /\ Quiet(t) /\ state[t] = "Started" /\ "d_input" \in owned[t] /\ Len(algorithms[t]) = AlgoCount
    /\ Cache!Borrow(t, Frame(f)) \/ Cache!Reserve(t, Frame(f)) \/ Cache!GoPrivate(t, Frame(f))
    /\ exec' = [exec EXCEPT ![t] = [pc |-> "leased", ok |-> TRUE, frame |-> f, outputs |-> NoOutput]]
    /\ writable' = [writable EXCEPT ![t] = 0]
    /\ UNCHANGED <<parameterVars, model, lifecycleVars, h_in, d_out, h_out, stream, payload>>

\* The task is not started or cannot be made current, or the cache refuses.
ExecuteRefused(t, f) ==
    /\ executions < MaxExecutions /\ executions' = executions + 1
    /\ Quiet(t)
    /\ exec' = [exec EXCEPT ![t] = Idle(FALSE, 0, NoOutput)]
    /\ UNCHANGED <<parameterVars, model, lifecycleVars, bufferVars, cacheVars>>

\* The frame goes to pinned staging and the work to the stream, up to the
\* call that fails if one does.
Submit(t) ==
    LET e == exec[t]
        program == Program(lease[t].kind, e.frame) IN
    /\ e.pc = "leased"
    /\ h_in' = IF lease[t].kind = "read" THEN h_in ELSE [h_in EXCEPT ![t] = e.frame]
    /\ \E n \in 0..Len(program) :
        /\ stream' = [stream EXCEPT ![t] = @ \o SubSeq(program, 1, n)]
        /\ exec' = [exec EXCEPT ![t].pc = "submitted", ![t].ok =
                       (n = Len(program) /\ \A a \in Algos : algorithms[t][a].initialized)]
    /\ UNCHANGED <<parameterVars, model, lifecycleVars, executions, writable, d_out, h_out, cacheVars>>

\* The device runs the oldest operation of a stream.
DeviceStep(t) ==
    LET o == Head(stream[t]) IN
    /\ stream[t] # <<>>
    /\ stream' = [stream EXCEPT ![t] = Tail(@)]
    /\ writable' = IF o.op = "H2D" THEN [writable EXCEPT ![t] = h_in[t]] ELSE writable
    /\ d_out' = IF o.op = "kernel"
                THEN [d_out EXCEPT ![t][o.algo] = IF o.source = 0 THEN writable[t] ELSE payload[o.source]]
                ELSE d_out
    /\ h_out' = IF o.op = "D2H" THEN [h_out EXCEPT ![t][o.algo] = d_out[t][o.algo]] ELSE h_out
    /\ UNCHANGED <<parameterVars, model, lifecycleVars, exec, executions, h_in, cacheVars>>

\* Mutants: the wait is skipped; the cache is not told that it failed.
SynchronizeNot(t) ==
    /\ exec[t].pc = "submitted"
    /\ exec' = [exec EXCEPT ![t].pc = "synchronized"]
    /\ UNCHANGED <<parameterVars, model, lifecycleVars, executions, bufferVars, cacheVars>>
SynchronizeQuietly(t) ==
    /\ exec[t].pc = "submitted"
    /\ \/ stream[t] = <<>> /\ exec' = [exec EXCEPT ![t].pc = "synchronized"]
       \/ exec' = [exec EXCEPT ![t].pc = "synchronized", ![t].ok = FALSE]
    /\ UNCHANGED <<parameterVars, model, lifecycleVars, executions, bufferVars, cacheVars>>

\* freeCacheData waits for the stream.  When the wait fails the work may still
\* run, and the cache refuses whatever comes next.
Synchronize(t) ==
    /\ exec[t].pc = "submitted"
    /\ \/ /\ stream[t] = <<>>
          /\ exec' = [exec EXCEPT ![t].pc = "synchronized"]
          /\ UNCHANGED cacheVars
       \/ /\ exec' = [exec EXCEPT ![t].pc = "synchronized", ![t].ok = FALSE]
          /\ Cache!Break /\ UNCHANGED payload
    /\ UNCHANGED <<parameterVars, model, lifecycleVars, executions, bufferVars>>

\* The lease ends, a successful fill is published, and the outputs are copied
\* from pinned memory.
Collect(t) ==
    LET e == exec[t] IN
    /\ e.pc = "synchronized"
    /\ \/ /\ Cache!Settle(t)
          /\ published' = IF e.ok THEN published \cup {lease[t].frame} ELSE published
          /\ payload' = IF e.ok THEN [payload EXCEPT ![e.frame] = writable[t]] ELSE payload
       \/ UNCHANGED <<published, payload>> /\ Cache!Return(t)
       \/ Cache!EndPrivate(t) /\ UNCHANGED payload
    /\ exec' = [exec EXCEPT ![t] = IF e.ok THEN Idle(TRUE, e.frame, h_out[t]) ELSE Idle(FALSE, 0, NoOutput)]
    /\ UNCHANGED <<parameterVars, model, lifecycleVars, executions, bufferVars>>

Pairs == [name : Names, blob : Blobs]

TaskNext(t) ==
    \/ RegisterParameters(t) \/ Load(t) \/ LoadFails(t) \/ Start(t) \/ Stop(t) \/ Unload(t)
    \/ \E s \in snapshots : Notify(t, s) \/ NotifyFails(t, s)
    \/ \E f \in Frames : Execute(t, f) \/ ExecuteRefused(t, f)
    \/ Submit(t) \/ DeviceStep(t) \/ Synchronize(t) \/ Collect(t)

Next == (\E p \in Pairs : Configure(p) \/ Change(p)) \/ (\E t \in Tasks : TaskNext(t))

Spec == Init /\ [][Next]_vars

-----------------------------------------------------------------------------
(* Properties.                                                             *)

\* When execute reports success every algorithm's output was computed from the
\* frame that was asked for: not from the previous frame of the task, not from
\* a cache entry another task was filling, and not from a copy still on its
\* way, although the code waits for the stream only once.
ResultsAreExact ==
    \A t \in Tasks : exec[t].pc = "idle" /\ exec[t].ok =>
        exec[t].outputs = [a \in Algos |-> exec[t].frame]

\* Pinned staging is never overwritten, and the task's memory is not freed by
\* an unload that reports success, while work submitted earlier is pending,
\* even when a wait for the stream failed and the caller goes on: the next
\* request is refused.
StagingIsQuiet ==
    [][\A t \in Tasks :
        /\ h_in'[t] # h_in[t] => stream[t] = <<>>
        /\ owned'[t] # owned[t] => stream[t] = <<>> \/ t \in unclean']_vars

\* A task that could be started has everything execute needs, and all its
\* algorithms run with one complete snapshot, the one of the revision it says
\* it has applied, never with the name of one change and the blob of another,
\* even when the registry refuses one of the two at its last revision.
UsableIsComplete ==
    \A t \in Tasks : state[t] \in Usable =>
        /\ owned[t] = Handles /\ Len(algorithms[t]) = AlgoCount
        /\ \E s \in snapshots :
            /\ s.revision = applied[t] /\ s.name = s.askedFor.name /\ s.blob = s.askedFor.blob
            /\ \A a \in Algos : algorithms[t][a].initialized /\ algorithms[t][a].params = <<s.name, s.blob>>
=============================================================================
