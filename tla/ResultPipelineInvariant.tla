----------------------- MODULE ResultPipelineInvariant -----------------------
(***************************************************************************)
(* The inductive invariant of ResultPipeline.  A property of B's verdict   *)
(* rests on what A wrote, on the order of two queues, on the cache and on  *)
(* who may still fail; the parts below say each of these for every state.  *)
(***************************************************************************)
EXTENDS ResultPipeline

Leasing   == {"submit", "synchronize", "complete"}
Working   == {"execute", "request", "pass"} \cup Leasing
Positions == {"absent", "born", "await", "take", "exit"} \cup Working

Runners     == {"configure", "create", "barrier", "join", "cleanup", "returned", "gone"}
AtomStates  == [frameId : Nat, frame : Nat, result : Nat, checksum : Nat, ready : BOOLEAN, cpuStages : Nat]
WorkerStates == [pc : Positions, frame : Nat, slot : 0..SlotCount, ok : BOOLEAN, h_in : Nat]
LeaseStates == {Cache!Nothing} \cup
    {Cache!Lease(kind, Result(f)) : kind \in {"read", "fill", "private"}, f \in Frames}

\* The shape of the state.
FlowTypes    == queue \in [Stages -> Seq(Slots)] /\ active \in Nat /\ peak \in Nat
AtomTypes    == atom \in [Slots -> AtomStates]
WorkerTypes  == worker \in [Stages -> WorkerStates]
FlagTypes    == failed \in BOOLEAN /\ keep \in BOOLEAN /\ fault \in BOOLEAN /\ verdict \in BOOLEAN
CounterTypes == completed \in Nat /\ hits \in Nat /\ uploads \in Nat /\ owned \in [GpuStages -> Nat]
CacheTypes ==
    /\ stored \in [Frames -> Nat]
    /\ capacity \in Nat /\ broken \in BOOLEAN
    /\ published \subseteq {Result(f) : f \in Frames}
    /\ lease \in [GpuStages -> LeaseStates]
TypeOK ==
    /\ FlowTypes /\ AtomTypes /\ WorkerTypes /\ FlagTypes /\ CounterTypes /\ CacheTypes
    /\ runner \in Runners

\* Where a worker can be, and when it has a slot.
ShapeOf(s) ==
    /\ worker[s].pc = "request" => s = "A"
    /\ worker[s].pc \in Leasing => s \in GpuStages
    /\ worker[s].pc \in Working => worker[s].slot # 0
    /\ worker[s].pc \in {"absent", "born", "await", "take"} => worker[s].slot = 0
    /\ worker[s].frame >= 1
    /\ worker[s].pc # "exit" \/ worker[s].slot # 0 => worker[s].frame <= FrameCount
    /\ worker[s].pc = "exit" => failed \/ worker[s].frame = FrameCount + 1
WorkerShape == \A s \in Stages : ShapeOf(s)

\* How far the thread in runPipeline is, and what that says of the workers and
\* of the cache.
RunnerShape ==
    /\ runner = "configure" =>
        /\ \A s \in Stages : worker[s].pc = "absent"
        /\ queue = [s \in Stages |-> <<>>] /\ active = 0 /\ atom = [i \in Slots |-> FreshAtom]
    /\ runner = "create" =>
        worker["B"].pc = "absent" /\ (worker["A"].pc = "absent" => worker["Cpu"].pc = "absent")
    /\ runner \in {"barrier", "join", "cleanup"} => failed \/ \A s \in Stages : worker[s].pc # "absent"
    /\ runner \in {"cleanup", "returned", "gone"} =>
        \A s \in Stages : worker[s].pc \in {"absent", "exit"}
    /\ capacity = IF runner \in {"configure", "returned", "gone"} THEN 0 ELSE Entries

\* Slots are conserved: SlotsAreConserved without the order of the frames.
SlotsOnce ==
    /\ \A s \in Stages : IsInjective(queue[s])
    /\ \A s \in Stages, t \in Stages : s # t =>
        /\ QueuedFor(s) \cap QueuedFor(t) = {}
        /\ worker[s].slot = 0 \/ worker[s].slot # worker[t].slot
    /\ \A s \in Stages, t \in Stages : worker[t].slot \notin QueuedFor(s)
    /\ capacity > 0 =>
        /\ \A i \in Slots : \E s \in Stages : i \in QueuedFor(s) \/ i = worker[s].slot
        /\ active = Cardinality(Slots \ QueuedFor("A"))
    /\ active <= peak /\ peak <= SlotCount

\* A queue holds the frames its reader has yet to take and its writer has
\* passed, in frame order; s reads what p writes.
Busy(s) == IF worker[s].slot # 0 THEN 1 ELSE 0
InOrder(p, s) ==
    /\ Len(queue[s]) = worker[p].frame - worker[s].frame - Busy(s)
    /\ \A i \in 1..Len(queue[s]) : atom[queue[s][i]].frameId = worker[s].frame + Busy(s) + i - 1
    /\ worker[s].slot # 0 => Held(s).frameId = worker[s].frame

\* What A has written into an atom when it hands it on, and the CPU chain too.
Loaded(a)   == a.ready /\ a.frame = a.frameId /\ a.result = a.frameId
Produced(a) == Loaded(a) /\ a.cpuStages = 0
Finished(a) == Loaded(a) /\ a.checksum = a.frameId /\ a.cpuStages = CpuStages

\* A free slot is left over from a frame B is done with; a queued one has been
\* through the stages before its queue.
FreeAtoms   == \A i \in QueuedFor("A") : atom[i].frameId < worker["B"].frame
PassedAtoms ==
    /\ \A i \in QueuedFor("Cpu") : Produced(atom[i])
    /\ \A i \in QueuedFor("B") : Finished(atom[i])

\* The atom in a worker's hands.
HeldByA ==
    /\ worker["A"].pc = "execute" => Held("A").frameId < worker["B"].frame
    /\ worker["A"].pc \in {"request"} \cup Leasing =>
        /\ ~Held("A").ready /\ Held("A").cpuStages = 0
        /\ Held("A").frame = worker["A"].frame
    /\ worker["A"].pc = "pass" => Produced(Held("A"))
    /\ worker["A"].pc # "execute" /\ worker["A"].slot # 0 => Held("A").frameId = worker["A"].frame
HeldByCpu ==
    /\ worker["Cpu"].pc = "execute" => Loaded(Held("Cpu")) /\ Held("Cpu").cpuStages < CpuStages
    /\ worker["Cpu"].pc = "pass" => Finished(Held("Cpu"))
HeldByB == worker["B"].pc \in Working => Finished(Held("B"))

AtomsFit == FreeAtoms /\ PassedAtoms /\ HeldByA /\ HeldByCpu /\ HeldByB

\* A lease is on the frame in hand, and what a stage copies back is its bytes.
LeaseFits(s) ==
    \/ lease[s] = Cache!Nothing
    \/ /\ worker[s].pc \in Leasing
       /\ \E kind \in {"read", "fill", "private"} : lease[s] = Cache!Lease(kind, Result(worker[s].frame))
LeasesFit ==
    /\ \A s \in GpuStages : LeaseFits(s)
    /\ lease["A"].kind # "read"
    /\ lease["B"].kind = "read" => stored[worker["B"].frame] = worker["B"].frame
CopiesFit ==
    \A s \in GpuStages : worker[s].pc \in {"synchronize", "complete"} => worker[s].h_in = worker[s].frame

\* A published frame holds its own bytes, and A is past it or has just
\* published it.
PublishedFit ==
    \A f \in Frames : Result(f) \in published =>
        /\ stored[f] = f
        /\ f < worker["A"].frame \/ (f = worker["A"].frame /\ worker["A"].pc \in {"pass", "exit"})

CacheShape == LeasesFit /\ CopiesFit /\ PublishedFit

\* A GPU stage that knows of a failed call and has not told the others yet.
Failing(s) == worker[s].pc \in {"synchronize", "complete"} /\ ~worker[s].ok

\* Every failure has a fault behind it, and no fault is forgotten.
FaultsAreTold ==
    /\ failed \/ broken => fault
    /\ \A s \in GpuStages : Failing(s) => fault
    /\ fault => failed \/ runner \in {"returned", "gone"} \/ \E s \in GpuStages : Failing(s)

\* While nothing has failed, the counters follow B.
CountersFollowB ==
    ~fault =>
        /\ completed = worker["B"].frame - 1 + IF worker["B"].pc = "pass" THEN 1 ELSE 0
        /\ hits + uploads = completed + IF worker["B"].pc \in {"synchronize", "complete"} THEN 1 ELSE 0

\* The inductive invariant of the pipeline.
IInv ==
    /\ TypeOK
    /\ WorkerShape
    /\ RunnerShape
    /\ SlotsOnce
    /\ InOrder("A", "Cpu") /\ InOrder("Cpu", "B")
    /\ AtomsFit
    /\ CacheShape
    /\ FaultsAreTold
    /\ CountersFollowB
    /\ VerdictIsHonest
=============================================================================
