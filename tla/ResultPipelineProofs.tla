------------------------- MODULE ResultPipelineProofs -------------------------
(***************************************************************************)
(* Proofs about ResultPipeline for every number of frames, slots, cache    *)
(* entries and CPU stages: IInv is inductive, and with it slots are        *)
(* conserved, the pipeline does not fail on its own, no lease spans the    *)
(* CPU stages and the verdict is honest.                                   *)
(***************************************************************************)
EXTENDS ResultPipelineInvariant, ListLemmas, FiniteSetTheorems

USE DEF schedulerVars, cacheVars, runnerVars, counterVars

-----------------------------------------------------------------------------
(* Constants and shapes *)

\* The bounds of a run.
LEMMA ConfigFacts ==
  /\ FrameCount \in Nat /\ FrameCount >= 1
  /\ Entries \in Nat /\ Entries > 0
  /\ CpuStages \in Nat /\ CpuStages > 0
  /\ SlotCount \in Nat /\ SlotCount >= 1
  /\ Slots = 1..SlotCount /\ Slots \subseteq Nat /\ 0 \notin Slots
  /\ Frames \subseteq Nat
  /\ IsFiniteSet(Slots) /\ Cardinality(Slots) = SlotCount
<1>1. /\ FrameCount \in Nat \ {0} /\ InFlight \in Nat \ {0}
      /\ Entries \in Nat \ {0} /\ CpuStages \in Nat \ {0}
  BY ConfigAssumption
<1>2. SlotCount \in Nat /\ SlotCount >= 1
  BY <1>1 DEF SlotCount
<1>3. IsFiniteSet(1..SlotCount) /\ Cardinality(1..SlotCount) = SlotCount
  <2> HIDE DEF SlotCount
  <2> QED BY <1>2, FS_Interval
<1> QED BY <1>1, <1>2, <1>3 DEF Slots, Frames

\* The three stages.
LEMMA StageFacts ==
  /\ "A" \in Stages /\ "Cpu" \in Stages /\ "B" \in Stages
  /\ \A s \in Stages : s = "A" \/ s = "Cpu" \/ s = "B"
  /\ \A s \in GpuStages : s = "A" \/ s = "B"
  /\ GpuStages \subseteq Stages
  /\ Next3 \in [Stages -> Stages]
  /\ Next3["A"] = "Cpu" /\ Next3["Cpu"] = "B" /\ Next3["B"] = "A"
BY DEF Stages, GpuStages, Next3

\* The fields of a worker.
LEMMA WorkerFacts ==
  ASSUME WorkerTypes
  PROVE  \A s \in Stages :
           /\ worker[s] \in WorkerStates
           /\ worker[s].pc \in Positions /\ worker[s].frame \in Nat
           /\ worker[s].slot \in Nat /\ (worker[s].slot # 0 => worker[s].slot \in Slots)
           /\ worker[s].ok \in BOOLEAN /\ worker[s].h_in \in Nat
<1>1. SlotCount \in Nat
  BY ConfigFacts
<1> QED BY <1>1 DEF WorkerTypes, WorkerStates, Slots

\* The fields of an atom.
LEMMA AtomFacts ==
  ASSUME AtomTypes
  PROVE  \A i \in Slots :
           /\ atom[i] \in AtomStates
           /\ atom[i].frameId \in Nat /\ atom[i].frame \in Nat /\ atom[i].result \in Nat
           /\ atom[i].checksum \in Nat /\ atom[i].ready \in BOOLEAN /\ atom[i].cpuStages \in Nat
BY DEF AtomTypes, AtomStates

\* The members of a queue are slots, at positions 1 to its length.
LEMMA QueueFacts ==
  ASSUME FlowTypes
  PROVE  \A s \in Stages :
           /\ queue[s] \in Seq(Slots) /\ Len(queue[s]) \in Nat
           /\ QueuedFor(s) \subseteq Slots /\ 0 \notin QueuedFor(s)
           /\ \A i \in 1..Len(queue[s]) : queue[s][i] \in QueuedFor(s)
           /\ \A x \in QueuedFor(s) : \E i \in 1..Len(queue[s]) : x = queue[s][i]
<1> SUFFICES ASSUME NEW s \in Stages
             PROVE  /\ queue[s] \in Seq(Slots) /\ Len(queue[s]) \in Nat
                    /\ QueuedFor(s) \subseteq Slots /\ 0 \notin QueuedFor(s)
                    /\ \A i \in 1..Len(queue[s]) : queue[s][i] \in QueuedFor(s)
                    /\ \A x \in QueuedFor(s) : \E i \in 1..Len(queue[s]) : x = queue[s][i]
  OBVIOUS
<1>1. queue[s] \in Seq(Slots)
  BY DEF FlowTypes
<1>2. Len(queue[s]) \in Nat /\ DOMAIN queue[s] = 1..Len(queue[s])
  BY <1>1
<1>3. \A i \in 1..Len(queue[s]) : queue[s][i] \in Slots
  BY <1>1, <1>2
<1>4. QueuedFor(s) = {queue[s][i] : i \in 1..Len(queue[s])}
  BY <1>2 DEF QueuedFor, ToSet
<1>5. 0 \notin Slots
  BY ConfigFacts
<1> QED BY <1>1, <1>2, <1>3, <1>4, <1>5

-----------------------------------------------------------------------------
(* Moves of a worker *)

HandsKept == \A t \in Stages : worker'[t].slot = worker[t].slot /\ worker'[t].frame = worker[t].frame
OthersKept(s) == \A t \in Stages \ {s} : worker'[t] = worker[t]

\* One worker changes.
LEMMA WorkerChanges ==
  ASSUME WorkerTypes, NEW s \in Stages, NEW w \in WorkerStates, worker' = [worker EXCEPT ![s] = w]
  PROVE  WorkerTypes' /\ worker'[s] = w /\ OthersKept(s)
BY DEF WorkerTypes, OthersKept

\* A worker that changes only where it is.
LEMMA GotoFacts ==
  ASSUME WorkerTypes, NEW s \in Stages, NEW pc \in Positions, Goto(s, pc)
  PROVE  /\ WorkerTypes'
         /\ HandsKept /\ OthersKept(s)
         /\ worker'[s].pc = pc
         /\ worker'[s].ok = worker[s].ok /\ worker'[s].h_in = worker[s].h_in
<1>1. worker[s] \in WorkerStates
  BY WorkerFacts
<1>2. PICK w : w = [worker[s] EXCEPT !.pc = pc]
  OBVIOUS
<1>3. /\ w \in WorkerStates /\ w.pc = pc /\ w.slot = worker[s].slot /\ w.frame = worker[s].frame
      /\ w.ok = worker[s].ok /\ w.h_in = worker[s].h_in
  BY <1>1, <1>2 DEF WorkerStates
<1>4. worker' = [worker EXCEPT ![s] = w]
  BY <1>2 DEF Goto
<1>5. WorkerTypes' /\ worker'[s] = w /\ OthersKept(s)
  BY <1>3, <1>4, WorkerChanges
<1>6. HandsKept
  BY <1>3, <1>5 DEF HandsKept, OthersKept
<1> QED BY <1>3, <1>5, <1>6

-----------------------------------------------------------------------------
(* Parts of the invariant that a step leaves alone *)

\* While a worker is on its way the runner is between Configure and Join.
LEMMA RunnerWaits ==
  ASSUME TypeOK, RunnerShape, NEW s \in Stages, worker[s].pc \notin {"absent", "exit"}
  PROVE  /\ runner \in {"create", "barrier", "join"}
         /\ capacity = Entries /\ capacity > 0
<1>1. runner \in Runners
  BY DEF TypeOK
<1>2. runner \notin {"configure", "cleanup", "returned", "gone"}
  BY DEF RunnerShape
<1>3. runner \in {"create", "barrier", "join"}
  BY <1>1, <1>2 DEF Runners
<1> QED BY <1>3, ConfigFacts DEF RunnerShape

\* A step of a worker is no concern of the runner.
LEMMA RunnerKept ==
  ASSUME TypeOK, RunnerShape, NEW s \in Stages, worker[s].pc \notin {"absent", "exit"},
         OthersKept(s), worker'[s].pc # "absent", failed => failed', UNCHANGED <<runner, capacity>>
  PROVE  RunnerShape' /\ VerdictIsHonest'
<1>1. runner \in {"create", "barrier", "join"} /\ capacity = Entries
  BY RunnerWaits
<1>2. runner' \in {"create", "barrier", "join"} /\ capacity' = Entries
  BY <1>1
<1>3. runner = "create" => worker["B"].pc = "absent" /\ (worker["A"].pc = "absent" => worker["Cpu"].pc = "absent")
  BY DEF RunnerShape
<1>4. runner' = "create" => worker'["B"].pc = "absent" /\ (worker'["A"].pc = "absent" => worker'["Cpu"].pc = "absent")
  BY <1>3, StageFacts DEF OthersKept
<1>5. runner \in {"barrier", "join"} => failed \/ \A t \in Stages : worker[t].pc # "absent"
  BY DEF RunnerShape
<1>6. runner' \in {"barrier", "join"} => failed' \/ \A t \in Stages : worker'[t].pc # "absent"
  BY <1>5 DEF OthersKept
<1>7. RunnerShape'
  BY <1>2, <1>4, <1>6 DEF RunnerShape
<1>8. VerdictIsHonest'
  BY <1>2 DEF VerdictIsHonest
<1> QED BY <1>7, <1>8

\* Only the worker that moves has to be looked at.
LEMMA ShapeKept ==
  ASSUME WorkerShape, NEW s \in Stages, OthersKept(s), failed => failed', ShapeOf(s)'
  PROVE  WorkerShape'
<1> SUFFICES ASSUME NEW t \in Stages PROVE ShapeOf(t)'
  BY DEF WorkerShape
<1>1. CASE t = s
  BY <1>1
<1>2. CASE t # s
  <2>1. worker'[t] = worker[t] /\ ShapeOf(t)
    BY <1>2 DEF OthersKept, WorkerShape
  <2> QED BY <2>1 DEF ShapeOf
<1> QED BY <1>1, <1>2

\* Slots that stay where they are.
LEMMA SlotsKept ==
  ASSUME SlotsOnce, HandsKept, UNCHANGED <<queue, active, peak>>, capacity' > 0 => capacity > 0
  PROVE  SlotsOnce'
<1>1. \A s : QueuedFor(s)' = QueuedFor(s)
  BY DEF QueuedFor
<1>2. \A t \in Stages : worker'[t].slot = worker[t].slot
  BY DEF HandsKept
<1>3. \A s \in Stages : IsInjective(queue[s])'
  BY DEF SlotsOnce
<1>4. \A s \in Stages, t \in Stages : s # t =>
        /\ QueuedFor(s)' \cap QueuedFor(t)' = {}
        /\ worker'[s].slot = 0 \/ worker'[s].slot # worker'[t].slot
  BY <1>1, <1>2 DEF SlotsOnce
<1>5. \A s \in Stages, t \in Stages : worker'[t].slot \notin QueuedFor(s)'
  BY <1>1, <1>2 DEF SlotsOnce
<1>6. capacity' > 0 =>
        /\ \A i \in Slots : \E s \in Stages : i \in QueuedFor(s)' \/ i = worker'[s].slot
        /\ active' = Cardinality(Slots \ QueuedFor("A")')
  BY <1>1, <1>2 DEF SlotsOnce
<1>7. active' <= peak' /\ peak' <= SlotCount
  BY DEF SlotsOnce
<1> QED BY <1>3, <1>4, <1>5, <1>6, <1>7 DEF SlotsOnce

\* A queue whose slots, frames and neighbours stay as they are.
LEMMA FlowKept ==
  ASSUME FlowTypes, NEW p \in Stages, NEW s \in Stages, InOrder(p, s), queue'[s] = queue[s],
         worker'[s].slot = worker[s].slot, worker'[s].frame = worker[s].frame, worker'[p].frame = worker[p].frame,
         \A i \in QueuedFor(s) : atom'[i].frameId = atom[i].frameId,
         worker[s].slot # 0 => atom'[worker[s].slot].frameId = atom[worker[s].slot].frameId
  PROVE  InOrder(p, s)'
<1>2. Busy(s)' = Busy(s)
  BY DEF Busy
<1>3. \A i \in 1..Len(queue[s]) : queue[s][i] \in QueuedFor(s)
  BY QueueFacts
<1>4. Len(queue'[s]) = worker'[p].frame - worker'[s].frame - Busy(s)'
  BY <1>2 DEF InOrder
<1>5. ASSUME NEW i \in 1..Len(queue'[s])
      PROVE  atom'[queue'[s][i]].frameId = worker'[s].frame + Busy(s)' + i - 1
  BY <1>2, <1>3 DEF InOrder
<1>6. worker'[s].slot # 0 => Held(s)'.frameId = worker'[s].frame
  BY DEF InOrder, Held
<1> QED BY <1>4, <1>5, <1>6 DEF InOrder, Held

\* Queued atoms that nobody writes to.
LEMMA QueuedKept ==
  ASSUME FreeAtoms, PassedAtoms, queue' = queue, worker'["B"].frame = worker["B"].frame,
         \A s \in Stages : \A i \in QueuedFor(s) : atom'[i] = atom[i]
  PROVE  FreeAtoms' /\ PassedAtoms'
<1>1. QueuedFor("A")' = QueuedFor("A") /\ QueuedFor("Cpu")' = QueuedFor("Cpu") /\ QueuedFor("B")' = QueuedFor("B")
  BY DEF QueuedFor
<1>2. FreeAtoms'
  BY <1>1, StageFacts DEF FreeAtoms
<1>3. \A i \in QueuedFor("Cpu") : Produced(atom'[i])
  BY StageFacts DEF PassedAtoms
<1>4. \A i \in QueuedFor("B") : Finished(atom'[i])
  BY StageFacts DEF PassedAtoms
<1>5. PassedAtoms'
  BY <1>1, <1>3, <1>4 DEF PassedAtoms, Produced, Finished, Loaded
<1> QED BY <1>2, <1>5

\* A stage at rest keeps its atom.
LEMMA AStays ==
  ASSUME WorkerShape, HeldByA, worker'["A"] = worker["A"], worker'["B"].frame = worker["B"].frame,
         worker["A"].slot # 0 => atom'[worker["A"].slot] = atom[worker["A"].slot]
  PROVE  HeldByA'
<1>1. worker["A"].pc \in Working => worker["A"].slot # 0
  BY StageFacts DEF WorkerShape, ShapeOf
<1>2. worker["A"].slot # 0 => Held("A")' = Held("A")
  BY DEF Held
<1> QED BY <1>1, <1>2 DEF HeldByA, Working, Produced, Loaded

\* The same for the CPU chain.
LEMMA CpuStays ==
  ASSUME WorkerShape, HeldByCpu, worker'["Cpu"] = worker["Cpu"],
         worker["Cpu"].slot # 0 => atom'[worker["Cpu"].slot] = atom[worker["Cpu"].slot]
  PROVE  HeldByCpu'
<1>1. worker["Cpu"].pc \in Working => worker["Cpu"].slot # 0
  BY StageFacts DEF WorkerShape, ShapeOf
<1>2. worker["Cpu"].slot # 0 => Held("Cpu")' = Held("Cpu")
  BY DEF Held
<1> QED BY <1>1, <1>2 DEF HeldByCpu, Working, Finished, Loaded

\* The same for B.
LEMMA BStays ==
  ASSUME WorkerShape, HeldByB, worker'["B"] = worker["B"],
         worker["B"].slot # 0 => atom'[worker["B"].slot] = atom[worker["B"].slot]
  PROVE  HeldByB'
<1>1. worker["B"].pc \in Working => worker["B"].slot # 0
  BY StageFacts DEF WorkerShape, ShapeOf
<1>2. worker["B"].slot # 0 => Held("B")' = Held("B")
  BY DEF Held
<1> QED BY <1>1, <1>2 DEF HeldByB, Finished, Loaded

\* A worker outside the leasing part of execute has no lease.
LEMMA NoLease ==
  ASSUME LeasesFit, NEW s \in GpuStages, worker[s].pc \notin Leasing
  PROVE  lease[s] = Cache!Nothing /\ lease[s].kind = "none"
BY DEF LeasesFit, LeaseFits, Cache!Nothing

\* The cache, when a worker without a lease moves.
LEMMA CacheKept ==
  ASSUME LeasesFit, PublishedFit, NEW s \in Stages, worker[s].pc \notin Leasing,
         OthersKept(s), \A t \in Stages : worker'[t].frame = worker[t].frame, UNCHANGED cacheVars,
         s = "A" => worker'["A"].pc \in {"pass", "exit"} \/ worker["A"].pc \notin {"pass", "exit"}
  PROVE  LeasesFit' /\ PublishedFit'
<1>1. ASSUME NEW t \in GpuStages PROVE LeaseFits(t)'
  <2>1. CASE t = s
    <3>1. lease'[t] = Cache!Nothing
      BY <2>1, NoLease
    <3> QED BY <3>1 DEF LeaseFits
  <2>2. CASE t # s
    <3>1. worker'[t] = worker[t] /\ LeaseFits(t)
      BY <2>2, StageFacts DEF OthersKept, LeasesFit
    <3> QED BY <3>1 DEF LeaseFits
  <2> QED BY <2>1, <2>2
<1>2. lease'["B"].kind = "read" => stored'[worker'["B"].frame] = worker'["B"].frame
  BY StageFacts DEF LeasesFit
<1>3. LeasesFit'
  BY <1>1, <1>2 DEF LeasesFit
<1>4. worker'["A"].frame = worker["A"].frame
  BY StageFacts
<1>5. worker["A"].pc \in {"pass", "exit"} => worker'["A"].pc \in {"pass", "exit"}
  BY StageFacts DEF OthersKept
<1>6. PublishedFit'
  BY <1>4, <1>5 DEF PublishedFit
<1> QED BY <1>3, <1>6

-----------------------------------------------------------------------------
(* Moves that leave slots and atoms alone *)

\* What a worker cannot disturb that keeps its slot and writes to no atom but
\* the one it holds.
LEMMA AtomMove ==
  ASSUME IInv, NEW s \in Stages, worker[s].pc \notin {"absent", "exit"}, worker'[s].pc # "absent",
         HandsKept, OthersKept(s), failed => failed',
         UNCHANGED <<queue, active, peak, runner, capacity>>,
         \A t \in Stages : \A i \in QueuedFor(t) : atom'[i] = atom[i],
         \A t \in Stages : t # s /\ worker[t].slot # 0 => atom'[worker[t].slot] = atom[worker[t].slot],
         s # "A" /\ worker[s].slot # 0 => atom'[worker[s].slot].frameId = atom[worker[s].slot].frameId
  PROVE  /\ RunnerShape' /\ VerdictIsHonest'
         /\ SlotsOnce' /\ InOrder("A", "Cpu")' /\ InOrder("Cpu", "B")'
         /\ FreeAtoms' /\ PassedAtoms'
         /\ s # "A" => HeldByA'
         /\ s # "Cpu" => HeldByCpu'
         /\ s # "B" => HeldByB'
<1>1. TypeOK /\ FlowTypes
  BY DEF IInv, TypeOK
<1>2. RunnerShape' /\ VerdictIsHonest'
  BY <1>1, RunnerKept DEF IInv
<1>3. SlotsOnce'
  BY SlotsKept DEF IInv
<1>4. ASSUME NEW p \in Stages, NEW r \in {"Cpu", "B"}, InOrder(p, r) PROVE InOrder(p, r)'
  <2>1. r \in Stages /\ r # "A"
    BY StageFacts
  <2>2. worker[r].slot # 0 => atom'[worker[r].slot].frameId = atom[worker[r].slot].frameId
    BY <2>1
  <2>3. \A i \in QueuedFor(r) : atom'[i].frameId = atom[i].frameId
    BY <2>1
  <2> QED BY <1>1, <1>4, <2>1, <2>2, <2>3, FlowKept DEF HandsKept
<1>5. worker'["B"].frame = worker["B"].frame
  BY StageFacts DEF HandsKept
<1>6. FreeAtoms' /\ PassedAtoms'
  BY <1>5, QueuedKept DEF IInv, AtomsFit
<1>7. s # "A" => HeldByA'
  BY <1>5, AStays, StageFacts DEF IInv, AtomsFit, OthersKept
<1>8. s # "Cpu" => HeldByCpu'
  BY CpuStays, StageFacts DEF IInv, AtomsFit, OthersKept
<1>9. s # "B" => HeldByB'
  BY BStays, StageFacts DEF IInv, AtomsFit, OthersKept
<1> QED BY <1>2, <1>3, <1>4, <1>6, <1>7, <1>8, <1>9, StageFacts DEF IInv

\* The same for a worker that writes to no atom.
LEMMA PlainMove ==
  ASSUME IInv, NEW s \in Stages, worker[s].pc \notin {"absent", "exit"}, worker'[s].pc # "absent",
         HandsKept, OthersKept(s), failed => failed',
         UNCHANGED <<queue, active, peak, atom, runner, capacity>>
  PROVE  /\ RunnerShape' /\ VerdictIsHonest'
         /\ SlotsOnce' /\ InOrder("A", "Cpu")' /\ InOrder("Cpu", "B")'
         /\ FreeAtoms' /\ PassedAtoms'
         /\ s # "A" => HeldByA'
         /\ s # "Cpu" => HeldByCpu'
         /\ s # "B" => HeldByB'
BY AtomMove

\* The atom in a worker's hands is in nobody else's.
LEMMA AtomChanges ==
  ASSUME IInv, NEW s \in Stages, worker[s].slot \in Slots, NEW a \in AtomStates,
         atom' = [atom EXCEPT ![worker[s].slot] = a]
  PROVE  /\ AtomTypes' /\ atom'[worker[s].slot] = a
         /\ \A t \in Stages : \A i \in QueuedFor(t) : atom'[i] = atom[i]
         /\ \A t \in Stages : t # s /\ worker[t].slot # 0 => atom'[worker[t].slot] = atom[worker[t].slot]
<1>1. AtomTypes /\ FlowTypes /\ WorkerTypes /\ SlotsOnce
  BY DEF IInv, TypeOK
<1>2. AtomTypes' /\ atom'[worker[s].slot] = a /\ \A i \in Slots : i # worker[s].slot => atom'[i] = atom[i]
  BY <1>1 DEF AtomTypes
<1>3. \A t \in Stages : QueuedFor(t) \subseteq Slots /\ worker[s].slot \notin QueuedFor(t)
  BY <1>1, QueueFacts DEF SlotsOnce
<1>4. \A t \in Stages : t # s /\ worker[t].slot # 0 => worker[t].slot \in Slots /\ worker[t].slot # worker[s].slot
  BY <1>1, WorkerFacts DEF SlotsOnce
<1> QED BY <1>2, <1>3, <1>4

\* Faults stay known when one worker moves and what it learns is recorded.
LEMMA FaultsKept ==
  ASSUME IInv, NEW s \in Stages, OthersKept(s), worker[s].pc \notin {"absent", "exit"},
         failed => failed', fault => fault',
         failed' \/ broken' => fault',
         s \in GpuStages /\ Failing(s)' => fault',
         s \in GpuStages /\ Failing(s) => failed' \/ Failing(s)',
         fault' => fault \/ failed' \/ (s \in GpuStages /\ Failing(s)')
  PROVE  FaultsAreTold'
<1>1. TypeOK /\ RunnerShape /\ FaultsAreTold
  BY DEF IInv
<1>2. runner \notin {"returned", "gone"}
  BY <1>1, RunnerWaits
<1>3. \A t \in GpuStages : t # s => (Failing(t)' <=> Failing(t))
  BY StageFacts DEF OthersKept, Failing
<1>4. \A t \in GpuStages : Failing(t)' => fault'
  BY <1>1, <1>3 DEF FaultsAreTold
<1>5. ASSUME fault' PROVE failed' \/ \E t \in GpuStages : Failing(t)'
  <2>1. CASE fault
    <3>1. failed \/ \E t \in GpuStages : Failing(t)
      BY <1>1, <1>2, <2>1 DEF FaultsAreTold
    <3> QED BY <1>3, <3>1
  <2>2. CASE ~fault
    BY <1>5, <2>2
  <2> QED BY <2>1, <2>2
<1> QED BY <1>4, <1>5 DEF FaultsAreTold

\* The counters, when B does not finish or begin to copy.
LEMMA CountersKept ==
  ASSUME IInv, UNCHANGED <<completed, hits, uploads>>, fault => fault',
         worker'["B"].frame = worker["B"].frame,
         (worker'["B"].pc = "pass") <=> (worker["B"].pc = "pass"),
         (worker'["B"].pc \in {"synchronize", "complete"}) <=> (worker["B"].pc \in {"synchronize", "complete"})
  PROVE  CountersFollowB'
BY DEF IInv, CountersFollowB

Idle == {"absent", "born", "await", "take"}

\* A worker without a slot stays without one.
LEMMA IdleMove ==
  ASSUME IInv, NEW s \in Stages, worker[s].pc \in Idle, NEW to \in Idle, Goto(s, to),
         UNCHANGED cacheVars, UNCHANGED counterVars, UNCHANGED atom, failed => failed', fault => fault'
  PROVE  /\ WorkerTypes' /\ HandsKept /\ OthersKept(s) /\ worker'[s].pc = to
         /\ WorkerShape' /\ LeasesFit' /\ CopiesFit' /\ PublishedFit' /\ CountersFollowB'
         /\ s = "A" => HeldByA'
         /\ s = "Cpu" => HeldByCpu'
         /\ s = "B" => HeldByB'
<1>1. WorkerTypes /\ to \in Positions /\ to \notin Working /\ worker[s].pc \notin Working
  BY DEF IInv, TypeOK, Idle, Positions, Working, Leasing
<1>2. WorkerTypes' /\ HandsKept /\ OthersKept(s) /\ worker'[s].pc = to
  BY <1>1, GotoFacts
<1>3. worker[s].slot = 0 /\ worker'[s].slot = 0 /\ worker'[s].frame = worker[s].frame
  BY <1>2 DEF IInv, WorkerShape, ShapeOf, Idle, HandsKept
<1>4. ShapeOf(s)'
  <2>1. ShapeOf(s)
    BY DEF IInv, WorkerShape
  <2> QED BY <1>1, <1>2, <1>3, <2>1 DEF ShapeOf, Idle, Working, Leasing
<1>5. WorkerShape'
  BY <1>2, <1>4, ShapeKept DEF IInv
<1>6. LeasesFit' /\ PublishedFit'
  BY <1>1, <1>2, CacheKept DEF IInv, CacheShape, HandsKept, Idle, Working
<1>7. CopiesFit'
  BY <1>2, StageFacts DEF IInv, CacheShape, CopiesFit, OthersKept, Idle
<1>8. CountersFollowB'
  <2>1. worker'["B"].frame = worker["B"].frame
    BY <1>2, StageFacts DEF HandsKept
  <2>2. worker'["B"] = worker["B"] \/ (worker["B"].pc \in Idle /\ worker'["B"].pc \in Idle)
    BY <1>2, StageFacts DEF OthersKept
  <2> QED BY <2>1, <2>2, CountersKept DEF Idle
<1>9. s = "A" => HeldByA'
  BY <1>1, <1>2, <1>3 DEF HeldByA, Working
<1>10. s = "Cpu" => HeldByCpu'
  BY <1>1, <1>2 DEF HeldByCpu, Working
<1>11. s = "B" => HeldByB'
  BY <1>1, <1>2 DEF HeldByB
<1> QED BY <1>2, <1>5, <1>6, <1>7, <1>8, <1>9, <1>10, <1>11

-----------------------------------------------------------------------------
(* A worker that gives up *)

\* A worker that leaves because something failed keeps its slot; nothing but
\* the cache, if it had a lease, is touched.
LEMMA GivesUp ==
  ASSUME IInv, NEW s \in Stages, worker[s].pc \notin {"absent", "exit"},
         ~(s = "A" /\ worker[s].pc = "execute"),
         Goto(s, "exit"), failed' = TRUE, fault' = TRUE,
         UNCHANGED <<queue, active, peak, atom, runner, capacity>>
  PROVE  /\ WorkerTypes' /\ WorkerShape' /\ RunnerShape' /\ VerdictIsHonest'
         /\ SlotsOnce' /\ InOrder("A", "Cpu")' /\ InOrder("Cpu", "B")'
         /\ AtomsFit' /\ CopiesFit' /\ FaultsAreTold' /\ CountersFollowB'
<1>1. TypeOK /\ FlowTypes /\ WorkerTypes
  BY DEF IInv, TypeOK
<1>2. "exit" \in Positions /\ "exit" \notin Working
  BY DEF Positions, Working, Leasing
<1>3. /\ WorkerTypes' /\ HandsKept /\ OthersKept(s) /\ worker'[s].pc = "exit"
  BY <1>1, <1>2, GotoFacts
<1>4. ShapeOf(s)'
  <2>1. ShapeOf(s) /\ worker'[s].slot = worker[s].slot /\ worker'[s].frame = worker[s].frame
    BY <1>3 DEF IInv, WorkerShape, HandsKept
  <2> QED BY <1>3, <2>1 DEF ShapeOf, Working, Leasing
<1>5. WorkerShape'
  BY <1>3, <1>4, ShapeKept DEF IInv
<1>6. /\ RunnerShape' /\ VerdictIsHonest'
      /\ SlotsOnce' /\ InOrder("A", "Cpu")' /\ InOrder("Cpu", "B")'
      /\ FreeAtoms' /\ PassedAtoms'
      /\ s # "A" => HeldByA'
      /\ s # "Cpu" => HeldByCpu'
      /\ s # "B" => HeldByB'
  BY <1>3, PlainMove
<1>7. ASSUME s = "A" PROVE HeldByA'
  <2>1. worker["A"].slot # 0 => Held("A").frameId = worker["A"].frame
    BY <1>7 DEF IInv, AtomsFit, HeldByA
  <2>2. worker'["A"].slot # 0 => Held("A")'.frameId = worker'["A"].frame
    BY <1>3, <2>1, StageFacts DEF HandsKept, Held
  <2> QED BY <1>3, <1>7, <2>2 DEF HeldByA, Leasing
<1>8. s = "Cpu" => HeldByCpu'
  BY <1>3 DEF HeldByCpu
<1>9. s = "B" => HeldByB'
  BY <1>2, <1>3 DEF HeldByB
<1>10. AtomsFit'
  BY <1>6, <1>7, <1>8, <1>9 DEF AtomsFit
<1>11. CopiesFit'
  BY <1>3, StageFacts DEF IInv, CacheShape, CopiesFit, OthersKept
<1>12. FaultsAreTold' /\ CountersFollowB'
  BY DEF FaultsAreTold, CountersFollowB
<1> QED BY <1>3, <1>5, <1>6, <1>10, <1>11, <1>12

\* The same without a lease: the whole invariant.
LEMMA GivesUpEmptyHanded ==
  ASSUME IInv, NEW s \in Stages, worker[s].pc \notin {"absent", "exit"} \cup Leasing,
         ~(s = "A" /\ worker[s].pc = "execute"),
         Goto(s, "exit"), failed' = TRUE, fault' = TRUE,
         UNCHANGED <<queue, active, peak, atom, owned>>, UNCHANGED cacheVars, UNCHANGED runnerVars,
         UNCHANGED counterVars
  PROVE  IInv'
<1>1. /\ WorkerTypes' /\ WorkerShape' /\ RunnerShape' /\ VerdictIsHonest'
      /\ SlotsOnce' /\ InOrder("A", "Cpu")' /\ InOrder("Cpu", "B")'
      /\ AtomsFit' /\ CopiesFit' /\ FaultsAreTold' /\ CountersFollowB'
  BY GivesUp
<1>2. WorkerTypes /\ "exit" \in Positions
  BY DEF IInv, TypeOK, Positions
<1>3. HandsKept /\ OthersKept(s) /\ worker'[s].pc = "exit"
  BY <1>2, GotoFacts
<1>4. LeasesFit' /\ PublishedFit'
  BY <1>3, CacheKept DEF IInv, CacheShape, HandsKept
<1>5. TypeOK'
  BY <1>1 DEF IInv, TypeOK, FlowTypes, AtomTypes, FlagTypes, CounterTypes, CacheTypes
<1> QED BY <1>1, <1>4, <1>5 DEF IInv, CacheShape

-----------------------------------------------------------------------------
(* A worker up to its first frame *)

\* load(), complete or stopped half-way: only the barrier and the flag hear of it.
LEMMA LoadStep ==
  ASSUME IInv, NEW s \in Stages, Load(s)
  PROVE  IInv'
<1>1. PICK acquired \in 0..AllResources :
        /\ owned' = [t \in GpuStages |-> IF t = s THEN acquired ELSE owned[t]]
        /\ Announce(acquired = AllResources)
        /\ fault' = (fault \/ acquired < AllResources)
  BY DEF Load
<1>2. acquired \in Nat /\ (acquired = AllResources \/ acquired < AllResources) /\ ~(AllResources < AllResources)
  BY DEF AllResources
<1>3. PICK loaded \in BOOLEAN : loaded = (acquired = AllResources)
  OBVIOUS
<1>4. /\ failed' = (failed \/ ~loaded) /\ UNCHANGED <<queue, active, peak, start>>
  BY <1>1, <1>3 DEF Announce
<1>5. fault' = (fault \/ ~loaded)
  BY <1>1, <1>2, <1>3
<1>6. worker[s].pc \in Idle /\ "await" \in Idle /\ Goto(s, "await") /\ worker[s].pc = "born"
  BY DEF Load, Idle
<1>7. UNCHANGED <<cacheVars, runnerVars, atom, counterVars>>
  BY DEF Load
<1>8. /\ WorkerTypes' /\ HandsKept /\ OthersKept(s) /\ worker'[s].pc = "await"
      /\ WorkerShape' /\ LeasesFit' /\ CopiesFit' /\ PublishedFit' /\ CountersFollowB'
      /\ s = "A" => HeldByA'
      /\ s = "Cpu" => HeldByCpu'
      /\ s = "B" => HeldByB'
  BY <1>4, <1>5, <1>6, <1>7, IdleMove
<1>9. /\ RunnerShape' /\ VerdictIsHonest'
      /\ SlotsOnce' /\ InOrder("A", "Cpu")' /\ InOrder("Cpu", "B")'
      /\ FreeAtoms' /\ PassedAtoms'
      /\ s # "A" => HeldByA'
      /\ s # "Cpu" => HeldByCpu'
      /\ s # "B" => HeldByB'
  BY <1>4, <1>6, <1>7, <1>8, PlainMove
<1>10. FaultsAreTold'
  <2>1. ~Failing(s)' /\ ~Failing(s)
    BY <1>6, <1>8 DEF Failing
  <2>2. failed \/ broken => fault
    BY DEF IInv, FaultsAreTold
  <2> QED BY <1>4, <1>5, <1>6, <1>7, <1>8, <2>1, <2>2, FaultsKept
<1>11. FlagTypes'
  BY <1>4, <1>5, <1>7 DEF IInv, TypeOK, FlagTypes
<1>12. owned' \in [GpuStages -> Nat]
  BY <1>1, <1>2 DEF IInv, TypeOK, CounterTypes
<1>13. TypeOK'
  BY <1>4, <1>7, <1>8, <1>11, <1>12 DEF IInv, TypeOK, FlowTypes, AtomTypes, CounterTypes, CacheTypes
<1> QED BY <1>8, <1>9, <1>10, <1>13 DEF IInv, AtomsFit, CacheShape

\* load() throws: the worker leaves, the others are cancelled.
LEMMA LoadThrowsStep ==
  ASSUME IInv, NEW s \in Stages, LoadThrows(s)
  PROVE  IInv'
<1>1. worker[s].pc = "born" /\ worker[s].pc \notin {"absent", "exit"} \cup Leasing
  BY DEF LoadThrows, Leasing
<1> QED BY <1>1, GivesUpEmptyHanded DEF LoadThrows, Abandon, Cancel

\* Leaving a wait because another thread has failed.
LEMMA LeavesWait ==
  ASSUME IInv, NEW s \in Stages, worker[s].pc \in {"await", "take"}, failed, Goto(s, "exit"),
         UNCHANGED <<schedulerVars, cacheVars, runnerVars, atom, owned, counterVars, fault>>
  PROVE  IInv'
<1>1. worker[s].pc \notin {"absent", "exit", "execute"} \cup Leasing
  BY DEF Leasing
<1>2. failed = TRUE /\ fault = TRUE
  BY DEF IInv, TypeOK, FlagTypes, FaultsAreTold
<1> QED BY <1>1, <1>2, GivesUpEmptyHanded

\* A worker leaves the start barrier, for its first frame or for good.
LEMMA StartedStep ==
  ASSUME IInv, NEW s \in Stages, Started(s)
  PROVE  IInv'
<1>1. CASE failed
  BY <1>1, LeavesWait DEF Started
<1>2. CASE ~failed
  <2>1. worker[s].pc \in Idle /\ "take" \in Idle /\ Goto(s, "take") /\ worker[s].pc = "await"
    BY <1>2 DEF Started, Idle
  <2>2. UNCHANGED <<schedulerVars, cacheVars, runnerVars, atom, owned, counterVars, fault>>
    BY DEF Started
  <2>3. /\ WorkerTypes' /\ HandsKept /\ OthersKept(s) /\ worker'[s].pc = "take"
        /\ WorkerShape' /\ LeasesFit' /\ CopiesFit' /\ PublishedFit' /\ CountersFollowB'
        /\ s = "A" => HeldByA'
        /\ s = "Cpu" => HeldByCpu'
        /\ s = "B" => HeldByB'
    BY <2>1, <2>2, IdleMove
  <2>4. /\ RunnerShape' /\ VerdictIsHonest'
        /\ SlotsOnce' /\ InOrder("A", "Cpu")' /\ InOrder("Cpu", "B")'
        /\ FreeAtoms' /\ PassedAtoms'
        /\ s # "A" => HeldByA'
        /\ s # "Cpu" => HeldByCpu'
        /\ s # "B" => HeldByB'
    BY <2>1, <2>2, <2>3, PlainMove
  <2>5. FaultsAreTold'
    <3>1. ~Failing(s)' /\ ~Failing(s)
      BY <2>1, <2>3 DEF Failing
    <3>2. failed \/ broken => fault
      BY DEF IInv, FaultsAreTold
    <3> QED BY <2>1, <2>2, <2>3, <3>1, <3>2, FaultsKept
  <2>6. TypeOK'
    BY <2>2, <2>3 DEF IInv, TypeOK, FlowTypes, AtomTypes, FlagTypes, CounterTypes, CacheTypes
  <2> QED BY <2>3, <2>4, <2>5, <2>6 DEF IInv, AtomsFit, CacheShape
<1> QED BY <1>1, <1>2

-----------------------------------------------------------------------------
(* The ends of a frame that fail without a lease *)

\* A request is refused: with A and B accepting what they get, only for a fault.
LEMMA RefuseStep ==
  ASSUME IInv, NEW s \in GpuStages, Refuse(s)
  PROVE  IInv'
<1>1. worker[s].pc = "request" \/ (s = "B" /\ worker[s].pc = "execute")
  BY DEF Refuse
<1>2. worker[s].pc \notin {"absent", "exit"} \cup Leasing /\ ~(s = "A" /\ worker[s].pc = "execute")
  BY <1>1 DEF Leasing
<1>3. ASSUME ~Accepts(s) \/ broken, UNCHANGED fault PROVE fault' = TRUE
  <2>1. Accepts(s)
    <3>1. CASE s = "A"
      <4>1. worker["A"].pc = "request"
        BY <1>1, <3>1
      <4> QED BY <3>1, <4>1 DEF IInv, AtomsFit, HeldByA, Accepts
    <3>2. CASE s = "B"
      <4>1. worker["B"].pc \in Working
        BY <1>1, <3>2 DEF Working
      <4> QED BY <3>2, <4>1 DEF IInv, AtomsFit, HeldByB, Finished, Loaded, Accepts
    <3> QED BY <3>1, <3>2, StageFacts
  <2> QED BY <1>3, <2>1 DEF IInv, FaultsAreTold, TypeOK, FlagTypes
<1>4. fault' = TRUE
  BY <1>3 DEF Refuse
<1>5. s \in Stages /\ Goto(s, "exit") /\ failed' = TRUE /\ UNCHANGED <<queue, active, peak>>
  BY StageFacts DEF Refuse, Abandon, Cancel
<1>6. UNCHANGED <<cacheVars, runnerVars, atom, owned, counterVars>>
  BY DEF Refuse
<1> QED BY <1>2, <1>4, <1>5, <1>6, GivesUpEmptyHanded

\* push_back throws: the slot stays with the worker that leaves.
LEMMA HandOnThrowsStep ==
  ASSUME IInv, NEW s \in Stages, HandOnThrows(s)
  PROVE  IInv'
<1>1. worker[s].pc = "pass" /\ worker[s].pc \notin {"absent", "exit"} \cup Leasing
  BY DEF HandOnThrows, Leasing
<1> QED BY <1>1, GivesUpEmptyHanded DEF HandOnThrows, Abandon, Cancel

-----------------------------------------------------------------------------
(* The lease of a frame *)

\* The stages work on frames in pipeline order.
LEMMA FramesInOrder ==
  ASSUME IInv
  PROVE  /\ worker["Cpu"].frame <= worker["A"].frame /\ worker["B"].frame <= worker["Cpu"].frame
         /\ worker["Cpu"].slot # 0 => worker["Cpu"].frame < worker["A"].frame
         /\ worker["B"].slot # 0 => worker["B"].frame < worker["Cpu"].frame
<1>1. WorkerTypes /\ FlowTypes /\ InOrder("A", "Cpu") /\ InOrder("Cpu", "B")
  BY DEF IInv, TypeOK
<1>2. /\ worker["A"].frame \in Nat /\ worker["Cpu"].frame \in Nat /\ worker["B"].frame \in Nat
      /\ Len(queue["Cpu"]) \in Nat /\ Len(queue["B"]) \in Nat
  BY <1>1, WorkerFacts, QueueFacts, StageFacts
<1>3. Len(queue["Cpu"]) = worker["A"].frame - worker["Cpu"].frame - Busy("Cpu")
  BY <1>1 DEF InOrder
<1>4. Len(queue["B"]) = worker["Cpu"].frame - worker["B"].frame - Busy("B")
  BY <1>1 DEF InOrder
<1> QED BY <1>2, <1>3, <1>4 DEF Busy

\* A GPU stage at work holds the slot of its frame, a frame of the run.
LEMMA FrameInHand ==
  ASSUME IInv, NEW s \in GpuStages, worker[s].pc \in Working, ~(s = "A" /\ worker[s].pc = "execute")
  PROVE  /\ worker[s].slot \in Slots /\ worker[s].frame \in Frames
         /\ Held(s).frameId = worker[s].frame
<1>1. s \in Stages /\ WorkerTypes /\ ShapeOf(s) /\ worker[s].pc # "exit"
  BY StageFacts DEF IInv, TypeOK, WorkerShape, Working, Leasing
<1>2. worker[s].slot # 0 /\ worker[s].slot \in Slots /\ worker[s].frame \in Nat
  BY <1>1, WorkerFacts DEF ShapeOf
<1>3. worker[s].frame >= 1 /\ worker[s].frame <= FrameCount
  BY <1>1, <1>2 DEF ShapeOf
<1>4. worker[s].frame \in Frames
  BY <1>2, <1>3, ConfigFacts DEF Frames
<1>5. CASE s = "A"
  BY <1>2, <1>4, <1>5 DEF IInv, AtomsFit, HeldByA
<1>6. CASE s = "B"
  BY <1>2, <1>4, <1>6 DEF IInv, InOrder
<1> QED BY <1>5, <1>6, StageFacts

\* Results are named by their frame.
LEMMA ResultFacts ==
  /\ \A f : Result(f).key = f
  /\ \A f, g : Result(f) = Result(g) => f = g
<1>1. \A f : Result(f).key = f
  BY DEF Result
<1> QED BY <1>1

\* The parts of a lease.
LEMMA LeaseParts ==
  ASSUME NEW kind, NEW r
  PROVE  /\ Cache!Lease(kind, r).kind = kind /\ Cache!Lease(kind, r).frame = r
         /\ Cache!Nothing.kind = "none"
BY DEF Cache!Lease, Cache!Nothing

\* A stage gets a lease on the frame in its hands; A cannot find it published.
LEMMA RequestStep ==
  ASSUME IInv, NEW s \in GpuStages, Request(s)
  PROVE  IInv'
<1>1. worker[s].pc = "request" \/ (s = "B" /\ worker[s].pc = "execute")
  BY DEF Request
<1>2. /\ worker[s].pc \in Working /\ worker[s].pc \notin {"absent", "exit"} \cup Leasing
      /\ ~(s = "A" /\ worker[s].pc = "execute") /\ worker[s].pc # "pass"
  BY <1>1 DEF Leasing, Working
<1>3. s \in Stages /\ WorkerTypes /\ "submit" \in Positions /\ "submit" \in Leasing /\ "submit" \in Working
  BY StageFacts DEF IInv, TypeOK, Positions, Working, Leasing
<1>4. /\ UNCHANGED <<schedulerVars, runnerVars, stored, atom, owned, counterVars, fault>>
      /\ Goto(s, "submit") /\ Acquire(s)
  BY DEF Request
<1>5. WorkerTypes' /\ HandsKept /\ OthersKept(s) /\ worker'[s].pc = "submit"
  BY <1>3, <1>4, GotoFacts
<1>6. worker[s].slot \in Slots /\ worker[s].frame \in Frames /\ Held(s).frameId = worker[s].frame
  BY <1>2, FrameInHand
<1>7. PICK r : r = Result(worker[s].frame)
  OBVIOUS
<1>8. PICK kind \in {"read", "fill", "private"} :
        /\ lease' = [lease EXCEPT ![s] = Cache!Lease(kind, r)]
        /\ kind = "read" => r \in published
        /\ published' \subseteq published
        /\ UNCHANGED <<capacity, broken>>
  BY <1>4, <1>6, <1>7 DEF Acquire, Cache!Borrow, Cache!Reserve, Cache!GoPrivate, Cache!Grant
<1>9. lease \in [GpuStages -> LeaseStates] /\ Cache!Lease(kind, r) \in LeaseStates
  BY <1>6, <1>7, <1>8 DEF IInv, TypeOK, CacheTypes, LeaseStates
<1>10. /\ lease' \in [GpuStages -> LeaseStates] /\ lease'[s] = Cache!Lease(kind, r)
       /\ \A t \in GpuStages \ {s} : lease'[t] = lease[t]
  BY <1>8, <1>9
<1>11. CacheTypes'
  BY <1>4, <1>8, <1>10 DEF IInv, TypeOK, CacheTypes
<1>12. TypeOK'
  BY <1>4, <1>5, <1>11 DEF IInv, TypeOK, FlowTypes, AtomTypes, FlagTypes, CounterTypes
<1>13. ShapeOf(s)'
  <2>1. ShapeOf(s) /\ worker'[s].slot = worker[s].slot /\ worker'[s].frame = worker[s].frame
    BY <1>3, <1>5 DEF IInv, WorkerShape, HandsKept
  <2> QED BY <1>2, <1>3, <1>5, <2>1 DEF ShapeOf
<1>14. WorkerShape'
  BY <1>3, <1>4, <1>5, <1>13, ShapeKept DEF IInv
<1>15. /\ RunnerShape' /\ VerdictIsHonest'
       /\ SlotsOnce' /\ InOrder("A", "Cpu")' /\ InOrder("Cpu", "B")'
       /\ FreeAtoms' /\ PassedAtoms'
       /\ s # "A" => HeldByA'
       /\ s # "Cpu" => HeldByCpu'
       /\ s # "B" => HeldByB'
  BY <1>2, <1>3, <1>4, <1>5, <1>8, PlainMove
<1>16. Held(s)' = Held(s) /\ worker'[s].frame = worker[s].frame /\ worker'[s].slot = worker[s].slot
  BY <1>3, <1>4, <1>5 DEF Held, HandsKept
<1>17. AtomsFit'
  <2>1. ASSUME s = "A" PROVE HeldByA'
    <3>1. /\ ~Held("A").ready /\ Held("A").cpuStages = 0
          /\ Held("A").frame = worker["A"].frame
      BY <1>1, <2>1 DEF IInv, AtomsFit, HeldByA
    <3> QED BY <1>3, <1>5, <1>6, <1>16, <2>1, <3>1 DEF HeldByA
  <2>2. ASSUME s = "B" PROVE HeldByB'
    BY <1>2, <1>16, <2>2 DEF IInv, AtomsFit, HeldByB, Finished, Loaded
  <2> QED BY <1>15, <2>1, <2>2, StageFacts DEF AtomsFit
<1>18. ASSUME kind = "read" PROVE s = "B" /\ stored[worker[s].frame] = worker[s].frame
  <2>1. /\ stored[worker[s].frame] = worker[s].frame
        /\ \/ worker[s].frame < worker["A"].frame
           \/ worker[s].frame = worker["A"].frame /\ worker["A"].pc \in {"pass", "exit"}
    BY <1>6, <1>7, <1>8, <1>18 DEF IInv, CacheShape, PublishedFit
  <2>2. worker["A"].frame \in Nat
    BY <1>3, WorkerFacts, StageFacts
  <2> QED BY <1>2, <2>1, <2>2, StageFacts
<1>19. LeasesFit'
  <2>1. LeaseFits(s)'
    BY <1>3, <1>5, <1>7, <1>10, <1>16 DEF LeaseFits
  <2>2. ASSUME NEW t \in GpuStages, t # s PROVE LeaseFits(t)'
    <3>1. lease'[t] = lease[t] /\ worker'[t] = worker[t] /\ LeaseFits(t)
      BY <1>5, <1>10, <2>2, StageFacts DEF OthersKept, IInv, CacheShape, LeasesFit
    <3> QED BY <3>1 DEF LeaseFits
  <2>3. lease'[s].kind = kind
    BY <1>10, LeaseParts
  <2>4. lease'["A"].kind # "read"
    <3>1. CASE s = "A"
      BY <1>18, <2>3, <3>1
    <3>2. CASE s # "A"
      BY <1>10, <3>2 DEF IInv, CacheShape, LeasesFit, GpuStages
    <3> QED BY <3>1, <3>2
  <2>5. lease'["B"].kind = "read" => stored'[worker'["B"].frame] = worker'["B"].frame
    <3>1. CASE s = "B"
      BY <1>4, <1>16, <1>18, <2>3, <3>1
    <3>2. CASE s # "B"
      BY <1>4, <1>5, <1>10, <3>2, StageFacts DEF IInv, CacheShape, LeasesFit, OthersKept, GpuStages
    <3> QED BY <3>1, <3>2
  <2> QED BY <2>1, <2>2, <2>4, <2>5 DEF LeasesFit
<1>20. PublishedFit'
  <2>1. worker["A"].pc \in {"pass", "exit"} => worker'["A"].pc \in {"pass", "exit"}
    BY <1>2, <1>5, StageFacts DEF OthersKept
  <2>2. worker'["A"].frame = worker["A"].frame
    BY <1>5, StageFacts DEF HandsKept
  <2> QED BY <1>4, <1>8, <2>1, <2>2 DEF IInv, CacheShape, PublishedFit
<1>21. CopiesFit'
  BY <1>5, StageFacts DEF IInv, CacheShape, CopiesFit, OthersKept
<1>22. FaultsAreTold'
  <2>1. ~Failing(s)' /\ ~Failing(s)
    BY <1>1, <1>5 DEF Failing
  <2>2. failed \/ broken => fault
    BY DEF IInv, FaultsAreTold
  <2> QED BY <1>2, <1>3, <1>4, <1>5, <1>8, <2>1, <2>2, FaultsKept
<1>23. CountersFollowB'
  <2>1. worker'["B"].frame = worker["B"].frame
    BY <1>5, StageFacts DEF HandsKept
  <2>2. worker'["B"] = worker["B"] \/ (worker["B"].pc \in {"request", "execute"} /\ worker'["B"].pc = "submit")
    BY <1>1, <1>5, StageFacts DEF OthersKept
  <2> QED BY <1>4, <2>1, <2>2, CountersKept
<1> QED BY <1>12, <1>14, <1>15, <1>17, <1>19, <1>20, <1>21, <1>22, <1>23 DEF IInv, CacheShape

\* The worker after the copies and the kernel.
LEMMA SubmitFacts ==
  ASSUME WorkerTypes, NEW s \in Stages, NEW pc \in Positions, NEW ok \in BOOLEAN, NEW h \in Nat,
         worker' = [worker EXCEPT ![s].pc = pc, ![s].ok = ok, ![s].h_in = h]
  PROVE  /\ WorkerTypes' /\ HandsKept /\ OthersKept(s)
         /\ worker'[s].pc = pc /\ worker'[s].ok = ok /\ worker'[s].h_in = h
<1>1. worker[s] \in WorkerStates
  BY WorkerFacts
<1>2. PICK w : w = [worker[s] EXCEPT !.pc = pc, !.ok = ok, !.h_in = h]
  OBVIOUS
<1>3. /\ w \in WorkerStates /\ w.pc = pc /\ w.slot = worker[s].slot /\ w.frame = worker[s].frame
      /\ w.ok = ok /\ w.h_in = h
  BY <1>1, <1>2 DEF WorkerStates
<1>4. worker' = [worker EXCEPT ![s] = w]
  BY <1>2 DEF WorkerTypes
<1>5. WorkerTypes' /\ worker'[s] = w /\ OthersKept(s)
  BY <1>3, <1>4, WorkerChanges
<1>6. HandsKept
  BY <1>3, <1>5 DEF HandsKept, OthersKept
<1> QED BY <1>3, <1>5, <1>6

\* A worker that stays within the leasing part of execute keeps its atom, and
\* its lease if it has one.
LEMMA LeasingMove ==
  ASSUME IInv, NEW s \in GpuStages, worker[s].pc \in Leasing, worker'[s].pc \in Leasing,
         HandsKept, OthersKept(s),
         UNCHANGED <<queue, active, peak, atom, runner, capacity, failed, lease, published, stored>>
  PROVE  /\ WorkerShape' /\ RunnerShape' /\ VerdictIsHonest'
         /\ SlotsOnce' /\ InOrder("A", "Cpu")' /\ InOrder("Cpu", "B")'
         /\ AtomsFit' /\ LeasesFit' /\ PublishedFit'
<1>1. /\ s \in Stages /\ worker[s].pc \notin {"absent", "exit", "pass", "execute", "request"}
      /\ worker'[s].pc \notin {"absent", "exit", "pass", "execute", "request"}
      /\ worker[s].pc \in Working /\ worker'[s].pc \in Working
  BY StageFacts DEF Leasing, Working
<1>2. Held(s)' = Held(s) /\ worker'[s].frame = worker[s].frame /\ worker'[s].slot = worker[s].slot
  BY <1>1 DEF Held, HandsKept
<1>3. ShapeOf(s)'
  <2>1. ShapeOf(s)
    BY <1>1 DEF IInv, WorkerShape
  <2>2. worker'[s].pc \notin {"born", "await", "take"}
    BY DEF Leasing
  <2> QED BY <1>1, <1>2, <2>1, <2>2 DEF ShapeOf
<1>4. WorkerShape'
  BY <1>1, <1>3, ShapeKept DEF IInv
<1>5. /\ RunnerShape' /\ VerdictIsHonest'
      /\ SlotsOnce' /\ InOrder("A", "Cpu")' /\ InOrder("Cpu", "B")'
      /\ FreeAtoms' /\ PassedAtoms'
      /\ s # "A" => HeldByA'
      /\ s # "Cpu" => HeldByCpu'
      /\ s # "B" => HeldByB'
  BY <1>1, PlainMove
<1>6. ASSUME s = "A" PROVE HeldByA'
  <2>1. /\ ~Held("A").ready /\ Held("A").cpuStages = 0
        /\ Held("A").frame = worker["A"].frame
        /\ Held("A").frameId = worker["A"].frame
    BY <1>1, <1>6, FrameInHand DEF IInv, AtomsFit, HeldByA
  <2> QED BY <1>1, <1>2, <1>6, <2>1 DEF HeldByA
<1>7. ASSUME s = "B" PROVE HeldByB'
  BY <1>1, <1>2, <1>7 DEF IInv, AtomsFit, HeldByB, Finished, Loaded
<1>8. AtomsFit'
  BY <1>5, <1>6, <1>7, StageFacts DEF AtomsFit
<1>9. ASSUME NEW t \in GpuStages PROVE LeaseFits(t)'
  <2>1. LeaseFits(t) /\ worker'[t].frame = worker[t].frame
    BY StageFacts DEF IInv, CacheShape, LeasesFit, HandsKept
  <2>2. worker[t].pc \in Leasing => worker'[t].pc \in Leasing
    BY StageFacts DEF OthersKept
  <2> QED BY <2>1, <2>2 DEF LeaseFits
<1>10. LeasesFit'
  BY <1>9, StageFacts DEF IInv, CacheShape, LeasesFit, HandsKept
<1>11. PublishedFit'
  <2>1. worker["A"].pc \in {"pass", "exit"} => worker'["A"].pc \in {"pass", "exit"}
    BY <1>1, StageFacts DEF OthersKept
  <2>2. worker'["A"].frame = worker["A"].frame
    BY StageFacts DEF HandsKept
  <2> QED BY <2>1, <2>2 DEF IInv, CacheShape, PublishedFit
<1> QED BY <1>4, <1>5, <1>8, <1>10, <1>11

\* The copies are submitted; what comes back is the frame in hand, from the
\* lease or from the atom.
LEMMA SubmitStep ==
  ASSUME IInv, NEW s \in GpuStages, Submit(s)
  PROVE  IInv'
<1> DEFINE hit == lease[s].kind = "read"
           h == CASE s = "A" -> Held(s).frame
                  [] s = "B" /\ hit -> stored[lease[s].frame.key]
                  [] OTHER -> Held(s).result
<1>1. /\ worker[s].pc = "submit"
      /\ UNCHANGED <<schedulerVars, cacheVars, runnerVars, atom, owned, completed>>
  BY DEF Submit
<1>2. PICK submitted \in BOOLEAN, uploaded \in BOOLEAN :
        /\ submitted => uploaded
        /\ worker' = [worker EXCEPT ![s].pc = "synchronize", ![s].ok = submitted, ![s].h_in = h]
        /\ hits' = IF s = "B" /\ hit THEN hits + 1 ELSE hits
        /\ uploads' = IF s = "B" /\ ~hit /\ uploaded THEN uploads + 1 ELSE uploads
        /\ fault' = (fault \/ (~submitted /\ ~(s = "A" /\ hit)))
  BY DEF Submit
<1>3. /\ s \in Stages /\ WorkerTypes /\ worker[s].pc \in Leasing /\ worker[s].pc \in Working
      /\ "synchronize" \in Positions /\ "synchronize" \in Leasing
  BY <1>1, StageFacts DEF IInv, TypeOK, Positions, Working, Leasing
<1>4. worker[s].slot \in Slots /\ worker[s].frame \in Frames /\ Held(s).frameId = worker[s].frame
  BY <1>1, <1>3, FrameInHand
<1>5. s = "A" => ~hit
  BY DEF IInv, CacheShape, LeasesFit
<1>6. h = worker[s].frame
  <2>1. CASE s = "A"
    BY <1>3, <2>1 DEF IInv, AtomsFit, HeldByA
  <2>2. CASE s = "B" /\ hit
    <3>1. stored[worker["B"].frame] = worker["B"].frame
      BY <2>2 DEF IInv, CacheShape, LeasesFit
    <3>2. LeaseFits(s) /\ lease[s] # Cache!Nothing
      BY <2>2, LeaseParts DEF IInv, CacheShape, LeasesFit
    <3>3. lease[s].frame = Result(worker[s].frame)
      BY <3>2, LeaseParts DEF LeaseFits
    <3> QED BY <2>2, <3>1, <3>3, ResultFacts
  <2>3. CASE s = "B" /\ ~hit
    BY <1>3, <1>4, <2>3 DEF IInv, AtomsFit, HeldByB, Finished, Loaded
  <2> QED BY <2>1, <2>2, <2>3, StageFacts
<1> HIDE DEF h, hit
<1>7. h \in Nat
  BY <1>4, <1>6, ConfigFacts
<1>8. /\ WorkerTypes' /\ HandsKept /\ OthersKept(s)
      /\ worker'[s].pc = "synchronize" /\ worker'[s].ok = submitted /\ worker'[s].h_in = worker[s].frame
  BY <1>2, <1>3, <1>6, <1>7, SubmitFacts
<1>9. /\ WorkerShape' /\ RunnerShape' /\ VerdictIsHonest'
      /\ SlotsOnce' /\ InOrder("A", "Cpu")' /\ InOrder("Cpu", "B")'
      /\ AtomsFit' /\ LeasesFit' /\ PublishedFit'
  BY <1>1, <1>3, <1>8, LeasingMove
<1>10. CopiesFit'
  <2>1. worker'[s].h_in = worker'[s].frame
    BY <1>3, <1>8 DEF HandsKept
  <2> QED BY <1>8, <2>1, StageFacts DEF IInv, CacheShape, CopiesFit, OthersKept
<1>11. FaultsAreTold'
  <2>1. ~Failing(s) /\ (Failing(s)' <=> ~submitted)
    BY <1>1, <1>8 DEF Failing
  <2>2. fault' <=> fault \/ ~submitted
    BY <1>2, <1>5
  <2>3. failed \/ broken => fault
    BY DEF IInv, FaultsAreTold
  <2> QED BY <1>1, <1>3, <1>8, <2>1, <2>2, <2>3, FaultsKept
<1>12. CountersFollowB'
  <2>1. CASE s = "A"
    <3>1. worker'["B"] = worker["B"] /\ UNCHANGED <<completed, hits, uploads>> /\ (fault => fault')
      BY <1>1, <1>2, <1>8, <2>1, StageFacts DEF OthersKept
    <3> QED BY <3>1, CountersKept
  <2>2. CASE s = "B"
    <3>1. ASSUME ~fault' PROVE ~fault /\ hits' + uploads' = hits + uploads + 1
      <4>1. ~fault /\ submitted /\ uploaded
        BY <1>2, <2>2, <3>1
      <4>2. hits \in Nat /\ uploads \in Nat
        BY DEF IInv, TypeOK, CounterTypes
      <4> QED BY <1>2, <2>2, <4>1, <4>2
    <3>2. worker'["B"].pc = "synchronize" /\ worker["B"].pc = "submit" /\ worker'["B"].frame = worker["B"].frame
      BY <1>1, <1>3, <1>8, <2>2 DEF HandsKept
    <3>3. completed \in Nat /\ completed' = completed
      BY <1>1 DEF IInv, TypeOK, CounterTypes
    <3> QED BY <3>1, <3>2, <3>3 DEF IInv, CountersFollowB
  <2> QED BY <2>1, <2>2, StageFacts
<1>13. FlagTypes'
  BY <1>1, <1>2 DEF IInv, TypeOK, FlagTypes
<1>14. CounterTypes'
  BY <1>1, <1>2 DEF IInv, TypeOK, CounterTypes
<1>15. TypeOK'
  BY <1>1, <1>8, <1>13, <1>14 DEF IInv, TypeOK, FlowTypes, AtomTypes, CacheTypes
<1> QED BY <1>9, <1>10, <1>11, <1>12, <1>15 DEF IInv, CacheShape

\* The stream is drained, or the cache breaks and the stage knows it.
LEMMA SynchronizeStep ==
  ASSUME IInv, NEW s \in GpuStages, Synchronize(s)
  PROVE  IInv'
<1>1. /\ worker[s].pc = "synchronize"
      /\ UNCHANGED <<schedulerVars, runnerVars, atom, owned, counterVars, capacity, published, lease, stored>>
  BY DEF Synchronize, Cache!Break
<1>2. /\ s \in Stages /\ WorkerTypes /\ worker[s].pc \in Leasing
      /\ "complete" \in Positions /\ "complete" \in Leasing
      /\ worker[s].ok \in BOOLEAN /\ worker[s].h_in \in Nat
  BY <1>1, StageFacts, WorkerFacts DEF IInv, TypeOK, Positions, Working, Leasing
<1>3. /\ WorkerTypes' /\ HandsKept /\ OthersKept(s)
      /\ worker'[s].pc = "complete" /\ worker'[s].h_in = worker[s].h_in
      /\ \/ worker'[s].ok = worker[s].ok /\ UNCHANGED <<fault, broken>>
         \/ worker'[s].ok = FALSE /\ fault' = TRUE /\ broken' = TRUE
  <2>1. CASE Goto(s, "complete") /\ UNCHANGED <<fault, cacheVars>>
    BY <1>2, <2>1, GotoFacts
  <2>2. CASE /\ worker' = [worker EXCEPT ![s].pc = "complete", ![s].ok = FALSE]
             /\ fault' = TRUE
             /\ Cache!Break /\ UNCHANGED stored
    <3>1. PICK w : w = [worker[s] EXCEPT !.pc = "complete", !.ok = FALSE]
      OBVIOUS
    <3>2. worker[s] \in WorkerStates
      BY <1>2, WorkerFacts
    <3>3. /\ w \in WorkerStates /\ w.pc = "complete" /\ w.slot = worker[s].slot /\ w.frame = worker[s].frame
          /\ w.ok = FALSE /\ w.h_in = worker[s].h_in
      BY <1>2, <3>1, <3>2 DEF WorkerStates
    <3>4. worker' = [worker EXCEPT ![s] = w]
      BY <1>2, <2>2, <3>1 DEF WorkerTypes
    <3>5. WorkerTypes' /\ worker'[s] = w /\ OthersKept(s)
      BY <1>2, <3>3, <3>4, WorkerChanges
    <3>6. HandsKept
      BY <3>3, <3>5 DEF HandsKept, OthersKept
    <3>7. broken' = TRUE
      BY <2>2 DEF Cache!Break
    <3> QED BY <2>2, <3>3, <3>5, <3>6, <3>7
  <2> QED BY <2>1, <2>2 DEF Synchronize
<1>4. /\ WorkerShape' /\ RunnerShape' /\ VerdictIsHonest'
      /\ SlotsOnce' /\ InOrder("A", "Cpu")' /\ InOrder("Cpu", "B")'
      /\ AtomsFit' /\ LeasesFit' /\ PublishedFit'
  BY <1>1, <1>2, <1>3, LeasingMove
<1>5. CopiesFit'
  <2>1. worker'[s].h_in = worker'[s].frame
    BY <1>1, <1>2, <1>3 DEF HandsKept, IInv, CacheShape, CopiesFit
  <2> QED BY <1>3, <2>1, StageFacts DEF IInv, CacheShape, CopiesFit, OthersKept
<1>6. FaultsAreTold'
  <2>1. /\ Failing(s) <=> ~worker[s].ok
        /\ Failing(s)' <=> ~worker'[s].ok
    BY <1>1, <1>3 DEF Failing
  <2>2. (failed \/ broken => fault) /\ (Failing(s) => fault)
    BY DEF IInv, FaultsAreTold
  <2>3. worker[s].pc \notin {"absent", "exit"}
    BY <1>1
  <2>4. CASE worker'[s].ok = worker[s].ok /\ UNCHANGED <<fault, broken>>
    BY <1>1, <1>2, <1>3, <2>1, <2>2, <2>3, <2>4, FaultsKept
  <2>5. CASE worker'[s].ok = FALSE /\ fault' = TRUE /\ broken' = TRUE
    BY <1>1, <1>2, <1>3, <2>1, <2>2, <2>3, <2>5, FaultsKept
  <2> QED BY <1>3, <2>4, <2>5
<1>7. CountersFollowB'
  <2>1. worker'["B"].frame = worker["B"].frame
    BY <1>3, StageFacts DEF HandsKept
  <2>2. worker'["B"] = worker["B"] \/ (worker["B"].pc = "synchronize" /\ worker'["B"].pc = "complete")
    BY <1>1, <1>3, StageFacts DEF OthersKept
  <2> QED BY <1>1, <1>3, <2>1, <2>2, CountersKept
<1>8. FlagTypes' /\ broken' \in BOOLEAN
  BY <1>1, <1>3 DEF IInv, TypeOK, FlagTypes, CacheTypes
<1>9. TypeOK'
  BY <1>1, <1>3, <1>8 DEF IInv, TypeOK, FlowTypes, AtomTypes, CacheTypes, CounterTypes
<1> QED BY <1>4, <1>5, <1>6, <1>7, <1>9 DEF IInv, CacheShape

-----------------------------------------------------------------------------
(* The end of a lease *)

\* What completeAccess does to the cache.
LEMMA EndLeaseFacts ==
  ASSUME IInv, NEW s \in GpuStages, worker[s].pc = "complete", EndLease(s),
         HandsKept, OthersKept(s), worker'[s].pc \in {"pass", "exit"}
  PROVE  CacheTypes' /\ LeasesFit' /\ PublishedFit' /\ UNCHANGED <<capacity, broken>>
<1>1. /\ s \in Stages /\ worker[s].pc \in Working /\ worker[s].pc \in Leasing /\ CacheTypes
      /\ WorkerTypes /\ LeasesFit /\ PublishedFit
  BY StageFacts DEF IInv, TypeOK, Working, Leasing, CacheShape
<1>2. worker[s].slot \in Slots /\ worker[s].frame \in Frames /\ worker[s].h_in = worker[s].frame
  BY <1>1, FrameInHand DEF IInv, CacheShape, CopiesFit
<1>3. PICK f \in Frames : f = worker[s].frame
  BY <1>2
<1>4. f \in Nat /\ worker["A"].frame \in Nat /\ worker["B"].frame \in Nat
  BY <1>1, WorkerFacts, StageFacts, ConfigFacts
<1>5. lease[s].kind # "none" => lease[s].frame = Result(f)
  <2>1. LeaseFits(s)
    BY <1>1 DEF LeasesFit
  <2> QED BY <1>3, <2>1, LeaseParts DEF LeaseFits
<1>6. /\ lease' = [lease EXCEPT ![s] = Cache!Nothing]
      /\ UNCHANGED <<capacity, broken>>
      /\ published' \subseteq published \cup {Result(f)}
      /\ stored' = stored \/ stored' = [stored EXCEPT ![f] = f]
      /\ Result(f) \in published' => Result(f) \in published \/ stored' = [stored EXCEPT ![f] = f]
  <2>1. CASE /\ Cache!Settle(s)
             /\ published' = IF worker[s].ok /\ (keep \/ s = "A") THEN published \cup {lease[s].frame} ELSE published
             /\ stored' = IF worker[s].ok /\ (keep \/ s = "A")
                          THEN [stored EXCEPT ![lease[s].frame.key] = worker[s].h_in] ELSE stored
    <3>1. lease[s].frame = Result(f) /\ lease[s].frame.key = f
      BY <1>5, <2>1, ResultFacts DEF Cache!Settle
    <3>2. lease' = [lease EXCEPT ![s] = Cache!Nothing] /\ UNCHANGED <<capacity, broken>>
      BY <2>1 DEF Cache!Settle, Cache!Finish
    <3>3. CASE worker[s].ok /\ (keep \/ s = "A")
      BY <1>2, <1>3, <2>1, <3>1, <3>2, <3>3
    <3>4. CASE ~(worker[s].ok /\ (keep \/ s = "A"))
      BY <2>1, <3>2, <3>4
    <3> QED BY <3>3, <3>4
  <2>2. CASE /\ Cache!Return(s)
             /\ published' = IF keep \/ s = "A" THEN published ELSE published \ {lease[s].frame}
             /\ UNCHANGED stored
    BY <2>2 DEF Cache!Return, Cache!Finish
  <2>3. CASE Cache!EndPrivate(s) /\ UNCHANGED stored
    BY <2>3 DEF Cache!EndPrivate, Cache!Finish
  <2> QED BY <2>1, <2>2, <2>3 DEF EndLease
<1>7. stored' \in [Frames -> Nat] /\ \A g \in Frames : stored'[g] = stored[g] \/ (g = f /\ stored'[g] = f)
  BY <1>1, <1>4, <1>6 DEF CacheTypes
<1>8. /\ lease' \in [GpuStages -> LeaseStates] /\ lease'[s] = Cache!Nothing
      /\ \A t \in GpuStages \ {s} : lease'[t] = lease[t]
  BY <1>1, <1>6 DEF CacheTypes, LeaseStates
<1>9. CacheTypes'
  BY <1>1, <1>6, <1>7, <1>8 DEF CacheTypes
<1>10. LeasesFit'
  <2>1. LeaseFits(s)'
    BY <1>8 DEF LeaseFits
  <2>2. ASSUME NEW t \in GpuStages, t # s PROVE LeaseFits(t)'
    <3>1. lease'[t] = lease[t] /\ worker'[t] = worker[t] /\ LeaseFits(t)
      BY <1>1, <1>8, <2>2, StageFacts DEF OthersKept, LeasesFit
    <3> QED BY <3>1 DEF LeaseFits
  <2>3. lease'["A"].kind # "read"
    <3>1. CASE s = "A"
      BY <1>8, <3>1, LeaseParts
    <3>2. CASE s # "A"
      BY <1>1, <1>8, <3>2 DEF LeasesFit, GpuStages
    <3> QED BY <3>1, <3>2
  <2>4. ASSUME lease'["B"].kind = "read" PROVE stored'[worker'["B"].frame] = worker'["B"].frame
    <3>1. s # "B" /\ lease'["B"] = lease["B"]
      BY <1>8, <2>4, LeaseParts DEF GpuStages
    <3>2. stored[worker["B"].frame] = worker["B"].frame
      BY <1>1, <2>4, <3>1 DEF LeasesFit
    <3>3. worker["B"].pc \in Leasing
      BY <1>1, <2>4, <3>1, NoLease DEF GpuStages
    <3>4. worker["B"].frame \in Frames
      BY <3>3, FrameInHand DEF GpuStages, Working
    <3>5. worker'["B"].frame = worker["B"].frame
      BY StageFacts DEF HandsKept
    <3> QED BY <1>7, <3>2, <3>4, <3>5
  <2> QED BY <2>1, <2>2, <2>3, <2>4 DEF LeasesFit
<1>11. PublishedFit'
  <2> SUFFICES ASSUME NEW g \in Frames, Result(g) \in published'
               PROVE  /\ stored'[g] = g
                      /\ \/ g < worker'["A"].frame
                         \/ g = worker'["A"].frame /\ worker'["A"].pc \in {"pass", "exit"}
    BY DEF PublishedFit
  <2>1. worker'["A"].frame = worker["A"].frame
    BY StageFacts DEF HandsKept
  <2>2. worker["A"].pc \in {"pass", "exit"} => worker'["A"].pc \in {"pass", "exit"}
    BY StageFacts DEF OthersKept
  <2>3. CASE Result(g) \in published
    <3>1. /\ stored[g] = g
          /\ g < worker["A"].frame \/ (g = worker["A"].frame /\ worker["A"].pc \in {"pass", "exit"})
      BY <1>1, <2>3 DEF PublishedFit
    <3> QED BY <1>7, <2>1, <2>2, <3>1
  <2>4. CASE Result(g) \notin published
    <3>1. g = f /\ Result(f) \notin published
      BY <1>6, <2>4, ResultFacts
    <3>2. stored' = [stored EXCEPT ![f] = f]
      BY <1>6, <3>1
    <3>3. stored'[g] = g
      BY <1>1, <3>1, <3>2 DEF CacheTypes
    <3>4. CASE s = "A"
      BY <1>3, <2>1, <3>1, <3>3, <3>4
    <3>5. CASE s = "B"
      <4>1. worker["B"].slot # 0
        BY <1>2, <3>5, ConfigFacts
      <4>2. worker["B"].frame < worker["Cpu"].frame /\ worker["Cpu"].frame <= worker["A"].frame
        BY <4>1, FramesInOrder
      <4>3. worker["Cpu"].frame \in Nat
        BY <1>1, WorkerFacts, StageFacts
      <4>4. g < worker["A"].frame
        BY <1>3, <1>4, <3>1, <3>5, <4>2, <4>3
      <4> QED BY <2>1, <3>3, <4>4
    <3> QED BY <3>4, <3>5, StageFacts
  <2> QED BY <2>3, <2>4
<1> QED BY <1>6, <1>9, <1>10, <1>11

\* A GPU stage that knows of no failed call succeeds: what B compares is equal.
LEMMA BVerifies ==
  ASSUME IInv, worker["B"].pc = "complete"
  PROVE  Verified("B")
<1>1. "B" \in GpuStages /\ worker["B"].pc \in Working
  BY DEF GpuStages, Working, Leasing
<1>2. Held("B").frameId = worker["B"].frame /\ worker["B"].h_in = worker["B"].frame
  BY <1>1, FrameInHand DEF IInv, CacheShape, CopiesFit
<1>3. Finished(Held("B"))
  BY <1>1 DEF IInv, AtomsFit, HeldByB
<1> QED BY <1>2, <1>3 DEF Verified, Finished, Loaded

\* A worker that has completed a frame is about to pass it on.
LEMMA PassShape ==
  ASSUME IInv, NEW s \in Stages, worker[s].pc \in Working, HandsKept, OthersKept(s), worker'[s].pc = "pass",
         failed' = failed
  PROVE  WorkerShape'
<1>1. ShapeOf(s) /\ worker'[s].slot = worker[s].slot /\ worker'[s].frame = worker[s].frame
  BY DEF IInv, WorkerShape, HandsKept
<1>2. worker[s].pc # "exit"
  BY DEF Working, Leasing
<1>3. ShapeOf(s)'
  BY <1>1, <1>2 DEF ShapeOf, Leasing
<1> QED BY <1>3, ShapeKept DEF IInv

\* A keeps the lease of its frame up to the result in the atom.
LEMMA CompleteA ==
  ASSUME IInv, Complete("A"), worker["A"].ok
  PROVE  IInv'
<1>1. /\ worker["A"].pc = "complete" /\ EndLease("A") /\ Goto("A", "pass") /\ UNCHANGED schedulerVars
      /\ atom' = [atom EXCEPT ![worker["A"].slot].result = worker["A"].h_in, ![worker["A"].slot].ready = TRUE]
      /\ completed' = completed
      /\ UNCHANGED <<runnerVars, owned, hits, uploads, fault>>
  BY DEF Complete
<1>2. /\ "A" \in Stages /\ "A" \in GpuStages /\ WorkerTypes /\ AtomTypes /\ "pass" \in Positions
      /\ worker["A"].pc \in Working /\ worker["A"].pc \in Leasing
  BY <1>1, StageFacts DEF IInv, TypeOK, GpuStages, Positions, Working, Leasing
<1>3. WorkerTypes' /\ HandsKept /\ OthersKept("A") /\ worker'["A"].pc = "pass"
  BY <1>1, <1>2, GotoFacts
<1>4. /\ worker["A"].slot \in Slots /\ worker["A"].frame \in Frames
      /\ Held("A").frameId = worker["A"].frame /\ worker["A"].h_in = worker["A"].frame
      /\ Held("A").frame = worker["A"].frame /\ Held("A").cpuStages = 0
      /\ worker["A"].frame \in Nat
  BY <1>1, <1>2, FrameInHand, ConfigFacts DEF IInv, CacheShape, CopiesFit, AtomsFit, HeldByA
<1>5. PICK a : a = [Held("A") EXCEPT !.result = worker["A"].h_in, !.ready = TRUE]
  OBVIOUS
<1>6. /\ a \in AtomStates /\ a.frameId = worker["A"].frame /\ a.frame = worker["A"].frame
      /\ a.result = worker["A"].frame /\ a.ready = TRUE /\ a.cpuStages = 0
  <2>1. Held("A") \in AtomStates
    BY <1>2, <1>4, AtomFacts DEF Held
  <2> QED BY <1>4, <1>5, <2>1 DEF AtomStates
<1>7. atom' = [atom EXCEPT ![worker["A"].slot] = a]
  BY <1>1, <1>2, <1>4, <1>5 DEF AtomTypes, Held
<1>8. /\ AtomTypes' /\ atom'[worker["A"].slot] = a
      /\ \A t \in Stages : \A i \in QueuedFor(t) : atom'[i] = atom[i]
      /\ \A t \in Stages : t # "A" /\ worker[t].slot # 0 => atom'[worker[t].slot] = atom[worker[t].slot]
  BY <1>2, <1>4, <1>6, <1>7, AtomChanges
<1>9. CacheTypes' /\ LeasesFit' /\ PublishedFit' /\ UNCHANGED <<capacity, broken>>
  BY <1>1, <1>2, <1>3, EndLeaseFacts
<1>10. /\ RunnerShape' /\ VerdictIsHonest'
       /\ SlotsOnce' /\ InOrder("A", "Cpu")' /\ InOrder("Cpu", "B")'
       /\ FreeAtoms' /\ PassedAtoms' /\ HeldByCpu' /\ HeldByB'
  BY <1>1, <1>2, <1>3, <1>8, <1>9, AtomMove
<1>11. HeldByA'
  <2>1. Held("A")' = a /\ worker'["A"].frame = worker["A"].frame
    BY <1>2, <1>3, <1>8 DEF Held, HandsKept
  <2> QED BY <1>3, <1>6, <2>1 DEF HeldByA, Produced, Loaded, Leasing
<1>12. WorkerShape'
  BY <1>1, <1>2, <1>3, PassShape
<1>13. CopiesFit'
  BY <1>3, StageFacts DEF IInv, CacheShape, CopiesFit, OthersKept
<1>14. FaultsAreTold'
  <2>1. ~Failing("A") /\ ~Failing("A")'
    BY <1>3 DEF Failing
  <2>2. failed \/ broken => fault
    BY DEF IInv, FaultsAreTold
  <2> QED BY <1>1, <1>2, <1>3, <1>9, <2>1, <2>2, FaultsKept
<1>15. CountersFollowB'
  <2>1. worker'["B"] = worker["B"]
    BY <1>3, StageFacts DEF OthersKept
  <2> QED BY <1>1, <2>1, CountersKept
<1>16. TypeOK'
  BY <1>1, <1>3, <1>8, <1>9 DEF IInv, TypeOK, FlowTypes, FlagTypes, CounterTypes
<1> QED BY <1>9, <1>10, <1>11, <1>12, <1>13, <1>14, <1>15, <1>16 DEF IInv, AtomsFit, CacheShape

\* B's lease ends and the frame is verified and counted.
LEMMA CompleteB ==
  ASSUME IInv, Complete("B"), worker["B"].ok
  PROVE  IInv'
<1>1. worker["B"].pc = "complete" /\ Verified("B")
  BY BVerifies DEF Complete
<1>2. /\ EndLease("B") /\ Goto("B", "pass") /\ UNCHANGED schedulerVars
      /\ atom' = atom /\ completed' = completed + 1
      /\ UNCHANGED <<runnerVars, owned, hits, uploads, fault>>
  BY <1>1 DEF Complete
<1>3. /\ "B" \in Stages /\ "B" \in GpuStages /\ WorkerTypes /\ "pass" \in Positions
      /\ worker["B"].pc \in Working /\ worker["B"].pc \notin {"absent", "exit"}
  BY <1>1, StageFacts DEF IInv, TypeOK, GpuStages, Positions, Working, Leasing
<1>4. WorkerTypes' /\ HandsKept /\ OthersKept("B") /\ worker'["B"].pc = "pass"
  BY <1>2, <1>3, GotoFacts
<1>5. CacheTypes' /\ LeasesFit' /\ PublishedFit' /\ UNCHANGED <<capacity, broken>>
  BY <1>1, <1>2, <1>3, <1>4, EndLeaseFacts
<1>6. /\ RunnerShape' /\ VerdictIsHonest'
      /\ SlotsOnce' /\ InOrder("A", "Cpu")' /\ InOrder("Cpu", "B")'
      /\ FreeAtoms' /\ PassedAtoms' /\ HeldByA' /\ HeldByCpu'
  BY <1>2, <1>3, <1>4, <1>5, PlainMove
<1>7. HeldByB'
  <2>1. Held("B")' = Held("B") /\ Finished(Held("B"))
    BY <1>2, <1>3, <1>4 DEF Held, HandsKept, IInv, AtomsFit, HeldByB
  <2> QED BY <2>1 DEF HeldByB, Finished, Loaded
<1>8. WorkerShape'
  BY <1>2, <1>3, <1>4, PassShape
<1>9. CopiesFit'
  BY <1>4, StageFacts DEF IInv, CacheShape, CopiesFit, OthersKept
<1>10. FaultsAreTold'
  <2>1. ~Failing("B") /\ ~Failing("B")'
    BY <1>4 DEF Failing
  <2>2. failed \/ broken => fault
    BY DEF IInv, FaultsAreTold
  <2> QED BY <1>2, <1>3, <1>4, <1>5, <2>1, <2>2, FaultsKept
<1>11. CountersFollowB'
  <2>1. worker'["B"].frame = worker["B"].frame /\ worker["B"].frame \in Nat
    BY <1>3, <1>4, WorkerFacts DEF HandsKept
  <2>2. completed \in Nat /\ hits \in Nat /\ uploads \in Nat
    BY DEF IInv, TypeOK, CounterTypes
  <2>3. ~fault => completed = worker["B"].frame - 1 + 0 /\ hits + uploads = completed + 1
    BY <1>1 DEF IInv, CountersFollowB
  <2> QED BY <1>2, <1>4, <2>1, <2>2, <2>3 DEF CountersFollowB
<1>12. CounterTypes'
  BY <1>2 DEF IInv, TypeOK, CounterTypes
<1>13. TypeOK'
  BY <1>2, <1>4, <1>5, <1>12 DEF IInv, TypeOK, FlowTypes, FlagTypes, AtomTypes
<1> QED BY <1>5, <1>6, <1>7, <1>8, <1>9, <1>10, <1>11, <1>13 DEF IInv, AtomsFit, CacheShape

\* The end of a lease, successful or not, for A and B.
LEMMA CompleteStep ==
  ASSUME IInv, NEW s \in GpuStages, Complete(s)
  PROVE  IInv'
<1>1. CASE worker[s].ok
  BY <1>1, CompleteA, CompleteB, StageFacts
<1>2. CASE ~worker[s].ok
  <2>1. /\ worker[s].pc = "complete" /\ EndLease(s) /\ Goto(s, "exit") /\ failed' = TRUE
        /\ UNCHANGED <<queue, active, peak, atom, completed, runnerVars, owned, hits, uploads, fault>>
    BY <1>2 DEF Complete, Abandon, Cancel
  <2>2. Failing(s)
    BY <1>2, <2>1 DEF Failing
  <2>3. fault' = TRUE
    BY <2>1, <2>2 DEF IInv, FaultsAreTold, TypeOK, FlagTypes
  <2>4. s \in Stages /\ WorkerTypes /\ "exit" \in Positions
    BY StageFacts DEF IInv, TypeOK, Positions
  <2>5. HandsKept /\ OthersKept(s) /\ worker'[s].pc = "exit"
    BY <2>1, <2>4, GotoFacts
  <2>6. CacheTypes' /\ LeasesFit' /\ PublishedFit' /\ UNCHANGED <<capacity, broken>>
    BY <2>1, <2>5, EndLeaseFacts
  <2>7. /\ WorkerTypes' /\ WorkerShape' /\ RunnerShape' /\ VerdictIsHonest'
        /\ SlotsOnce' /\ InOrder("A", "Cpu")' /\ InOrder("Cpu", "B")'
        /\ AtomsFit' /\ CopiesFit' /\ FaultsAreTold' /\ CountersFollowB'
    BY <2>1, <2>3, <2>4, <2>6, GivesUp
  <2>8. TypeOK'
    BY <2>1, <2>3, <2>6, <2>7 DEF IInv, TypeOK, FlowTypes, FlagTypes, AtomTypes, CounterTypes
  <2> QED BY <2>6, <2>7, <2>8 DEF IInv, CacheShape
<1> QED BY <1>1, <1>2

-----------------------------------------------------------------------------
(* What is written into an atom *)

\* A writes the next frame into a free slot.
LEMMA PrepareStep ==
  ASSUME IInv, Prepare
  PROVE  IInv'
<1>1. /\ worker["A"].pc = "execute" /\ Goto("A", "request")
      /\ atom' = [atom EXCEPT ![worker["A"].slot] = PreparedAtom(@, worker["A"].frame)]
      /\ UNCHANGED <<schedulerVars, cacheVars, runnerVars, owned, counterVars, fault>>
  BY DEF Prepare
<1>2. /\ "A" \in Stages /\ WorkerTypes /\ AtomTypes /\ "request" \in Positions /\ "request" \notin Leasing
      /\ worker["A"].pc \in Working /\ worker["A"].pc \notin Leasing
  BY <1>1, StageFacts DEF IInv, TypeOK, Positions, Working, Leasing
<1>3. WorkerTypes' /\ HandsKept /\ OthersKept("A") /\ worker'["A"].pc = "request"
  BY <1>1, <1>2, GotoFacts
<1>4. worker["A"].slot \in Slots /\ worker["A"].frame \in Nat
  BY <1>2, WorkerFacts DEF IInv, WorkerShape, ShapeOf
<1>5. PICK a : a = PreparedAtom(atom[worker["A"].slot], worker["A"].frame)
  OBVIOUS
<1>6. /\ a \in AtomStates /\ a.frameId = worker["A"].frame /\ a.frame = worker["A"].frame
      /\ a.ready = FALSE /\ a.cpuStages = 0
  <2>1. atom[worker["A"].slot] \in AtomStates
    BY <1>2, <1>4, AtomFacts
  <2> QED BY <1>4, <1>5, <2>1 DEF AtomStates, PreparedAtom
<1>7. atom' = [atom EXCEPT ![worker["A"].slot] = a]
  BY <1>1, <1>5
<1>8. /\ AtomTypes' /\ atom'[worker["A"].slot] = a
      /\ \A t \in Stages : \A i \in QueuedFor(t) : atom'[i] = atom[i]
      /\ \A t \in Stages : t # "A" /\ worker[t].slot # 0 => atom'[worker[t].slot] = atom[worker[t].slot]
  BY <1>2, <1>4, <1>6, <1>7, AtomChanges
<1>9. LeasesFit' /\ PublishedFit'
  BY <1>1, <1>2, <1>3, CacheKept DEF IInv, CacheShape, HandsKept
<1>10. /\ RunnerShape' /\ VerdictIsHonest'
       /\ SlotsOnce' /\ InOrder("A", "Cpu")' /\ InOrder("Cpu", "B")'
       /\ FreeAtoms' /\ PassedAtoms' /\ HeldByCpu' /\ HeldByB'
  BY <1>1, <1>2, <1>3, <1>8, AtomMove
<1>11. HeldByA'
  <2>1. Held("A")' = a /\ worker'["A"].frame = worker["A"].frame
    BY <1>2, <1>3, <1>8 DEF Held, HandsKept
  <2> QED BY <1>3, <1>6, <2>1 DEF HeldByA
<1>12. WorkerShape'
  <2>1. ShapeOf("A") /\ worker'["A"].slot = worker["A"].slot /\ worker'["A"].frame = worker["A"].frame
    BY <1>2, <1>3 DEF IInv, WorkerShape, HandsKept
  <2>2. ShapeOf("A")'
    BY <1>1, <1>2, <1>3, <2>1 DEF ShapeOf
  <2> QED BY <1>1, <1>2, <1>3, <2>2, ShapeKept DEF IInv
<1>13. CopiesFit'
  BY <1>3, StageFacts DEF IInv, CacheShape, CopiesFit, OthersKept
<1>14. FaultsAreTold'
  <2>1. ~Failing("A") /\ ~Failing("A")'
    BY <1>1, <1>3 DEF Failing
  <2>2. failed \/ broken => fault
    BY DEF IInv, FaultsAreTold
  <2> QED BY <1>1, <1>2, <1>3, <2>1, <2>2, FaultsKept
<1>15. CountersFollowB'
  <2>1. worker'["B"] = worker["B"]
    BY <1>3, StageFacts DEF OthersKept
  <2> QED BY <1>1, <2>1, CountersKept
<1>16. TypeOK'
  BY <1>1, <1>3, <1>8 DEF IInv, TypeOK, FlowTypes, FlagTypes, CounterTypes, CacheTypes
<1> QED BY <1>9, <1>10, <1>11, <1>12, <1>13, <1>14, <1>15, <1>16 DEF IInv, AtomsFit, CacheShape

\* One CPU task, or the end of the chain; the atom is always ready.
LEMMA CpuTaskStep ==
  ASSUME IInv, CpuTask
  PROVE  IInv'
<1>1. worker["Cpu"].pc = "execute"
  BY DEF CpuTask
<1>2. /\ "Cpu" \in Stages /\ WorkerTypes /\ AtomTypes /\ {"execute", "pass"} \subseteq Positions
      /\ worker["Cpu"].pc \in Working /\ worker["Cpu"].pc \notin Leasing
  BY <1>1, StageFacts DEF IInv, TypeOK, Positions, Working, Leasing
<1>3. worker["Cpu"].slot \in Slots
  BY <1>2, WorkerFacts DEF IInv, WorkerShape, ShapeOf
<1>4. /\ Held("Cpu") \in AtomStates /\ Held("Cpu").frameId \in Nat /\ Held("Cpu").cpuStages \in Nat
      /\ Held("Cpu").ready = TRUE /\ Held("Cpu").frame = Held("Cpu").frameId
      /\ Held("Cpu").result = Held("Cpu").frameId /\ Held("Cpu").cpuStages < CpuStages
  BY <1>1, <1>2, <1>3, AtomFacts DEF IInv, AtomsFit, HeldByCpu, Loaded, Held
<1>5. PICK to \in {"execute", "pass"} : to = IF Held("Cpu").cpuStages + 1 < CpuStages THEN "execute" ELSE "pass"
  OBVIOUS
<1>6. /\ atom' = [atom EXCEPT ![worker["Cpu"].slot].checksum = Held("Cpu").result,
                              ![worker["Cpu"].slot].cpuStages = @ + 1]
      /\ Goto("Cpu", to)
      /\ UNCHANGED <<schedulerVars, cacheVars, runnerVars, owned, counterVars, fault>>
  BY <1>4, <1>5 DEF CpuTask
<1>7. WorkerTypes' /\ HandsKept /\ OthersKept("Cpu") /\ worker'["Cpu"].pc = to
  BY <1>2, <1>5, <1>6, GotoFacts
<1>8. PICK a : a = [Held("Cpu") EXCEPT !.checksum = Held("Cpu").result, !.cpuStages = @ + 1]
  OBVIOUS
<1>9. /\ a \in AtomStates /\ a.frameId = Held("Cpu").frameId /\ a.frame = a.frameId /\ a.result = a.frameId
      /\ a.ready = TRUE /\ a.cpuStages = Held("Cpu").cpuStages + 1 /\ a.checksum = a.frameId
  <2>1. PICK n \in Nat : n = Held("Cpu").cpuStages + 1
    BY <1>4
  <2>2. PICK h \in AtomStates : h = Held("Cpu")
    BY <1>4
  <2>3. PICK r \in Nat : r = h.frameId /\ r = h.frame /\ r = h.result
    BY <1>4, <2>2
  <2>4. a = [h EXCEPT !.checksum = r, !.cpuStages = n]
    BY <1>8, <2>1, <2>2, <2>3
  <2>5. a \in AtomStates /\ a.cpuStages = n /\ a.checksum = r /\ a.frameId = r /\ a.frame = r /\ a.result = r
    BY <2>3, <2>4 DEF AtomStates
  <2>6. a.ready = h.ready
    BY <2>4 DEF AtomStates
  <2> QED BY <1>4, <2>1, <2>2, <2>3, <2>5, <2>6
<1>10. atom' = [atom EXCEPT ![worker["Cpu"].slot] = a]
  BY <1>2, <1>3, <1>6, <1>8 DEF AtomTypes, Held
<1>11. /\ AtomTypes' /\ atom'[worker["Cpu"].slot] = a
       /\ \A t \in Stages : \A i \in QueuedFor(t) : atom'[i] = atom[i]
       /\ \A t \in Stages : t # "Cpu" /\ worker[t].slot # 0 => atom'[worker[t].slot] = atom[worker[t].slot]
  BY <1>2, <1>3, <1>9, <1>10, AtomChanges
<1>12. LeasesFit' /\ PublishedFit'
  BY <1>2, <1>6, <1>7, CacheKept DEF IInv, CacheShape, HandsKept
<1>13. /\ RunnerShape' /\ VerdictIsHonest'
       /\ SlotsOnce' /\ InOrder("A", "Cpu")' /\ InOrder("Cpu", "B")'
       /\ FreeAtoms' /\ PassedAtoms' /\ HeldByA' /\ HeldByB'
  <2>1. atom'[worker["Cpu"].slot].frameId = atom[worker["Cpu"].slot].frameId
    BY <1>9, <1>11 DEF Held
  <2> QED BY <1>1, <1>2, <1>5, <1>6, <1>7, <1>11, <2>1, AtomMove
<1>14. HeldByCpu'
  <2>1. Held("Cpu")' = a
    BY <1>2, <1>7, <1>11 DEF Held, HandsKept
  <2>2. to = "execute" => a.cpuStages < CpuStages
    BY <1>5, <1>9
  <2>3. to = "pass" => a.cpuStages = CpuStages
    BY <1>4, <1>5, <1>9, ConfigFacts
  <2> QED BY <1>7, <1>9, <2>1, <2>2, <2>3 DEF HeldByCpu, Loaded, Finished
<1>15. WorkerShape'
  <2>1. ShapeOf("Cpu") /\ worker'["Cpu"].slot = worker["Cpu"].slot /\ worker'["Cpu"].frame = worker["Cpu"].frame
    BY <1>2, <1>7 DEF IInv, WorkerShape, HandsKept
  <2>2. ShapeOf("Cpu")'
    BY <1>1, <1>2, <1>5, <1>7, <2>1 DEF ShapeOf, Leasing
  <2> QED BY <1>2, <1>6, <1>7, <2>2, ShapeKept DEF IInv
<1>16. CopiesFit'
  BY <1>7, StageFacts DEF IInv, CacheShape, CopiesFit, OthersKept, GpuStages
<1>17. FaultsAreTold'
  <2>1. "Cpu" \notin GpuStages /\ worker["Cpu"].pc \notin {"absent", "exit"}
    BY <1>1 DEF GpuStages
  <2>2. failed \/ broken => fault
    BY DEF IInv, FaultsAreTold
  <2> QED BY <1>2, <1>6, <1>7, <2>1, <2>2, FaultsKept
<1>18. CountersFollowB'
  <2>1. worker'["B"] = worker["B"]
    BY <1>7, StageFacts DEF OthersKept
  <2> QED BY <1>6, <2>1, CountersKept
<1>19. TypeOK'
  BY <1>6, <1>7, <1>11 DEF IInv, TypeOK, FlowTypes, FlagTypes, CounterTypes, CacheTypes
<1> QED BY <1>12, <1>13, <1>14, <1>15, <1>16, <1>17, <1>18, <1>19 DEF IInv, AtomsFit, CacheShape

-----------------------------------------------------------------------------
(* The queues *)

\* peak is the larger of the two.
LEMMA MaxFacts ==
  ASSUME NEW a \in Int, NEW b \in Int
  PROVE  Max({a, b}) \in {a, b} /\ Max({a, b}) >= a /\ Max({a, b}) >= b
<1>1. \E x \in {a, b} : \A y \in {a, b} : x >= y
  OBVIOUS
<1> QED BY <1>1 DEF Max

\* The reader of a queue takes its oldest slot.
LEMMA ReaderTakes ==
  ASSUME FlowTypes, WorkerTypes, NEW p \in Stages, NEW r \in Stages, InOrder(p, r), atom' = atom,
         queue[r] # <<>>, queue'[r] = Tail(queue[r]), worker[r].slot = 0, worker'[r].slot = Head(queue[r]),
         worker'[r].frame = worker[r].frame, worker'[p].frame = worker[p].frame
  PROVE  InOrder(p, r)'
<1>1. /\ queue[r] \in Seq(Slots) /\ worker[r].frame \in Nat /\ worker[p].frame \in Nat
      /\ 0 \notin Slots
  BY QueueFacts, WorkerFacts, ConfigFacts
<1>2. PICK q \in Seq(Slots) : q = queue[r]
  BY <1>1
<1>3. /\ Len(q) \in Nat \ {0} /\ Head(q) = q[1] /\ Head(q) \in Slots
      /\ Len(Tail(q)) = Len(q) - 1 /\ \A i \in 1..(Len(q) - 1) : Tail(q)[i] = q[i + 1]
  BY <1>2
<1>4. Busy(r) = 0 /\ Busy(r)' = 1
  BY <1>1, <1>2, <1>3 DEF Busy
<1>5. Len(q) = worker[p].frame - worker[r].frame /\ \A i \in 1..Len(q) : atom[q[i]].frameId = worker[r].frame + i - 1
  BY <1>1, <1>2, <1>4 DEF InOrder
<1>6. Len(Tail(q)) = worker[p].frame - worker[r].frame - 1
  BY <1>1, <1>3, <1>5
<1>7. ASSUME NEW i \in 1..Len(Tail(q)) PROVE atom[Tail(q)[i]].frameId = worker[r].frame + 1 + i - 1
  <2>1. i \in 1..(Len(q) - 1) /\ i + 1 \in 1..Len(q)
    BY <1>3
  <2>2. atom[q[i + 1]].frameId = worker[r].frame + (i + 1) - 1
    BY <1>5, <2>1
  <2> QED BY <1>1, <1>3, <2>1, <2>2
<1>8. atom[q[1]].frameId = worker[r].frame
  <2>1. 1 \in 1..Len(q)
    BY <1>3
  <2>2. atom[q[1]].frameId = worker[r].frame + 1 - 1
    BY <1>5, <2>1
  <2> QED BY <1>1, <2>2
<1>9. Held(r)'.frameId = worker'[r].frame
  BY <1>2, <1>3, <1>8 DEF Held
<1> QED BY <1>2, <1>4, <1>6, <1>7, <1>9 DEF InOrder, Held

\* The reader of a queue is done with its frame.
LEMMA ReaderDone ==
  ASSUME FlowTypes, WorkerTypes, NEW p \in Stages, NEW r \in Stages, InOrder(p, r), atom' = atom,
         queue'[r] = queue[r], worker[r].slot # 0, worker'[r].slot = 0,
         worker'[r].frame = worker[r].frame + 1, worker'[p].frame = worker[p].frame
  PROVE  InOrder(p, r)'
<1>1. worker[r].frame \in Nat /\ worker[p].frame \in Nat
  BY WorkerFacts
<1>2. Busy(r) = 1 /\ Busy(r)' = 0
  BY DEF Busy
<1>3. Len(queue[r]) = worker[p].frame - worker[r].frame - 1
  BY <1>2 DEF InOrder
<1>4. \A i \in 1..Len(queue[r]) : atom[queue[r][i]].frameId = worker[r].frame + 1 + i - 1
  BY <1>2 DEF InOrder
<1>5. Len(queue'[r]) = worker'[p].frame - worker'[r].frame - 0
  BY <1>1, <1>3
<1>6. ASSUME NEW i \in 1..Len(queue'[r]) PROVE atom'[queue'[r][i]].frameId = worker'[r].frame + 0 + i - 1
  BY <1>1, <1>4
<1> QED BY <1>2, <1>5, <1>6 DEF InOrder, Held

\* The writer of a queue appends the slot of its frame.
LEMMA WriterPasses ==
  ASSUME FlowTypes, WorkerTypes, NEW p \in Stages, NEW r \in Stages, InOrder(p, r), atom' = atom,
         NEW k \in Slots, queue'[r] = Append(queue[r], k), atom[k].frameId = worker[p].frame,
         worker'[r] = worker[r], worker'[p].frame = worker[p].frame + 1
  PROVE  InOrder(p, r)'
<1>1. /\ queue[r] \in Seq(Slots) /\ worker[r].frame \in Nat /\ worker[p].frame \in Nat
  BY QueueFacts, WorkerFacts
<1>2. PICK q \in Seq(Slots) : q = queue[r]
  BY <1>1
<1>3. /\ Len(q) \in Nat /\ Len(Append(q, k)) = Len(q) + 1
      /\ \A i \in 1..Len(q) : Append(q, k)[i] = q[i]
      /\ Append(q, k)[Len(q) + 1] = k
  BY AppendProperties
<1>4. PICK b \in Nat : b = Busy(r) /\ b = Busy(r)'
  BY DEF Busy
<1>5. /\ Len(q) = worker[p].frame - worker[r].frame - b
      /\ \A i \in 1..Len(q) : atom[q[i]].frameId = worker[r].frame + b + i - 1
      /\ worker[r].slot # 0 => atom[worker[r].slot].frameId = worker[r].frame
  BY <1>2, <1>4 DEF InOrder, Held
<1>6. Len(queue'[r]) = worker'[p].frame - worker'[r].frame - b
  <2>1. Len(queue'[r]) = Len(q) + 1 /\ worker'[r].frame = worker[r].frame
    BY <1>2, <1>3
  <2> QED BY <1>1, <1>3, <1>5, <2>1
<1>7. ASSUME NEW i \in 1..Len(queue'[r]) PROVE atom'[queue'[r][i]].frameId = worker'[r].frame + b + i - 1
  <2>1. i \in 1..Len(q) \/ i = Len(q) + 1
    BY <1>2, <1>3
  <2>2. CASE i \in 1..Len(q)
    <3>1. queue'[r][i] = q[i]
      BY <1>2, <1>3, <2>2
    <3> QED BY <1>5, <2>2, <3>1
  <2>3. CASE i = Len(q) + 1
    <3>1. queue'[r][i] = k
      BY <1>2, <1>3, <2>3
    <3>2. worker[r].frame + b + i - 1 = worker[p].frame
      BY <1>1, <1>3, <1>5, <2>3
    <3> QED BY <3>1, <3>2
  <2> QED BY <2>1, <2>2, <2>3
<1>8. worker'[r].slot # 0 => Held(r)'.frameId = worker'[r].frame
  BY <1>5 DEF Held
<1> QED BY <1>4, <1>6, <1>7, <1>8 DEF InOrder, Held

\* The slots after a take: the oldest slot moves from the queue to the worker.
Taken(s, h) ==
    /\ h \in QueuedFor(s) /\ h \in Slots
    /\ FlowTypes' /\ WorkerTypes' /\ OthersKept(s)
    /\ worker[s].slot = 0 /\ worker'[s].slot = h /\ worker'[s].frame = worker[s].frame /\ worker'[s].pc = "execute"
    /\ \A t \in Stages : IsInjective(queue'[t])
    /\ \A t \in Stages : QueuedFor(t)' = QueuedFor(t) \ {h}

\* What take() does to queues, counts and hands.
LEMMA TakeFacts ==
  ASSUME IInv, NEW s \in Stages, worker[s].pc = "take", queue[s] # <<>>, ~failed, TakeSlot(s)
  PROVE  Taken(s, Head(queue[s]))
<1>1. /\ FlowTypes /\ WorkerTypes /\ SlotsOnce /\ worker[s].slot = 0 /\ "execute" \in Positions
  BY DEF IInv, TypeOK, WorkerShape, ShapeOf, Positions, Working
<1>2. PICK h : h = Head(queue[s])
  OBVIOUS
<1>3. /\ Tail(queue[s]) \in Seq(Slots) /\ IsInjective(Tail(queue[s])) /\ h \in Slots
      /\ h \in QueuedFor(s) /\ ToSet(Tail(queue[s])) = QueuedFor(s) \ {h}
  BY <1>1, <1>2, TailFacts, QueueFacts DEF SlotsOnce, QueuedFor
<1>4. worker[s] \in WorkerStates /\ h \in 0..SlotCount
  BY <1>1, <1>3, WorkerFacts, ConfigFacts
<1>5. PICK w : w = [worker[s] EXCEPT !.slot = h, !.pc = "execute"]
  OBVIOUS
<1>6. w \in WorkerStates /\ w.slot = h /\ w.pc = "execute" /\ w.frame = worker[s].frame
  BY <1>1, <1>4, <1>5 DEF WorkerStates
<1>7. worker' = [worker EXCEPT ![s] = w]
  BY <1>1, <1>2, <1>5 DEF TakeSlot, WorkerTypes
<1>8. WorkerTypes' /\ worker'[s] = w /\ OthersKept(s)
  BY <1>1, <1>6, <1>7, WorkerChanges
<1>9. PICK q \in Seq(Slots) : q = Tail(queue[s])
  BY <1>3
<1>10. queue' = [queue EXCEPT ![s] = q]
  BY <1>9 DEF TakeSlot
<1>11. queue' \in [Stages -> Seq(Slots)] /\ queue'[s] = q /\ \A t \in Stages : t # s => queue'[t] = queue[t]
  BY <1>1, <1>10 DEF FlowTypes
<1>12. \A t \in Stages : IsInjective(queue'[t])
  BY <1>1, <1>3, <1>9, <1>11 DEF SlotsOnce
<1>13. ASSUME NEW t \in Stages PROVE QueuedFor(t)' = QueuedFor(t) \ {h}
  <2>1. CASE t = s
    BY <1>3, <1>9, <1>11, <2>1 DEF QueuedFor
  <2>2. CASE t # s
    <3>1. QueuedFor(t)' = QueuedFor(t)
      BY <1>11, <2>2 DEF QueuedFor
    <3>2. h \notin QueuedFor(t)
      BY <1>1, <1>3, <2>2 DEF SlotsOnce
    <3> QED BY <3>1, <3>2
  <2> QED BY <2>1, <2>2
<1>14. active' \in Nat /\ peak' \in Nat
  <2>1. active \in Nat /\ peak \in Nat /\ active' = (IF s = "A" THEN active + 1 ELSE active)
        /\ peak' = Max({peak, active'})
    BY <1>1 DEF TakeSlot, FlowTypes
  <2>2. active' \in Nat
    BY <2>1
  <2>3. PICK n \in Nat : n = active'
    BY <2>2
  <2>4. PICK m : m = Max({peak, n})
    OBVIOUS
  <2>5. peak \in Int /\ n \in Int
    BY <2>1
  <2>6. m \in {peak, n}
    BY <2>4, <2>5, MaxFacts
  <2> QED BY <2>1, <2>2, <2>3, <2>4, <2>6
<1> QED BY <1>1, <1>2, <1>3, <1>6, <1>8, <1>11, <1>12, <1>13, <1>14 DEF Taken, FlowTypes

\* A take conserves the slots and counts them.
LEMMA TakeConserves ==
  ASSUME IInv, NEW s \in Stages, worker[s].pc = "take", ~failed, TakeSlot(s), capacity' = capacity,
         NEW h, Taken(s, h)
  PROVE  SlotsOnce'
<1>1. SlotsOnce /\ FlowTypes /\ WorkerTypes /\ TypeOK /\ RunnerShape
  BY DEF IInv, TypeOK
<1>2. capacity > 0
  BY <1>1, RunnerWaits
<1>3. \A t \in Stages : t # s => worker'[t].slot = worker[t].slot
  BY DEF Taken, OthersKept
<1>4. \A t \in Stages : worker[t].slot # h /\ 0 \notin QueuedFor(t) /\ h # 0
  BY <1>1, QueueFacts, ConfigFacts DEF Taken, SlotsOnce
<1>5. \A t \in Stages, r \in Stages : t # r =>
        /\ QueuedFor(t)' \cap QueuedFor(r)' = {}
        /\ worker'[t].slot = 0 \/ worker'[t].slot # worker'[r].slot
  <2>1. \A t \in Stages, r \in Stages : t # r => QueuedFor(t)' \cap QueuedFor(r)' = {}
    BY <1>1 DEF Taken, SlotsOnce
  <2>2. ASSUME NEW t \in Stages, NEW r \in Stages, t # r
        PROVE  worker'[t].slot = 0 \/ worker'[t].slot # worker'[r].slot
    <3>1. CASE t = s
      BY <1>3, <1>4, <2>2, <3>1 DEF Taken
    <3>2. CASE r = s
      BY <1>3, <1>4, <2>2, <3>2 DEF Taken
    <3>3. CASE t # s /\ r # s
      BY <1>1, <1>3, <2>2, <3>3 DEF SlotsOnce
    <3> QED BY <3>1, <3>2, <3>3
  <2> QED BY <2>1, <2>2
<1>6. ASSUME NEW r \in Stages, NEW t \in Stages PROVE worker'[t].slot \notin QueuedFor(r)'
  BY <1>1, <1>3 DEF Taken, SlotsOnce
<1>7. ASSUME NEW i \in Slots PROVE \E t \in Stages : i \in QueuedFor(t)' \/ i = worker'[t].slot
  <2>1. PICK t \in Stages : i \in QueuedFor(t) \/ i = worker[t].slot
    BY <1>1, <1>2 DEF SlotsOnce
  <2>2. i # 0
    BY ConfigFacts
  <2> QED BY <1>3, <2>1, <2>2 DEF Taken
<1> DEFINE out == Slots \ QueuedFor("A")
<1>8. IsFiniteSet(out) /\ active = Cardinality(out) /\ h \in Slots
  BY <1>1, <1>2, ConfigFacts, FS_Subset DEF SlotsOnce, Taken
<1>9. active' = Cardinality(Slots \ QueuedFor("A")')
  <2>1. CASE s = "A"
    <3>1. Slots \ QueuedFor("A")' = out \cup {h} /\ h \notin out
      BY <2>1, StageFacts DEF Taken
    <3>2. Cardinality(out \cup {h}) = Cardinality(out) + 1
      <4> HIDE DEF out
      <4> QED BY <1>8, <3>1, FS_AddElement
    <3>3. active' = active + 1
      BY <2>1 DEF TakeSlot
    <3> QED BY <1>8, <3>1, <3>2, <3>3
  <2>2. CASE s # "A"
    <3>1. h \notin QueuedFor("A")
      BY <1>1, <2>2, StageFacts DEF SlotsOnce, Taken
    <3>2. QueuedFor("A")' = QueuedFor("A")
      BY <3>1, StageFacts DEF Taken
    <3>3. active' = active
      BY <2>2 DEF TakeSlot
    <3> QED BY <1>8, <3>2, <3>3
  <2> QED BY <2>1, <2>2
<1>10. active' <= SlotCount /\ active' \in Nat
  <2>1. Cardinality(Slots \ QueuedFor("A")') <= Cardinality(Slots)
    BY ConfigFacts, FS_Subset
  <2> QED BY <1>9, <2>1, ConfigFacts DEF Taken, FlowTypes
<1>11. active' <= peak' /\ peak' <= SlotCount
  <2>1. peak \in Nat /\ peak <= SlotCount /\ peak' = Max({peak, active'})
    BY <1>1 DEF FlowTypes, SlotsOnce, TakeSlot
  <2>2. PICK n \in Nat : n = active'
    BY <1>10
  <2>3. PICK m : m = Max({peak, n})
    OBVIOUS
  <2>4. m \in {peak, n} /\ m >= n
    BY <2>1, <2>3, MaxFacts
  <2>5. n <= m /\ m <= SlotCount
    BY <1>10, <2>1, <2>2, <2>4, ConfigFacts
  <2> QED BY <2>1, <2>2, <2>3, <2>5
<1> QED BY <1>5, <1>6, <1>7, <1>9, <1>11 DEF SlotsOnce, Taken

\* take(): a stage gets the next frame from its queue, or leaves after a failure.
LEMMA TakeStep ==
  ASSUME IInv, NEW s \in Stages, Take(s)
  PROVE  IInv'
<1>1. /\ worker[s].pc = "take" /\ Passes(s) /\ TakeSlot(s)
      /\ UNCHANGED <<cacheVars, runnerVars, atom, owned, counterVars, fault>>
  BY DEF Take
<1>2. CASE failed
  BY <1>1, <1>2, LeavesWait DEF TakeSlot
<1>3. CASE ~failed
  <2>1. s # "runner" /\ queue[s] # <<>>
    BY <1>1, <1>3, StageFacts DEF Passes, MayProceed
  <2>2. PICK h : h = Head(queue[s])
    OBVIOUS
  <2>3. Taken(s, h)
    BY <1>1, <1>3, <2>1, <2>2, TakeFacts
  <2>4. SlotsOnce'
    BY <1>1, <1>3, <2>3, TakeConserves
  <2>5. /\ OthersKept(s) /\ WorkerTypes' /\ FlowTypes' /\ worker'[s].pc = "execute" /\ h # 0 /\ h \in QueuedFor(s)
        /\ worker'[s].slot = h /\ worker[s].slot = 0 /\ h \in Slots
        /\ \A t \in Stages : worker'[t].frame = worker[t].frame
        /\ \A t \in Stages : QueuedFor(t)' \subseteq QueuedFor(t)
    BY <2>3, ConfigFacts DEF Taken, OthersKept
  <2>6. /\ TypeOK /\ FlowTypes /\ WorkerTypes /\ worker[s].pc \notin {"absent", "exit", "pass"} \cup Leasing
    BY <1>1 DEF IInv, TypeOK, Leasing
  <2>7. UNCHANGED <<ready, start, failed, sleeping>> /\ queue' = [queue EXCEPT ![s] = Tail(@)]
    BY <1>3, <1>1 DEF TakeSlot
  <2>8. RunnerShape' /\ VerdictIsHonest'
    BY <1>1, <2>5, <2>6, <2>7, RunnerKept DEF IInv
  <2>9. WorkerShape'
    <3>1. ShapeOf(s)
      BY DEF IInv, WorkerShape
    <3>2. ShapeOf(s)'
      BY <1>1, <2>5, <3>1 DEF ShapeOf, Leasing
    <3> QED BY <2>5, <2>7, <3>2, ShapeKept DEF IInv
  <2>10. ASSUME NEW p \in Stages, NEW r \in Stages, InOrder(p, r) PROVE InOrder(p, r)'
    <3>1. CASE r = s
      <4>1. queue'[s] = Tail(queue[s])
        BY <2>6, <2>7 DEF FlowTypes
      <4> QED BY <1>1, <2>1, <2>2, <2>5, <2>6, <2>10, <3>1, <4>1, ReaderTakes
    <3>2. CASE r # s
      <4>1. queue'[r] = queue[r] /\ worker'[r] = worker[r]
        BY <2>5, <2>6, <2>7, <3>2 DEF FlowTypes, OthersKept
      <4> QED BY <1>1, <2>5, <2>6, <2>10, <4>1, FlowKept
    <3> QED BY <3>1, <3>2
  <2>11. InOrder("A", "Cpu")' /\ InOrder("Cpu", "B")'
    BY <2>10, StageFacts DEF IInv
  <2>12. FreeAtoms /\ PassedAtoms /\ HeldByA /\ HeldByCpu /\ HeldByB /\ WorkerShape
    BY DEF IInv, AtomsFit
  <2>13. FreeAtoms'
    BY <1>1, <2>5, <2>12, StageFacts DEF FreeAtoms
  <2>14. PassedAtoms'
    BY <1>1, <2>5, <2>12, StageFacts DEF PassedAtoms, Produced, Finished, Loaded
  <2>15. HeldByA'
    <3>1. CASE s = "A"
      <4>1. atom[h].frameId < worker["B"].frame
        BY <2>5, <2>12, <3>1 DEF FreeAtoms
      <4>2. Held("A")' = atom[h] /\ worker'["B"].frame = worker["B"].frame
        BY <1>1, <2>5, <3>1, StageFacts DEF Held
      <4> QED BY <2>5, <3>1, <4>1, <4>2 DEF HeldByA, Leasing
    <3>2. CASE s # "A"
      BY <1>1, <2>5, <2>12, <3>2, AStays, StageFacts DEF OthersKept
    <3> QED BY <3>1, <3>2
  <2>16. HeldByCpu'
    <3>1. CASE s = "Cpu"
      <4>1. Produced(atom[h])
        BY <2>5, <2>12, <3>1 DEF PassedAtoms
      <4>2. Held("Cpu")' = atom[h]
        BY <1>1, <2>5, <3>1 DEF Held
      <4> QED BY <2>5, <3>1, <4>1, <4>2, ConfigFacts DEF HeldByCpu, Produced, Loaded
    <3>2. CASE s # "Cpu"
      BY <1>1, <2>5, <2>12, <3>2, CpuStays, StageFacts DEF OthersKept
    <3> QED BY <3>1, <3>2
  <2>17. HeldByB'
    <3>1. CASE s = "B"
      <4>1. Finished(atom[h])
        BY <2>5, <2>12, <3>1 DEF PassedAtoms
      <4>2. Held("B")' = atom[h]
        BY <1>1, <2>5, <3>1 DEF Held
      <4> QED BY <4>1, <4>2 DEF HeldByB, Finished, Loaded
    <3>2. CASE s # "B"
      BY <1>1, <2>5, <2>12, <3>2, BStays, StageFacts DEF OthersKept
    <3> QED BY <3>1, <3>2
  <2>18. LeasesFit' /\ PublishedFit'
    BY <1>1, <2>5, <2>6, CacheKept DEF IInv, CacheShape
  <2>19. CopiesFit'
    BY <2>5, StageFacts DEF IInv, CacheShape, CopiesFit, OthersKept
  <2>20. FaultsAreTold'
    <3>1. ~Failing(s) /\ ~Failing(s)'
      BY <1>1, <2>5 DEF Failing
    <3>2. failed \/ broken => fault
      BY DEF IInv, FaultsAreTold
    <3> QED BY <1>1, <2>5, <2>6, <2>7, <3>1, <3>2, FaultsKept
  <2>21. CountersFollowB'
    <3>1. worker'["B"] = worker["B"] \/ (worker["B"].pc = "take" /\ worker'["B"].pc = "execute")
      BY <1>1, <2>5, StageFacts DEF OthersKept
    <3>2. worker'["B"].frame = worker["B"].frame
      BY <2>5, StageFacts
    <3> QED BY <1>1, <3>1, <3>2, CountersKept
  <2>22. TypeOK'
    BY <1>1, <2>5, <2>7 DEF IInv, TypeOK, AtomTypes, FlagTypes, CounterTypes, CacheTypes
  <2> QED BY <2>4, <2>8, <2>9, <2>11, <2>13, <2>14, <2>15, <2>16, <2>17, <2>18, <2>19, <2>20, <2>21, <2>22
          DEF IInv, AtomsFit, CacheShape
<1> QED BY <1>2, <1>3

\* The slots after a pass: the worker's slot moves to the next stage's queue.
Passed(s, k) ==
    /\ k \in Slots /\ k = worker[s].slot
    /\ queue' \in [Stages -> Seq(Slots)] /\ WorkerTypes' /\ OthersKept(s)
    /\ worker'[s].slot = 0 /\ worker'[s].frame = worker[s].frame + 1
    /\ worker'[s].pc \in {"exit", "take"}
    /\ worker'[s].pc = "exit" <=> worker[s].frame = FrameCount
    /\ \A t \in Stages : IsInjective(queue'[t])
    /\ queue'[Next3[s]] = Append(queue[Next3[s]], k)
    /\ QueuedFor(Next3[s])' = QueuedFor(Next3[s]) \cup {k}
    /\ \A t \in Stages : t # Next3[s] => queue'[t] = queue[t] /\ QueuedFor(t)' = QueuedFor(t)

\* What pass() does to queues, counts and hands.
LEMMA HandOnFacts ==
  ASSUME IInv, NEW s \in Stages, HandOn(s)
  PROVE  Passed(s, worker[s].slot)
<1>1. /\ FlowTypes /\ WorkerTypes /\ SlotsOnce /\ worker[s].pc = "pass"
      /\ "exit" \in Positions /\ "take" \in Positions /\ worker[s].pc \in Working
  BY DEF IInv, TypeOK, HandOn, Positions, Working
<1>2. PICK k : k = worker[s].slot
  OBVIOUS
<1>3. k \in Slots /\ worker[s] \in WorkerStates /\ worker[s].frame \in Nat
  BY <1>1, <1>2, WorkerFacts DEF IInv, WorkerShape, ShapeOf
<1>4. PICK n \in Stages : n = Next3[s]
  BY StageFacts
<1>5. queue' = [queue EXCEPT ![n] = Append(@, k)]
  BY <1>2, <1>4 DEF HandOn, Pass
<1>6. queue[n] \in Seq(Slots) /\ IsInjective(queue[n]) /\ k \notin Range(queue[n]) /\ Range(queue[n]) = QueuedFor(n)
  BY <1>1, <1>2, QueueFacts DEF SlotsOnce, QueuedFor, Range, ToSet
<1>7. PICK q : q = Append(queue[n], k)
  OBVIOUS
<1>8. q \in Seq(Slots) /\ IsInjective(q) /\ Range(q) = QueuedFor(n) \cup {k}
  BY <1>3, <1>6, <1>7, AppendFacts
<1>9. /\ queue' \in [Stages -> Seq(Slots)] /\ queue'[n] = q
      /\ \A t \in Stages : t # n => queue'[t] = queue[t]
  BY <1>1, <1>5, <1>7, <1>8 DEF FlowTypes
<1>10. QueuedFor(n)' = QueuedFor(n) \cup {k} /\ \A t \in Stages : t # n => QueuedFor(t)' = QueuedFor(t)
  <2>1. ToSet(q) = Range(q)
    BY DEF Range, ToSet
  <2>2. QueuedFor(n)' = ToSet(q) /\ \A t \in Stages : t # n => QueuedFor(t)' = QueuedFor(t)
    BY <1>9 DEF QueuedFor
  <2> QED BY <1>8, <2>1, <2>2
<1>11. \A t \in Stages : IsInjective(queue'[t])
  BY <1>1, <1>8, <1>9 DEF SlotsOnce
<1>12. PICK to \in {"exit", "take"} : to = IF worker[s].frame = FrameCount THEN "exit" ELSE "take"
  OBVIOUS
<1>13. PICK w : w = [worker[s] EXCEPT !.slot = 0, !.frame = @ + 1, !.pc = to]
  OBVIOUS
<1>14. w \in WorkerStates /\ w.slot = 0 /\ w.frame = worker[s].frame + 1 /\ w.pc = to
  <2>1. 0 \in 0..SlotCount /\ worker[s].frame + 1 \in Nat /\ to \in Positions
    BY <1>1, <1>3, <1>12, ConfigFacts
  <2>2. PICK f \in Nat : f = worker[s].frame + 1
    BY <2>1
  <2>3. w = [worker[s] EXCEPT !.slot = 0, !.frame = f, !.pc = to]
    BY <1>13, <2>2
  <2>4. w \in WorkerStates /\ w.slot = 0 /\ w.frame = f /\ w.pc = to
    BY <1>3, <2>1, <2>3 DEF WorkerStates
  <2> QED BY <2>2, <2>4
<1>15. worker' = [worker EXCEPT ![s] = w]
  BY <1>1, <1>12, <1>13 DEF HandOn, WorkerTypes
<1>16. WorkerTypes' /\ worker'[s] = w /\ OthersKept(s)
  BY <1>1, <1>14, <1>15, WorkerChanges
<1>17. worker'[s].pc = to /\ (to = "exit" <=> worker[s].frame = FrameCount)
  BY <1>12, <1>14, <1>16
<1> QED BY <1>2, <1>3, <1>4, <1>7, <1>9, <1>10, <1>11, <1>12, <1>14, <1>16, <1>17 DEF Passed

\* A pass conserves the slots.
LEMMA HandOnConserves ==
  ASSUME IInv, NEW s \in Stages, HandOn(s), NEW k, Passed(s, k)
  PROVE  SlotsOnce' /\ FlowTypes'
<1>1. SlotsOnce /\ FlowTypes /\ WorkerTypes /\ TypeOK /\ RunnerShape /\ worker[s].pc = "pass"
  BY DEF IInv, TypeOK, HandOn
<1>2. capacity > 0
  BY <1>1, RunnerWaits
<1>3. PICK n \in Stages : n = Next3[s]
  BY StageFacts
<1>4. /\ \A t \in Stages : t # s => worker'[t].slot = worker[t].slot
      /\ QueuedFor(n)' = QueuedFor(n) \cup {k} /\ \A t \in Stages : t # n => QueuedFor(t)' = QueuedFor(t)
      /\ worker'[s].slot = 0 /\ k = worker[s].slot /\ k \in Slots /\ k # 0
  BY <1>3, ConfigFacts DEF Passed, OthersKept
<1>5. \A t \in Stages : k \notin QueuedFor(t) /\ 0 \notin QueuedFor(t) /\ (t # s => worker[t].slot # k)
  BY <1>1, <1>4, QueueFacts DEF SlotsOnce
<1>6. ASSUME NEW t \in Stages, NEW r \in Stages, t # r
      PROVE  /\ QueuedFor(t)' \cap QueuedFor(r)' = {}
             /\ worker'[t].slot = 0 \/ worker'[t].slot # worker'[r].slot
  <2>1. /\ QueuedFor(t) \cap QueuedFor(r) = {}
        /\ worker[t].slot = 0 \/ worker[t].slot # worker[r].slot
    BY <1>1, <1>6 DEF SlotsOnce
  <2>2. QueuedFor(t)' \cap QueuedFor(r)' = {}
    BY <1>4, <1>5, <1>6, <2>1
  <2>3. worker'[t].slot = 0 \/ worker'[t].slot # worker'[r].slot
    BY <1>4, <2>1
  <2> QED BY <2>2, <2>3
<1>7. ASSUME NEW r \in Stages, NEW t \in Stages PROVE worker'[t].slot \notin QueuedFor(r)'
  <2>1. worker[t].slot \notin QueuedFor(r)
    BY <1>1 DEF SlotsOnce
  <2> QED BY <1>4, <1>5, <2>1
<1>8. ASSUME NEW i \in Slots PROVE \E t \in Stages : i \in QueuedFor(t)' \/ i = worker'[t].slot
  <2>1. PICK t \in Stages : i \in QueuedFor(t) \/ i = worker[t].slot
    BY <1>1, <1>2 DEF SlotsOnce
  <2> QED BY <1>3, <1>4, <2>1
<1> DEFINE out == Slots \ QueuedFor("A")
<1>9. IsFiniteSet(out) /\ active = Cardinality(out) /\ active \in Nat /\ k \in out
  BY <1>1, <1>2, <1>4, <1>5, ConfigFacts, FS_Subset, StageFacts DEF SlotsOnce, FlowTypes
<1>10. IsFiniteSet(Slots \ QueuedFor("A")') /\ active' = Cardinality(Slots \ QueuedFor("A")')
  <2>1. CASE s = "B"
    <3>1. Slots \ QueuedFor("A")' = out \ {k}
      BY <1>3, <1>4, <2>1, StageFacts
    <3>2. IsFiniteSet(out \ {k}) /\ Cardinality(out \ {k}) = Cardinality(out) - 1
      <4> HIDE DEF out
      <4> QED BY <1>9, FS_RemoveElement
    <3>3. active' = active - 1
      BY <2>1 DEF HandOn, Pass
    <3> QED BY <1>9, <3>1, <3>2, <3>3
  <2>2. CASE s # "B"
    <3>1. QueuedFor("A")' = QueuedFor("A")
      BY <1>3, <1>4, <2>2, StageFacts
    <3>2. active' = active
      BY <2>2 DEF HandOn, Pass
    <3> QED BY <1>9, <3>1, <3>2
  <2> QED BY <2>1, <2>2
<1>11. active' \in Nat
  BY <1>10, FS_CardinalityType
<1>12. active' <= peak' /\ peak' <= SlotCount /\ peak' \in Nat
  <2>1. active <= peak /\ peak <= SlotCount /\ peak \in Nat /\ active \in Nat
    BY <1>1 DEF SlotsOnce, FlowTypes
  <2>2. peak' = peak /\ (active' = active - 1 \/ active' = active)
    BY DEF HandOn, Pass
  <2> QED BY <1>11, <2>1, <2>2, ConfigFacts
<1>13. FlowTypes'
  BY <1>11, <1>12 DEF FlowTypes, Passed
<1> QED BY <1>6, <1>7, <1>8, <1>10, <1>12, <1>13 DEF SlotsOnce, Passed

\* pass(): the slot goes to the next stage, with its atom as that stage expects.
LEMMA HandOnStep ==
  ASSUME IInv, NEW s \in Stages, HandOn(s)
  PROVE  IInv'
<1>1. /\ worker[s].pc = "pass" /\ Pass(s, s = "B")
      /\ UNCHANGED <<cacheVars, runnerVars, atom, owned, counterVars, fault>>
      /\ UNCHANGED <<ready, peak, start, failed>>
  BY DEF HandOn, Pass
<1>2. PICK k : k = worker[s].slot
  OBVIOUS
<1>3. Passed(s, k)
  BY <1>2, HandOnFacts
<1>4. SlotsOnce' /\ FlowTypes'
  BY <1>3, HandOnConserves
<1>5. /\ TypeOK /\ FlowTypes /\ WorkerTypes /\ worker[s].pc \notin {"absent", "exit"} \cup Leasing
      /\ worker[s].pc \in Working
  BY <1>1 DEF IInv, TypeOK, Leasing, Working
<1>6. PICK n \in Stages : n = Next3[s]
  BY StageFacts
<1>7. /\ k \in Slots /\ k # 0 /\ k = worker[s].slot
      /\ WorkerTypes' /\ OthersKept(s)
      /\ worker'[s].slot = 0 /\ worker'[s].frame = worker[s].frame + 1
      /\ worker'[s].pc \in {"exit", "take"}
      /\ worker'[s].pc = "exit" <=> worker[s].frame = FrameCount
      /\ queue'[n] = Append(queue[n], k)
      /\ QueuedFor(n)' = QueuedFor(n) \cup {k}
      /\ \A t \in Stages : t # n => queue'[t] = queue[t] /\ QueuedFor(t)' = QueuedFor(t)
  BY <1>3, <1>6, ConfigFacts DEF Passed
<1>8. worker[s].frame \in Nat /\ worker[s].frame >= 1 /\ worker[s].frame <= FrameCount
  BY <1>1, <1>5, WorkerFacts DEF IInv, WorkerShape, ShapeOf
<1>9. RunnerShape' /\ VerdictIsHonest'
  BY <1>1, <1>5, <1>7, RunnerKept DEF IInv
<1>10. WorkerShape'
  <2>1. worker'[s].pc # "exit" => worker'[s].frame <= FrameCount
    BY <1>7, <1>8, ConfigFacts
  <2>2. worker'[s].frame >= 1 /\ (worker'[s].pc = "exit" => worker'[s].frame = FrameCount + 1)
    BY <1>7, <1>8
  <2>3. ShapeOf(s)'
    BY <1>7, <2>1, <2>2 DEF ShapeOf, Working, Leasing
  <2> QED BY <1>1, <1>7, <2>3, ShapeKept DEF IInv
<1>11. FreeAtoms /\ PassedAtoms /\ HeldByA /\ HeldByCpu /\ HeldByB /\ WorkerShape /\ InOrder("A", "Cpu") /\ InOrder("Cpu", "B")
  BY DEF IInv, AtomsFit
<1>12. atom[k].frameId = worker[s].frame
  <2>1. CASE s = "A"
    BY <1>1, <1>7, <1>11, <2>1 DEF HeldByA, Held
  <2>2. CASE s = "Cpu"
    BY <1>7, <1>11, <2>2 DEF InOrder, Held
  <2>3. CASE s = "B"
    BY <1>7, <1>11, <2>3 DEF InOrder, Held
  <2> QED BY <2>1, <2>2, <2>3, StageFacts
<1>13. InOrder("A", "Cpu")'
  <2>1. CASE s = "A"
    <3>1. n = "Cpu" /\ worker'["Cpu"] = worker["Cpu"]
      BY <1>6, <1>7, <2>1, StageFacts DEF OthersKept
    <3> QED BY <1>1, <1>5, <1>7, <1>11, <1>12, <2>1, <3>1, WriterPasses, StageFacts
  <2>2. CASE s = "Cpu"
    <3>1. queue'["Cpu"] = queue["Cpu"] /\ worker'["A"] = worker["A"]
      BY <1>6, <1>7, <2>2, StageFacts DEF OthersKept
    <3> QED BY <1>1, <1>5, <1>7, <1>11, <2>2, <3>1, ReaderDone, StageFacts
  <2>3. CASE s = "B"
    <3>1. queue'["Cpu"] = queue["Cpu"] /\ worker'["A"] = worker["A"] /\ worker'["Cpu"] = worker["Cpu"]
      BY <1>6, <1>7, <2>3, StageFacts DEF OthersKept
    <3> QED BY <1>1, <1>5, <1>11, <3>1, FlowKept, StageFacts
  <2> QED BY <2>1, <2>2, <2>3, StageFacts
<1>14. InOrder("Cpu", "B")'
  <2>1. CASE s = "A"
    <3>1. queue'["B"] = queue["B"] /\ worker'["B"] = worker["B"] /\ worker'["Cpu"] = worker["Cpu"]
      BY <1>6, <1>7, <2>1, StageFacts DEF OthersKept
    <3> QED BY <1>1, <1>5, <1>11, <3>1, FlowKept, StageFacts
  <2>2. CASE s = "Cpu"
    <3>1. n = "B" /\ worker'["B"] = worker["B"]
      BY <1>6, <1>7, <2>2, StageFacts DEF OthersKept
    <3> QED BY <1>1, <1>5, <1>7, <1>11, <1>12, <2>2, <3>1, WriterPasses, StageFacts
  <2>3. CASE s = "B"
    <3>1. queue'["B"] = queue["B"] /\ worker'["Cpu"] = worker["Cpu"]
      BY <1>6, <1>7, <2>3, StageFacts DEF OthersKept
    <3> QED BY <1>1, <1>5, <1>7, <1>11, <2>3, <3>1, ReaderDone, StageFacts
  <2> QED BY <2>1, <2>2, <2>3, StageFacts
<1>15. /\ worker["B"].frame \in Nat /\ worker["A"].frame \in Nat
       /\ worker'["B"].frame = worker["B"].frame \/ worker'["B"].frame = worker["B"].frame + 1
       /\ worker'["A"].frame = worker["A"].frame \/ (s = "A" /\ worker'["A"].frame = worker["A"].frame + 1)
       /\ worker'["B"].frame \in Nat /\ worker["B"].frame <= worker'["B"].frame
  BY <1>5, <1>7, <1>8, WorkerFacts, StageFacts DEF OthersKept
<1>16. \A i \in Slots : atom[i].frameId \in Nat
  BY AtomFacts DEF IInv, TypeOK
<1>17. FreeAtoms'
  <2>1. \A i \in QueuedFor("A") : atom[i].frameId < worker'["B"].frame
    <3>1. QueuedFor("A") \subseteq Slots
      BY <1>5, QueueFacts, StageFacts
    <3> QED BY <1>11, <1>15, <1>16, <3>1 DEF FreeAtoms
  <2>2. CASE s = "B"
    <3>1. atom[k].frameId < worker'["B"].frame
      BY <1>7, <1>8, <1>12, <2>2
    <3>2. QueuedFor("A")' = QueuedFor("A") \cup {k}
      BY <1>6, <1>7, <2>2, StageFacts
    <3> QED BY <1>1, <2>1, <3>1, <3>2 DEF FreeAtoms
  <2>3. CASE s # "B"
    <3>1. QueuedFor("A")' = QueuedFor("A")
      BY <1>6, <1>7, <2>3, StageFacts
    <3> QED BY <1>1, <2>1, <3>1 DEF FreeAtoms
  <2> QED BY <2>2, <2>3
<1>18. PassedAtoms'
  <2>1. ASSUME NEW i \in QueuedFor("Cpu")' PROVE Produced(atom[i])
    <3>1. i \in QueuedFor("Cpu") \/ (s = "A" /\ i = k)
      BY <1>6, <1>7, <2>1, StageFacts
    <3>2. s = "A" => Produced(atom[k])
      BY <1>1, <1>7, <1>11 DEF HeldByA, Held
    <3> QED BY <1>11, <3>1, <3>2 DEF PassedAtoms
  <2>2. ASSUME NEW i \in QueuedFor("B")' PROVE Finished(atom[i])
    <3>1. i \in QueuedFor("B") \/ (s = "Cpu" /\ i = k)
      BY <1>6, <1>7, <2>2, StageFacts
    <3>2. s = "Cpu" => Finished(atom[k])
      BY <1>1, <1>7, <1>11 DEF HeldByCpu, Held
    <3> QED BY <1>11, <3>1, <3>2 DEF PassedAtoms
  <2> QED BY <1>1, <2>1, <2>2 DEF PassedAtoms, Produced, Finished, Loaded
<1>19. HeldByA'
  <2>1. CASE s = "A"
    BY <1>7, <2>1 DEF HeldByA, Leasing
  <2>2. CASE s = "B"
    <3>1. worker'["A"] = worker["A"] /\ Held("A")' = Held("A")
      BY <1>1, <1>7, <2>2, StageFacts DEF OthersKept, Held
    <3>2. ASSUME worker["A"].pc = "execute" PROVE Held("A").frameId < worker'["B"].frame
      <4>1. Held("A").frameId < worker["B"].frame
        BY <1>11, <3>2 DEF HeldByA
      <4>2. worker["A"].slot \in Slots
        BY <1>5, <3>2, WorkerFacts, StageFacts DEF IInv, WorkerShape, ShapeOf, Working
      <4> QED BY <1>15, <1>16, <4>1, <4>2 DEF Held
    <3> QED BY <1>11, <3>1, <3>2 DEF HeldByA, Produced, Loaded
  <2>3. CASE s = "Cpu"
    <3>1. worker'["A"] = worker["A"] /\ worker'["B"].frame = worker["B"].frame
      BY <1>7, <2>3, StageFacts DEF OthersKept
    <3> QED BY <1>1, <1>11, <3>1, AStays
  <2> QED BY <2>1, <2>2, <2>3, StageFacts
<1>20. HeldByCpu'
  <2>1. CASE s = "Cpu"
    BY <1>7, <2>1 DEF HeldByCpu
  <2>2. CASE s # "Cpu"
    BY <1>1, <1>7, <1>11, <2>2, CpuStays, StageFacts DEF OthersKept
  <2> QED BY <2>1, <2>2
<1>21. HeldByB'
  <2>1. CASE s = "B"
    BY <1>7, <2>1 DEF HeldByB, Working, Leasing
  <2>2. CASE s # "B"
    BY <1>1, <1>7, <1>11, <2>2, BStays, StageFacts DEF OthersKept
  <2> QED BY <2>1, <2>2
<1>22. LeasesFit /\ PublishedFit /\ CopiesFit
  BY DEF IInv, CacheShape
<1>23. LeasesFit'
  <2>1. ASSUME NEW t \in GpuStages PROVE LeaseFits(t)'
    <3>1. CASE t = s
      <4>1. lease'[t] = Cache!Nothing
        BY <1>1, <1>5, <1>22, <3>1, NoLease
      <4> QED BY <4>1 DEF LeaseFits
    <3>2. CASE t # s
      <4>1. worker'[t] = worker[t] /\ LeaseFits(t) /\ lease' = lease
        BY <1>1, <1>7, <1>22, <3>2, StageFacts DEF OthersKept, LeasesFit
      <4> QED BY <4>1 DEF LeaseFits
    <3> QED BY <3>1, <3>2
  <2>2. lease'["A"].kind # "read"
    BY <1>1, <1>22 DEF LeasesFit
  <2>3. ASSUME lease'["B"].kind = "read" PROVE stored'[worker'["B"].frame] = worker'["B"].frame
    <3>1. s # "B"
      BY <1>1, <1>5, <1>22, <2>3, NoLease DEF GpuStages
    <3>2. worker'["B"] = worker["B"]
      BY <1>7, <3>1, StageFacts DEF OthersKept
    <3> QED BY <1>1, <1>22, <2>3, <3>2 DEF LeasesFit
  <2> QED BY <2>1, <2>2, <2>3 DEF LeasesFit
<1>24. PublishedFit'
  <2> SUFFICES ASSUME NEW f \in Frames, Result(f) \in published
               PROVE  /\ stored[f] = f
                      /\ \/ f < worker'["A"].frame
                         \/ f = worker'["A"].frame /\ worker'["A"].pc \in {"pass", "exit"}
    BY <1>1 DEF PublishedFit
  <2>1. /\ stored[f] = f /\ f \in Nat
        /\ f < worker["A"].frame \/ (f = worker["A"].frame /\ worker["A"].pc \in {"pass", "exit"})
    BY <1>22, ConfigFacts DEF PublishedFit
  <2>2. CASE s = "A"
    <3>1. f < worker["A"].frame + 1
      BY <1>15, <2>1
    <3> QED BY <1>7, <2>1, <2>2, <3>1
  <2>3. CASE s # "A"
    <3>1. worker'["A"] = worker["A"]
      BY <1>7, <2>3, StageFacts DEF OthersKept
    <3> QED BY <2>1, <3>1
  <2> QED BY <2>2, <2>3
<1>25. CopiesFit'
  BY <1>7, <1>22, StageFacts DEF CopiesFit, OthersKept
<1>26. FaultsAreTold'
  <2>1. ~Failing(s) /\ ~Failing(s)'
    BY <1>1, <1>7 DEF Failing
  <2>2. failed \/ broken => fault
    BY DEF IInv, FaultsAreTold
  <2> QED BY <1>1, <1>5, <1>7, <2>1, <2>2, FaultsKept
<1>27. CountersFollowB'
  <2>1. CASE s = "B"
    <3>1. completed \in Nat /\ hits \in Nat /\ uploads \in Nat
      BY DEF IInv, TypeOK, CounterTypes
    <3>2. ~fault => completed = worker["B"].frame - 1 + 1 /\ hits + uploads = completed + 0
      BY <1>1, <2>1 DEF IInv, CountersFollowB
    <3>3. worker'["B"].frame = worker["B"].frame + 1 /\ worker'["B"].pc \in {"exit", "take"}
      BY <1>7, <2>1
    <3>4. ~fault => completed = worker'["B"].frame - 1 + 0 /\ hits + uploads = completed + 0
      BY <1>15, <3>1, <3>2, <3>3
    <3> QED BY <1>1, <3>3, <3>4 DEF CountersFollowB
  <2>2. CASE s # "B"
    <3>1. worker'["B"] = worker["B"]
      BY <1>7, <2>2, StageFacts DEF OthersKept
    <3> QED BY <1>1, <3>1, CountersKept
  <2> QED BY <2>1, <2>2
<1>28. TypeOK'
  BY <1>1, <1>4, <1>7 DEF IInv, TypeOK, AtomTypes, FlagTypes, CounterTypes, CacheTypes
<1> QED BY <1>4, <1>9, <1>10, <1>13, <1>14, <1>17, <1>18, <1>19, <1>20, <1>21, <1>23, <1>24, <1>25, <1>26, <1>27, <1>28
        DEF IInv, AtomsFit, CacheShape

-----------------------------------------------------------------------------
(* runPipeline *)

\* What the runner cannot disturb while it leaves workers, slots and leases
\* alone.
LEMMA WorkersLeft ==
  ASSUME IInv, UNCHANGED <<worker, queue, active, peak, atom, stored, lease, counterVars>>,
         published' \subseteq published, capacity' > 0 => capacity > 0, failed => failed', fault => fault'
  PROVE  /\ WorkerShape' /\ SlotsOnce' /\ InOrder("A", "Cpu")' /\ InOrder("Cpu", "B")'
         /\ AtomsFit' /\ CacheShape' /\ CountersFollowB'
<1>1. WorkerShape'
  BY DEF IInv, WorkerShape, ShapeOf
<1>2. SlotsOnce'
  BY SlotsKept DEF IInv, HandsKept
<1>3. InOrder("A", "Cpu")' /\ InOrder("Cpu", "B")'
  <2>1. FlowTypes /\ InOrder("A", "Cpu") /\ InOrder("Cpu", "B")
    BY DEF IInv, TypeOK
  <2> QED BY <2>1, FlowKept, StageFacts
<1>4. AtomsFit'
  <2>1. FreeAtoms' /\ PassedAtoms'
    BY QueuedKept DEF IInv, AtomsFit
  <2>2. HeldByA' /\ HeldByCpu' /\ HeldByB'
    BY AStays, CpuStays, BStays DEF IInv, AtomsFit
  <2> QED BY <2>1, <2>2 DEF AtomsFit
<1>5. LeasesFit' /\ CopiesFit'
  BY DEF IInv, CacheShape, LeasesFit, LeaseFits, CopiesFit
<1>6. PublishedFit'
  BY DEF IInv, CacheShape, PublishedFit
<1>7. CountersFollowB'
  BY CountersKept
<1> QED BY <1>1, <1>2, <1>3, <1>4, <1>5, <1>6, <1>7 DEF CacheShape

\* A step that changes nothing the invariant speaks of: a thread goes to sleep,
\* or nothing happens.
LEMMA QuietStep ==
  ASSUME IInv, UNCHANGED <<queue, active, peak, failed, atom, worker, owned, counterVars, fault, cacheVars, runnerVars>>
  PROVE  IInv'
<1>1. /\ WorkerShape' /\ SlotsOnce' /\ InOrder("A", "Cpu")' /\ InOrder("Cpu", "B")'
      /\ AtomsFit' /\ CacheShape' /\ CountersFollowB'
  BY WorkersLeft
<1>2. TypeOK'
  BY DEF IInv, TypeOK, FlowTypes, AtomTypes, WorkerTypes, FlagTypes, CounterTypes, CacheTypes
<1>3. RunnerShape' /\ VerdictIsHonest'
  BY DEF IInv, RunnerShape, VerdictIsHonest
<1>4. FaultsAreTold'
  BY DEF IInv, FaultsAreTold, Failing
<1> QED BY <1>1, <1>2, <1>3, <1>4 DEF IInv

\* runPipeline refuses to start.
LEMMA RejectStep ==
  ASSUME IInv, Reject
  PROVE  IInv'
<1>1. /\ runner = "configure" /\ runner' = "returned" /\ verdict' = FALSE /\ fault' = TRUE
      /\ UNCHANGED <<schedulerVars, cacheVars, keep, atom, worker, owned, counterVars>>
  BY DEF Reject
<1>2. /\ WorkerShape' /\ SlotsOnce' /\ InOrder("A", "Cpu")' /\ InOrder("Cpu", "B")'
      /\ AtomsFit' /\ CacheShape' /\ CountersFollowB'
  BY <1>1, WorkersLeft
<1>3. TypeOK'
  BY <1>1 DEF IInv, TypeOK, FlowTypes, AtomTypes, WorkerTypes, FlagTypes, CounterTypes, CacheTypes, Runners
<1>4. RunnerShape'
  BY <1>1 DEF IInv, RunnerShape
<1>5. FaultsAreTold' /\ VerdictIsHonest'
  BY <1>1 DEF FaultsAreTold, VerdictIsHonest
<1> QED BY <1>2, <1>3, <1>4, <1>5 DEF IInv

\* A thread cannot be created.
LEMMA CreateThrowsStep ==
  ASSUME IInv, CreateThrows
  PROVE  IInv'
<1>1. /\ runner = "create" /\ runner' = "join" /\ failed' = TRUE /\ fault' = TRUE
      /\ UNCHANGED <<queue, active, peak, cacheVars, verdict, keep, atom, worker, owned, counterVars>>
  BY DEF CreateThrows, Cancel
<1>2. /\ WorkerShape' /\ SlotsOnce' /\ InOrder("A", "Cpu")' /\ InOrder("Cpu", "B")'
      /\ AtomsFit' /\ CacheShape' /\ CountersFollowB'
  BY <1>1, WorkersLeft
<1>3. TypeOK'
  BY <1>1 DEF IInv, TypeOK, FlowTypes, AtomTypes, WorkerTypes, FlagTypes, CounterTypes, CacheTypes, Runners
<1>4. RunnerShape'
  BY <1>1 DEF IInv, RunnerShape
<1>5. FaultsAreTold' /\ VerdictIsHonest'
  BY <1>1 DEF FaultsAreTold, VerdictIsHonest
<1> QED BY <1>2, <1>3, <1>4, <1>5 DEF IInv

\* The runner moves on from the barrier, and from the join.
LEMMA WaitStep ==
  ASSUME IInv, Barrier \/ Join
  PROVE  IInv'
<1>1. /\ \/ runner = "barrier" /\ runner' = "join"
         \/ /\ runner = "join" /\ runner' = "cleanup"
            /\ \A s \in Stages : worker[s].pc \in {"absent", "exit"}
      /\ UNCHANGED <<queue, active, peak, failed, cacheVars, verdict, keep, atom, worker, owned, counterVars, fault>>
  BY DEF Barrier, Join, Passes, Waits
<1>2. /\ WorkerShape' /\ SlotsOnce' /\ InOrder("A", "Cpu")' /\ InOrder("Cpu", "B")'
      /\ AtomsFit' /\ CacheShape' /\ CountersFollowB'
  BY <1>1, WorkersLeft
<1>3. TypeOK'
  BY <1>1 DEF IInv, TypeOK, FlowTypes, AtomTypes, WorkerTypes, FlagTypes, CounterTypes, CacheTypes, Runners
<1>4. RunnerShape'
  BY <1>1 DEF IInv, RunnerShape
<1>5. VerdictIsHonest'
  BY <1>1 DEF VerdictIsHonest
<1>6. FaultsAreTold'
  BY <1>1 DEF IInv, FaultsAreTold, Failing
<1> QED BY <1>2, <1>3, <1>4, <1>5, <1>6 DEF IInv

\* With the last of three workers created, all are.
LEMMA NextWorkerFacts ==
  ASSUME RunnerShape, runner = "create"
  PROVE  /\ NextWorker \in Stages /\ worker[NextWorker].pc = "absent"
         /\ NextWorker = "B" => worker["A"].pc # "absent" /\ worker["Cpu"].pc # "absent"
         /\ NextWorker = "Cpu" => worker["A"].pc # "absent"
<1> DEFINE made == {s \in Stages : worker[s].pc # "absent"}
<1>1. worker["B"].pc = "absent" /\ (worker["A"].pc = "absent" => worker["Cpu"].pc = "absent")
  BY DEF RunnerShape
<1>2. CASE worker["A"].pc = "absent"
  <2>1. made = {}
    BY <1>1, <1>2, StageFacts
  <2>2. Cardinality(made) = 0
    BY <2>1, FS_EmptySet
  <2>3. NextWorker = "A"
    BY <2>2 DEF NextWorker
  <2> QED BY <1>2, <2>3, StageFacts
<1>3. CASE worker["A"].pc # "absent" /\ worker["Cpu"].pc = "absent"
  <2>1. made = {"A"}
    BY <1>1, <1>3, StageFacts
  <2>2. Cardinality(made) = 1
    BY <2>1, FS_Singleton
  <2>3. NextWorker = "Cpu"
    BY <2>2 DEF NextWorker
  <2> QED BY <1>3, <2>3, StageFacts
<1>4. CASE worker["A"].pc # "absent" /\ worker["Cpu"].pc # "absent"
  <2>1. made = {"A"} \cup {"Cpu"}
    BY <1>1, <1>4, StageFacts
  <2>2. Cardinality(made) = 2
    <3>1. IsFiniteSet({"A"}) /\ Cardinality({"A"}) = 1 /\ "Cpu" \notin {"A"}
      BY FS_Singleton
    <3>2. Cardinality({"A"} \cup {"Cpu"}) = Cardinality({"A"}) + 1
      BY <3>1, FS_AddElement
    <3>3. Cardinality({"A"} \cup {"Cpu"}) = 2
      BY <3>1, <3>2, SMT
    <3> HIDE DEF made
    <3> QED BY <2>1, <3>3, Zenon
  <2>3. NextWorker = "B"
    BY <2>2 DEF NextWorker
  <2> QED BY <1>1, <1>4, <2>3, StageFacts
<1> QED BY <1>2, <1>3, <1>4

\* The next worker is created.
LEMMA CreateWorkerStep ==
  ASSUME IInv, CreateWorker
  PROVE  IInv'
<1>1. PICK s : s = NextWorker
  OBVIOUS
<1>2. /\ runner = "create" /\ Goto(s, "born") /\ runner' = (IF s = "B" THEN "barrier" ELSE "create")
      /\ UNCHANGED <<schedulerVars, cacheVars, verdict, keep, atom, owned, counterVars, fault>>
  BY <1>1 DEF CreateWorker
<1>3. /\ s \in Stages /\ worker[s].pc = "absent"
      /\ s = "B" => worker["A"].pc # "absent" /\ worker["Cpu"].pc # "absent"
      /\ s = "Cpu" => worker["A"].pc # "absent"
  BY <1>1, <1>2, NextWorkerFacts DEF IInv
<1>4. worker[s].pc \in Idle /\ "born" \in Idle
  BY <1>3 DEF Idle
<1>5. /\ WorkerTypes' /\ HandsKept /\ OthersKept(s) /\ worker'[s].pc = "born"
      /\ WorkerShape' /\ LeasesFit' /\ CopiesFit' /\ PublishedFit' /\ CountersFollowB'
      /\ s = "A" => HeldByA'
      /\ s = "Cpu" => HeldByCpu'
      /\ s = "B" => HeldByB'
  BY <1>2, <1>3, <1>4, IdleMove
<1>6. SlotsOnce'
  BY <1>2, <1>5, SlotsKept DEF IInv
<1>7. InOrder("A", "Cpu")' /\ InOrder("Cpu", "B")'
  <2>1. FlowTypes /\ InOrder("A", "Cpu") /\ InOrder("Cpu", "B")
    BY DEF IInv, TypeOK
  <2> QED BY <1>2, <1>5, <2>1, FlowKept, StageFacts DEF HandsKept
<1>8. worker'["B"].frame = worker["B"].frame
  BY <1>5, StageFacts DEF HandsKept
<1>9. AtomsFit'
  <2>1. FreeAtoms /\ PassedAtoms /\ HeldByA /\ HeldByCpu /\ HeldByB /\ WorkerShape
    BY DEF IInv, AtomsFit
  <2>2. FreeAtoms' /\ PassedAtoms'
    BY <1>2, <1>8, <2>1, QueuedKept
  <2>3. s # "A" => HeldByA'
    BY <1>2, <1>5, <1>8, <2>1, AStays, StageFacts DEF OthersKept
  <2>4. s # "Cpu" => HeldByCpu'
    BY <1>2, <1>5, <2>1, CpuStays, StageFacts DEF OthersKept
  <2>5. s # "B" => HeldByB'
    BY <1>2, <1>5, <2>1, BStays, StageFacts DEF OthersKept
  <2> QED BY <1>5, <2>2, <2>3, <2>4, <2>5 DEF AtomsFit
<1>10. RunnerShape'
  <2>1. worker["B"].pc = "absent" /\ capacity = Entries
    BY <1>2 DEF IInv, RunnerShape
  <2>2. capacity' = Entries /\ runner' \in {"create", "barrier"}
    BY <1>2, <2>1
  <2>3. CASE s = "B"
    <3>1. \A t \in Stages : worker'[t].pc # "absent"
      BY <1>3, <1>5, <2>3, StageFacts DEF OthersKept
    <3> QED BY <1>2, <2>2, <2>3, <3>1 DEF RunnerShape
  <2>4. CASE s # "B"
    <3>1. worker'["B"].pc = "absent" /\ (worker'["A"].pc = "absent" => worker'["Cpu"].pc = "absent")
      <4>1. worker'["B"].pc = "absent"
        BY <1>5, <2>1, <2>4, StageFacts DEF OthersKept
      <4>2. worker'["A"].pc # "absent"
        BY <1>3, <1>5, <2>4, StageFacts DEF OthersKept
      <4> QED BY <4>1, <4>2
    <3>2. runner' = "create"
      BY <1>2, <2>4
    <3> QED BY <2>2, <3>1, <3>2 DEF RunnerShape
  <2> QED BY <2>3, <2>4
<1>11. VerdictIsHonest'
  BY <1>2 DEF VerdictIsHonest
<1>12. FaultsAreTold'
  <2>1. \A t \in GpuStages : Failing(t)' <=> Failing(t)
    BY <1>3, <1>5, StageFacts DEF Failing, OthersKept
  <2> QED BY <1>2, <2>1 DEF IInv, FaultsAreTold
<1>13. TypeOK'
  BY <1>2, <1>5 DEF IInv, TypeOK, FlowTypes, AtomTypes, FlagTypes, CounterTypes, CacheTypes, Runners
<1> QED BY <1>5, <1>6, <1>7, <1>9, <1>10, <1>11, <1>12, <1>13 DEF IInv, CacheShape

\* The slots are free at first.
LEMMA ConfigureStep ==
  ASSUME IInv, Configure
  PROVE  IInv'
<1>1. /\ runner = "configure" /\ runner' = "create" /\ Cache!Open(Entries)
      /\ queue' = [queue EXCEPT !["A"] = [i \in Slots |-> i]]
      /\ UNCHANGED <<active, peak, failed, stored, verdict, keep, atom, worker, owned, counterVars, fault>>
  BY DEF Configure
<1>2. capacity' = Entries /\ UNCHANGED <<broken, published, lease>>
  BY <1>1 DEF Cache!Open
<1>3. /\ \A s \in Stages : worker[s].pc = "absent" /\ worker[s].slot = 0 /\ worker[s].frame \in Nat /\ worker[s].frame >= 1
      /\ queue = [s \in Stages |-> <<>>] /\ active = 0
      /\ \A i \in Slots : atom[i].frameId = 0
  <2>1. /\ \A s \in Stages : worker[s].pc = "absent"
        /\ queue = [s \in Stages |-> <<>>] /\ active = 0 /\ atom = [i \in Slots |-> FreshAtom]
    BY <1>1 DEF IInv, RunnerShape
  <2>2. \A s \in Stages : worker[s].slot = 0 /\ worker[s].frame \in Nat /\ worker[s].frame >= 1
    BY <2>1, WorkerFacts DEF IInv, TypeOK, WorkerShape, ShapeOf
  <2> QED BY <2>1, <2>2 DEF FreshAtom
<1>4. PICK all : all = [i \in Slots |-> i]
  OBVIOUS
<1>5. all \in Seq(Slots) /\ IsInjective(all) /\ ToSet(all) = Slots
  <2>1. SlotCount \in Nat /\ Slots = 1..SlotCount
    BY ConfigFacts
  <2>2. all \in Seq(Slots) /\ DOMAIN all = Slots
    BY <1>4, <2>1
  <2>3. IsInjective(all)
    BY <1>4 DEF IsInjective
  <2>4. ToSet(all) = Slots
    BY <1>4, <2>2 DEF ToSet
  <2> QED BY <2>2, <2>3, <2>4
<1>6. queue' \in [Stages -> Seq(Slots)] /\ queue'["A"] = all /\ queue'["Cpu"] = <<>> /\ queue'["B"] = <<>>
  <2>1. queue \in [Stages -> Seq(Slots)]
    BY DEF IInv, TypeOK, FlowTypes
  <2>2. queue' = [queue EXCEPT !["A"] = all]
    BY <1>1, <1>4
  <2> QED BY <1>3, <1>5, <2>1, <2>2, StageFacts
<1>7. QueuedFor("A")' = Slots /\ QueuedFor("Cpu")' = {} /\ QueuedFor("B")' = {}
  BY <1>5, <1>6 DEF QueuedFor, ToSet
<1>8. SlotsOnce'
  <2>1. \A s \in Stages : IsInjective(queue'[s])
    <3>1. IsInjective(<<>>)
      BY DEF IsInjective
    <3> QED BY <1>5, <1>6, <3>1, StageFacts
  <2>2. \A s \in Stages, t \in Stages : s # t =>
          /\ QueuedFor(s)' \cap QueuedFor(t)' = {}
          /\ worker'[s].slot = 0 \/ worker'[s].slot # worker'[t].slot
    BY <1>1, <1>3, <1>7, StageFacts
  <2>3. \A s \in Stages, t \in Stages : worker'[t].slot \notin QueuedFor(s)'
    BY <1>1, <1>3, <1>7, StageFacts, ConfigFacts
  <2>4. \A i \in Slots : \E s \in Stages : i \in QueuedFor(s)' \/ i = worker'[s].slot
    BY <1>7, StageFacts
  <2>5. active' = Cardinality(Slots \ QueuedFor("A")')
    <3>1. Slots \ QueuedFor("A")' = {}
      BY <1>7
    <3> QED BY <1>1, <1>3, <3>1, FS_EmptySet
  <2>6. active' <= peak' /\ peak' <= SlotCount
    BY <1>1 DEF IInv, SlotsOnce
  <2> QED BY <2>1, <2>2, <2>3, <2>4, <2>5, <2>6 DEF SlotsOnce
<1>9. InOrder("A", "Cpu")' /\ InOrder("Cpu", "B")'
  <2>1. FlowTypes /\ InOrder("A", "Cpu") /\ InOrder("Cpu", "B")
    BY DEF IInv, TypeOK
  <2>2. queue["Cpu"] = <<>> /\ queue["B"] = <<>>
    BY <1>3, StageFacts
  <2>3. queue'["Cpu"] = queue["Cpu"] /\ queue'["B"] = queue["B"]
    BY <1>6, <2>2
  <2> QED BY <1>1, <2>1, <2>3, FlowKept, StageFacts
<1>10. AtomsFit'
  <2>1. FreeAtoms'
    BY <1>1, <1>3, <1>7, StageFacts DEF FreeAtoms
  <2>2. PassedAtoms'
    BY <1>7 DEF PassedAtoms
  <2>3. HeldByA' /\ HeldByCpu' /\ HeldByB'
    BY <1>1, AStays, CpuStays, BStays DEF IInv, AtomsFit
  <2> QED BY <2>1, <2>2, <2>3 DEF AtomsFit
<1>11. WorkerShape'
  BY <1>1 DEF IInv, WorkerShape, ShapeOf
<1>12. LeasesFit' /\ CopiesFit' /\ PublishedFit'
  BY <1>1, <1>2 DEF IInv, CacheShape, LeasesFit, LeaseFits, CopiesFit, PublishedFit
<1>13. CountersFollowB'
  BY <1>1, CountersKept
<1>14. RunnerShape'
  <2>1. \A s \in Stages : worker'[s].pc = "absent"
    BY <1>1, <1>3
  <2> QED BY <1>1, <1>2, <2>1, StageFacts DEF RunnerShape
<1>15. VerdictIsHonest'
  BY <1>1 DEF VerdictIsHonest
<1>16. FaultsAreTold'
  BY <1>1, <1>2 DEF IInv, FaultsAreTold, Failing
<1>17. CacheTypes'
  BY <1>1, <1>2, ConfigFacts DEF IInv, TypeOK, CacheTypes
<1>18. TypeOK'
  BY <1>1, <1>6, <1>17 DEF IInv, TypeOK, FlowTypes, AtomTypes, WorkerTypes, FlagTypes, CounterTypes, Runners
<1> QED BY <1>8, <1>9, <1>10, <1>11, <1>12, <1>13, <1>14, <1>15, <1>16, <1>18 DEF IInv, CacheShape

\* Unloading that succeeds leaves nothing, and what has nothing cannot fail.
LEMMA UnloadFacts ==
  ASSUME NEW n \in Nat, NEW o \in UnloadOutcomes(n)
  PROVE  /\ o.left \in Nat /\ o.ok \in BOOLEAN
         /\ o.ok => o.left = 0
         /\ n = 0 => o.left = 0
<1>1. CASE n = 0
  <2>1. o = [left |-> 0, ok |-> TRUE]
    BY <1>1 DEF UnloadOutcomes
  <2> QED BY <2>1
<1>2. CASE n # 0
  <2>1. \/ o = [left |-> 0, ok |-> TRUE] \/ o = [left |-> 1, ok |-> FALSE] \/ o = [left |-> n, ok |-> FALSE]
        \/ o = [left |-> 0, ok |-> FALSE]
    BY <1>2 DEF UnloadOutcomes
  <2>2. CASE o = [left |-> 0, ok |-> TRUE]
    BY <1>2, <2>2
  <2>3. CASE o = [left |-> 1, ok |-> FALSE]
    BY <1>2, <2>3
  <2>4. CASE o = [left |-> n, ok |-> FALSE]
    BY <1>2, <2>4
  <2>5. CASE o = [left |-> 0, ok |-> FALSE]
    BY <1>2, <2>5
  <2> QED BY <2>1, <2>2, <2>3, <2>4, <2>5
<1> QED BY <1>1, <1>2

\* After the join every worker has left, and without its lease.
LEMMA AllGone ==
  ASSUME IInv, \A s \in Stages : worker[s].pc \in {"absent", "exit"}
  PROVE  /\ Cache!AllReturned
         /\ \A s \in GpuStages : ~Failing(s)
<1>1. LeasesFit /\ lease \in [GpuStages -> LeaseStates]
  BY DEF IInv, CacheShape, TypeOK, CacheTypes
<1>2. \A s \in GpuStages : worker[s].pc \notin Leasing
  BY StageFacts DEF Leasing
<1>3. \A s \in GpuStages : lease[s] = Cache!Nothing
  BY <1>1, <1>2, NoLease
<1>4. lease = [s \in GpuStages |-> Cache!Nothing]
  BY <1>1, <1>3
<1>5. Cache!AllReturned
  BY <1>4 DEF Cache!AllReturned
<1>6. \A s \in GpuStages : ~Failing(s)
  BY StageFacts DEF Failing
<1> QED BY <1>5, <1>6

\* Resources and cache are released and the verdict is formed.
LEMMA CleanupStep ==
  ASSUME IInv, Cleanup
  PROVE  IInv'
<1>1. /\ runner = "cleanup" /\ runner' = "returned"
      /\ UNCHANGED <<schedulerVars, stored, keep, atom, worker, counterVars>>
  BY DEF Cleanup
<1>2. \A s \in Stages : worker[s].pc \in {"absent", "exit"}
  BY <1>1 DEF IInv, RunnerShape
<1>3. Cache!AllReturned /\ \A s \in GpuStages : ~Failing(s)
  BY <1>2, AllGone
<1>4. PICK a \in UnloadOutcomes(owned["A"]), b \in UnloadOutcomes(owned["B"]), freed \in BOOLEAN :
        /\ owned' = [s \in GpuStages |-> IF s = "A" THEN a.left ELSE b.left]
        /\ Cache!Close
        /\ verdict' = Verdict(a.ok, b.ok, freed)
        /\ fault' = (fault \/ ~a.ok \/ ~b.ok \/ ~freed)
  BY <1>3 DEF Cleanup, Verdict
<1>5. capacity' = 0 /\ published' = {} /\ broken' \in {broken, FALSE} /\ lease' = lease
  BY <1>4 DEF Cache!Close
<1>6. owned["A"] \in Nat /\ owned["B"] \in Nat
  BY DEF IInv, TypeOK, CounterTypes, GpuStages
<1>7. /\ a.left \in Nat /\ a.ok \in BOOLEAN /\ (a.ok => a.left = 0)
      /\ b.left \in Nat /\ b.ok \in BOOLEAN /\ (b.ok => b.left = 0)
  BY <1>6, UnloadFacts
<1>9. PICK aok \in BOOLEAN, bok \in BOOLEAN : aok = a.ok /\ bok = b.ok
  BY <1>7
<1>10. /\ verdict' <=> ~failed /\ completed = FrameCount /\ aok /\ bok /\ freed
       /\ fault' <=> fault \/ ~aok \/ ~bok \/ ~freed
       /\ verdict' \in BOOLEAN /\ fault' \in BOOLEAN
  BY <1>4, <1>9 DEF Verdict
<1>8. /\ WorkerShape' /\ SlotsOnce' /\ InOrder("A", "Cpu")' /\ InOrder("Cpu", "B")'
      /\ AtomsFit' /\ CacheShape' /\ CountersFollowB'
  <2>1. capacity \in Nat
    BY DEF IInv, TypeOK, CacheTypes
  <2>2. fault => fault'
    BY <1>10
  <2>3. capacity' > 0 => capacity > 0
    BY <1>5, <2>1
  <2>4. published' \subseteq published
    BY <1>5
  <2> QED BY <1>1, <1>5, <2>2, <2>3, <2>4, WorkersLeft
<1>11. fault => failed
  BY <1>1, <1>3 DEF IInv, FaultsAreTold
<1>12. failed => fault
  BY DEF IInv, FaultsAreTold
<1>13. ASSUME ~fault PROVE completed = FrameCount /\ hits + uploads = completed
  <2>1. worker["B"].pc = "exit"
    BY <1>1, <1>2, <1>12, <1>13, StageFacts DEF IInv, RunnerShape
  <2>2. worker["B"].frame = FrameCount + 1
    BY <1>12, <1>13, <2>1, StageFacts DEF IInv, WorkerShape, ShapeOf
  <2>3. completed = worker["B"].frame - 1 + 0 /\ hits + uploads = completed + 0
    BY <1>13, <2>1 DEF IInv, CountersFollowB
  <2>4. completed \in Nat
    BY DEF IInv, TypeOK, CounterTypes
  <2> QED BY <2>2, <2>3, <2>4, ConfigFacts
<1>14. owned' \in [GpuStages -> Nat] /\ (aok /\ bok => \A s \in GpuStages : owned'[s] = 0)
  <2>1. owned' \in [GpuStages -> Nat]
    BY <1>4, <1>7
  <2>2. \A s \in GpuStages : owned'[s] = a.left \/ owned'[s] = b.left
    BY <1>4
  <2> QED BY <1>7, <1>9, <2>1, <2>2
<1>15. verdict' <=> ~fault'
  BY <1>10, <1>11, <1>12, <1>13
<1>16. verdict' => completed' = FrameCount /\ hits' + uploads' = completed'
                   /\ capacity' = 0 /\ \A s \in GpuStages : owned'[s] = 0
  <2> SUFFICES ASSUME verdict' PROVE completed' = FrameCount /\ hits' + uploads' = completed'
                                     /\ capacity' = 0 /\ \A s \in GpuStages : owned'[s] = 0
    OBVIOUS
  <2>1. ~fault /\ aok /\ bok
    BY <1>10, <1>11, Zenon
  <2>2. completed = FrameCount /\ hits + uploads = completed
    BY <1>13, <2>1
  <2>3. \A s \in GpuStages : owned'[s] = 0
    BY <1>14, <2>1
  <2> QED BY <1>1, <1>5, <2>2, <2>3
<1>17. VerdictIsHonest'
  BY <1>15, <1>16 DEF VerdictIsHonest
<1>18. RunnerShape'
  BY <1>1, <1>2, <1>5 DEF RunnerShape
<1>19. FaultsAreTold'
  <2>1. failed' \/ broken' => fault'
    BY <1>1, <1>5, <1>10 DEF IInv, FaultsAreTold
  <2>2. \A s \in GpuStages : ~Failing(s)'
    BY <1>1, <1>3 DEF Failing
  <2> QED BY <1>1, <2>1, <2>2 DEF FaultsAreTold
<1>20. CacheTypes' /\ FlagTypes' /\ CounterTypes'
  BY <1>1, <1>5, <1>10, <1>14 DEF IInv, TypeOK, CacheTypes, FlagTypes, CounterTypes
<1>21. TypeOK'
  BY <1>1, <1>20 DEF IInv, TypeOK, FlowTypes, AtomTypes, WorkerTypes, Runners
<1> QED BY <1>8, <1>17, <1>18, <1>19, <1>21 DEF IInv

\* The destructors release what unload left; the verdict stands.
LEMMA DestroyStep ==
  ASSUME IInv, Destroy
  PROVE  IInv'
<1>1. /\ runner = "returned" /\ runner' = "gone"
      /\ UNCHANGED <<schedulerVars, cacheVars, verdict, keep, atom, worker, counterVars, fault>>
  BY DEF Destroy
<1>2. PICK a \in UnloadOutcomes(owned["A"]), b \in UnloadOutcomes(owned["B"]) :
        owned' = [s \in GpuStages |-> IF s = "A" THEN a.left ELSE b.left]
  BY DEF Destroy
<1>3. owned["A"] \in Nat /\ owned["B"] \in Nat
  BY DEF IInv, TypeOK, CounterTypes, GpuStages
<1>4. /\ a.left \in Nat /\ (owned["A"] = 0 => a.left = 0)
      /\ b.left \in Nat /\ (owned["B"] = 0 => b.left = 0)
  BY <1>3, UnloadFacts
<1>5. /\ WorkerShape' /\ SlotsOnce' /\ InOrder("A", "Cpu")' /\ InOrder("Cpu", "B")'
      /\ AtomsFit' /\ CacheShape' /\ CountersFollowB'
  BY <1>1, WorkersLeft
<1>6. owned' \in [GpuStages -> Nat] /\ \A s \in GpuStages : owned'[s] = a.left \/ owned'[s] = b.left
  BY <1>2, <1>4
<1>7. VerdictIsHonest'
  <2>1. /\ verdict <=> ~fault
        /\ verdict => /\ completed = FrameCount /\ hits + uploads = completed
                      /\ capacity = 0 /\ \A s \in GpuStages : owned[s] = 0
    BY <1>1 DEF IInv, VerdictIsHonest
  <2>2. verdict => \A s \in GpuStages : owned'[s] = 0
    BY <1>4, <1>6, <2>1 DEF GpuStages
  <2> QED BY <1>1, <2>1, <2>2 DEF VerdictIsHonest
<1>8. RunnerShape'
  BY <1>1 DEF IInv, RunnerShape
<1>9. FaultsAreTold'
  BY <1>1 DEF IInv, FaultsAreTold, Failing
<1>10. TypeOK'
  BY <1>1, <1>6 DEF IInv, TypeOK, FlowTypes, AtomTypes, WorkerTypes, FlagTypes, CounterTypes, CacheTypes, Runners
<1> QED BY <1>5, <1>7, <1>8, <1>9, <1>10 DEF IInv

-----------------------------------------------------------------------------
(* The invariant *)

\* The initial states satisfy the invariant.
LEMMA InitInvariant == Init => IInv
<1> SUFFICES ASSUME Init PROVE IInv
  OBVIOUS
<1> DEFINE w0 == [pc |-> "absent", frame |-> 1, slot |-> 0, ok |-> FALSE, h_in |-> 0]
<1>1. /\ queue = [s \in Stages |-> <<>>] /\ active = 0 /\ peak = 0 /\ failed = FALSE
      /\ atom = [i \in Slots |-> FreshAtom] /\ worker = [s \in Stages |-> w0]
      /\ runner = "configure" /\ verdict = FALSE /\ keep \in BOOLEAN
      /\ owned = [s \in GpuStages |-> 0] /\ stored = [f \in Frames |-> 0]
      /\ completed = 0 /\ hits = 0 /\ uploads = 0 /\ fault = FALSE
      /\ capacity = 0 /\ broken = FALSE /\ published = {} /\ lease = [s \in GpuStages |-> Cache!Nothing]
  BY DEF Init, Cache!Init
<1>2. \A s \in Stages : worker[s].pc = "absent" /\ worker[s].frame = 1 /\ worker[s].slot = 0 /\ queue[s] = <<>>
  BY <1>1
<1>3. WorkerTypes
  <2>1. w0 \in WorkerStates
    BY ConfigFacts DEF WorkerStates, Positions
  <2> HIDE DEF w0
  <2> QED BY <1>1, <2>1 DEF WorkerTypes
<1>4. AtomTypes
  <2>1. FreshAtom \in AtomStates
    BY DEF FreshAtom, AtomStates
  <2> QED BY <1>1, <2>1 DEF AtomTypes
<1>5. FlowTypes
  <2>1. <<>> \in Seq(Slots)
    OBVIOUS
  <2> QED BY <1>1, <2>1 DEF FlowTypes
<1>6. FlagTypes /\ CounterTypes /\ CacheTypes
  <2>1. FlagTypes
    BY <1>1 DEF FlagTypes
  <2>2. CounterTypes
    BY <1>1 DEF CounterTypes
  <2>3. Cache!Nothing \in LeaseStates
    BY DEF LeaseStates
  <2>4. lease \in [GpuStages -> LeaseStates]
    BY <1>1, <2>3
  <2>5. stored \in [Frames -> Nat] /\ capacity \in Nat /\ published \subseteq {Result(f) : f \in Frames}
    BY <1>1
  <2>6. broken \in BOOLEAN
    BY <1>1
  <2> QED BY <2>1, <2>2, <2>4, <2>5, <2>6 DEF CacheTypes
<1>7. TypeOK
  BY <1>1, <1>3, <1>4, <1>5, <1>6 DEF TypeOK, Runners
<1>8. WorkerShape
  BY <1>2, ConfigFacts DEF WorkerShape, ShapeOf, Leasing, Working
<1>9. RunnerShape
  BY <1>1, <1>2 DEF RunnerShape
<1>10. \A s \in Stages : QueuedFor(s) = {}
  BY <1>2 DEF QueuedFor, ToSet
<1>11. SlotsOnce
  <2>1. IsInjective(<<>>)
    BY DEF IsInjective
  <2> QED BY <1>1, <1>2, <1>10, <2>1, ConfigFacts DEF SlotsOnce
<1>12. InOrder("A", "Cpu") /\ InOrder("Cpu", "B")
  <2>1. Len(<<>>) = 0
    OBVIOUS
  <2> QED BY <1>2, <2>1, StageFacts DEF InOrder, Busy
<1>13. AtomsFit
  BY <1>2, <1>10, StageFacts DEF AtomsFit, FreeAtoms, PassedAtoms, HeldByA, HeldByCpu, HeldByB, Working, Leasing
<1>14. CacheShape
  <2>1. \A s \in GpuStages : lease[s] = Cache!Nothing /\ lease[s].kind = "none"
    BY <1>1, LeaseParts
  <2> QED BY <1>1, <1>2, <2>1, StageFacts DEF CacheShape, LeasesFit, LeaseFits, CopiesFit, PublishedFit, GpuStages
<1>15. FaultsAreTold /\ VerdictIsHonest
  BY <1>1, <1>2, StageFacts DEF FaultsAreTold, VerdictIsHonest, Failing
<1>16. CountersFollowB
  BY <1>1, <1>2, StageFacts DEF CountersFollowB
<1> QED BY <1>7, <1>8, <1>9, <1>11, <1>12, <1>13, <1>14, <1>15, <1>16 DEF IInv

\* IInv holds in every state of every run of the pipeline: from taking and
\* passing slots under one lock follows what each stage may rely on.
THEOREM InductiveInvariant == Spec => []IInv
<1>1. Init => IInv
  BY InitInvariant
<1>2. IInv /\ [Next]_vars => IInv'
  <2> SUFFICES ASSUME IInv, [Next]_vars PROVE IInv'
    OBVIOUS
  <2>1. CASE UNCHANGED vars
    BY <2>1, QuietStep DEF vars
  <2>2. CASE RunnerNext
    <3>1. ASSUME Sleep("runner") PROVE IInv'
      BY <3>1, QuietStep DEF Sleep
    <3> QED BY <2>2, <3>1, RejectStep, ConfigureStep, CreateWorkerStep, CreateThrowsStep, WaitStep, CleanupStep,
               DestroyStep DEF RunnerNext
  <2>3. ASSUME NEW s \in Stages, StageNext(s) PROVE IInv'
    <3>1. CASE WorkerNext(s)
      <4>1. ASSUME Sleep(s) PROVE IInv'
        BY <4>1, QuietStep DEF Sleep
      <4> QED BY <3>1, <4>1, LoadStep, LoadThrowsStep, StartedStep, TakeStep, HandOnStep, HandOnThrowsStep
              DEF WorkerNext
    <3>2. CASE s \in GpuStages /\ GpuNext(s)
      BY <3>2, RequestStep, RefuseStep, SubmitStep, SynchronizeStep, CompleteStep DEF GpuNext
    <3>3. CASE Prepare
      BY <3>3, PrepareStep
    <3>4. CASE CpuTask
      BY <3>4, CpuTaskStep
    <3> QED BY <2>3, <3>1, <3>2, <3>3, <3>4 DEF StageNext
  <2> QED BY <2>1, <2>2, <2>3 DEF Next
<1> QED BY <1>1, <1>2, PTL DEF Spec

\* Scheduler::take and pass conserve the slots, count the active ones and keep
\* the frames in order, for any number of slots and frames.
THEOREM SlotsHold == Spec => []SlotsAreConserved
<1>1. ASSUME IInv PROVE SlotsAreConserved
  <2>1. SlotsOnce /\ WorkerTypes /\ FlowTypes /\ InOrder("A", "Cpu") /\ InOrder("Cpu", "B")
    BY <1>1 DEF IInv, TypeOK
  <2>2. \A s \in Stages : QueuedFor(s) \subseteq Slots /\ (worker[s].slot # 0 => worker[s].slot \in Slots)
    BY <2>1, QueueFacts, WorkerFacts
  <2>3. HeldSlots \subseteq Slots /\ \A s \in Stages : worker[s].slot # 0 => worker[s].slot \in HeldSlots
    BY <2>2 DEF HeldSlots
  <2>4. \A i \in HeldSlots : \E s \in Stages : i = worker[s].slot
    BY DEF HeldSlots
  <2>5. \A s \in Stages : QueuedFor(s) \cap HeldSlots = {}
    BY <2>1, <2>4 DEF SlotsOnce
  <2>6. capacity > 0 => (UNION {QueuedFor(s) : s \in Stages}) \cup HeldSlots = Slots
    <3>1. (UNION {QueuedFor(s) : s \in Stages}) \cup HeldSlots \subseteq Slots
      <4>1. ASSUME NEW i \in UNION {QueuedFor(s) : s \in Stages} PROVE i \in Slots
        <5>1. PICK s \in Stages : i \in QueuedFor(s)
          OBVIOUS
        <5> QED BY <2>2, <5>1
      <4> QED BY <2>3, <4>1
    <3>2. ASSUME capacity > 0, NEW i \in Slots PROVE i \in (UNION {QueuedFor(s) : s \in Stages}) \cup HeldSlots
      <4>1. PICK s \in Stages : i \in QueuedFor(s) \/ i = worker[s].slot
        BY <2>1, <3>2 DEF SlotsOnce
      <4>2. i # 0
        BY ConfigFacts
      <4>3. CASE i \in QueuedFor(s)
        BY <4>3
      <4>4. CASE i = worker[s].slot
        BY <2>3, <4>2, <4>4
      <4> QED BY <4>1, <4>3, <4>4
    <3> QED BY <3>1, <3>2
  <2>7. \A s \in {"Cpu", "B"} : worker[s].slot # 0 => Held(s).frameId = worker[s].frame
    BY <2>1 DEF InOrder
  <2> QED BY <2>1, <2>5, <2>6, <2>7 DEF SlotsAreConserved, SlotsOnce
<1> QED BY <1>1, InductiveInvariant, PTL

\* runPipeline's failure flag is raised only after an external call failed: no
\* stage rejects what another stage hands it.
THEOREM FailuresHaveCauses == Spec => []NoSpuriousFailure
<1>1. IInv => NoSpuriousFailure
  BY DEF IInv, FaultsAreTold, NoSpuriousFailure
<1> QED BY <1>1, InductiveInvariant, PTL

\* A lease of A or B is on the frame in its own hands and on nobody else's, and
\* it ends with execute.
THEOREM LeasesStayInStage == Spec => []NoLeaseAcrossCpuGap
<1>1. ASSUME IInv PROVE NoLeaseAcrossCpuGap
  <2> SUFFICES ASSUME NEW s \in GpuStages, lease[s] # Cache!Nothing
               PROVE  /\ worker[s].pc \in {"submit", "synchronize", "complete"}
                      /\ lease[s].frame.key = Held(s).frameId
                      /\ \A t \in Stages \ {s} : worker[t].slot # 0 => Held(t).frameId # lease[s].frame.key
    BY DEF NoLeaseAcrossCpuGap
  <2>1. LeaseFits(s)
    BY <1>1 DEF IInv, CacheShape, LeasesFit
  <2>2. worker[s].pc \in Leasing /\ lease[s].frame = Result(worker[s].frame)
    BY <2>1, LeaseParts DEF LeaseFits
  <2>3. worker[s].slot \in Slots /\ worker[s].frame \in Frames /\ Held(s).frameId = worker[s].frame
    <3>1. worker[s].pc \in Working /\ ~(s = "A" /\ worker[s].pc = "execute")
      BY <2>2 DEF Working, Leasing
    <3> QED BY <1>1, <3>1, FrameInHand
  <2>4. lease[s].frame.key = worker[s].frame
    BY <2>2, ResultFacts
  <2>5. /\ worker["A"].frame \in Nat /\ worker["Cpu"].frame \in Nat /\ worker["B"].frame \in Nat
        /\ worker[s].slot # 0
    BY <1>1, <2>3, WorkerFacts, StageFacts, ConfigFacts DEF IInv, TypeOK
  <2>6. /\ worker["Cpu"].frame <= worker["A"].frame /\ worker["B"].frame <= worker["Cpu"].frame
        /\ worker["Cpu"].slot # 0 => worker["Cpu"].frame < worker["A"].frame
        /\ worker["B"].slot # 0 => worker["B"].frame < worker["Cpu"].frame
    BY <1>1, FramesInOrder
  <2>7. ASSUME NEW t \in Stages \ {s}, worker[t].slot # 0 PROVE Held(t).frameId # worker[s].frame
    <3>1. CASE t = "A"
      <4>1. s = "B" /\ worker["B"].frame < worker["A"].frame
        BY <2>5, <2>6, <2>7, <3>1, StageFacts
      <4>2. CASE worker["A"].pc = "execute"
        <5>1. Held("A").frameId < worker["B"].frame
          BY <1>1, <4>2 DEF IInv, AtomsFit, HeldByA
        <5> QED BY <2>5, <3>1, <4>1, <5>1
      <4>3. CASE worker["A"].pc # "execute"
        <5>1. Held("A").frameId = worker["A"].frame
          BY <1>1, <2>7, <3>1, <4>3 DEF IInv, AtomsFit, HeldByA
        <5> QED BY <2>5, <3>1, <4>1, <5>1
      <4> QED BY <4>2, <4>3
    <3>2. CASE t = "Cpu"
      <4>1. Held("Cpu").frameId = worker["Cpu"].frame
        BY <1>1, <2>7, <3>2 DEF IInv, InOrder
      <4>2. CASE s = "A"
        BY <2>5, <2>6, <2>7, <3>2, <4>1, <4>2
      <4>3. CASE s = "B"
        BY <2>5, <2>6, <3>2, <4>1, <4>3
      <4> QED BY <4>2, <4>3, StageFacts
    <3>3. CASE t = "B"
      <4>1. Held("B").frameId = worker["B"].frame /\ s = "A"
        BY <1>1, <2>7, <3>3, StageFacts DEF IInv, InOrder
      <4> QED BY <2>5, <2>6, <2>7, <3>3, <4>1
    <3> QED BY <3>1, <3>2, <3>3, StageFacts
  <2> QED BY <2>2, <2>3, <2>4, <2>7 DEF Leasing
<1> QED BY <1>1, InductiveInvariant, PTL

\* runPipeline returns true exactly when no call failed, and then every frame
\* was verified and nothing is left allocated.
THEOREM VerdictHolds == Spec => []VerdictIsHonest
<1>1. IInv => VerdictIsHonest
  BY DEF IInv
<1> QED BY <1>1, InductiveInvariant, PTL
=============================================================================
