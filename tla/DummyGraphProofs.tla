-------------------------- MODULE DummyGraphProofs --------------------------
(***************************************************************************)
(* Proofs about DummyGraph for every number of workers, tasks, frames and  *)
(* parameter values: IInv is inductive, and the scheduler's safety         *)
(* properties follow.  One lemma per operation or critical section.        *)
(***************************************************************************)
EXTENDS DummyGraphInvariant, ListLemmas, FiniteSetTheorems

USE SizesAssumption, PoolAssumption

-----------------------------------------------------------------------------
(* Workers and what they hold *)

Holders == {w \in Workers : Holds(w)}

\* inFlight counts holders: a worker more is one more, a worker less one less,
\* and none is none.
LEMMA HoldersCount ==
  /\ IsFiniteSet(Holders) /\ Cardinality(Holders) \in Nat
  /\ \A w \in Workers \ Holders : Cardinality(Holders \cup {w}) = Cardinality(Holders) + 1
  /\ \A w \in Holders : Cardinality(Holders \ {w}) = Cardinality(Holders) - 1
  /\ Cardinality(Holders) = 0 <=> Holders = {}
<1>1. IsFiniteSet(Holders)
  BY FS_Subset DEF PoolAssumption, Holders
<1> QED BY <1>1, FS_CardinalityType, FS_AddElement, FS_RemoveElement, FS_EmptySet

\* The parts of TypeOK.
WorkerRecords == [pc : {None, "Starting", "Parked", "Asleep", "Exited"} \union Holding,
                  frame : Frames \union {0}, task : Tasks \union {0},
                  gate : Phases \union {None}, ok : BOOLEAN]
WorkerTypes == worker \in [Workers -> WorkerRecords]
FlagTypes ==
    /\ cancellation \in BOOLEAN /\ initialized \in BOOLEAN /\ stopping \in BOOLEAN
    /\ startupFailed \in BOOLEAN /\ staticHeld \in BOOLEAN /\ sealed \in BOOLEAN
    /\ phaseActive \in BOOLEAN /\ phaseSucceeded \in BOOLEAN
    /\ ctl \in {"Idle", "Starting", "Abandoning", "Waiting", "Asleep", "Joining"}
    /\ cycle \in {"New", "Started", "Stopped"}
SetupTypes ==
    /\ atoms \subseteq Frames
    /\ taskState \in [Tasks -> {"Absent", "Loaded", "Started", "Stopped", "Failed"}]
    /\ registry \in Params /\ revision \in Nat /\ parameters \in Params
    /\ applied \in [Tasks -> Params]
QueueTypes ==
    /\ readyFrames \in Seq(Frames) /\ freeTasks \in Seq(Tasks)
    /\ sink \in [Frames -> Seq(BOOLEAN)]
PhaseTypes ==
    /\ phaseGate \in Phases \union {None} /\ phase \in Phases \union {None}
    /\ released \subseteq Phases /\ submitted \subseteq Phases
    /\ phaseTotal \in Nat /\ phaseTerminal \in Nat /\ inFlight \in Nat /\ lastMaxInFlight \in Nat
Typed == FlagTypes /\ SetupTypes /\ QueueTypes /\ PhaseTypes /\ WorkerTypes

\* Type correctness is that of its parts.
LEMMA TypeParts == TypeOK <=> Typed
BY DEF TypeOK, Typed, FlagTypes, SetupTypes, QueueTypes, PhaseTypes, WorkerTypes, WorkerRecords

\* Likewise after a step.
LEMMA TypedNext == Typed' => TypeOK'
BY DEF TypeOK, Typed, FlagTypes, SetupTypes, QueueTypes, PhaseTypes, WorkerTypes, WorkerRecords

\* The parts of the invariant about queues, counters and results.
Tallies == QueueOfPhase /\ HoldersAreExclusive /\ TasksAreKept /\ PhaseAccounting /\ ResultsExactlyOnce

\* A worker keeps what it holds.
Keeps(w) ==
    /\ Holds(w)' <=> Holds(w)
    /\ Undelivered(w)' <=> Undelivered(w)
    /\ Holds(w) => /\ worker'[w].frame = worker[w].frame
                   /\ worker'[w].task = worker[w].task
                   /\ worker'[w].gate = worker[w].gate

\* A step that moves no frame, task or result and sets nothing up keeps the
\* tallies; it may unload the frames.
LEMMA TalliesKept ==
  ASSUME Tallies, \A w \in Workers : Keeps(w), SetUpDone' => SetUpDone,
         UNCHANGED <<readyFrames, freeTasks, sink, inFlight, lastMaxInFlight, phase, phaseGate,
                     phaseActive, phaseTotal, phaseTerminal>>,
         ctl' = "Joining" => ctl = "Joining",
         UNCHANGED <<atoms, submitted>> \/ atoms' = {}
  PROVE  Tallies'
<1>1. QueueOfPhase'
  BY DEF Tallies, QueueOfPhase
<1>2. HoldersAreExclusive'
  BY DEF Tallies, HoldersAreExclusive, Keeps
<1>3. TasksAreKept'
  BY DEF Tallies, TasksAreKept, Keeps
<1>4. PhaseAccounting'
  <2>1. {w \in Workers : Holds(w)}' = {w \in Workers : Holds(w)}
    BY DEF Keeps
  <2> QED BY <2>1 DEF Tallies, PhaseAccounting
<1>5. ResultsExactlyOnce'
  <2>1. \A w \in Workers : (Undelivered(w)' <=> Undelivered(w))
                           /\ (Undelivered(w) => worker'[w].frame = worker[w].frame)
    BY DEF Keeps, Undelivered, Holds, Holding
  <2>2. ResultsExactlyOnce
    BY DEF Tallies
  <2> QED BY <2>1, <2>2 DEF ResultsExactlyOnce
<1> QED BY <1>1, <1>2, <1>3, <1>4, <1>5 DEF Tallies

\* A notification changes no worker that holds a frame.
LEMMA NotificationKeeps ==
  ASSUME TypeOK, NEW w \in Workers
  PROVE  /\ WorkNotified[w].pc = IF worker[w].pc = "Asleep" THEN "Parked" ELSE worker[w].pc
         /\ Holds(w) => WorkNotified[w] = worker[w]
         /\ WorkNotified \in [Workers -> WorkerRecords]
BY DEF WorkNotified, At, Holds, Holding, TypeOK, WorkerRecords

\* The constructor's state satisfies the invariant.
LEMMA InitInvariant == Init => IInv
<1> SUFFICES ASSUME Init PROVE IInv
  OBVIOUS
<1>1. TypeOK
  <2>1. WorkerTypes
    BY DEF Init, At, WorkerTypes, WorkerRecords
  <2>2. /\ readyFrames \in Seq(Frames) /\ freeTasks \in Seq(Tasks)
        /\ sink \in [Frames -> Seq(BOOLEAN)]
    BY DEF Init
  <2> QED BY <2>1, <2>2 DEF Init, TypeOK, WorkerTypes, WorkerRecords
<1>2. \A w \in Workers : ~Holds(w) /\ ~Undelivered(w)
  BY DEF Init, At, Holds, Holding, Undelivered, None
<1>3. {w \in Workers : Holds(w)} = {}
  BY <1>2
<1>4. PhaseAccounting
  <2>1. Cardinality({w \in Workers : Holds(w)}) = 0
    BY <1>3, FS_EmptySet
  <2> QED BY <2>1 DEF Init, PhaseAccounting
<1>5. Untouched /\ Lifecycle /\ PhaseRuns
  BY DEF Init, Untouched, Lifecycle, PhaseRuns, SetUpDone
<1>6. QueueOfPhase /\ HoldersAreExclusive /\ TasksAreKept
  BY <1>2 DEF Init, QueueOfPhase, HoldersAreExclusive, TasksAreKept, IsInjective, ToSet, SetUpDone
<1>7. ResultsExactlyOnce
  BY <1>2 DEF Init, ResultsExactlyOnce
<1> QED BY <1>1, <1>4, <1>5, <1>6, <1>7 DEF IInv
-----------------------------------------------------------------------------
(* Steps that move no frame, task or result *)

USE DEF lifecycleVars, resourceVars, gateVars, phaseVars, flightVars, poolVars, parameterVars

\* A worker that holds nothing before and after, while the others stay put.
LEMMA IdleWorkerKeeps ==
  ASSUME TypeOK, NEW w \in Workers, NEW pc \in {"Parked", "Asleep", "Exited"}, ~Holds(w),
         worker' = [worker EXCEPT ![w] = At(pc)]
  PROVE  \A v \in Workers : Keeps(v)
BY DEF TypeOK, Keeps, Holds, Holding, Undelivered, At

\* workCondition.wait with a false predicate preserves the invariant.
LEMMA WorkerSleepsStep ==
  ASSUME IInv, NEW w \in Workers, WorkerSleeps(w)
  PROVE  IInv'
<1>1. TypeOK'
  BY DEF IInv, TypeOK, WorkerSleeps, At
<1>2. Tallies'
  BY IdleWorkerKeeps, TalliesKept DEF IInv, Tallies, WorkerSleeps, Holds, Holding, SetUpDone
<1>3. Untouched' /\ Lifecycle' /\ PhaseRuns'
  BY DEF IInv, WorkerSleeps, Untouched, Lifecycle, PhaseRuns, SetUpDone, At, None
<1> QED BY <1>1, <1>2, <1>3 DEF IInv, Tallies

\* A worker that leaves workerLoop preserves the invariant.
LEMMA WorkerExitsStep ==
  ASSUME IInv, NEW w \in Workers, WorkerExits(w)
  PROVE  IInv'
<1>1. TypeOK'
  BY DEF IInv, TypeOK, WorkerExits, At
<1>2. Tallies'
  BY IdleWorkerKeeps, TalliesKept DEF IInv, Tallies, WorkerExits, Holds, Holding, SetUpDone
<1>3. Untouched' /\ Lifecycle' /\ PhaseRuns'
  BY DEF IInv, WorkerExits, Untouched, Lifecycle, PhaseRuns, SetUpDone, At, None
<1> QED BY <1>1, <1>2, <1>3 DEF IInv, Tallies

\* A worker that reports ready, or that it was not pinned, preserves the invariant.
LEMMA WorkerReadyStep ==
  ASSUME IInv, NEW w \in Workers, WorkerReady(w)
  PROVE  IInv'
<1>0. Typed
  BY TypeParts DEF IInv
<1>1. TypeOK'
  <2>1. FlagTypes'
    BY <1>0 DEF Typed, FlagTypes, WorkerReady
  <2>2. SetupTypes'
    BY <1>0 DEF Typed, SetupTypes, WorkerReady
  <2>3. QueueTypes'
    BY <1>0 DEF Typed, QueueTypes, WorkerReady
  <2>4. PhaseTypes'
    BY <1>0 DEF Typed, PhaseTypes, WorkerReady
  <2>5. WorkerTypes'
    <3>1. PICK pc \in {"Parked", "Exited"} : worker' = [worker EXCEPT ![w] = At(pc)]
      BY DEF WorkerReady
    <3>2. At(pc) \in WorkerRecords
      BY DEF WorkerRecords, At
    <3> QED BY <1>0, <3>1, <3>2 DEF Typed, WorkerTypes
  <2> QED BY <2>1, <2>2, <2>3, <2>4, <2>5, TypedNext DEF Typed
<1>2. Tallies'
  <2>1. PICK pc \in {"Parked", "Exited"} : worker' = [worker EXCEPT ![w] = At(pc)]
    BY DEF WorkerReady
  <2> QED BY <2>1, IdleWorkerKeeps, TalliesKept
          DEF IInv, Tallies, WorkerReady, Holds, Holding, SetUpDone
<1>3. Untouched' /\ Lifecycle' /\ PhaseRuns'
  BY DEF IInv, TypeOK, WorkerReady, Untouched, Lifecycle, PhaseRuns, SetUpDone, At, None
<1> QED BY <1>1, <1>2, <1>3 DEF IInv, Tallies

\* A worker that passes the gate keeps its frame and task.
LEMMA PassGateStep ==
  ASSUME IInv, NEW w \in Workers, PassGate(w)
  PROVE  IInv'
<1>0. Typed
  BY TypeParts DEF IInv
<1>1. TypeOK'
  <2>1. FlagTypes'
    BY <1>0 DEF Typed, FlagTypes, PassGate
  <2>2. SetupTypes'
    BY <1>0 DEF Typed, SetupTypes, PassGate
  <2>3. QueueTypes'
    BY <1>0 DEF Typed, QueueTypes, PassGate
  <2>4. PhaseTypes'
    BY <1>0 DEF Typed, PhaseTypes, PassGate
  <2>5. WorkerTypes'
    BY <1>0 DEF Typed, WorkerTypes, WorkerRecords, PassGate, Holding
  <2> QED BY <2>1, <2>2, <2>3, <2>4, <2>5, TypedNext DEF Typed
<1>2. \A v \in Workers : Keeps(v)
  BY DEF IInv, TypeOK, PassGate, Keeps, Holds, Holding, Undelivered
<1>3. Tallies'
  BY <1>2, TalliesKept DEF IInv, Tallies, PassGate, SetUpDone
<1>4. Untouched' /\ Lifecycle' /\ PhaseRuns'
  BY DEF IInv, PassGate, Untouched, Lifecycle, PhaseRuns, SetUpDone, At, None
<1> QED BY <1>1, <1>3, <1>4 DEF IInv, Tallies

\* The end of an execution, failed or not, keeps frame and task.
LEMMA ExecuteStep ==
  ASSUME IInv, NEW w \in Workers, Execute(w)
  PROVE  IInv'
<1>0. Typed
  BY TypeParts DEF IInv
<1>1. TypeOK'
  <2>1. FlagTypes'
    BY <1>0 DEF Typed, FlagTypes, Execute
  <2>2. SetupTypes'
    BY <1>0 DEF Typed, SetupTypes, Execute
  <2>3. QueueTypes'
    BY <1>0 DEF Typed, QueueTypes, Execute
  <2>4. PhaseTypes'
    BY <1>0 DEF Typed, PhaseTypes, Execute
  <2>5. WorkerTypes'
    <3>1. PICK ok \in BOOLEAN : worker' = [worker EXCEPT ![w].pc = "Deliver", ![w].ok = ok]
      BY DEF Execute
    <3>2. worker'[w] \in WorkerRecords
      BY <1>0, <3>1 DEF Typed, WorkerTypes, WorkerRecords, Holding
    <3> QED BY <1>0, <3>1, <3>2 DEF Typed, WorkerTypes
  <2> QED BY <2>1, <2>2, <2>3, <2>4, <2>5, TypedNext DEF Typed
<1>2. \A v \in Workers : Keeps(v)
  BY DEF IInv, TypeOK, Execute, Keeps, Holds, Holding, Undelivered
<1>3. Tallies'
  BY <1>2, TalliesKept DEF IInv, Tallies, Execute, SetUpDone
<1>4. Untouched' /\ Lifecycle' /\ PhaseRuns'
  BY DEF IInv, TypeOK, Execute, Untouched, Lifecycle, PhaseRuns, SetUpDone, At, None
<1> QED BY <1>1, <1>3, <1>4 DEF IInv, Tallies

\* Workers that are left alone, or only notified, keep what they hold.
LEMMA NotifiedKeep ==
  ASSUME TypeOK, worker' \in {worker, WorkNotified}
  PROVE  \A w \in Workers : Keeps(w)
BY DEF TypeOK, WorkNotified, Keeps, Holds, Holding, Undelivered, At

\* initialize() after its workers have reported preserves the invariant.
LEMMA InitializeFinishesStep ==
  ASSUME IInv, InitializeFinishes
  PROVE  IInv'
<1>0. Typed
  BY TypeParts DEF IInv
<1>1. TypeOK'
  <2>1. FlagTypes'
    BY <1>0 DEF Typed, FlagTypes, InitializeFinishes
  <2>2. SetupTypes'
    BY <1>0 DEF Typed, SetupTypes, InitializeFinishes
  <2>3. QueueTypes'
    BY <1>0 DEF Typed, QueueTypes, InitializeFinishes
  <2>4. PhaseTypes'
    BY <1>0 DEF Typed, PhaseTypes, InitializeFinishes
  <2>5. WorkerTypes'
    BY <1>0, NotificationKeeps DEF Typed, WorkerTypes, IInv, InitializeFinishes
  <2> QED BY <2>1, <2>2, <2>3, <2>4, <2>5, TypedNext DEF Typed
<1>2. Tallies'
  BY NotifiedKeep, TalliesKept DEF IInv, Tallies, InitializeFinishes, SetUpDone
<1>3. Untouched' /\ Lifecycle' /\ PhaseRuns'
  BY DEF IInv, TypeOK, InitializeFinishes, Untouched, Lifecycle, PhaseRuns, SetUpDone
<1> QED BY <1>1, <1>2, <1>3 DEF IInv, Tallies

\* Joined workers hold nothing.
LEMMA JoinedKeep ==
  ASSUME WorkersJoined, worker' = [w \in Workers |-> At(None)]
  PROVE  \A w \in Workers : Keeps(w) /\ ~Holds(w)
BY DEF WorkersJoined, Keeps, Holds, Holding, Undelivered, At, None

\* initialize() that gives up preserves the invariant.
LEMMA InitializeAbandonedStep ==
  ASSUME IInv, InitializeAbandoned
  PROVE  IInv'
<1>0. Typed
  BY TypeParts DEF IInv
<1>1. TypeOK'
  <2>1. FlagTypes'
    BY <1>0 DEF Typed, FlagTypes, InitializeAbandoned, UnloadOnNumaNode, Unloaded, NotUnloaded
  <2>2. SetupTypes'
    BY <1>0 DEF Typed, SetupTypes, InitializeAbandoned, UnloadOnNumaNode, Unloaded, NotUnloaded
  <2>3. QueueTypes'
    BY <1>0 DEF Typed, QueueTypes, InitializeAbandoned, UnloadOnNumaNode, Unloaded, NotUnloaded
  <2>4. PhaseTypes'
    BY <1>0 DEF Typed, PhaseTypes, InitializeAbandoned, UnloadOnNumaNode, Unloaded, NotUnloaded
  <2>5. WorkerTypes'
    BY <1>0 DEF Typed, WorkerTypes, WorkerRecords, InitializeAbandoned, At
  <2> QED BY <2>1, <2>2, <2>3, <2>4, <2>5, TypedNext DEF Typed
<1>2. Tallies'
  <2>1. UNCHANGED <<atoms, submitted>> \/ atoms' = {}
    BY DEF InitializeAbandoned, UnloadOnNumaNode, Unloaded, NotUnloaded
  <2> QED BY <2>1, JoinedKeep, TalliesKept DEF IInv, Tallies, InitializeAbandoned, SetUpDone
<1>3. Untouched' /\ Lifecycle' /\ PhaseRuns'
  BY DEF IInv, TypeOK, InitializeAbandoned, UnloadOnNumaNode, Unloaded, NotUnloaded, Untouched,
         Lifecycle, PhaseRuns, SetUpDone
<1> QED BY <1>1, <1>2, <1>3 DEF IInv, Tallies

\* start() preserves the invariant: all tasks are started or the graph is
\* cancelled.
LEMMA StartStep ==
  ASSUME IInv, Start
  PROVE  IInv'
<1>1. taskState' \in {taskState, StartedTasks}
  BY DEF Start
<1>2. TypeOK'
  <2>1. StartedTasks \in [Tasks -> {"Absent", "Loaded", "Started", "Stopped", "Failed"}]
    BY DEF IInv, TypeOK, StartedTasks
  <2> QED BY <1>1, <2>1 DEF IInv, TypeOK, Start
<1>3. Tallies'
  BY NotifiedKeep, TalliesKept DEF IInv, Tallies, Start, SetUpDone
<1>4. FirstRefusing = {} => \A t \in Tasks : StartedTasks[t] = "Started"
  BY DEF StartedTasks
<1>5. Untouched' /\ Lifecycle' /\ PhaseRuns'
  BY <1>4 DEF IInv, TypeOK, Start, Untouched, Lifecycle, PhaseRuns, SetUpDone
<1> QED BY <1>2, <1>3, <1>5 DEF IInv, Tallies

\* stop() preserves the invariant: nothing is executing and no phase is active.
LEMMA StopStep ==
  ASSUME IInv, Stop
  PROVE  IInv'
<1>0. Typed
  BY TypeParts DEF IInv
<1>1. taskState' \in {taskState, StoppedTasks}
  BY DEF Stop
<1>2. TypeOK'
  <2>1. FlagTypes'
    BY <1>0 DEF Typed, FlagTypes, Stop, StoppedTasks
  <2>2. SetupTypes'
    BY <1>0 DEF Typed, SetupTypes, Stop, StoppedTasks
  <2>3. QueueTypes'
    BY <1>0 DEF Typed, QueueTypes, Stop, StoppedTasks
  <2>4. PhaseTypes'
    BY <1>0 DEF Typed, PhaseTypes, Stop, StoppedTasks
  <2>5. WorkerTypes'
    BY <1>0 DEF Typed, WorkerTypes, Stop, StoppedTasks
  <2> QED BY <2>1, <2>2, <2>3, <2>4, <2>5, TypedNext DEF Typed
<1>3. Tallies'
  BY NotifiedKeep, TalliesKept DEF IInv, Tallies, Stop, SetUpDone
<1>4. Untouched' /\ Lifecycle' /\ PhaseRuns'
  BY DEF IInv, TypeOK, Stop, MayStop, Untouched, Lifecycle, PhaseRuns, SetUpDone
<1> QED BY <1>2, <1>3, <1>4 DEF IInv, Tallies

\* changeParameters() preserves the invariant: every task takes the new
\* parameters or the graph is cancelled.
LEMMA ChangeParametersStep ==
  ASSUME IInv, NEW p \in Params, ChangeParameters(p)
  PROVE  IInv'
<1>0. Typed
  BY TypeParts DEF IInv
<1>1. TypeOK'
  <2>1. FlagTypes'
    BY <1>0 DEF Typed, FlagTypes, ChangeParameters, NotifyAllTasks, NotifyFails
  <2>2. SetupTypes'
    BY <1>0 DEF Typed, SetupTypes, ChangeParameters, NotifyAllTasks, NotifyFails
  <2>3. QueueTypes'
    BY <1>0 DEF Typed, QueueTypes, ChangeParameters, NotifyAllTasks, NotifyFails
  <2>4. PhaseTypes'
    BY <1>0 DEF Typed, PhaseTypes, ChangeParameters, NotifyAllTasks, NotifyFails
  <2>5. WorkerTypes'
    BY <1>0 DEF Typed, WorkerTypes, ChangeParameters, NotifyAllTasks, NotifyFails
  <2> QED BY <2>1, <2>2, <2>3, <2>4, <2>5, TypedNext DEF Typed
<1>2. Tallies'
  BY NotifiedKeep, TalliesKept
     DEF IInv, Tallies, ChangeParameters, NotifyAllTasks, NotifyFails, SetUpDone
<1>3. Untouched' /\ Lifecycle' /\ PhaseRuns'
  BY DEF IInv, TypeOK, ChangeParameters, NotifyAllTasks, NotifyFails, Quiescent, Untouched, Lifecycle,
         PhaseRuns, SetUpDone
<1> QED BY <1>1, <1>2, <1>3 DEF IInv, Tallies

\* The caller's gate and waits, and cancellation by others, preserve the invariant.
LEMMA CallerStep ==
  ASSUME IInv, ReleaseGate \/ WaitForPhase \/ WaitForPhaseChecks \/ CancelElsewhere \/ UNCHANGED vars
  PROVE  IInv'
<1> USE DEF ReleaseGate, WaitForPhase, WaitForPhaseChecks, CancelElsewhere, vars
<1>0. Typed
  BY TypeParts DEF IInv
<1>1. TypeOK'
  <2>1. FlagTypes'
    <3>1. ctl' \in {ctl, "Waiting", "Asleep", "Idle"} /\ cancellation' \in {cancellation, TRUE}
      OBVIOUS
    <3>2. UNCHANGED <<initialized, stopping, startupFailed, cycle, staticHeld, sealed, phaseActive,
                      phaseSucceeded>>
      OBVIOUS
    <3> HIDE DEF ReleaseGate, WaitForPhase, WaitForPhaseChecks, CancelElsewhere, vars
    <3> QED BY <1>0, <3>1, <3>2 DEF Typed, FlagTypes
  <2>2. SetupTypes'
    BY <1>0 DEF Typed, SetupTypes, Phases
  <2>3. QueueTypes'
    BY <1>0 DEF Typed, QueueTypes, Phases
  <2>4. PhaseTypes'
    BY <1>0 DEF Typed, PhaseTypes, Phases
  <2>5. WorkerTypes'
    BY <1>0 DEF Typed, WorkerTypes, Phases
  <2> QED BY <2>1, <2>2, <2>3, <2>4, <2>5, TypedNext DEF Typed
<1>2. Tallies'
  BY NotifiedKeep, TalliesKept DEF IInv, Tallies, SetUpDone
<1>3. Untouched' /\ Lifecycle' /\ PhaseRuns'
  BY DEF IInv, TypeOK, Untouched, Lifecycle, PhaseRuns, SetUpDone
<1> QED BY <1>1, <1>2, <1>3 DEF IInv, Tallies
-----------------------------------------------------------------------------
(* Setting up and shutting down *)

\* initializeOnNumaNode fills freeTasks with every task once.
LEMMA AllTasksFree ==
  LET s == [t \in Tasks |-> t]
  IN  s \in Seq(Tasks) /\ Len(s) = TaskCount /\ IsInjective(s) /\ ToSet(s) = Tasks
<1>1. [t \in Tasks |-> t] = [i \in 1..TaskCount |-> 0 + i]
  BY DEF Tasks, SizesAssumption
<1>2. (0+1)..(0+TaskCount) = Tasks
  BY DEF Tasks, SizesAssumption
<1> QED BY <1>1, <1>2, CountingQueue DEF SizesAssumption

\* Outside a phase no worker holds a frame and nothing is in flight.
LEMMA QuietOutsidePhases ==
  ASSUME IInv, ~phaseActive
  PROVE  /\ \A w \in Workers : ~Holds(w) /\ ~Undelivered(w)
         /\ Holders = {} /\ inFlight = 0 /\ readyFrames = <<>>
<1>1. \A w \in Workers : ~Holds(w)
  BY DEF IInv, HoldersAreExclusive
<1>2. \A w \in Workers : ~Undelivered(w)
  BY <1>1 DEF Undelivered, Holds, Holding
<1>3. Holders = {}
  BY <1>1 DEF Holders
<1>4. inFlight = Cardinality(Holders)
  BY DEF IInv, PhaseAccounting, Holders
<1> QED BY <1>1, <1>2, <1>3, <1>4, HoldersCount DEF IInv, QueueOfPhase

\* A successful setup finds a graph that holds nothing.
LEMMA SetUpTallies ==
  ASSUME IInv, MayInitialize, SetUp, \A w \in Workers : ~Holds(w)' /\ ~Undelivered(w)',
         ctl' # "Joining", UNCHANGED <<gateVars, phaseVars, flightVars, readyFrames, sink>>
  PROVE  Tallies'
<1>1. ~phaseActive
  BY DEF IInv, PhaseRuns, MayInitialize
<1>2. Holders = {} /\ inFlight = 0 /\ readyFrames = <<>>
  BY <1>1, QuietOutsidePhases
<1>3. {w \in Workers : Holds(w)}' = {w \in Workers : Holds(w)}
  BY <1>2 DEF Holders
<1>4. submitted = {} /\ sink = [f \in Frames |-> <<>>]
  BY DEF IInv, Untouched, MayInitialize, SetUp
<1>5. QueueOfPhase'
  BY <1>1, <1>2 DEF IInv, QueueOfPhase
<1>6. HoldersAreExclusive'
  BY DEF HoldersAreExclusive
<1>7. TasksAreKept'
  <2>1. inFlight' = 0
    BY <1>2
  <2> QED BY <2>1, AllTasksFree DEF TasksAreKept, SetUp, SizesAssumption
<1>8. PhaseAccounting'
  BY <1>1, <1>3 DEF IInv, PhaseAccounting
<1>9. ResultsExactlyOnce'
  BY <1>4 DEF ResultsExactlyOnce
<1> QED BY <1>5, <1>6, <1>7, <1>8, <1>9 DEF Tallies

\* initialize() up to its wait for the workers preserves the invariant.
LEMMA InitializeStep ==
  ASSUME IInv, Initialize
  PROVE  IInv'
<1>0. Typed
  BY TypeParts DEF IInv
<1>1. TypeOK'
  <2>1. FlagTypes'
    BY <1>0 DEF Typed, FlagTypes, Initialize, SetUp
  <2>2. SetupTypes'
    BY <1>0 DEF Typed, SetupTypes, Initialize, SetUp
  <2>3. QueueTypes'
    BY <1>0, AllTasksFree DEF Typed, QueueTypes, Initialize, SetUp
  <2>4. PhaseTypes'
    BY <1>0 DEF Typed, PhaseTypes, Initialize, SetUp
  <2>5. WorkerTypes'
    BY <1>0 DEF Typed, WorkerTypes, WorkerRecords, Initialize, At
  <2> QED BY <2>1, <2>2, <2>3, <2>4, <2>5, TypedNext DEF Typed
<1>2. \A w \in Workers : ~Holds(w)' /\ ~Undelivered(w)'
  BY DEF Initialize, At, Holds, Holding, Undelivered
<1>3. Tallies'
  BY <1>2, SetUpTallies DEF Initialize
<1>4. Untouched' /\ Lifecycle' /\ PhaseRuns'
  BY DEF IInv, TypeOK, Initialize, MayInitialize, SetUp, Untouched, Lifecycle, PhaseRuns, SetUpDone
<1> QED BY <1>1, <1>3, <1>4 DEF IInv, Tallies

\* initialize() that cannot create its threads preserves the invariant.
LEMMA InitializeWithoutThreadsStep ==
  ASSUME IInv, InitializeWithoutThreads
  PROVE  IInv'
<1>0. Typed
  BY TypeParts DEF IInv
<1>1. PICK S \in SUBSET Workers : worker' = [w \in Workers |-> At(IF w \in S THEN "Starting" ELSE None)]
  BY DEF InitializeWithoutThreads
<1>2. TypeOK'
  <2>1. FlagTypes'
    BY <1>0 DEF Typed, FlagTypes, InitializeWithoutThreads, SetUp
  <2>2. SetupTypes'
    BY <1>0 DEF Typed, SetupTypes, InitializeWithoutThreads, SetUp
  <2>3. QueueTypes'
    BY <1>0, AllTasksFree DEF Typed, QueueTypes, InitializeWithoutThreads, SetUp
  <2>4. PhaseTypes'
    BY <1>0 DEF Typed, PhaseTypes, InitializeWithoutThreads, SetUp
  <2>5. WorkerTypes'
    BY <1>1 DEF Typed, WorkerTypes, WorkerRecords, At
  <2> QED BY <2>1, <2>2, <2>3, <2>4, <2>5, TypedNext DEF Typed
<1>3. \A w \in Workers : ~Holds(w)' /\ ~Undelivered(w)'
  BY <1>1 DEF At, Holds, Holding, Undelivered, None
<1>4. Tallies'
  BY <1>3, SetUpTallies DEF InitializeWithoutThreads
<1>5. Untouched' /\ Lifecycle' /\ PhaseRuns'
  BY DEF IInv, TypeOK, InitializeWithoutThreads, MayInitialize, SetUp, Untouched, Lifecycle, PhaseRuns,
         SetUpDone
<1> QED BY <1>2, <1>4, <1>5 DEF IInv, Tallies

\* initialize() whose setup fails preserves the invariant: what it leaves behind
\* has no result yet and no phase.
LEMMA SetUpFailsStep ==
  ASSUME IInv, SetUpFails
  PROVE  IInv'
<1>0. Typed
  BY TypeParts DEF IInv
<1>1. TypeOK'
  <2>1. FlagTypes'
    BY <1>0 DEF Typed, FlagTypes, SetUpFails, UnloadOnNumaNode, Unloaded, NotUnloaded
  <2>2. SetupTypes'
    <3>1. ASSUME NEW n \in 0..(WarmupCount + TimedCount) PROVE 1..n \subseteq Frames
      BY DEF Frames, SizesAssumption
    <3>2. atoms' \subseteq Frames
      BY <1>0, <3>1 DEF Typed, SetupTypes, SetUpFails, UnloadOnNumaNode, Unloaded, NotUnloaded
    <3>3. taskState' \in [Tasks -> {"Absent", "Loaded", "Started", "Stopped", "Failed"}]
      BY <1>0 DEF Typed, SetupTypes, SetUpFails, UnloadOnNumaNode, Unloaded, NotUnloaded
    <3> QED BY <1>0, <3>2, <3>3 DEF Typed, SetupTypes, SetUpFails
  <2>3. QueueTypes'
    BY <1>0 DEF Typed, QueueTypes, SetUpFails, UnloadOnNumaNode, Unloaded, NotUnloaded
  <2>4. PhaseTypes'
    BY <1>0 DEF Typed, PhaseTypes, SetUpFails, UnloadOnNumaNode, Unloaded, NotUnloaded
  <2>5. WorkerTypes'
    BY <1>0 DEF Typed, WorkerTypes, SetUpFails, UnloadOnNumaNode, Unloaded, NotUnloaded
  <2> QED BY <2>1, <2>2, <2>3, <2>4, <2>5, TypedNext DEF Typed
<1>2. \A w \in Workers : Keeps(w)
  BY NotifiedKeep DEF IInv, SetUpFails
<1>3. Tallies'
  <2>1. CASE sealed
    <3>1. UNCHANGED <<atoms, submitted>> \/ atoms' = {}
      BY <2>1 DEF SetUpFails, UnloadOnNumaNode, Unloaded, NotUnloaded
    <3> QED BY <1>2, <3>1, TalliesKept DEF IInv, Tallies, SetUpFails, SetUpDone
  <2>2. CASE ~sealed
    <3>1. submitted' = {} /\ sink' = [f \in Frames |-> <<>>]
      BY <2>2 DEF IInv, Untouched, SetUpFails, MayInitialize
    <3>2. ResultsExactlyOnce'
      BY <3>1 DEF ResultsExactlyOnce
    <3>3. ~initialized /\ ctl = "Idle" /\ UNCHANGED <<initialized, ctl>>
      BY DEF SetUpFails, MayInitialize
    <3>4. (QueueOfPhase /\ HoldersAreExclusive /\ PhaseAccounting /\ TasksAreKept)'
      BY <3>3 DEF IInv, QueueOfPhase, HoldersAreExclusive, PhaseAccounting, TasksAreKept, SetUpFails,
                  SetUpDone, Holds
    <3> QED BY <3>2, <3>4 DEF Tallies
  <2> QED BY <2>1, <2>2
<1>4. Untouched' /\ Lifecycle' /\ PhaseRuns'
  BY DEF IInv, TypeOK, SetUpFails, MayInitialize, UnloadOnNumaNode, Unloaded, NotUnloaded, Untouched,
         Lifecycle, PhaseRuns, SetUpDone
<1> QED BY <1>1, <1>3, <1>4 DEF IInv, Tallies

\* shutdown() after its workers have left preserves the invariant: none of them
\* holds a frame, and nothing is queued.
LEMMA ShutdownFinishesStep ==
  ASSUME IInv, ShutdownFinishes
  PROVE  IInv'
<1>0. Typed
  BY TypeParts DEF IInv
<1>1. TypeOK'
  <2>1. FlagTypes'
    BY <1>0 DEF Typed, FlagTypes, ShutdownFinishes, Unloaded
  <2>2. SetupTypes'
    BY <1>0 DEF Typed, SetupTypes, ShutdownFinishes, Unloaded
  <2>3. QueueTypes'
    BY <1>0 DEF Typed, QueueTypes, ShutdownFinishes, Unloaded
  <2>4. PhaseTypes'
    BY <1>0 DEF Typed, PhaseTypes, ShutdownFinishes, Unloaded
  <2>5. WorkerTypes'
    BY <1>0 DEF Typed, WorkerTypes, WorkerRecords, ShutdownFinishes, At
  <2> QED BY <2>1, <2>2, <2>3, <2>4, <2>5, TypedNext DEF Typed
<1>2. \A w \in Workers : Keeps(w) /\ ~Holds(w) /\ ~Holds(w)' /\ ~Undelivered(w) /\ ~Undelivered(w)'
  BY JoinedKeep DEF ShutdownFinishes, Keeps, Holds, Holding, Undelivered
<1>3. readyFrames = <<>> /\ readyFrames' = <<>> /\ freeTasks' = <<>>
  BY DEF IInv, QueueOfPhase, ShutdownFinishes
<1>4. ~initialized' /\ ctl' = "Idle" /\ ~phaseActive'
  BY DEF ShutdownFinishes
<1>5. QueueOfPhase' /\ HoldersAreExclusive'
  BY <1>2, <1>3 DEF IInv, QueueOfPhase, HoldersAreExclusive, ShutdownFinishes
<1>6. TasksAreKept'
  BY <1>3, <1>4 DEF TasksAreKept, SetUpDone, IsInjective
<1>7. PhaseAccounting'
  <2>1. {w \in Workers : Holds(w)}' = {w \in Workers : Holds(w)}
    BY <1>2
  <2> QED BY <2>1, <1>4 DEF IInv, PhaseAccounting, ShutdownFinishes
<1>8. ResultsExactlyOnce'
  <2>1. (UNCHANGED <<atoms, submitted>> \/ atoms' = {}) /\ sink' = sink
    BY DEF ShutdownFinishes, Unloaded
  <2>2. ResultsExactlyOnce
    BY DEF IInv
  <2> QED BY <1>2, <1>3, <2>1, <2>2 DEF ResultsExactlyOnce
<1>9. Untouched' /\ Lifecycle' /\ PhaseRuns'
  BY <1>4 DEF IInv, TypeOK, ShutdownFinishes, Unloaded, Untouched, Lifecycle, PhaseRuns, SetUpDone
<1> QED BY <1>1, <1>5, <1>6, <1>7, <1>8, <1>9 DEF IInv

-----------------------------------------------------------------------------
(* Steps that move frames, tasks and results *)

\* A frame without its result, for a reason the scheduler knows.
Waits(f) ==
    \/ PhaseOf(f) \notin submitted
    \/ f \in ToSet(readyFrames)
    \/ \E w \in Workers : Undelivered(w) /\ worker[w].frame = f

\* Results stay exactly one per frame when a step delivers one only to frames
\* that then no longer wait.
LEMMA ResultsStep ==
  ASSUME ResultsExactlyOnce, atoms' = atoms,
         \A f \in Frames :
            \/ sink'[f] = sink[f] /\ (f \in atoms => (Waits(f)' <=> Waits(f)))
            \/ Len(sink'[f]) = Len(sink[f]) + 1 /\ f \in atoms /\ Waits(f) /\ ~Waits(f)'
  PROVE  ResultsExactlyOnce'
<1>1. \A f \in Frames : /\ f \in atoms => Len(sink[f]) = IF Waits(f) THEN 0 ELSE 1
                        /\ Len(sink[f]) <= 1
  BY DEF ResultsExactlyOnce, Waits
<1>2. \A f \in Frames : /\ f \in atoms' => Len(sink'[f]) = IF Waits(f)' THEN 0 ELSE 1
                        /\ Len(sink'[f]) <= 1
  BY <1>1
<1> QED BY <1>2 DEF ResultsExactlyOnce, Waits

\* startPhase queues every frame of the phase once.
LEMMA FrameQueueFacts ==
  ASSUME NEW p \in Phases
  PROVE  /\ FrameQueue(p) \in Seq(Frames) /\ IsInjective(FrameQueue(p))
         /\ ToSet(FrameQueue(p)) = atomsForPhase(p)
         /\ Len(FrameQueue(p)) = Cardinality(atomsForPhase(p))
         /\ Cardinality(atomsForPhase(p)) \in Nat
         /\ \A f \in Frames : f \in atomsForPhase(p) <=> PhaseOf(f) = p
         /\ atomsForPhase(p) = {} => FrameQueue(p) = <<>>
<1>1. PICK k \in Nat, n \in Nat :
         /\ FrameQueue(p) = [i \in 1..n |-> k + i]
         /\ atomsForPhase(p) = (k+1)..(k+n)
         /\ (k+1)..(k+n) \subseteq Frames
  <2>1. CASE p = "Warmup"
    <3>1. FrameQueue(p) = [i \in 1..WarmupCount |-> 0 + i]
      BY <2>1 DEF FrameQueue, SizesAssumption
    <3>2. atomsForPhase(p) = (0+1)..(0+WarmupCount) /\ (0+1)..(0+WarmupCount) \subseteq Frames
      BY <2>1 DEF atomsForPhase, Frames, SizesAssumption
    <3> QED BY <3>1, <3>2 DEF SizesAssumption
  <2>2. CASE p = "Timed"
    <3>1. FrameQueue(p) = [i \in 1..TimedCount |-> WarmupCount + i]
      BY <2>2 DEF FrameQueue, SizesAssumption
    <3>2. atomsForPhase(p) = (WarmupCount+1)..(WarmupCount+TimedCount)
          /\ (WarmupCount+1)..(WarmupCount+TimedCount) \subseteq Frames
      BY <2>2 DEF atomsForPhase, Frames, SizesAssumption
    <3> QED BY <3>1, <3>2 DEF SizesAssumption
  <2> QED BY <2>1, <2>2 DEF Phases
<1>2. /\ FrameQueue(p) \in Seq((k+1)..(k+n)) /\ Len(FrameQueue(p)) = n
      /\ IsInjective(FrameQueue(p))
      /\ ToSet(FrameQueue(p)) = (k+1)..(k+n)
  BY <1>1, CountingQueue
<1>3. Cardinality((k+1)..(k+n)) = n
  BY FS_Interval
<1>4. FrameQueue(p) \in Seq(Frames)
  BY <1>1, <1>2
<1>5. \A f \in Frames : f \in atomsForPhase(p) <=> PhaseOf(f) = p
  BY DEF atomsForPhase, PhaseOf, Phases
<1>6. atomsForPhase(p) = {} => FrameQueue(p) = <<>>
  <2>1. n # 0 => k + 1 \in atomsForPhase(p)
    BY <1>1
  <2> QED BY <1>2, <2>1
<1> QED BY <1>1, <1>2, <1>3, <1>4, <1>5, <1>6

\* startPhase() preserves the invariant: a phase begins with nothing in flight
\* and its frames without results.
LEMMA StartPhaseStep ==
  ASSUME IInv, NEW p \in Phases, StartPhase(p)
  PROVE  IInv'
<1>0. Typed
  BY TypeParts DEF IInv
<1>1. /\ initialized /\ cycle = "Started" /\ ~phaseActive /\ ~cancellation /\ p \notin submitted
      /\ ctl = "Idle" /\ ctl' = "Idle" /\ initialized' = initialized
  BY DEF StartPhase, MayStartPhase
<1>2. worker' \in {worker, WorkNotified}
  BY DEF StartPhase
<1>3. TypeOK'
  <2>1. FlagTypes'
    BY <1>0 DEF Typed, FlagTypes, StartPhase
  <2>2. SetupTypes'
    BY <1>0 DEF Typed, SetupTypes, StartPhase
  <2>3. QueueTypes'
    BY <1>0, FrameQueueFacts DEF Typed, QueueTypes, StartPhase
  <2>4. PhaseTypes'
    BY <1>0, FrameQueueFacts DEF Typed, PhaseTypes, StartPhase
  <2>5. WorkerTypes'
    BY <1>0, <1>2, NotificationKeeps DEF Typed, WorkerTypes, IInv
  <2> QED BY <2>1, <2>2, <2>3, <2>4, <2>5, TypedNext DEF Typed
<1>4. \A w \in Workers : ~Holds(w) /\ ~Holds(w)' /\ ~Undelivered(w) /\ ~Undelivered(w)'
  <2>1. \A w \in Workers : Keeps(w)
    BY <1>2, NotifiedKeep DEF IInv
  <2> QED BY <1>1, <2>1, QuietOutsidePhases DEF Keeps
<1>5. inFlight = 0 /\ readyFrames = <<>> /\ Holders = {}
  BY <1>1, QuietOutsidePhases
<1>6. QueueOfPhase'
  <2>1. \A f \in ToSet(FrameQueue(p)) : PhaseOf(f) = p
    BY FrameQueueFacts DEF atomsForPhase
  <2> QED BY <1>1, <2>1, FrameQueueFacts DEF QueueOfPhase, StartPhase
<1>7. HoldersAreExclusive'
  BY <1>4 DEF HoldersAreExclusive
<1>8. TasksAreKept'
  BY <1>1, <1>4, <1>5 DEF IInv, TasksAreKept, StartPhase, SetUpDone
<1>9. PhaseAccounting'
  <2>1. {w \in Workers : Holds(w)}' = Holders
    BY <1>4 DEF Holders
  <2>2. Cardinality({w \in Workers : Holds(w)}') = 0
    BY <2>1, <1>5, FS_EmptySet
  <2> QED BY <2>2, FrameQueueFacts DEF PhaseAccounting, StartPhase, SizesAssumption
<1>10. ResultsExactlyOnce'
  <2>1. ASSUME NEW f \in Frames PROVE Waits(f)' <=> Waits(f)
    <3>1. Waits(f) <=> PhaseOf(f) \notin submitted
      BY <1>4, <1>5 DEF Waits, ToSet
    <3>2. Waits(f)' <=> PhaseOf(f) \notin (submitted \union {p}) \/ PhaseOf(f) = p
      BY <1>4, FrameQueueFacts DEF Waits, StartPhase
    <3> QED BY <3>1, <3>2, <1>1
  <2> QED BY <2>1, ResultsStep DEF IInv, StartPhase
<1>11. PhaseRuns'
  <2>1. \A t \in Tasks : taskState[t] = "Started" /\ applied[t] = parameters
    BY <1>1 DEF IInv, Lifecycle, SetUpDone
  <2> QED BY <1>1, <2>1 DEF PhaseRuns, StartPhase
<1>12. Untouched' /\ Lifecycle'
  BY <1>1 DEF IInv, Untouched, Lifecycle, SetUpDone, StartPhase
<1> QED BY <1>3, <1>6, <1>7, <1>8, <1>9, <1>10, <1>11, <1>12 DEF IInv

\* deliverFrameResult of failed results adds one to each frame of S.
LEMMA FailedResultsFacts ==
  ASSUME TypeOK, NEW S
  PROVE  /\ FailedResults(S) \in [Frames -> Seq(BOOLEAN)]
         /\ \A f \in Frames \cap S : Len(FailedResults(S)[f]) = Len(sink[f]) + 1
         /\ \A f \in Frames \ S : FailedResults(S)[f] = sink[f]
<1>1. \A f \in Frames : sink[f] \in Seq(BOOLEAN)
  BY DEF TypeOK
<1>2. \A f \in Frames : Append(sink[f], FALSE) \in Seq(BOOLEAN)
                        /\ Len(Append(sink[f], FALSE)) = Len(sink[f]) + 1
  BY <1>1, AppendProperties
<1> QED BY <1>1, <1>2 DEF FailedResults

\* What cancelPreparedFramesLocked delivers.
LEMMA PreparedFacts ==
  ASSUME TypeOK
  PROVE  \A f \in Frames : f \in PreparedFrames <=> f \in atoms /\ PhaseOf(f) \notin submitted
<1>1. \A f \in Frames : PhaseOf(f) \in Phases
  BY DEF PhaseOf, Phases
<1>2. \A p \in Phases, f \in Frames : f \in atomsForPhase(p) <=> PhaseOf(f) = p
  BY FrameQueueFacts
<1> QED BY <1>1, <1>2 DEF PreparedFrames

\* What a holder's frame is while the phase runs: prepared, submitted, unqueued.
LEMMA HeldFrames ==
  ASSUME IInv, NEW w \in Workers, Holds(w)
  PROVE  /\ phaseActive /\ phase \in submitted /\ atoms = Frames
         /\ worker[w].frame \in Frames /\ PhaseOf(worker[w].frame) = phase
         /\ worker[w].frame \notin ToSet(readyFrames)
BY DEF IInv, HoldersAreExclusive, PhaseRuns, Lifecycle, SetUpDone

\* A worker that has yet to deliver holds its frame.
LEMMA UndeliveredHolds == \A w \in Workers : Undelivered(w) => Holds(w)
BY DEF Undelivered, Holds, Holding

\* shutdown() up to its joins preserves the invariant: each frame nobody works
\* on gets its one failed result.
LEMMA ShutdownStep ==
  ASSUME IInv, Shutdown
  PROVE  IInv'
<1>0. Typed
  BY TypeParts DEF IInv
<1> DEFINE S == ToSet(readyFrames) \cup PreparedFrames
<1>1. sink' = FailedResults(S) /\ readyFrames' = <<>>
  <2>1. ~phaseActive => readyFrames = <<>> /\ ToSet(readyFrames) = {}
    BY DEF IInv, QueueOfPhase, ToSet
  <2> QED BY <2>1 DEF Shutdown, CancelledFrames
<1>2. \A w \in Workers : Keeps(w)
  BY NotifiedKeep DEF IInv, Shutdown
<1>3. TypeOK'
  <2>1. FlagTypes'
    BY <1>0 DEF Typed, FlagTypes, Shutdown
  <2>2. SetupTypes'
    BY <1>0 DEF Typed, SetupTypes, Shutdown
  <2>3. QueueTypes'
    BY <1>0, <1>1, FailedResultsFacts DEF IInv, Typed, QueueTypes, Shutdown
  <2>4. PhaseTypes'
    BY <1>0 DEF Typed, QueueTypes, PhaseTypes, Shutdown, GatesAfterShutdown, CancelledCount, Phases, None
  <2>5. WorkerTypes'
    BY NotificationKeeps DEF IInv, WorkerTypes, Shutdown
  <2> QED BY <2>1, <2>2, <2>3, <2>4, <2>5, TypedNext DEF Typed
<1>4. QueueOfPhase'
  BY <1>1 DEF QueueOfPhase, IsInjective, ToSet
<1>5. HoldersAreExclusive'
  BY <1>1, <1>2 DEF IInv, HoldersAreExclusive, Keeps, Shutdown, ToSet
<1>6. TasksAreKept'
  BY <1>2 DEF IInv, TasksAreKept, Keeps, SetUpDone, Shutdown
<1>7. PhaseAccounting'
  <2>1. {w \in Workers : Holds(w)}' = {w \in Workers : Holds(w)}
    BY <1>2 DEF Keeps
  <2>2. phaseActive => phaseTerminal' = phaseTerminal + Len(readyFrames)
    BY DEF Shutdown, CancelledCount
  <2>3. UNCHANGED <<inFlight, lastMaxInFlight, phaseActive, phaseTotal>>
    BY DEF Shutdown
  <2>4. PhaseAccounting /\ Len(readyFrames) \in Nat /\ Len(readyFrames') = 0
    BY <1>0, <1>1 DEF IInv, Typed, QueueTypes
  <2>5. phaseActive' => phaseTotal' = phaseTerminal' + Len(readyFrames') + inFlight'
    BY <1>0, <2>2, <2>3, <2>4 DEF Typed, PhaseTypes, PhaseAccounting
  <2> QED BY <2>1, <2>3, <2>4, <2>5 DEF PhaseAccounting
<1>8. ResultsExactlyOnce'
  <2> SUFFICES ASSUME NEW f \in Frames
               PROVE  \/ sink'[f] = sink[f] /\ (f \in atoms => (Waits(f)' <=> Waits(f)))
                      \/ Len(sink'[f]) = Len(sink[f]) + 1 /\ f \in atoms /\ Waits(f) /\ ~Waits(f)'
    BY ResultsStep DEF IInv, Shutdown
  <2>1. Waits(f)' <=> \E w \in Workers : Undelivered(w) /\ worker[w].frame = f
    <3>1. PhaseOf(f) \in submitted'
      BY DEF Shutdown, PhaseOf, Phases
    <3>2. f \notin ToSet(readyFrames')
      BY <1>1 DEF ToSet
    <3> QED BY <1>2, <3>1, <3>2, UndeliveredHolds DEF Waits, Keeps
  <2>2. CASE f \in S
    <3>1. f \in atoms /\ Waits(f)
      <4>1. ToSet(readyFrames) # {} => atoms = Frames
        BY DEF IInv, QueueOfPhase, PhaseRuns, Lifecycle, SetUpDone, ToSet
      <4> QED BY <2>2, <4>1, PreparedFacts DEF IInv, Waits
    <3>2. ~Waits(f)'
      BY <2>1, <2>2, HeldFrames, UndeliveredHolds, PreparedFacts DEF IInv
    <3> QED BY <1>1, <2>2, <3>1, <3>2, FailedResultsFacts DEF IInv
  <2>3. CASE f \notin S
    <3>1. f \in atoms => PhaseOf(f) \in submitted /\ f \notin ToSet(readyFrames)
      BY <2>3, PreparedFacts DEF IInv
    <3> QED BY <1>1, <2>1, <2>3, <3>1, FailedResultsFacts DEF IInv, Waits
  <2> QED BY <2>2, <2>3
<1>9. PhaseRuns'
  BY <1>0 DEF Typed, PhaseTypes, IInv, PhaseRuns, Shutdown
<1>10. Lifecycle'
  BY DEF IInv, Lifecycle, SetUpDone, Shutdown
<1>11. Untouched'
  BY DEF IInv, Untouched, Shutdown, SomethingToShutDown
<1> QED BY <1>3, <1>4, <1>5, <1>6, <1>7, <1>8, <1>9, <1>10, <1>11 DEF IInv

\* finishPhaseIfCompleteLocked ends a phase only when nothing is queued or in
\* flight.
LEMMA FinishFacts ==
  ASSUME phaseActive \in BOOLEAN, NEW ready, NEW flying, NEW terminal,
         FinishPhaseIfComplete(ready, flying, terminal)
  PROVE  \/ phaseActive' = phaseActive /\ phaseGate' = phaseGate /\ ctl' = ctl
         \/ /\ phaseActive /\ ~phaseActive' /\ phaseActive' \in BOOLEAN
            /\ ready = <<>> /\ flying = 0 /\ terminal = phaseTotal
            /\ phaseGate' = None /\ ctl' = PhaseNotified
<1>1. CASE PhaseComplete(ready, flying, terminal)
  BY <1>1 DEF FinishPhaseIfComplete, PhaseComplete
<1>2. CASE ~PhaseComplete(ready, flying, terminal)
  BY <1>2 DEF FinishPhaseIfComplete
<1> QED BY <1>1, <1>2

\* What follows for the rest of the state whether or not the phase ended.
LEMMA FinishTypes ==
  ASSUME Typed, NEW ready, NEW flying, NEW terminal, FinishPhaseIfComplete(ready, flying, terminal)
  PROVE  /\ phaseActive' \in BOOLEAN /\ (phaseActive' => phaseActive)
         /\ phaseGate' \in Phases \union {None}
         /\ ctl' \in {"Idle", "Starting", "Abandoning", "Waiting", "Asleep", "Joining"}
         /\ (ctl' = "Joining" <=> ctl = "Joining") /\ (ctl' = "Starting" <=> ctl = "Starting")
         /\ (ctl' = "Abandoning" <=> ctl = "Abandoning")
BY FinishFacts DEF Typed, FlagTypes, PhaseTypes, PhaseNotified

\* With nothing in flight no worker holds a frame.
LEMMA NoneInFlight ==
  ASSUME IInv, inFlight = 0
  PROVE  \A w \in Workers : ~Holds(w)
<1>1. Cardinality(Holders) = 0
  BY DEF IInv, PhaseAccounting, Holders
<1> QED BY <1>1, HoldersCount DEF Holders

\* A worker that cancels the queue preserves the invariant: every queued frame
\* gets its one failed result and counts as terminal.
LEMMA WorkerCancelsStep ==
  ASSUME IInv, NEW w \in Workers, WorkerCancels(w)
  PROVE  IInv'
<1>0. Typed
  BY TypeParts DEF IInv
<1>1. /\ phaseActive /\ cancellation /\ sink' = FailedResults(ToSet(readyFrames))
      /\ readyFrames' = <<>> /\ phaseTerminal' = phaseTerminal + Len(readyFrames)
      /\ FinishPhaseIfComplete(<<>>, inFlight, phaseTerminal')
      /\ phaseSucceeded' = FALSE
      /\ UNCHANGED <<cancellation, lifecycleVars, resourceVars, released, submitted, phase, phaseTotal,
                     flightVars, freeTasks, worker, parameterVars>>
  BY DEF WorkerCancels, CancelledFrames, CancelledCount
<1>2. /\ phaseActive' \in BOOLEAN
      /\ phaseGate' \in Phases \union {None}
      /\ ctl' \in {"Idle", "Starting", "Abandoning", "Waiting", "Asleep", "Joining"}
      /\ (ctl' = "Joining" <=> ctl = "Joining") /\ (ctl' = "Starting" <=> ctl = "Starting")
      /\ (ctl' = "Abandoning" <=> ctl = "Abandoning")
  BY <1>0, <1>1, FinishTypes
<1>3. TypeOK'
  <2>1. FlagTypes'
    BY <1>0, <1>1, <1>2 DEF Typed, FlagTypes
  <2>2. SetupTypes'
    BY <1>0, <1>1 DEF Typed, SetupTypes
  <2>3. QueueTypes'
    BY <1>0, <1>1, FailedResultsFacts DEF IInv, Typed, QueueTypes
  <2>4. PhaseTypes'
    BY <1>0, <1>1, <1>2 DEF Typed, QueueTypes, PhaseTypes
  <2>5. WorkerTypes'
    BY <1>0, <1>1 DEF Typed, WorkerTypes
  <2> QED BY <2>1, <2>2, <2>3, <2>4, <2>5, TypedNext DEF Typed
<1>4. \A v \in Workers : Holds(v)' = Holds(v) /\ Undelivered(v)' = Undelivered(v)
  BY <1>1 DEF Holds, Undelivered
<1>5. \A v \in Workers : Holds(v) => phaseActive' /\ phaseGate' = phaseGate
  <2>1. \/ phaseActive' = phaseActive /\ phaseGate' = phaseGate
        \/ inFlight = 0
    BY <1>0, <1>1, FinishFacts DEF Typed, FlagTypes
  <2> QED BY <1>1, <2>1, NoneInFlight
<1>6. QueueOfPhase'
  BY <1>1 DEF QueueOfPhase, IsInjective, ToSet
<1>7. HoldersAreExclusive'
  BY <1>1, <1>4, <1>5 DEF IInv, HoldersAreExclusive, ToSet
<1>8. TasksAreKept'
  BY <1>1, <1>2, <1>4 DEF IInv, TasksAreKept, SetUpDone
<1>9. PhaseAccounting'
  <2>1. {v \in Workers : Holds(v)}' = {v \in Workers : Holds(v)}
    BY <1>4
  <2>2. PhaseAccounting /\ Len(readyFrames) \in Nat /\ Len(readyFrames') = 0
    BY <1>0, <1>1 DEF IInv, Typed, QueueTypes
  <2>3. phaseActive' => phaseTotal' = phaseTerminal' + Len(readyFrames') + inFlight'
    BY <1>0, <1>1, <2>2 DEF Typed, PhaseTypes, PhaseAccounting
  <2> QED BY <1>1, <2>1, <2>2, <2>3 DEF PhaseAccounting
<1>10. ResultsExactlyOnce'
  <2> SUFFICES ASSUME NEW f \in Frames
               PROVE  \/ sink'[f] = sink[f] /\ (f \in atoms => (Waits(f)' <=> Waits(f)))
                      \/ Len(sink'[f]) = Len(sink[f]) + 1 /\ f \in atoms /\ Waits(f) /\ ~Waits(f)'
    BY <1>1, ResultsStep DEF IInv
  <2>1. Waits(f)' <=> \/ PhaseOf(f) \notin submitted
                      \/ \E v \in Workers : Undelivered(v) /\ worker[v].frame = f
    BY <1>1, <1>4 DEF Waits, ToSet
  <2>2. CASE f \in ToSet(readyFrames)
    <3>1. f \in atoms /\ PhaseOf(f) \in submitted
      BY <1>1, <2>2 DEF IInv, QueueOfPhase, PhaseRuns, Lifecycle, SetUpDone
    <3>2. ~Waits(f)'
      BY <2>1, <2>2, <3>1, HeldFrames, UndeliveredHolds
    <3> QED BY <1>1, <2>2, <3>1, <3>2, FailedResultsFacts DEF IInv, Waits
  <2>3. CASE f \notin ToSet(readyFrames)
    BY <1>1, <2>1, <2>3, FailedResultsFacts DEF IInv, Waits
  <2> QED BY <2>2, <2>3
<1>11. PhaseRuns'
  <2>1. phaseActive' => phaseGate' = phaseGate
    BY <1>0, <1>1, FinishFacts DEF Typed, FlagTypes
  <2> QED BY <1>1, <2>1 DEF IInv, PhaseRuns
<1>12. Lifecycle' /\ Untouched'
  BY <1>1, <1>2 DEF IInv, Lifecycle, Untouched, SetUpDone
<1> QED BY <1>3, <1>6, <1>7, <1>8, <1>9, <1>10, <1>11, <1>12 DEF IInv

\* A claim moves the first queued frame and a free task to the worker.
LEMMA ClaimStep ==
  ASSUME IInv, NEW w \in Workers, Claim(w)
  PROVE  IInv'
<1>0. Typed
  BY TypeParts DEF IInv
<1> DEFINE f == Head(readyFrames)
           t == Last(freeTasks)
<1>1. /\ phaseActive /\ ~cancellation /\ worker[w].pc = "Parked"
      /\ worker' = [worker EXCEPT ![w] = [pc |-> "Gate", frame |-> f, task |-> t,
                                          gate |-> phaseGate, ok |-> FALSE]]
      /\ readyFrames' = Tail(readyFrames) /\ freeTasks' = Front(freeTasks)
      /\ inFlight' = inFlight + 1
      /\ lastMaxInFlight' = IF inFlight' > lastMaxInFlight THEN inFlight' ELSE lastMaxInFlight
      /\ UNCHANGED <<cancellation, ctl, lifecycleVars, resourceVars, gateVars, phaseVars, sink, parameterVars>>
  BY DEF Claim, FreeAfterClaim
<1>2. /\ readyFrames \in Seq(Frames) /\ freeTasks \in Seq(Tasks)
      /\ IsInjective(readyFrames) /\ IsInjective(freeTasks)
      /\ readyFrames # <<>> /\ freeTasks # <<>>
      /\ Len(readyFrames) \in Nat /\ Len(freeTasks) \in Nat
  BY <1>0 DEF Typed, QueueTypes, IInv, QueueOfPhase, TasksAreKept, Claim
<1>3. /\ readyFrames' \in Seq(Frames) /\ IsInjective(readyFrames')
      /\ f \in Frames /\ f \in ToSet(readyFrames)
      /\ ToSet(readyFrames') = ToSet(readyFrames) \ {f}
      /\ Len(readyFrames') = Len(readyFrames) - 1
  BY <1>1, <1>2, TailFacts
<1>4. /\ freeTasks' \in Seq(Tasks) /\ IsInjective(freeTasks')
      /\ t \in Tasks /\ t \in ToSet(freeTasks)
      /\ ToSet(freeTasks') = ToSet(freeTasks) \ {t}
      /\ Len(freeTasks') = Len(freeTasks) - 1
  <2>1. /\ freeTasks' \in Seq(Tasks) /\ IsInjective(freeTasks')
        /\ t \in Tasks /\ t \in Range(freeTasks)
        /\ Range(freeTasks') = Range(freeTasks) \ {t}
        /\ Len(freeTasks') = Len(freeTasks) - 1
    BY <1>1, <1>2, FrontFacts
  <2>2. Range(freeTasks) = ToSet(freeTasks) /\ Range(freeTasks') = ToSet(freeTasks')
    BY <1>2, <2>1 DEF Range, ToSet
  <2> QED BY <2>1, <2>2
<1> HIDE DEF f, t
<1>5. /\ initialized /\ SetUpDone /\ SetUpDone'
      /\ atoms = Frames /\ phase \in submitted /\ phaseGate = phase
  BY <1>1 DEF IInv, PhaseRuns, Lifecycle, SetUpDone
<1>6. /\ worker'[w] = [pc |-> "Gate", frame |-> f, task |-> t, gate |-> phaseGate, ok |-> FALSE]
      /\ \A v \in Workers \ {w} : worker'[v] = worker[v]
      /\ ~Holds(w) /\ Holds(w)' /\ ~Undelivered(w) /\ Undelivered(w)'
      /\ \A v \in Workers \ {w} : Holds(v)' = Holds(v) /\ Undelivered(v)' = Undelivered(v)
  BY <1>0, <1>1 DEF Typed, WorkerTypes, Holds, Holding, Undelivered
<1>7. Len(freeTasks) + inFlight = TaskCount /\ inFlight \in Nat /\ lastMaxInFlight \in Nat
  BY <1>0, <1>5 DEF IInv, TasksAreKept, Typed, PhaseTypes
<1>8. TypeOK'
  <2>1. FlagTypes' /\ SetupTypes'
    BY <1>0, <1>1 DEF Typed, FlagTypes, SetupTypes
  <2>3. QueueTypes'
    BY <1>0, <1>1, <1>3, <1>4 DEF Typed, QueueTypes
  <2>4. PhaseTypes'
    BY <1>0, <1>1 DEF Typed, PhaseTypes
  <2>5. WorkerTypes'
    <3>1. [pc |-> "Gate", frame |-> f, task |-> t, gate |-> phaseGate, ok |-> FALSE] \in WorkerRecords
      BY <1>0, <1>3, <1>4 DEF Typed, PhaseTypes, WorkerRecords, Holding
    <3> QED BY <1>0, <1>1, <3>1 DEF Typed, WorkerTypes
  <2> QED BY <2>1, <2>3, <2>4, <2>5, TypedNext DEF Typed
<1>9. QueueOfPhase'
  BY <1>1, <1>2, <1>3 DEF IInv, QueueOfPhase
<1>10. HoldersAreExclusive'
  <2>1. PhaseOf(f) = phase
    BY <1>3 DEF IInv, QueueOfPhase
  <2>2. ASSUME NEW v \in Workers \ {w}, Holds(v)
        PROVE  worker[v].frame # f /\ worker[v].task # t
    BY <1>3, <1>4, <2>2 DEF IInv, HoldersAreExclusive
  <2> QED BY <1>1, <1>3, <1>4, <1>6, <2>1, <2>2 DEF IInv, HoldersAreExclusive
<1>11. TasksAreKept'
  <2>1. ASSUME NEW u \in Tasks
        PROVE  u \in ToSet(freeTasks') \/ \E v \in Workers : Holds(v)' /\ worker'[v].task = u
    BY <1>4, <1>5, <1>6 DEF IInv, TasksAreKept
  <2>2. Len(freeTasks') + inFlight' = TaskCount
    <3>1. inFlight' = inFlight + 1
      BY <1>1
    <3>2. Len(freeTasks') = Len(freeTasks) - 1 /\ Len(freeTasks) \in Nat
      BY <1>2, <1>4
    <3> QED BY <3>1, <3>2, <1>7
  <2> QED BY <1>4, <2>1, <2>2 DEF TasksAreKept
<1>12. PhaseAccounting'
  <2>1. {v \in Workers : Holds(v)}' = Holders \cup {w} /\ w \in Workers \ Holders
    BY <1>6 DEF Holders
  <2>2. Cardinality({v \in Workers : Holds(v)}') = inFlight + 1
    BY <2>1, HoldersCount DEF IInv, PhaseAccounting, Holders
  <2>3. PhaseAccounting /\ phaseTotal' = phaseTotal /\ phaseTerminal' = phaseTerminal
    BY <1>1 DEF IInv
  <2>4. Len(freeTasks) >= 1
    BY <1>2
  <2>5. phaseActive' => phaseTotal' = phaseTerminal' + Len(readyFrames') + inFlight'
    BY <1>0, <1>1, <1>2, <1>3, <2>3 DEF Typed, PhaseTypes, PhaseAccounting
  <2>6. inFlight' <= lastMaxInFlight' /\ lastMaxInFlight' <= TaskCount
    BY <1>1, <1>2, <1>7, <2>3, <2>4 DEF PhaseAccounting, SizesAssumption
  <2> QED BY <1>1, <2>2, <2>5, <2>6 DEF PhaseAccounting
<1>13. ResultsExactlyOnce'
  <2>1. ASSUME NEW g \in Frames PROVE Waits(g)' <=> Waits(g)
    <3>1. (\E v \in Workers : Undelivered(v)' /\ worker'[v].frame = g)
            <=> (g = f \/ \E v \in Workers : Undelivered(v) /\ worker[v].frame = g)
      BY <1>6
    <3> QED BY <1>1, <1>3, <3>1 DEF Waits
  <2> QED BY <1>1, <2>1, ResultsStep DEF IInv
<1>14. PhaseRuns' /\ Lifecycle'
  BY <1>1 DEF IInv, PhaseRuns, Lifecycle, SetUpDone
<1>15. Untouched'
  BY <1>1, <1>5 DEF IInv, Untouched, Lifecycle
<1> QED BY <1>8, <1>9, <1>10, <1>11, <1>12, <1>13, <1>14, <1>15 DEF IInv

\* deliverFrameResult: the frame the worker holds gets its one result.
LEMMA DeliverFrameResultStep ==
  ASSUME IInv, NEW w \in Workers, DeliverFrameResult(w)
  PROVE  IInv'
<1>0. Typed
  BY TypeParts DEF IInv
<1> DEFINE f == worker[w].frame
<1>1. /\ worker[w].pc = "Deliver"
      /\ sink' = [sink EXCEPT ![f] = Append(sink[f], worker[w].ok)]
      /\ worker' = [worker EXCEPT ![w].pc = "Return"]
      /\ UNCHANGED <<cancellation, ctl, lifecycleVars, resourceVars, gateVars, phaseVars, flightVars,
                     poolVars, parameterVars>>
  BY DEF DeliverFrameResult
<1>2. Holds(w) /\ Undelivered(w)
  BY <1>1 DEF Holds, Holding, Undelivered
<1>3. /\ phaseActive /\ phase \in submitted /\ atoms = Frames
      /\ f \in Frames /\ PhaseOf(f) = phase /\ f \notin ToSet(readyFrames)
  BY <1>2, HeldFrames
<1>4. /\ worker'[w].frame = f /\ worker'[w].task = worker[w].task /\ worker'[w].gate = worker[w].gate
      /\ worker'[w].pc = "Return"
      /\ \A v \in Workers \ {w} : worker'[v] = worker[v]
  BY <1>0, <1>1 DEF Typed, WorkerTypes, WorkerRecords
<1> HIDE DEF f
<1>5. /\ \A v \in Workers : Holds(v)' = Holds(v)
      /\ ~Undelivered(w)' /\ \A v \in Workers \ {w} : Undelivered(v)' = Undelivered(v)
  BY <1>2, <1>4 DEF Holds, Holding, Undelivered
<1>6. sink[f] \in Seq(BOOLEAN) /\ worker[w].ok \in BOOLEAN
  BY <1>0, <1>3 DEF Typed, QueueTypes, WorkerTypes, WorkerRecords
<1>7. Append(sink[f], worker[w].ok) \in Seq(BOOLEAN)
      /\ Len(Append(sink[f], worker[w].ok)) = Len(sink[f]) + 1
  BY <1>6, AppendProperties
<1>8. TypeOK'
  <2>1. FlagTypes' /\ SetupTypes' /\ PhaseTypes'
    BY <1>0, <1>1 DEF Typed, FlagTypes, SetupTypes, PhaseTypes
  <2>2. QueueTypes'
    BY <1>0, <1>1, <1>7 DEF Typed, QueueTypes
  <2>3. WorkerTypes'
    BY <1>0, <1>1 DEF Typed, WorkerTypes, WorkerRecords, Holding
  <2> QED BY <2>1, <2>2, <2>3, TypedNext DEF Typed
<1>9. QueueOfPhase'
  BY <1>1 DEF IInv, QueueOfPhase
<1>10. HoldersAreExclusive' /\ TasksAreKept'
  <2>1. \A v \in Workers : /\ worker'[v].frame = worker[v].frame
                           /\ worker'[v].task = worker[v].task
                           /\ worker'[v].gate = worker[v].gate
    BY <1>4 DEF f
  <2> QED BY <1>1, <1>5, <2>1 DEF IInv, HoldersAreExclusive, TasksAreKept, SetUpDone
<1>11. PhaseAccounting'
  <2>1. {v \in Workers : Holds(v)}' = {v \in Workers : Holds(v)}
    BY <1>5
  <2> QED BY <1>1, <2>1 DEF IInv, PhaseAccounting
<1>12. ResultsExactlyOnce'
  <2>1. PICK h \in Frames : h = worker[w].frame
    BY <1>3 DEF f
  <2>2. ASSUME NEW v \in Workers \ {w}, Undelivered(v) PROVE worker[v].frame # h
    BY <1>2, <2>1, <2>2, UndeliveredHolds DEF IInv, HoldersAreExclusive
  <2>3. ASSUME NEW g \in Frames
        PROVE  \/ sink'[g] = sink[g] /\ (g \in atoms => (Waits(g)' <=> Waits(g)))
               \/ Len(sink'[g]) = Len(sink[g]) + 1 /\ g \in atoms /\ Waits(g) /\ ~Waits(g)'
    <3>1. CASE g = h
      <4>1. Waits(g) /\ ~Waits(g)'
        BY <1>1, <1>2, <1>3, <1>4, <1>5, <2>1, <2>2, <3>1 DEF Waits, f
      <4>2. Len(sink'[g]) = Len(sink[g]) + 1
        BY <1>0, <1>1, <1>3, <1>7, <2>1, <3>1 DEF Typed, QueueTypes, f
      <4> QED BY <1>3, <4>1, <4>2
    <3>2. CASE g # h
      <4>1. Waits(g)' <=> Waits(g)
        BY <1>1, <1>4, <1>5, <2>1, <3>2 DEF Waits, f
      <4>2. sink'[g] = sink[g]
        BY <1>0, <1>1, <2>1, <3>2 DEF Typed, QueueTypes, f
      <4> QED BY <4>1, <4>2
    <3> QED BY <3>1, <3>2
  <2> QED BY <1>1, <2>3, ResultsStep DEF IInv
<1>13. PhaseRuns' /\ Lifecycle'
  BY <1>1 DEF IInv, PhaseRuns, Lifecycle, SetUpDone
<1>14. Untouched'
  BY <1>1, <1>3 DEF IInv, Untouched, PhaseRuns
<1> QED BY <1>8, <1>9, <1>10, <1>11, <1>12, <1>13, <1>14 DEF IInv

\* The worker's last critical section preserves the invariant: its task is free
\* again, its frame is terminal, and a noticed cancellation fails the queue.
LEMMA ReturnTaskStep ==
  ASSUME IInv, NEW w \in Workers, ReturnTask(w)
  PROVE  IInv'
<1>0. Typed
  BY TypeParts DEF IInv
<1> DEFINE S == IF cancellation THEN ToSet(readyFrames) ELSE {}
           ready == IF cancellation THEN <<>> ELSE readyFrames
           count == IF cancellation THEN Len(readyFrames) ELSE 0
           t == worker[w].task
<1>1. /\ worker[w].pc = "Return"
      /\ freeTasks' = Append(freeTasks, t)
      /\ inFlight' = inFlight - 1
      /\ sink' = FailedResults(S) /\ readyFrames' = ready
      /\ phaseTerminal' = phaseTerminal + 1 + count
      /\ phaseSucceeded' = (phaseSucceeded /\ ~cancellation)
      /\ FinishPhaseIfComplete(ready, inFlight', phaseTerminal')
      /\ worker' = [WorkNotified EXCEPT ![w] = At("Parked")]
      /\ UNCHANGED <<cancellation, lifecycleVars, resourceVars, released, submitted, phase, phaseTotal,
                     lastMaxInFlight, parameterVars>>
  BY DEF ReturnTask, CancelsQueue, CancelledFrames, CancelledCount
<1>2. Holds(w) /\ ~Undelivered(w)
  BY <1>1 DEF Holds, Holding, Undelivered
<1>3. /\ phaseActive /\ atoms = Frames /\ phase \in submitted
      /\ t \in Tasks /\ t \notin ToSet(freeTasks)
      /\ initialized /\ SetUpDone
  BY <1>2 DEF IInv, HoldersAreExclusive, PhaseRuns, Lifecycle, SetUpDone
<1>4. /\ readyFrames \in Seq(Frames) /\ freeTasks \in Seq(Tasks) /\ Len(readyFrames) \in Nat
      /\ Len(freeTasks) \in Nat /\ phaseTerminal \in Nat /\ phaseTotal \in Nat
      /\ lastMaxInFlight \in Nat
  BY <1>0 DEF Typed, QueueTypes, PhaseTypes
<1>5. /\ ready \in Seq(Frames) /\ IsInjective(ready) /\ ToSet(ready) = ToSet(readyFrames) \ S
      /\ Len(ready) + count = Len(readyFrames) /\ Len(ready) \in Nat /\ count \in Nat
  BY <1>4 DEF IInv, QueueOfPhase, IsInjective, ToSet
<1>6. /\ freeTasks' \in Seq(Tasks) /\ IsInjective(freeTasks')
      /\ ToSet(freeTasks') = ToSet(freeTasks) \cup {t}
      /\ Len(freeTasks') = Len(freeTasks) + 1
  <2>1. IsInjective(freeTasks)
    BY DEF IInv, TasksAreKept
  <2>2. Range(freeTasks) = ToSet(freeTasks) /\ Range(freeTasks') = ToSet(freeTasks')
    BY DEF Range, ToSet
  <2>3. /\ Append(freeTasks, t) \in Seq(Tasks)
        /\ Range(Append(freeTasks, t)) = Range(freeTasks) \cup {t}
        /\ IsInjective(Append(freeTasks, t))
    BY <1>3, <1>4, <2>1, <2>2, AppendFacts
  <2>4. Len(Append(freeTasks, t)) = Len(freeTasks) + 1
    BY <1>3, <1>4, AppendProperties
  <2> QED BY <1>1, <2>2, <2>3, <2>4
<1>7. inFlight \in Nat \ {0} /\ Cardinality(Holders \ {w}) = inFlight - 1
  <2>1. inFlight = Cardinality(Holders) /\ w \in Holders
    BY <1>2 DEF IInv, PhaseAccounting, Holders
  <2> QED BY <2>1, HoldersCount
<1>8. /\ worker'[w] = At("Parked")
      /\ \A v \in Workers \ {w} : worker'[v] = WorkNotified[v]
  BY <1>1 DEF WorkNotified
<1>9. /\ ~Holds(w)' /\ ~Undelivered(w)'
      /\ \A v \in Workers \ {w} :
            /\ Holds(v)' = Holds(v) /\ Undelivered(v)' = Undelivered(v)
            /\ Holds(v) => worker'[v] = worker[v]
  BY <1>8, NotificationKeeps DEF IInv, Holds, Holding, Undelivered, At
<1> HIDE DEF S, ready, count, t
<1>10. /\ phaseActive' \in BOOLEAN
       /\ phaseGate' \in Phases \union {None}
       /\ ctl' \in {"Idle", "Starting", "Abandoning", "Waiting", "Asleep", "Joining"}
       /\ (ctl' = "Joining" <=> ctl = "Joining") /\ (ctl' = "Starting" <=> ctl = "Starting")
       /\ (ctl' = "Abandoning" <=> ctl = "Abandoning")
  BY <1>0, <1>1, FinishTypes
<1>11. \/ phaseActive' /\ phaseGate' = phaseGate
       \/ ~phaseActive' /\ ready = <<>> /\ inFlight' = 0
  <2>1. phaseActive \in BOOLEAN /\ FinishPhaseIfComplete(ready, inFlight', phaseTerminal')
    BY <1>0, <1>1 DEF Typed, FlagTypes
  <2>2. \/ phaseActive' = phaseActive /\ phaseGate' = phaseGate
        \/ ~phaseActive' /\ ready = <<>> /\ inFlight' = 0
    BY <2>1, FinishFacts
  <2> QED BY <1>3, <2>2
<1>12. TypeOK'
  <2>1. FlagTypes'
    BY <1>0, <1>1, <1>10 DEF Typed, FlagTypes
  <2>2. SetupTypes'
    BY <1>0, <1>1 DEF Typed, SetupTypes
  <2>3. QueueTypes'
    BY <1>0, <1>1, <1>5, <1>6, FailedResultsFacts DEF IInv, Typed, QueueTypes
  <2>4. PhaseTypes'
    BY <1>0, <1>1, <1>5, <1>7, <1>10 DEF Typed, PhaseTypes
  <2>5. WorkerTypes'
    <3>1. WorkNotified \in [Workers -> WorkerRecords]
      BY NotificationKeeps DEF IInv
    <3>2. At("Parked") \in WorkerRecords
      BY DEF At, WorkerRecords
    <3> QED BY <1>1, <3>1, <3>2 DEF WorkerTypes
  <2> QED BY <2>1, <2>2, <2>3, <2>4, <2>5, TypedNext DEF Typed
<1>13. QueueOfPhase'
  <2>1. ctl' = "Joining" => readyFrames' = <<>>
    BY <1>1, <1>10 DEF IInv, QueueOfPhase, ready
  <2>2. \A f \in ToSet(ready) : PhaseOf(f) = phase
    BY <1>5 DEF IInv, QueueOfPhase
  <2> QED BY <1>1, <1>5, <1>11, <2>1, <2>2 DEF QueueOfPhase
<1>14. {v \in Workers : Holds(v)}' = Holders \ {w}
  BY <1>9 DEF Holders
<1>15. HoldersAreExclusive'
  <2>1. ASSUME NEW v \in Workers, Holds(v)' PROVE phaseActive' /\ phaseGate' = phaseGate
    <3>1. v \in Holders \ {w}
      BY <1>9, <2>1 DEF Holders
    <3>2. IsFiniteSet(Holders \ {w})
      BY HoldersCount, FS_RemoveElement
    <3>3. Cardinality(Holders \ {w}) # 0
      BY <3>1, <3>2, FS_EmptySet
    <3> QED BY <1>1, <1>7, <1>11, <3>3
  <2>2. ASSUME NEW v \in Workers, Holds(v)'
        PROVE  /\ v # w /\ Holds(v) /\ worker'[v] = worker[v]
               /\ worker[v].task # t
    BY <1>2, <1>9, <2>2 DEF IInv, HoldersAreExclusive, t
  <2> QED BY <1>1, <1>5, <1>6, <2>1, <2>2 DEF IInv, HoldersAreExclusive
<1>16. TasksAreKept'
  <2>1. ASSUME NEW u \in Tasks
        PROVE  u \in ToSet(freeTasks') \/ \E v \in Workers : Holds(v)' /\ worker'[v].task = u
    BY <1>3, <1>6, <1>9 DEF IInv, TasksAreKept, t
  <2>2. Len(freeTasks') + inFlight' = TaskCount
    <3>1. Len(freeTasks) + inFlight = TaskCount
      BY <1>3 DEF IInv, TasksAreKept
    <3>2. inFlight' = inFlight - 1
      BY <1>1
    <3>3. Len(freeTasks') = Len(freeTasks) + 1 /\ Len(freeTasks) \in Nat
      BY <1>4, <1>6
    <3> QED BY <1>7, <3>1, <3>2, <3>3
  <2> QED BY <1>6, <2>1, <2>2 DEF TasksAreKept
<1>17. PhaseAccounting'
  <2>1. phaseTotal = phaseTerminal + Len(readyFrames) + inFlight
        /\ inFlight <= lastMaxInFlight /\ lastMaxInFlight <= TaskCount
    BY <1>3 DEF IInv, PhaseAccounting
  <2>2. /\ inFlight' = inFlight - 1 /\ lastMaxInFlight' = lastMaxInFlight /\ phaseTotal' = phaseTotal
        /\ phaseTerminal' = phaseTerminal + 1 + count /\ readyFrames' = ready
    BY <1>1
  <2>3. phaseTotal' = phaseTerminal' + Len(readyFrames') + inFlight'
    BY <1>4, <1>5, <1>7, <2>1, <2>2
  <2>4. inFlight' <= lastMaxInFlight' /\ lastMaxInFlight' <= TaskCount
    BY <1>4, <1>7, <2>1, <2>2 DEF SizesAssumption
  <2>5. inFlight' = Cardinality({v \in Workers : Holds(v)}')
    BY <1>7, <1>14, <2>2
  <2> QED BY <2>3, <2>4, <2>5 DEF PhaseAccounting
<1>18. ResultsExactlyOnce'
  <2>1. ASSUME NEW f \in Frames
        PROVE  \/ sink'[f] = sink[f] /\ (f \in atoms => (Waits(f)' <=> Waits(f)))
               \/ Len(sink'[f]) = Len(sink[f]) + 1 /\ f \in atoms /\ Waits(f) /\ ~Waits(f)'
    <3>1. (\E v \in Workers : Undelivered(v)' /\ worker'[v].frame = f)
             <=> (\E v \in Workers : Undelivered(v) /\ worker[v].frame = f)
      BY <1>2, <1>9, UndeliveredHolds
    <3>2. Waits(f)' <=> \/ PhaseOf(f) \notin submitted
                        \/ f \in ToSet(ready)
                        \/ \E v \in Workers : Undelivered(v) /\ worker[v].frame = f
      BY <1>1, <3>1 DEF Waits
    <3>3. CASE f \in S
      <4>1. f \in ToSet(readyFrames)
        BY <3>3 DEF S
      <4>2. PhaseOf(f) \in submitted
        BY <1>3, <4>1 DEF IInv, QueueOfPhase
      <4>3. ~Waits(f)'
        BY <1>5, <3>2, <3>3, <4>1, <4>2, HeldFrames, UndeliveredHolds
      <4> QED BY <1>1, <1>3, <3>3, <4>1, <4>3, FailedResultsFacts DEF IInv, Waits
    <3>4. CASE f \notin S
      BY <1>1, <1>5, <3>2, <3>4, FailedResultsFacts DEF IInv, Waits
    <3> QED BY <3>3, <3>4
  <2> QED BY <1>1, <2>1, ResultsStep DEF IInv
<1>19. PhaseRuns'
  BY <1>1, <1>3, <1>11 DEF IInv, PhaseRuns
<1>20. Lifecycle'
  BY <1>1, <1>10 DEF IInv, Lifecycle, SetUpDone
<1>21. Untouched'
  BY <1>1, <1>3 DEF IInv, Untouched
<1> QED BY <1>12, <1>13, <1>15, <1>16, <1>17, <1>18, <1>19, <1>20, <1>21 DEF IInv

-----------------------------------------------------------------------------
(* The theorems *)

\* Every step of the scheduler preserves the invariant.
LEMMA NextInvariant == IInv /\ [Next]_vars => IInv'
<1> SUFFICES ASSUME IInv, [Next]_vars PROVE IInv'
  OBVIOUS
<1>1. CASE Continue
  BY <1>1, InitializeFinishesStep, InitializeAbandonedStep, CallerStep, ShutdownFinishesStep DEF Continue
<1>2. CASE Call
  BY <1>2, InitializeStep, InitializeWithoutThreadsStep, SetUpFailsStep, StartStep, StopStep, CallerStep,
     ShutdownStep, ChangeParametersStep, StartPhaseStep DEF Call
<1>3. CASE ReleaseGate \/ CancelElsewhere \/ UNCHANGED vars
  BY <1>3, CallerStep
<1>4. ASSUME NEW w \in Workers, Step(w) PROVE IInv'
  BY <1>4, WorkerReadyStep, WorkerSleepsStep, WorkerExitsStep, WorkerCancelsStep, ClaimStep, PassGateStep,
     ExecuteStep, DeliverFrameResultStep, ReturnTaskStep DEF Step
<1> QED BY <1>1, <1>2, <1>3, <1>4 DEF Next, Done

\* The invariant holds in every state the scheduler reaches.
THEOREM InductiveInvariant == Spec => []IInv
BY InitInvariant, NextInvariant, PTL DEF Spec

\* Every variable keeps its type.
THEOREM TypeCorrect == Spec => []TypeOK
<1>1. IInv => TypeOK
  BY DEF IInv
<1> QED BY <1>1, InductiveInvariant, PTL

\* In a duplicate-free list an element has at most one position.
LEMMA OnePosition ==
  ASSUME NEW t \in Tasks, freeTasks \in Seq(Tasks), IsInjective(freeTasks)
  PROVE  Cardinality({i \in DOMAIN freeTasks : freeTasks[i] = t})
            = IF t \in ToSet(freeTasks) THEN 1 ELSE 0
<1>1. CASE t \in ToSet(freeTasks)
  <2>1. PICK i \in DOMAIN freeTasks : freeTasks[i] = t
    BY <1>1 DEF ToSet
  <2>2. {j \in DOMAIN freeTasks : freeTasks[j] = t} = {i}
    BY <2>1 DEF IsInjective
  <2> QED BY <1>1, <2>2, FS_Singleton
<1>2. CASE t \notin ToSet(freeTasks)
  <2>1. {j \in DOMAIN freeTasks : freeTasks[j] = t} = {}
    BY <1>2 DEF ToSet
  <2> QED BY <1>2, <2>1, FS_EmptySet
<1> QED BY <1>1, <1>2

\* At most one worker holds a task.
LEMMA OneHolder ==
  ASSUME HoldersAreExclusive, NEW t \in Tasks
  PROVE  Cardinality({w \in Workers : Holds(w) /\ worker[w].task = t})
            = IF \E w \in Workers : Holds(w) /\ worker[w].task = t THEN 1 ELSE 0
<1> DEFINE H == {w \in Workers : Holds(w) /\ worker[w].task = t}
<1>1. CASE \E w \in Workers : Holds(w) /\ worker[w].task = t
  <2>1. PICK w \in Workers : Holds(w) /\ worker[w].task = t
    BY <1>1
  <2>2. H = {w}
    BY <2>1 DEF HoldersAreExclusive
  <2> QED BY <1>1, <2>2, FS_Singleton
<1>2. CASE ~ \E w \in Workers : Holds(w) /\ worker[w].task = t
  <2>1. H = {}
    BY <1>2
  <2> QED BY <1>2, <2>1, FS_EmptySet
<1> QED BY <1>1, <1>2

\* Each task is free once or checked out by one worker, and no two workers hold
\* one frame.
LEMMA CheckoutHolds == IInv => TaskCheckout
<1> SUFFICES ASSUME IInv PROVE TaskCheckout
  OBVIOUS
<1>1. ASSUME initialized, NEW t \in Tasks
      PROVE  Cardinality({i \in DOMAIN freeTasks : freeTasks[i] = t})
               + Cardinality({w \in Workers : Holds(w) /\ worker[w].task = t}) = 1
  <2>1. freeTasks \in Seq(Tasks) /\ IsInjective(freeTasks) /\ HoldersAreExclusive
    BY DEF IInv, TypeOK, TasksAreKept
  <2>2. (t \in ToSet(freeTasks)) <=> ~ \E w \in Workers : Holds(w) /\ worker[w].task = t
    BY <1>1 DEF IInv, HoldersAreExclusive, TasksAreKept, SetUpDone
  <2>3. CASE t \in ToSet(freeTasks)
    <3>1. Cardinality({i \in DOMAIN freeTasks : freeTasks[i] = t}) = 1
      BY <2>1, <2>3, OnePosition
    <3>2. Cardinality({w \in Workers : Holds(w) /\ worker[w].task = t}) = 0
      BY <2>1, <2>2, <2>3, OneHolder
    <3> QED BY <3>1, <3>2
  <2>4. CASE t \notin ToSet(freeTasks)
    <3>1. Cardinality({i \in DOMAIN freeTasks : freeTasks[i] = t}) = 0
      BY <2>1, <2>4, OnePosition
    <3>2. Cardinality({w \in Workers : Holds(w) /\ worker[w].task = t}) = 1
      BY <2>1, <2>2, <2>4, OneHolder
    <3> QED BY <3>1, <3>2
  <2> QED BY <2>3, <2>4
<1>2. \A v, w \in Workers : Holds(v) /\ Holds(w) /\ worker[v].frame = worker[w].frame => v = w
  BY DEF IInv, HoldersAreExclusive
<1> QED BY <1>1, <1>2 DEF TaskCheckout

\* Results, task checkout and the counters of a phase tally in every critical
\* section: one result per frame, one owner per task, and inFlight, queue and
\* terminal frames that add up.
THEOREM AccountingHolds == Spec => []SchedulerAccounting
<1>1. IInv => SchedulerAccounting
  BY CheckoutHolds DEF IInv, SchedulerAccounting
<1> QED BY <1>1, InductiveInvariant, PTL

\* waitForPhase cannot return while a worker is behind the phase's gate, and a
\* phase that is over has nothing queued.
THEOREM GatesHold == Spec => []GateOutlivesItsWorkers
<1>1. IInv => GateOutlivesItsWorkers
  BY DEF IInv, GateOutlivesItsWorkers, HoldersAreExclusive, QueueOfPhase
<1> QED BY <1>1, InductiveInvariant, PTL

\* A worker executes a prepared frame under held static data, on a started task
\* with the parameters the graph reports.
THEOREM FencesHold == Spec => []ExecutionsAreFenced
<1>1. IInv => ExecutionsAreFenced
  <2> SUFFICES ASSUME IInv, NEW w \in Workers, worker[w].pc = "Executing"
               PROVE  /\ taskState[worker[w].task] = "Started"
                      /\ applied[worker[w].task] = parameters
                      /\ worker[w].frame \in atoms
                      /\ staticHeld
    BY DEF ExecutionsAreFenced
  <2>1. Holds(w)
    BY DEF Holds, Holding
  <2>2. phaseActive /\ worker[w].task \in Tasks /\ worker[w].frame \in Frames
    BY <2>1 DEF IInv, HoldersAreExclusive
  <2> QED BY <2>2 DEF IInv, PhaseRuns, Lifecycle, SetUpDone
<1> QED BY <1>1, InductiveInvariant, PTL

-----------------------------------------------------------------------------
(* The refinement of GraphContract *)

\* The constructor's state satisfies the parts the refinement adds.
LEMMA InitRInv == Init => RInv
<1> SUFFICES ASSUME Init PROVE RInv
  OBVIOUS
<1>1. FirstSetup /\ Closing
  BY DEF Init, FirstSetup, Closing
<1>2. FailuresAreCancelled
  BY DEF Init, FailuresAreCancelled, At, None
<1> QED BY <1>1, <1>2 DEF RInv

\* A worker record that holds nothing has no result to deliver.
LEMMA IdleRecord ==
  ASSUME NEW pc
  PROVE  At(pc).pc = pc /\ At(pc).ok = FALSE
BY DEF At

\* What the step of a call does to the parts of RInv that workers do not touch.
LEMMA SetupRInv ==
  ASSUME IInv, RInv, [Next]_vars
  PROVE  FirstSetup'
<1>0. FlagTypes
  BY TypeParts DEF IInv, Typed
<1> USE <1>0 DEF FlagTypes, RInv, FirstSetup
<1>1. CASE Initialize \/ InitializeWithoutThreads
  BY <1>1 DEF Initialize, InitializeWithoutThreads, SetUp, MayInitialize
<1>2. CASE SetUpFails \/ InitializeAbandoned \/ InitializeFinishes
  BY <1>2 DEF SetUpFails, MayInitialize, InitializeAbandoned, InitializeFinishes
<1>3. CASE Start \/ Stop
  BY <1>3 DEF Start, Stop, MayStop, IInv, Untouched, Lifecycle
<1>4. CASE Shutdown \/ ShutdownFinishes
  BY <1>4 DEF Shutdown, ShutdownFinishes, IInv, Untouched, SomethingToShutDown
<1>5. CASE WaitForPhase \/ WaitForPhaseChecks \/ ReleaseGate \/ CancelElsewhere \/ Done \/ UNCHANGED vars
  BY <1>5 DEF WaitForPhase, WaitForPhaseChecks, ReleaseGate, CancelElsewhere, Done, vars
<1>6. ASSUME NEW p \in Params, ChangeParameters(p) PROVE FirstSetup'
  BY <1>6 DEF ChangeParameters, NotifyAllTasks, NotifyFails
<1>7. ASSUME NEW p \in Phases, StartPhase(p) PROVE FirstSetup'
  BY <1>7 DEF StartPhase
<1>8. ASSUME NEW w \in Workers, Step(w) PROVE FirstSetup'
  <2>1. CASE WorkerReady(w) \/ WorkerSleeps(w) \/ WorkerExits(w) \/ Claim(w) \/ PassGate(w)
             \/ DeliverFrameResult(w)
    BY <2>1 DEF WorkerReady, WorkerSleeps, WorkerExits, Claim, PassGate, DeliverFrameResult
  <2>2. CASE Execute(w)
    BY <2>2 DEF Execute
  <2>3. CASE WorkerCancels(w)
    BY <2>3 DEF WorkerCancels, FinishPhaseIfComplete, PhaseNotified
  <2>4. CASE ReturnTask(w)
    BY <2>4 DEF ReturnTask, FinishPhaseIfComplete, PhaseNotified
  <2> QED BY <1>8, <2>1, <2>2, <2>3, <2>4 DEF Step
<1> QED BY <1>1, <1>2, <1>3, <1>4, <1>5, <1>6, <1>7, <1>8 DEF Next, Continue, Call

\* Only shutdown starts to join, and until it is done nothing it settled changes.
LEMMA ClosingRInv ==
  ASSUME IInv, RInv, [Next]_vars
  PROVE  Closing'
<1>0. FlagTypes
  BY TypeParts DEF IInv, Typed
<1> USE <1>0 DEF FlagTypes, RInv, Closing
<1>1. CASE Initialize \/ InitializeWithoutThreads \/ SetUpFails \/ InitializeAbandoned \/ InitializeFinishes
           \/ Start \/ Stop \/ ShutdownFinishes \/ WaitForPhase \/ WaitForPhaseChecks
  BY <1>1 DEF Initialize, InitializeWithoutThreads, SetUpFails, MayInitialize, InitializeAbandoned,
              InitializeFinishes, Start, Stop, ShutdownFinishes, WaitForPhase, WaitForPhaseChecks
<1>2. CASE Shutdown
  BY <1>2 DEF Shutdown
<1>3. CASE ReleaseGate \/ CancelElsewhere \/ Done \/ UNCHANGED vars
  BY <1>3 DEF ReleaseGate, CancelElsewhere, Done, vars
<1>4. ASSUME NEW p \in Params, ChangeParameters(p) PROVE Closing'
  BY <1>4 DEF ChangeParameters
<1>5. ASSUME NEW p \in Phases, StartPhase(p) PROVE Closing'
  BY <1>5 DEF StartPhase
<1>6. ASSUME NEW w \in Workers, Step(w) PROVE Closing'
  <2>1. CASE WorkerReady(w) \/ WorkerSleeps(w) \/ WorkerExits(w) \/ Claim(w) \/ PassGate(w)
             \/ DeliverFrameResult(w)
    BY <2>1 DEF WorkerReady, WorkerSleeps, WorkerExits, Claim, PassGate, DeliverFrameResult
  <2>2. CASE Execute(w)
    BY <2>2 DEF Execute
  <2>3. CASE WorkerCancels(w)
    BY <2>3 DEF WorkerCancels, FinishPhaseIfComplete, PhaseNotified
  <2>4. CASE ReturnTask(w)
    BY <2>4 DEF ReturnTask, FinishPhaseIfComplete, PhaseNotified
  <2> QED BY <1>6, <2>1, <2>2, <2>3, <2>4 DEF Step
<1> QED BY <1>1, <1>2, <1>3, <1>4, <1>5, <1>6 DEF Next, Continue, Call

\* A step after which every worker is where it was, notified, or holds nothing.
QuietWorkers ==
    \A w \in Workers : worker'[w] = worker[w] \/ worker'[w].pc \in {None, "Starting", "Parked", "Asleep", "Exited"}

\* A step that delivers nothing and starts no phase adds no failure.
LEMMA QuietFailures ==
  ASSUME IInv, FailuresAreCancelled, QuietWorkers, cancellation => cancellation',
         phaseActive' => phaseActive, phaseSucceeded' = phaseSucceeded, phase' = phase, sink' = sink
  PROVE  FailuresAreCancelled'
BY DEF FailuresAreCancelled, QuietWorkers, None

\* Nothing fails without cancellation, whichever step is taken.
LEMMA FailuresRInv ==
  ASSUME IInv, RInv, [Next]_vars
  PROVE  FailuresAreCancelled'
<1>0. Typed /\ FailuresAreCancelled
  BY TypeParts DEF IInv, RInv
<1>1. CASE \/ Initialize \/ InitializeWithoutThreads \/ SetUpFails \/ InitializeFinishes \/ InitializeAbandoned
           \/ Start \/ Stop \/ WaitForPhase \/ WaitForPhaseChecks \/ ShutdownFinishes
           \/ ReleaseGate \/ CancelElsewhere \/ Done \/ UNCHANGED vars
           \/ \E p \in Params : ChangeParameters(p)
           \/ \E w \in Workers : WorkerReady(w) \/ WorkerSleeps(w) \/ WorkerExits(w)
  <2> USE DEF Initialize, InitializeWithoutThreads, SetUpFails, InitializeFinishes, InitializeAbandoned,
              Start, Stop, WaitForPhase, WaitForPhaseChecks, ShutdownFinishes, ReleaseGate,
              CancelElsewhere, Done, vars, ChangeParameters, WorkerReady, WorkerSleeps, WorkerExits, SetUp,
              NotifyAllTasks, NotifyFails
  <2>1. QuietWorkers
    <3>1. worker' = WorkNotified => QuietWorkers
      BY IdleRecord DEF WorkNotified, QuietWorkers
    <3>2. worker' = worker => QuietWorkers
      BY DEF QuietWorkers
    <3>3. (\A w \in Workers : \E pc \in {None, "Starting"} : worker'[w] = At(pc)) => QuietWorkers
      BY IdleRecord DEF QuietWorkers
    <3>4. (\E w \in Workers, pc \in {"Parked", "Asleep", "Exited"} : worker' = [worker EXCEPT ![w] = At(pc)])
             => QuietWorkers
      BY <1>0, IdleRecord DEF QuietWorkers, Typed, WorkerTypes
    <3> HIDE DEF QuietWorkers
    <3> QED BY <1>1, <3>1, <3>2, <3>3, <3>4
  <2>2. /\ cancellation => cancellation'
        /\ phaseActive' => phaseActive
        /\ phaseSucceeded' = phaseSucceeded /\ phase' = phase /\ sink' = sink
    BY <1>0, <1>1 DEF Typed, FlagTypes
  <2> QED BY <1>0, <2>1, <2>2, QuietFailures
<1>2. CASE Shutdown
  <2>1. phaseActive' => cancellation'
    BY <1>2 DEF Shutdown
  <2>2. worker' = WorkNotified /\ (cancellation => cancellation')
    BY <1>2 DEF Shutdown
  <2> QED BY <1>0, <2>1, <2>2, NotificationKeeps, IdleRecord
          DEF IInv, FailuresAreCancelled, WorkNotified
<1>3. ASSUME NEW p \in Phases, StartPhase(p) PROVE FailuresAreCancelled'
  <2>1. ASSUME NEW f \in Frames, PhaseOf(f) = p PROVE DOMAIN sink[f] = {}
    <3>1. f \in atoms /\ PhaseOf(f) \notin submitted
      BY <1>3, <2>1 DEF IInv, Lifecycle, SetUpDone, StartPhase, MayStartPhase
    <3>2. Len(sink[f]) = 0 /\ sink[f] \in Seq(BOOLEAN)
      BY <1>0, <3>1 DEF IInv, ResultsExactlyOnce, Typed, QueueTypes
    <3> QED BY <3>2
  <2>2. worker' \in {worker, WorkNotified} /\ phaseSucceeded' = TRUE /\ phase' = p /\ sink' = sink
        /\ cancellation' = cancellation
    BY <1>3 DEF StartPhase
  <2>3. \A w \in Workers : worker'[w] = worker[w] \/ worker'[w].pc = "Parked"
    BY <2>2, IdleRecord DEF WorkNotified
  <2> QED BY <1>0, <2>1, <2>2, <2>3 DEF FailuresAreCancelled
<1>4. ASSUME NEW w \in Workers, Step(w),
             ~(WorkerReady(w) \/ WorkerSleeps(w) \/ WorkerExits(w))
      PROVE  FailuresAreCancelled'
  <2>1. CASE WorkerCancels(w)
    BY <1>0, <2>1 DEF WorkerCancels, FailuresAreCancelled
  <2>2. CASE Claim(w)
    <3>1. /\ worker'[w].ok = FALSE /\ worker'[w].pc = "Gate"
          /\ \A v \in Workers \ {w} : worker'[v] = worker[v]
          /\ UNCHANGED <<cancellation, phaseActive, phaseSucceeded, phase, sink>>
      BY <1>0, <2>2 DEF Claim, Typed, WorkerTypes
    <3> QED BY <1>0, <3>1 DEF FailuresAreCancelled
  <2>3. CASE PassGate(w)
    <3>1. /\ worker'[w].pc = (IF cancellation THEN "Deliver" ELSE "Executing")
          /\ worker'[w].ok = worker[w].ok /\ worker[w].pc = "Gate"
          /\ \A v \in Workers \ {w} : worker'[v] = worker[v]
          /\ UNCHANGED <<cancellation, phaseActive, phaseSucceeded, phase, sink>>
      BY <1>0, <2>3 DEF PassGate, Typed, WorkerTypes, WorkerRecords
    <3> QED BY <1>0, <3>1 DEF FailuresAreCancelled
  <2>4. CASE Execute(w)
    <3>1. /\ worker'[w].pc = "Deliver"
          /\ worker'[w].ok \/ cancellation'
          /\ \A v \in Workers \ {w} : worker'[v] = worker[v]
          /\ cancellation => cancellation'
          /\ UNCHANGED <<phaseActive, phaseSucceeded, phase, sink>>
      BY <1>0, <2>4 DEF Execute, Typed, WorkerTypes, WorkerRecords, FlagTypes
    <3> QED BY <1>0, <3>1 DEF FailuresAreCancelled
  <2>5. CASE DeliverFrameResult(w)
    <3>1. /\ worker'[w].pc = "Return" /\ worker[w].pc = "Deliver"
          /\ \A v \in Workers \ {w} : worker'[v] = worker[v]
          /\ UNCHANGED <<cancellation, phaseActive, phaseSucceeded, phase>>
          /\ sink' = [sink EXCEPT ![worker[w].frame] = Append(sink[worker[w].frame], worker[w].ok)]
      BY <1>0, <2>5 DEF DeliverFrameResult, Typed, WorkerTypes, WorkerRecords
    <3>2. worker[w].frame \in Frames /\ worker[w].ok \in BOOLEAN
      BY <1>0, <3>1, HeldFrames DEF Holds, Holding, Typed, WorkerTypes, WorkerRecords
    <3>3. ASSUME NEW f \in Frames, PhaseOf(f) = phase, phaseActive, ~cancellation, NEW i \in DOMAIN sink'[f]
          PROVE  sink'[f][i] = TRUE
      <4>1. \A j \in DOMAIN sink[f] : sink[f][j] = TRUE
        BY <1>0, <3>3 DEF FailuresAreCancelled
      <4>2. worker[w].ok = TRUE
        BY <1>0, <3>1, <3>2, <3>3 DEF FailuresAreCancelled
      <4>3. sink[f] \in Seq(BOOLEAN)
        BY <1>0 DEF Typed, QueueTypes
      <4>4. CASE f = worker[w].frame
        <5>1. sink'[f] = Append(sink[f], TRUE)
          BY <1>0, <3>1, <4>2, <4>4 DEF Typed, QueueTypes
        <5> QED BY <3>3, <4>1, <4>3, <5>1
      <4>5. CASE f # worker[w].frame
        BY <1>0, <3>1, <3>3, <4>1, <4>5 DEF Typed, QueueTypes
      <4> QED BY <4>4, <4>5
    <3> QED BY <1>0, <3>1, <3>3 DEF FailuresAreCancelled
  <2>6. CASE ReturnTask(w)
    <3>1. QuietWorkers
      BY <2>6, IdleRecord DEF ReturnTask, WorkNotified, QuietWorkers
    <3>2. phaseActive' => phaseActive
      BY <1>0, <2>6, FinishTypes DEF ReturnTask
    <3>3. /\ cancellation' = cancellation /\ phase' = phase
          /\ phaseSucceeded' = (phaseSucceeded /\ ~cancellation)
      BY <2>6 DEF ReturnTask, CancelsQueue
    <3>4. ~cancellation => sink' = sink
      <4>1. ~cancellation => sink' = FailedResults({})
        BY <2>6 DEF ReturnTask, CancelsQueue
      <4>2. FailedResults({}) = sink
        BY <1>0 DEF FailedResults, Typed, QueueTypes
      <4> QED BY <4>1, <4>2
    <3> QED BY <1>0, <3>1, <3>2, <3>3, <3>4 DEF FailuresAreCancelled, QuietWorkers, None
  <2> QED BY <1>4, <2>1, <2>2, <2>3, <2>4, <2>5, <2>6 DEF Step
<1> QED BY <1>1, <1>2, <1>3, <1>4 DEF Next, Continue, Call

\* RInv holds in every state the scheduler reaches.
THEOREM RefinementInvariant == Spec => [](IInv /\ RInv)
<1>1. IInv /\ RInv /\ [Next]_vars => RInv'
  BY SetupRInv, ClosingRInv, FailuresRInv DEF RInv
<1> QED BY <1>1, InitInvariant, NextInvariant, InitRInv, PTL DEF Spec

\* What the program that drives the graph sees of a step: a step of GraphContract
\* or nothing.
ContractStep == [Contract!Next]_(Contract!contractVars)

\* The verdict a caller sees.
Verdict == phaseActive \/ phaseSucceeded

\* A frame in execution stays in execution unless a step says otherwise.
LEMMA RunningKept ==
  ASSUME \A w \in Workers : (InExecution(w)' <=> InExecution(w))
                            /\ (InExecution(w) => worker'[w].frame = worker[w].frame)
  PROVE  Running' = Running
BY DEF Running

\* A step the caller does not see.
LEMMA Unseen ==
  ASSUME UNCHANGED <<cancellation, released, Stage, phase, phaseActive, Verdict, Running, sink>>
  PROVE  ContractStep
BY DEF ContractStep, Contract!contractVars, Verdict

\* A step of which the caller sees the cancellation at most.
LEMMA SeenCancel ==
  ASSUME cancellation' = TRUE, UNCHANGED <<released, Stage, phase, phaseActive, Verdict, Running, sink>>
  PROVE  ContractStep
<1>1. Contract!Cancel
  BY DEF Contract!Cancel, Contract!phaseState, Verdict
<1> QED BY <1>1 DEF ContractStep, Contract!Next

\* A gate opens.
LEMMA SeenGate ==
  ASSUME NEW p \in Phases, released' = released \union {p},
         UNCHANGED <<cancellation, Stage, phase, phaseActive, Verdict, Running, sink>>
  PROVE  ContractStep
<1>1. Contract!OpenGate(p)
  BY DEF Contract!OpenGate, Contract!phaseState, Verdict
<1> QED BY <1>1 DEF ContractStep, Contract!Next, Contract!Phases, Phases

\* initialize() returns TRUE.
LEMMA SeenInitialize ==
  ASSUME Stage = "New", Stage' = "Initialized",
         UNCHANGED <<cancellation, released, phase, phaseActive, Verdict, Running, sink>>
  PROVE  ContractStep
<1>1. Contract!Initialize("this")
  BY DEF Contract!Initialize, Contract!Enter, Contract!phaseState, Verdict
<1> QED BY <1>1 DEF ContractStep, Contract!Next

\* initialize() gives up.
LEMMA SeenGiveUp ==
  ASSUME Stage = "New", Stage' = "Closed", cancellation' = TRUE,
         UNCHANGED <<released, phase, phaseActive, Verdict, Running, sink>>
  PROVE  ContractStep
<1>1. Contract!GiveUp("this")
  BY DEF Contract!GiveUp, Contract!Enter, Contract!phaseState, Verdict
<1> QED BY <1>1 DEF ContractStep, Contract!Next

\* start() returns TRUE.
LEMMA SeenStart ==
  ASSUME ~cancellation, Stage = "Initialized", Stage' = "Started",
         UNCHANGED <<cancellation, released, phase, phaseActive, Verdict, Running, sink>>
  PROVE  ContractStep
<1>1. Contract!Start("this")
  BY DEF Contract!Start, Contract!Enter, Contract!phaseState, Verdict
<1> QED BY <1>1 DEF ContractStep, Contract!Next

\* stop() returns TRUE.
LEMMA SeenStop ==
  ASSUME ~phaseActive, Stage = "Started", Stage' = "Stopped",
         UNCHANGED <<cancellation, released, phase, phaseActive, Verdict, Running, sink>>
  PROVE  ContractStep
<1>1. Contract!Stop("this")
  BY DEF Contract!Stop, Contract!Enter, Contract!phaseState, Verdict
<1> QED BY <1>1 DEF ContractStep, Contract!Next

\* startPhase() accepts a phase.
LEMMA SeenStartPhase ==
  ASSUME NEW p \in Phases, Stage = "Started", ~phaseActive, ~cancellation,
         \A f \in atomsForPhase(p) : sink[f] = <<>>,
         phase' = p, phaseActive' = (atomsForPhase(p) # {}), Verdict' = TRUE,
         UNCHANGED <<cancellation, released, Stage, Running, sink>>
  PROVE  ContractStep
<1>1. Contract!FramesOf(p) = atomsForPhase(p) /\ Contract!Frames = Frames /\ atomsForPhase(p) \subseteq Frames
  BY DEF Contract!FramesOf, Contract!Frames, atomsForPhase, Frames
<1>2. Contract!StartPhase("this", p)
  BY <1>1 DEF Contract!StartPhase, Contract!Pending, Verdict
<1> QED BY <1>2 DEF ContractStep, Contract!Next, Contract!Phases, Phases

\* A worker begins to execute a frame.
LEMMA SeenBegin ==
  ASSUME NEW f \in Frames, phase \in Phases, phaseActive, f \in atomsForPhase(phase), sink[f] = <<>>,
         phase \in released, ~cancellation, Running' = Running \cup {f},
         UNCHANGED <<cancellation, released, Stage, phase, phaseActive, Verdict, sink>>
  PROVE  ContractStep
<1>1. Contract!FramesOf(phase) = atomsForPhase(phase) /\ Contract!Frames = Frames
  BY DEF Contract!FramesOf, Contract!Frames, atomsForPhase, Frames
<1>2. Contract!Begin("this", f)
  BY <1>1 DEF Contract!Begin, Contract!Pending, Verdict
<1> QED BY <1>1, <1>2 DEF ContractStep, Contract!Next

\* An execution fails or ends after cancellation.
LEMMA SeenAbort ==
  ASSUME NEW f \in Frames, f \in Running, Running' = Running \ {f}, cancellation' = TRUE,
         UNCHANGED <<released, Stage, phase, phaseActive, Verdict, sink>>
  PROVE  ContractStep
<1>1. Contract!Frames = Frames
  BY DEF Contract!Frames, Frames
<1>2. Contract!Abort("this", f)
  BY DEF Contract!Abort, Verdict
<1> QED BY <1>1, <1>2 DEF ContractStep, Contract!Next

\* A set of results is delivered.
Given(S, ok) == [f \in Frames |-> IF f \in S THEN Append(sink[f], ok) ELSE sink[f]]

\* GraphContract's Give is that, for the one graph.
LEMMA GiveFacts ==
  ASSUME NEW S
  PROVE  /\ Contract!Give("this", S, FALSE) = [g \in {"this"} |-> Given(S, FALSE)]
         /\ Contract!Give("this", S, TRUE) = [g \in {"this"} |-> Given(S, TRUE)]
<1>1. Contract!Frames = Frames
  BY DEF Contract!Frames, Frames
<1> QED BY <1>1 DEF Contract!Give, Given

\* An executed frame is delivered.
LEMMA SeenDeliver ==
  ASSUME NEW f \in Frames, f \in Running, phaseActive, Running' = Running \ {f}, sink' = Given({f}, TRUE),
         UNCHANGED <<cancellation, released, Stage, phase, phaseActive, Verdict>>
  PROVE  ContractStep
<1>1. Contract!Frames = Frames
  BY DEF Contract!Frames, Frames
<1>2. Contract!Give("this", {f}, TRUE) = [g \in {"this"} |-> sink']
  BY GiveFacts
<1>3. Contract!Deliver("this", f)
  BY <1>2 DEF Contract!Deliver, Verdict
<1> QED BY <1>1, <1>3 DEF ContractStep, Contract!Next

\* Frames fail without execution, and the phase may end.
LEMMA SeenAdvance ==
  ASSUME NEW S \in SUBSET Frames, phase \in Phases, phaseActive, phaseActive' \in BOOLEAN, Verdict' \in BOOLEAN,
         \A f \in S : sink[f] = <<>> /\ f \notin Running /\ f \in atomsForPhase(phase) /\ cancellation,
         sink' = Given(S, FALSE),
         ~phaseActive' => \A f \in atomsForPhase(phase) : sink'[f] # <<>>,
         ~phaseActive' /\ Verdict' => \A f \in atomsForPhase(phase) : sink[f] = <<TRUE>>,
         ~phaseActive' /\ ~Verdict' => cancellation,
         UNCHANGED <<cancellation, released, Stage, phase, Running>>
  PROVE  ContractStep
<1>1. Contract!FramesOf(phase) = atomsForPhase(phase) /\ Contract!Frames = Frames
      /\ atomsForPhase(phase) \subseteq Frames
  BY DEF Contract!FramesOf, Contract!Frames, atomsForPhase, Frames
<1>2. Contract!Give("this", S, FALSE) = [g \in {"this"} |-> sink']
  BY GiveFacts
<1>3. S \subseteq Contract!Pending("this") \ Running
  BY <1>1 DEF Contract!Pending
<1>4. PICK over \in BOOLEAN, verdict \in BOOLEAN : phaseActive' = ~over /\ Verdict' = verdict
  OBVIOUS
<1>5. ~over => verdict
  BY <1>4 DEF Verdict
<1>6. Contract!Advance("this", S, over, verdict)
  <2>1. /\ [g \in {"this"} |-> phaseActive'] = [[g \in {"this"} |-> phaseActive] EXCEPT !["this"] = ~over]
        /\ [g \in {"this"} |-> phaseActive' \/ phaseSucceeded']
             = [[g \in {"this"} |-> phaseActive \/ phaseSucceeded] EXCEPT !["this"] = verdict]
    BY <1>4 DEF Verdict
  <2> QED BY <1>1, <1>2, <1>3, <1>4, <1>5, <2>1 DEF Contract!Advance
<1> QED BY <1>1, <1>6 DEF ContractStep, Contract!Next

\* shutdown() of an initialized graph.
LEMMA SeenClose ==
  ASSUME NEW S \in SUBSET Frames, Stage \in {"Initialized", "Started", "Stopped"}, Stage' = "Closing",
         \A f \in S : sink[f] = <<>> /\ f \notin Running,
         sink' = Given(S, FALSE), cancellation' = (cancellation \/ phaseActive),
         released' = IF phaseActive THEN released \union {phase} ELSE released,
         UNCHANGED <<phase, phaseActive, Verdict, Running>>
  PROVE  ContractStep
<1>1. Contract!Frames = Frames
  BY DEF Contract!Frames, Frames
<1>2. Contract!Give("this", S, FALSE) = [g \in {"this"} |-> sink']
  BY GiveFacts
<1>3. S \subseteq Contract!Pending("this") \ Running
  BY <1>1 DEF Contract!Pending
<1>4. Contract!Close("this", S)
  BY <1>1, <1>2, <1>3 DEF Contract!Close, Verdict
<1> QED BY <1>1, <1>4 DEF ContractStep, Contract!Next

\* shutdown() of a graph that never came up.
LEMMA SeenCloseRemains ==
  ASSUME NEW S \in SUBSET Frames, Stage \in {"New", "Closed"}, Stage' = "Closed",
         \A f \in S : sink[f] = <<>>, sink' = Given(S, FALSE),
         UNCHANGED <<cancellation, released, phase, phaseActive, Verdict, Running>>
  PROVE  ContractStep
<1>1. Contract!Frames = Frames
  BY DEF Contract!Frames, Frames
<1>2. Contract!Give("this", S, FALSE) = [g \in {"this"} |-> sink']
  BY GiveFacts
<1>3. S \subseteq Contract!Pending("this")
  BY <1>1 DEF Contract!Pending
<1>4. Contract!CloseRemains("this", S)
  BY <1>1, <1>2, <1>3 DEF Contract!CloseRemains, Verdict
<1> QED BY <1>1, <1>4 DEF ContractStep, Contract!Next

\* shutdown() returns.
LEMMA SeenClosed ==
  ASSUME Stage = "Closing", Stage' = "Closed", \A f \in Frames : sink[f] # <<>>, Running = {},
         phaseActive' = FALSE, Verdict' = (Verdict /\ ~phaseActive),
         UNCHANGED <<cancellation, released, phase, Running, sink>>
  PROVE  ContractStep
<1>1. Contract!Pending("this") = {}
  BY DEF Contract!Pending, Contract!Frames, Frames
<1>2. Contract!Closed("this")
  <2>1. [g \in {"this"} |-> phaseActive' \/ phaseSucceeded']
          = [[g \in {"this"} |-> phaseActive \/ phaseSucceeded]
               EXCEPT !["this"] = (phaseActive \/ phaseSucceeded) /\ ~phaseActive]
    BY DEF Verdict
  <2> QED BY <1>1, <2>1 DEF Contract!Closed, Contract!Enter
<1> QED BY <1>2 DEF ContractStep, Contract!Next

\* The initial state of the graph is the initial state of the contract.
LEMMA InitRefines == Init => Contract!Init
<1> SUFFICES ASSUME Init PROVE Contract!Init
  OBVIOUS
<1>1. Stage = "New"
  BY DEF Init, Stage
<1>2. Running = {}
  BY DEF Init, Running, InExecution, At, None
<1>3. Contract!Frames = Frames
  BY DEF Contract!Frames, Frames
<1> QED BY <1>1, <1>2, <1>3 DEF Init, Contract!Init, None

\* Workers that are left alone, notified, started or joined execute what they
\* executed before.
LEMMA QuietRunning ==
  ASSUME \A w \in Workers : worker'[w] = worker[w] \/ (~InExecution(w) /\ ~InExecution(w)')
  PROVE  Running' = Running
BY RunningKept DEF InExecution

\* A notification starts no execution.
LEMMA NotifiedRunning ==
  ASSUME worker' \in {worker, WorkNotified}
  PROVE  Running' = Running
<1>1. \A w \in Workers : worker'[w] = worker[w] \/ (~InExecution(w) /\ ~InExecution(w)')
  <2>1. \A w \in Workers : worker'[w] = worker[w] \/ (worker[w].pc = "Asleep" /\ worker'[w].pc = "Parked")
    BY IdleRecord DEF WorkNotified
  <2> QED BY <2>1 DEF InExecution
<1> QED BY <1>1, QuietRunning

\* Nor does a worker that holds no frame before and after.
LEMMA IdleRunning ==
  ASSUME Typed, NEW w \in Workers, worker[w].pc \in {"Starting", "Parked"},
         NEW pc \in {"Parked", "Asleep", "Exited"}, worker' = [worker EXCEPT ![w] = At(pc)]
  PROVE  Running' = Running
<1>1. \A v \in Workers : worker'[v] = worker[v] \/ (~InExecution(v) /\ ~InExecution(v)')
  BY IdleRecord DEF InExecution, Typed, WorkerTypes
<1> QED BY <1>1, QuietRunning

\* initialize(), in its steps, as its caller sees it.
LEMMA InitializeRefines ==
  ASSUME IInv, RInv,
         Initialize \/ InitializeWithoutThreads \/ SetUpFails \/ InitializeFinishes \/ InitializeAbandoned
  PROVE  ContractStep
<1>0. Typed
  BY TypeParts DEF IInv
<1>1. CASE Initialize
  <2>1. Running' = Running
    <3>1. \A w \in Workers : ~InExecution(w) /\ ~InExecution(w)'
      BY <1>1, IdleRecord DEF Initialize, MayInitialize, SetUp, IInv, Untouched, InExecution, None
    <3> QED BY <3>1, QuietRunning
  <2>2. Stage' = Stage
    BY <1>1 DEF Initialize, MayInitialize, Stage
  <2> QED BY <1>1, <2>1, <2>2, Unseen DEF Initialize, Verdict
<1>2. CASE InitializeWithoutThreads
  <2>1. Running' = Running
    <3>1. \A w \in Workers : ~InExecution(w) /\ ~InExecution(w)'
      <4>1. \A w \in Workers : worker[w].pc = None /\ worker'[w].pc \in {"Starting", None}
        BY <1>2, IdleRecord DEF InitializeWithoutThreads, MayInitialize, SetUp, IInv, Untouched
      <4> QED BY <4>1 DEF InExecution, None
    <3> QED BY <3>1, QuietRunning
  <2>2. Stage = "New" /\ Stage' = "Closed"
    BY <1>2 DEF InitializeWithoutThreads, MayInitialize, SetUp, RInv, FirstSetup, Stage
  <2> QED BY <1>2, <2>1, <2>2, SeenGiveUp DEF InitializeWithoutThreads, Verdict
<1>3. CASE SetUpFails
  <2>1. Running' = Running
    BY <1>3, NotifiedRunning DEF SetUpFails
  <2>2. Stage' = Stage
    BY <1>3 DEF SetUpFails, MayInitialize, Stage
  <2> QED BY <1>3, <2>1, <2>2, SeenCancel DEF SetUpFails, Verdict
<1>4. CASE InitializeFinishes
  <2>1. Running' = Running
    BY <1>4, NotifiedRunning DEF InitializeFinishes
  <2>2. CASE startupFailed
    <3>1. Stage = "New" /\ Stage' = "Closed"
      BY <1>4, <2>2 DEF InitializeFinishes, RInv, FirstSetup, IInv, Lifecycle, Stage
    <3>2. cancellation' = TRUE
      BY <1>0, <1>4, <2>2 DEF InitializeFinishes, RInv, FirstSetup, Typed, FlagTypes
    <3> QED BY <1>4, <2>1, <3>1, <3>2, SeenGiveUp DEF InitializeFinishes, Verdict
  <2>3. CASE ~startupFailed
    <3>1. Stage = "New" /\ Stage' = "Initialized"
      BY <1>4, <2>3 DEF InitializeFinishes, RInv, FirstSetup, IInv, Lifecycle, Stage
    <3> QED BY <1>4, <2>1, <3>1, SeenInitialize DEF InitializeFinishes, Verdict
  <2> QED BY <2>2, <2>3
<1>5. CASE InitializeAbandoned
  <2>1. Running' = Running
    <3>1. \A w \in Workers : ~InExecution(w) /\ ~InExecution(w)'
      BY <1>5, IdleRecord DEF InitializeAbandoned, WorkersJoined, InExecution, None
    <3> QED BY <3>1, QuietRunning
  <2>2. Stage' = Stage
    BY <1>5 DEF InitializeAbandoned, IInv, Lifecycle, Stage
  <2> QED BY <1>5, <2>1, <2>2, SeenCancel DEF InitializeAbandoned, Verdict
<1> QED BY <1>1, <1>2, <1>3, <1>4, <1>5

\* start(), stop() and changeParameters(), as their caller sees them.
LEMMA CycleRefines ==
  ASSUME IInv, RInv, Start \/ Stop \/ \E p \in Params : ChangeParameters(p)
  PROVE  ContractStep
<1>0. Typed
  BY TypeParts DEF IInv
<1>1. Running' = Running /\ ctl' = ctl /\ ctl = "Idle" /\ initialized' = initialized /\ initialized
      /\ UNCHANGED <<released, phase, phaseActive, Verdict, sink, stopping>>
  BY NotifiedRunning DEF Start, Stop, MayStop, ChangeParameters, Quiescent, Verdict
<1>2. CASE Start
  <2>1. ~cancellation /\ cycle = "New"
    BY <1>2 DEF Start
  <2>2. CASE cancellation' = TRUE /\ cycle' = cycle
    BY <1>1, <2>2, SeenCancel DEF Stage
  <2>3. CASE cycle' = "Started" /\ cancellation' = FALSE
    <3>1. Stage = "Initialized" /\ Stage' = "Started"
      BY <1>1, <2>1, <2>3 DEF Stage
    <3> QED BY <1>0, <1>1, <2>1, <2>3, <3>1, SeenStart DEF Typed, FlagTypes
  <2> QED BY <1>2, <2>2, <2>3 DEF Start
<1>3. CASE Stop
  <2>1. ~phaseActive /\ cycle = "Started"
    BY <1>3 DEF Stop, MayStop
  <2>2. CASE cancellation' = TRUE /\ cycle' = cycle
    BY <1>1, <2>2, SeenCancel DEF Stage
  <2>3. CASE cycle' = "Stopped" /\ cancellation' = cancellation
    <3>1. Stage = "Started" /\ Stage' = "Stopped"
      BY <1>1, <2>1, <2>3 DEF Stage
    <3> QED BY <1>1, <2>1, <2>3, <3>1, SeenStop
  <2> QED BY <1>3, <2>2, <2>3 DEF Stop
<1>4. CASE \E p \in Params : ChangeParameters(p)
  <2>1. Stage' = Stage
    BY <1>1, <1>4 DEF ChangeParameters, Stage
  <2>2. cancellation' = cancellation \/ cancellation' = TRUE
    BY <1>4 DEF ChangeParameters, NotifyAllTasks, NotifyFails
  <2> QED BY <1>1, <2>1, <2>2, SeenCancel, Unseen
<1> QED BY <1>2, <1>3, <1>4

\* startPhase(), waitForPhase() and the gate, as their caller sees them.
LEMMA PhaseRefines ==
  ASSUME IInv, RInv,
         \/ ReleaseGate \/ WaitForPhase \/ WaitForPhaseChecks \/ CancelElsewhere \/ UNCHANGED vars
         \/ \E p \in Phases : StartPhase(p)
  PROVE  ContractStep
<1>0. Typed
  BY TypeParts DEF IInv
<1>1. CASE ReleaseGate
  <2>1. phase \in Phases /\ released' = released \union {phase} /\ Running' = Running /\ Stage' = Stage
        /\ UNCHANGED <<cancellation, phase, phaseActive, Verdict, sink>>
    BY <1>0, <1>1, NotifiedRunning DEF Typed, PhaseTypes, ReleaseGate, Stage, Verdict
  <2> QED BY <2>1, SeenGate
<1>2. CASE WaitForPhase \/ WaitForPhaseChecks
  <2>1. Stage' = Stage
    BY <1>2 DEF WaitForPhase, WaitForPhaseChecks, Stage
  <2> QED BY <1>2, <2>1, NotifiedRunning, Unseen DEF WaitForPhase, WaitForPhaseChecks, Verdict
<1>3. CASE CancelElsewhere
  BY <1>3, NotifiedRunning, SeenCancel DEF CancelElsewhere, Stage, Verdict
<1>4. CASE UNCHANGED vars
  BY <1>4, NotifiedRunning, Unseen DEF vars, Stage, Verdict
<1>5. ASSUME NEW p \in Phases, StartPhase(p) PROVE ContractStep
  <2>1. Running' = Running
    BY <1>5, NotifiedRunning DEF StartPhase
  <2>2. Stage = "Started" /\ Stage' = Stage
    BY <1>5 DEF StartPhase, MayStartPhase, Stage
  <2>3. ASSUME NEW f \in atomsForPhase(p) PROVE sink[f] = <<>>
    <3>1. f \in Frames /\ PhaseOf(f) = p
      BY FrameQueueFacts DEF atomsForPhase
    <3>2. f \in atoms /\ PhaseOf(f) \notin submitted
      BY <1>5, <3>1 DEF IInv, Lifecycle, SetUpDone, StartPhase, MayStartPhase
    <3>3. Len(sink[f]) = 0 /\ sink[f] \in Seq(BOOLEAN)
      BY <1>0, <3>1, <3>2 DEF IInv, ResultsExactlyOnce, Typed, QueueTypes
    <3> QED BY <3>3
  <2>4. Verdict' = TRUE
    BY <1>5 DEF StartPhase, Verdict
  <2> QED BY <1>5, <2>1, <2>2, <2>3, <2>4, SeenStartPhase DEF StartPhase, MayStartPhase
<1> QED BY <1>1, <1>2, <1>3, <1>4, <1>5

\* Cancelled frames are delivered as failed, whoever cancels them.
LEMMA FailedIsGiven == \A S : FailedResults(S) = Given(S, FALSE)
BY DEF FailedResults, Given

\* A frame in execution is held by the worker that executes it.
LEMMA RunningHeld ==
  ASSUME IInv, NEW f \in Running
  PROVE  \E w \in Workers : Undelivered(w) /\ Holds(w) /\ worker[w].frame = f
BY UndeliveredHolds DEF Running, InExecution, Undelivered

\* A queued frame has no result and is not in execution.
LEMMA QueuedFrames ==
  ASSUME IInv, NEW f \in ToSet(readyFrames)
  PROVE  f \in Frames /\ sink[f] = <<>> /\ f \notin Running /\ phaseActive /\ PhaseOf(f) = phase
<1>1. phaseActive /\ f \in Frames /\ PhaseOf(f) = phase
  BY DEF IInv, TypeOK, QueueOfPhase, ToSet
<1>2. f \in atoms
  BY <1>1 DEF IInv, PhaseRuns, Lifecycle, SetUpDone
<1>3. Len(sink[f]) = 0 /\ sink[f] \in Seq(BOOLEAN)
  BY <1>1, <1>2 DEF IInv, TypeOK, ResultsExactlyOnce
<1>4. f \notin Running
  BY RunningHeld, HeldFrames
<1> QED BY <1>1, <1>3, <1>4

\* shutdown(), as its caller sees it.
LEMMA ShutdownRefines ==
  ASSUME IInv, RInv, Shutdown
  PROVE  ContractStep
<1>0. Typed
  BY TypeParts DEF IInv
<1> DEFINE S == ToSet(readyFrames) \cup PreparedFrames
<1>1. S \in SUBSET Frames /\ sink' = Given(S, FALSE)
  <2>1. ~phaseActive => readyFrames = <<>> /\ ToSet(readyFrames) = {}
    BY DEF IInv, QueueOfPhase, ToSet
  <2>2. sink' = FailedResults(S)
    BY <2>1 DEF Shutdown, CancelledFrames
  <2>3. S \in SUBSET Frames
    BY <1>0 DEF Typed, QueueTypes, SetupTypes, ToSet, PreparedFrames
  <2> QED BY <2>2, <2>3, FailedIsGiven
<1>2. ASSUME NEW f \in S PROVE sink[f] = <<>> /\ f \notin Running
  <2>1. CASE f \in ToSet(readyFrames)
    BY <2>1, QueuedFrames
  <2>2. CASE f \in PreparedFrames
    <3>1. f \in Frames /\ f \in atoms /\ PhaseOf(f) \notin submitted
      BY <1>1, <2>2, PreparedFacts DEF IInv
    <3>2. Len(sink[f]) = 0 /\ sink[f] \in Seq(BOOLEAN)
      BY <3>1 DEF IInv, TypeOK, ResultsExactlyOnce
    <3>3. f \notin Running
      BY <3>1, RunningHeld, HeldFrames
    <3> QED BY <3>2, <3>3
  <2> QED BY <1>2, <2>1, <2>2
<1>3. Running' = Running
  BY NotifiedRunning DEF Shutdown
<1>4. phase' = phase /\ phaseActive' = phaseActive /\ Verdict' = Verdict
  BY <1>0 DEF Shutdown, Verdict, Typed, FlagTypes
<1>5. CASE initialized
  <2>1. Stage \in {"Initialized", "Started", "Stopped"} /\ Stage' = "Closing"
    BY <1>0, <1>5 DEF Shutdown, Stage, Typed, FlagTypes
  <2>2. released' = IF phaseActive THEN released \union {phase} ELSE released
    BY <1>0 DEF Shutdown, GatesAfterShutdown, IInv, PhaseRuns, Typed, PhaseTypes, Phases, None
  <2>3. cancellation' = (cancellation \/ phaseActive)
    BY DEF Shutdown
  <2> QED BY <1>1, <1>2, <1>3, <1>4, <2>1, <2>2, <2>3, SeenClose
<1>6. CASE ~initialized
  <2>1. ~phaseActive
    BY <1>6 DEF IInv, PhaseRuns
  <2>2. Stage \in {"New", "Closed"} /\ Stage' = "Closed"
    BY <1>6 DEF Shutdown, Stage
  <2>3. cancellation' = cancellation /\ released' = released
    BY <1>0, <2>1 DEF Shutdown, GatesAfterShutdown, Typed, FlagTypes
  <2> QED BY <1>1, <1>2, <1>3, <1>4, <2>2, <2>3, SeenCloseRemains
<1> QED BY <1>5, <1>6

\* A frame with one result has that one.
LEMMA ShortResults ==
  ASSUME NEW s \in Seq(BOOLEAN)
  PROVE  /\ Len(s) = 1 => s # <<>> /\ s = <<s[1]>> /\ 1 \in DOMAIN s
         /\ s # <<>> /\ Len(s) <= 1 => Len(s) = 1
<1>1. PICK B : s \in Seq(B)
  BY Zenon
<1>2. /\ Len(s) \in Nat /\ DOMAIN s = 1..Len(s)
      /\ s = <<>> <=> Len(s) = 0
      /\ Len(s) = 1 => s = <<s[1]>>
  BY <1>1, ShortSequences, Zenon
<1>3. /\ Len(s) = 1 => Len(s) # 0 /\ 1 \in 1..Len(s)
      /\ Len(s) # 0 /\ Len(s) <= 1 => Len(s) = 1
  BY <1>2
<1> QED BY <1>2, <1>3, Zenon

\* The end of shutdown(), as its caller sees it: every frame has its result.
LEMMA ShutdownFinishesRefines ==
  ASSUME IInv, RInv, ShutdownFinishes
  PROVE  ContractStep
<1>0. Typed
  BY TypeParts DEF IInv
<1>1. \A w \in Workers : ~InExecution(w) /\ ~InExecution(w)' /\ ~Undelivered(w)
  BY IdleRecord DEF ShutdownFinishes, WorkersJoined, InExecution, Undelivered, None
<1>2. Running = {} /\ Running' = Running
  BY <1>1 DEF Running
<1>3. stopping /\ submitted = Phases /\ (phaseActive => ~phaseSucceeded) /\ readyFrames = <<>>
  BY DEF ShutdownFinishes, RInv, Closing, IInv, QueueOfPhase
<1>4. /\ ~initialized' /\ ctl = "Joining" /\ stopping' = stopping /\ phaseActive' = FALSE
      /\ UNCHANGED <<cancellation, released, phase, sink, phaseSucceeded>>
  BY DEF ShutdownFinishes
<1>5. Stage' = "Closed"
  BY <1>3, <1>4 DEF Stage
<1>6. CASE initialized
  <2>1. Stage = "Closing"
    BY <1>4, <1>6 DEF Stage
  <2>2. ASSUME NEW f \in Frames PROVE sink[f] # <<>>
    <3>1. f \in atoms /\ PhaseOf(f) \in submitted /\ f \notin ToSet(readyFrames)
      BY <1>3, <1>6 DEF IInv, Lifecycle, SetUpDone, PhaseOf, Phases, ToSet
    <3>2. Len(sink[f]) = 1 /\ sink[f] \in Seq(BOOLEAN)
      BY <1>0, <1>1, <3>1 DEF IInv, ResultsExactlyOnce, Typed, QueueTypes
    <3> QED BY <3>2, ShortResults, Zenon
  <2>3. Verdict' = (Verdict /\ ~phaseActive)
    BY <1>0, <1>3, <1>4 DEF Verdict, Typed, FlagTypes
  <2> QED BY <1>2, <1>4, <1>5, <2>1, <2>2, <2>3, SeenClosed
<1>7. CASE ~initialized
  <2>1. Stage = "Closed"
    BY <1>3, <1>7 DEF Stage
  <2>2. phaseActive' = phaseActive /\ Verdict' = Verdict
    BY <1>0, <1>4, <1>7 DEF IInv, PhaseRuns, Verdict, Typed, FlagTypes
  <2> QED BY <1>2, <1>4, <1>5, <2>1, <2>2, Unseen
<1> QED BY <1>6, <1>7

\* A worker's frame has no result until the worker delivers it.
LEMMA UndeliveredFrame ==
  ASSUME IInv, NEW w \in Workers, Undelivered(w)
  PROVE  /\ worker[w].frame \in Frames /\ sink[worker[w].frame] = <<>>
         /\ phaseActive /\ phase \in Phases /\ worker[w].frame \in atomsForPhase(phase)
<1>1. /\ phaseActive /\ phase \in submitted /\ atoms = Frames
      /\ worker[w].frame \in Frames /\ PhaseOf(worker[w].frame) = phase
  BY UndeliveredHolds, HeldFrames
<1>2. phase \in Phases
  BY <1>1 DEF IInv, TypeOK
<1>3. Len(sink[worker[w].frame]) = 0 /\ sink[worker[w].frame] \in Seq(BOOLEAN)
  BY <1>1 DEF IInv, TypeOK, ResultsExactlyOnce
<1> QED BY <1>1, <1>2, <1>3, FrameQueueFacts

\* Where a worker that waits, leaves or claims is, is not seen.
LEMMA IdleStepRefines ==
  ASSUME IInv, RInv, NEW w \in Workers, WorkerReady(w) \/ WorkerSleeps(w) \/ WorkerExits(w) \/ Claim(w)
  PROVE  ContractStep
<1>0. Typed
  BY TypeParts DEF IInv
<1>1. Running' = Running
  <2>1. CASE Claim(w)
    <3>1. \A v \in Workers : worker'[v] = worker[v] \/ (~InExecution(v) /\ ~InExecution(v)')
      BY <1>0, <2>1 DEF Claim, InExecution, Typed, WorkerTypes
    <3> QED BY <3>1, QuietRunning
  <2>2. CASE WorkerReady(w) \/ WorkerSleeps(w) \/ WorkerExits(w)
    <3>1. worker[w].pc \in {"Starting", "Parked"}
          /\ \E pc \in {"Parked", "Asleep", "Exited"} : worker' = [worker EXCEPT ![w] = At(pc)]
      BY <2>2 DEF WorkerReady, WorkerSleeps, WorkerExits
    <3> QED BY <1>0, <3>1, IdleRunning
  <2> QED BY <2>1, <2>2
<1>2. /\ UNCHANGED <<released, phase, phaseActive, Verdict, sink, Stage>>
      /\ cancellation' = cancellation \/ cancellation' = TRUE
  BY DEF WorkerReady, WorkerSleeps, WorkerExits, Claim, Verdict, Stage
<1> QED BY <1>1, <1>2, SeenCancel, Unseen

\* A worker passes the gate: its frame begins, or is not executed.
LEMMA PassGateRefines ==
  ASSUME IInv, RInv, NEW w \in Workers, PassGate(w)
  PROVE  ContractStep
<1>0. Typed
  BY TypeParts DEF IInv
<1>1. /\ worker[w].pc = "Gate" /\ worker[w].gate \in released
      /\ worker'[w].pc = (IF cancellation THEN "Deliver" ELSE "Executing")
      /\ worker'[w].ok = worker[w].ok /\ worker'[w].frame = worker[w].frame
      /\ \A v \in Workers \ {w} : worker'[v] = worker[v]
      /\ UNCHANGED <<cancellation, released, phase, phaseActive, Verdict, sink, Stage>>
  BY <1>0 DEF PassGate, Typed, WorkerTypes, WorkerRecords, Verdict, Stage
<1>2. Undelivered(w) /\ worker[w].ok = FALSE
  BY <1>1 DEF Undelivered, RInv, FailuresAreCancelled
<1>3. CASE cancellation
  <2>1. \A v \in Workers : worker'[v] = worker[v] \/ (~InExecution(v) /\ ~InExecution(v)')
    BY <1>1, <1>2, <1>3 DEF InExecution
  <2> QED BY <1>1, <2>1, QuietRunning, Unseen
<1>4. CASE ~cancellation
  <2>1. PICK f \in Frames : f = worker[w].frame
    BY <1>2, UndeliveredFrame
  <2>2. sink[f] = <<>> /\ phaseActive /\ phase \in Phases /\ f \in atomsForPhase(phase)
    BY <1>2, <2>1, UndeliveredFrame
  <2>3. phase \in released
    BY <1>1, <1>2, UndeliveredHolds DEF IInv, HoldersAreExclusive, PhaseRuns
  <2>4. InExecution(w)' /\ ~InExecution(w) /\ \A v \in Workers \ {w} : InExecution(v)' = InExecution(v)
    BY <1>1, <1>4 DEF InExecution
  <2>5. Running' = Running \cup {f}
    BY <1>1, <2>1, <2>4 DEF Running
  <2> QED BY <1>1, <1>4, <2>2, <2>3, <2>5, SeenBegin
<1> QED BY <1>3, <1>4

\* An execution ends: nothing is seen until delivery, or the frame is aborted.
LEMMA ExecuteRefines ==
  ASSUME IInv, RInv, NEW w \in Workers, Execute(w)
  PROVE  ContractStep
<1>0. Typed
  BY TypeParts DEF IInv
<1>1. PICK succeeded \in BOOLEAN :
         /\ cancellation' = (cancellation \/ ~succeeded)
         /\ worker' = [worker EXCEPT ![w].pc = "Deliver", ![w].ok = succeeded /\ ~cancellation]
  BY DEF Execute
<1>2. /\ worker[w].pc = "Executing"
      /\ worker'[w].pc = "Deliver" /\ worker'[w].frame = worker[w].frame
      /\ worker'[w].ok = (succeeded /\ ~cancellation)
      /\ \A v \in Workers \ {w} : worker'[v] = worker[v]
      /\ UNCHANGED <<released, phase, phaseActive, Verdict, sink, Stage>>
  BY <1>0, <1>1 DEF Execute, Typed, WorkerTypes, WorkerRecords, Verdict, Stage
<1>3. CASE succeeded /\ ~cancellation
  <2>1. \A v \in Workers : (InExecution(v)' <=> InExecution(v))
                           /\ (InExecution(v) => worker'[v].frame = worker[v].frame)
    BY <1>2, <1>3 DEF InExecution
  <2>2. cancellation' = cancellation
    BY <1>0, <1>1, <1>3 DEF Typed, FlagTypes
  <2> QED BY <1>2, <2>1, <2>2, RunningKept, Unseen
<1>4. CASE ~(succeeded /\ ~cancellation)
  <2>1. Undelivered(w) /\ Holds(w)
    BY <1>2 DEF Undelivered, Holds, Holding
  <2>2. PICK f \in Frames : f = worker[w].frame
    BY <2>1, UndeliveredFrame
  <2>3. InExecution(w) /\ ~InExecution(w)' /\ \A v \in Workers \ {w} : InExecution(v)' = InExecution(v)
    BY <1>2, <1>4 DEF InExecution
  <2>4. ASSUME NEW v \in Workers \ {w}, InExecution(v) PROVE worker[v].frame # f
    <3>1. Holds(v)
      BY <2>4 DEF InExecution, Holds, Holding
    <3> QED BY <2>1, <2>2, <3>1 DEF IInv, HoldersAreExclusive
  <2>5. f \in Running /\ Running' = Running \ {f}
    BY <1>2, <2>2, <2>3, <2>4 DEF Running
  <2>6. cancellation' = TRUE
    BY <1>0, <1>1, <1>4 DEF Typed, FlagTypes
  <2> QED BY <1>2, <2>5, <2>6, SeenAbort
<1> QED BY <1>3, <1>4

\* A result is delivered: of an executed frame, or of one that failed.
LEMMA DeliverRefines ==
  ASSUME IInv, RInv, NEW w \in Workers, DeliverFrameResult(w)
  PROVE  ContractStep
<1>0. Typed
  BY TypeParts DEF IInv
<1>1. /\ worker[w].pc = "Deliver" /\ worker'[w].pc = "Return"
      /\ \A v \in Workers \ {w} : worker'[v] = worker[v]
      /\ UNCHANGED <<cancellation, released, phase, phaseActive, Verdict, Stage>>
  BY <1>0 DEF DeliverFrameResult, Typed, WorkerTypes, WorkerRecords, Verdict, Stage
<1>2. Undelivered(w) /\ Holds(w) /\ worker[w].ok \in BOOLEAN
  BY <1>0, <1>1 DEF Undelivered, Holds, Holding, Typed, WorkerTypes, WorkerRecords
<1>3. PICK f \in Frames : f = worker[w].frame
  BY <1>2, UndeliveredFrame
<1>4. sink[f] = <<>> /\ phaseActive /\ phase \in Phases /\ f \in atomsForPhase(phase)
  BY <1>2, <1>3, UndeliveredFrame
<1>5. ASSUME NEW v \in Workers \ {w}, InExecution(v) PROVE worker[v].frame # f
  <2>1. Holds(v)
    BY <1>5 DEF InExecution, Holds, Holding
  <2> QED BY <1>2, <1>3, <2>1 DEF IInv, HoldersAreExclusive
<1>6. ~InExecution(w)' /\ \A v \in Workers \ {w} : InExecution(v)' = InExecution(v)
  BY <1>1 DEF InExecution
<1>7. sink' = [sink EXCEPT ![f] = Append(sink[f], worker[w].ok)]
  BY <1>3 DEF DeliverFrameResult
<1>8. CASE worker[w].ok = TRUE
  <2>1. InExecution(w)
    BY <1>1, <1>8 DEF InExecution
  <2>2. f \in Running /\ Running' = Running \ {f}
    BY <1>1, <1>3, <1>5, <1>6, <2>1 DEF Running
  <2>3. sink' = Given({f}, TRUE)
    BY <1>0, <1>7, <1>8 DEF Given, Typed, QueueTypes
  <2> QED BY <1>1, <1>4, <2>2, <2>3, SeenDeliver
<1>9. CASE worker[w].ok = FALSE
  <2>1. ~InExecution(w)
    BY <1>1, <1>9 DEF InExecution
  <2>2. f \notin Running
    BY <1>5, <2>1 DEF Running
  <2>3. Running' = Running
    BY <1>1, <1>6, <2>1, RunningKept
  <2>4. sink' = Given({f}, FALSE)
    BY <1>0, <1>7, <1>9 DEF Given, Typed, QueueTypes
  <2>5. cancellation
    BY <1>1, <1>9 DEF RInv, FailuresAreCancelled
  <2>6. phaseActive' \in BOOLEAN /\ Verdict' \in BOOLEAN /\ phaseActive'
    BY <1>0, <1>1, <1>4 DEF Typed, FlagTypes, Verdict
  <2>7. {f} \in SUBSET Frames
        /\ \A h \in {f} : sink[h] = <<>> /\ h \notin Running /\ h \in atomsForPhase(phase) /\ cancellation
    BY <1>4, <2>2, <2>5
  <2> QED BY <1>1, <1>4, <2>3, <2>4, <2>6, <2>7, SeenAdvance
<1> QED BY <1>2, <1>8, <1>9

\* A phase that ends has a result for each of its frames.
LEMMA EndedPhase ==
  ASSUME IInv', atoms' = Frames, phase' \in submitted', phase' \in Phases, readyFrames' = <<>>,
         \A w \in Workers : ~Undelivered(w)', NEW f \in atomsForPhase(phase')
  PROVE  sink'[f] # <<>>
<1>1. f \in Frames /\ PhaseOf(f) = phase'
  BY FrameQueueFacts DEF atomsForPhase
<1>2. f \notin ToSet(readyFrames')
  BY DEF ToSet
<1>3. Len(sink'[f]) = 1 /\ sink'[f] \in Seq(BOOLEAN)
  BY <1>1, <1>2 DEF IInv, TypeOK, ResultsExactlyOnce
<1> QED BY <1>3, ShortResults, Zenon

\* A worker that cancels the queue fails its frames, and may end the phase.
LEMMA WorkerCancelsRefines ==
  ASSUME IInv, RInv, NEW w \in Workers, WorkerCancels(w)
  PROVE  ContractStep
<1>0. Typed /\ IInv'
  BY TypeParts, WorkerCancelsStep DEF IInv
<1> DEFINE S == ToSet(readyFrames)
<1>1. /\ phaseActive /\ cancellation /\ sink' = Given(S, FALSE)
      /\ readyFrames' = <<>>
      /\ FinishPhaseIfComplete(<<>>, inFlight, phaseTerminal')
      /\ phaseSucceeded' = FALSE
      /\ UNCHANGED <<cancellation, released, submitted, phase, worker, initialized, stopping, cycle, atoms>>
  BY FailedIsGiven DEF WorkerCancels, CancelledFrames
<1>2. phaseActive' \in BOOLEAN /\ Verdict' \in BOOLEAN /\ (ctl' = "Joining" <=> ctl = "Joining")
  BY <1>0, <1>1, FinishTypes DEF Verdict
<1>3. Stage' = Stage /\ Running' = Running
  BY <1>1, <1>2, NotifiedRunning DEF Stage
<1>4. phase \in submitted /\ phase \in Phases /\ atoms = Frames
  BY <1>0, <1>1 DEF IInv, PhaseRuns, Lifecycle, SetUpDone, Typed, PhaseTypes
<1>5. S \in SUBSET Frames
      /\ \A f \in S : sink[f] = <<>> /\ f \notin Running /\ f \in atomsForPhase(phase) /\ cancellation
  BY <1>1, <1>4, QueuedFrames, FrameQueueFacts
<1>6. ASSUME ~phaseActive', NEW f \in atomsForPhase(phase) PROVE sink'[f] # <<>>
  <2>1. inFlight = 0
    BY <1>0, <1>1, <1>6, FinishFacts DEF Typed, FlagTypes
  <2>2. \A v \in Workers : ~Undelivered(v)'
    BY <1>1, <2>1, NoneInFlight, UndeliveredHolds DEF Undelivered
  <2> QED BY <1>0, <1>1, <1>4, <1>6, <2>2, EndedPhase
<1>7. ~phaseActive' => ~Verdict'
  BY <1>1 DEF Verdict
<1> QED BY <1>1, <1>2, <1>3, <1>4, <1>5, <1>6, <1>7, SeenAdvance

\* A worker returns its task: it may cancel the queue, and may end the phase.
LEMMA ReturnTaskRefines ==
  ASSUME IInv, RInv, NEW w \in Workers, ReturnTask(w)
  PROVE  ContractStep
<1>0. Typed /\ IInv'
  BY TypeParts, ReturnTaskStep DEF IInv
<1> DEFINE S == IF cancellation THEN ToSet(readyFrames) ELSE {}
           ready == IF cancellation THEN <<>> ELSE readyFrames
<1>1. /\ worker[w].pc = "Return" /\ sink' = Given(S, FALSE) /\ readyFrames' = ready
      /\ FinishPhaseIfComplete(ready, inFlight', phaseTerminal')
      /\ phaseSucceeded' = (phaseSucceeded /\ ~cancellation)
      /\ worker' = [WorkNotified EXCEPT ![w] = At("Parked")]
      /\ UNCHANGED <<cancellation, released, submitted, phase, initialized, stopping, cycle, atoms>>
  BY FailedIsGiven DEF ReturnTask, CancelsQueue, CancelledFrames
<1>2. Holds(w) /\ phaseActive /\ phase \in submitted /\ phase \in Phases /\ atoms = Frames
  <2>1. Holds(w)
    BY <1>1 DEF Holds, Holding
  <2> QED BY <1>0, <2>1, HeldFrames DEF Typed, PhaseTypes
<1>3. phaseActive' \in BOOLEAN /\ Verdict' \in BOOLEAN /\ (ctl' = "Joining" <=> ctl = "Joining")
  BY <1>0, <1>1, FinishTypes DEF Verdict
<1>4. Stage' = Stage
  BY <1>1, <1>3 DEF Stage
<1>5. Running' = Running
  <2>1. \A v \in Workers : \/ worker'[v] = worker[v]
                           \/ worker[v].pc \in {"Asleep", "Return"} /\ worker'[v].pc = "Parked"
    BY <1>1, IdleRecord DEF WorkNotified
  <2>2. \A v \in Workers : worker'[v] = worker[v] \/ (~InExecution(v) /\ ~InExecution(v)')
    BY <2>1 DEF InExecution
  <2> QED BY <2>2, QuietRunning
<1>6. S \in SUBSET Frames
      /\ \A f \in S : sink[f] = <<>> /\ f \notin Running /\ f \in atomsForPhase(phase) /\ cancellation
  BY <1>2, QueuedFrames, FrameQueueFacts
<1>7. ASSUME ~phaseActive' PROVE readyFrames' = <<>> /\ \A v \in Workers : ~Undelivered(v)'
  <2>1. readyFrames' = <<>> /\ \A v \in Workers : ~Holds(v)'
    BY <1>0, <1>7 DEF IInv, QueueOfPhase, HoldersAreExclusive
  <2> QED BY <2>1 DEF Undelivered, Holds, Holding
<1>8. ASSUME ~phaseActive', NEW f \in atomsForPhase(phase) PROVE sink'[f] # <<>>
  BY <1>0, <1>1, <1>2, <1>7, <1>8, EndedPhase
<1>9. ASSUME ~phaseActive', Verdict', NEW f \in atomsForPhase(phase) PROVE sink[f] = <<TRUE>>
  <2>1. ~cancellation /\ sink' = sink
    <3>1. ~cancellation
      BY <1>0, <1>1, <1>9 DEF Verdict, Typed, FlagTypes
    <3>2. sink' = Given({}, FALSE)
      BY <1>1, <3>1
    <3> QED BY <1>0, <3>1, <3>2 DEF Given, Typed, QueueTypes
  <2>2. f \in Frames /\ PhaseOf(f) = phase
    BY <1>2, FrameQueueFacts DEF atomsForPhase
  <2>3. \A i \in DOMAIN sink[f] : sink[f][i] = TRUE
    BY <1>2, <2>1, <2>2 DEF RInv, FailuresAreCancelled
  <2>4. sink[f] # <<>> /\ sink[f] \in Seq(BOOLEAN) /\ Len(sink[f]) <= 1
    BY <1>0, <1>8, <1>9, <2>1, <2>2 DEF IInv, TypeOK, ResultsExactlyOnce
  <2>5. Len(sink[f]) = 1
    BY <2>4, ShortResults, Zenon
  <2>6. sink[f] = <<sink[f][1]>> /\ 1 \in DOMAIN sink[f]
    BY <2>4, <2>5, ShortResults, Zenon
  <2> QED BY <2>3, <2>6
<1>10. ~phaseActive' /\ ~Verdict' => cancellation
  BY <1>1, <1>2 DEF Verdict, RInv, FailuresAreCancelled
<1> HIDE DEF S, ready
<1> QED BY <1>1, <1>2, <1>3, <1>4, <1>5, <1>6, <1>8, <1>9, <1>10, SeenAdvance

\* Every step of the scheduler is a step of the contract or unseen.
LEMMA NextRefines == IInv /\ RInv /\ [Next]_vars => ContractStep
<1> SUFFICES ASSUME IInv, RInv, [Next]_vars PROVE ContractStep
  OBVIOUS
<1>1. CASE Continue
  BY <1>1, InitializeRefines, PhaseRefines, ShutdownFinishesRefines DEF Continue
<1>2. CASE Call
  BY <1>2, InitializeRefines, CycleRefines, PhaseRefines, ShutdownRefines DEF Call
<1>3. CASE ReleaseGate \/ CancelElsewhere \/ UNCHANGED vars
  BY <1>3, PhaseRefines
<1>4. ASSUME NEW w \in Workers, Step(w) PROVE ContractStep
  BY <1>4, IdleStepRefines, WorkerCancelsRefines, PassGateRefines, ExecuteRefines, DeliverRefines,
     ReturnTaskRefines DEF Step
<1> QED BY <1>1, <1>2, <1>3, <1>4 DEF Next, Done

\* A graph copy implements the contract main() relies on: gates fence
\* executions, each frame gets one result, and a phase or a shutdown ends only
\* when no frame is left without one.
THEOREM GraphImplementsContract == Spec => ImplementsContract
BY InitRefines, NextRefines, RefinementInvariant, PTL DEF Spec, ImplementsContract, Contract!Spec, ContractStep

=============================================================================
