------------------------------ MODULE DummyGraph ------------------------------
(***************************************************************************)
(* The frame scheduler of one graph copy (demo/Grape/DummyGraph.cpp): a    *)
(* controlling thread drives initialize, start, changeParameters,          *)
(* startPhase, waitForPhase, stop and shutdown; worker threads claim a     *)
(* ready frame together with a free task, wait for the phase's gate,       *)
(* execute, deliver one result and return the task.  cancellation is the   *)
(* flag all graph copies of the process share: any of them may raise it,   *)
(* without notifying this graph's condition variables.                     *)
(*                                                                         *)
(* Every public method holds schedulerLock from its checks to its end, and *)
(* is one action; so is every critical section of workerLoop and of        *)
(* shutdown.  Between them a worker is at the gate, executing, about to    *)
(* deliver or about to return its task.  A waiting thread is "Asleep"      *)
(* until a notification makes it test its predicate again.                 *)
(***************************************************************************)
EXTENDS Integers, Sequences, SequencesExt, FiniteSets

CONSTANTS Workers,       \* the threads of the pool (config.graphThreads of them)
          TaskCount,     \* DummyTask instances
          WarmupCount,   \* frames of the two phases
          TimedCount,
          Params,        \* values of the two registered parameters, as one
          MaxRevision    \* bound on parameter changes

ASSUME SizesAssumption ==
    TaskCount \in Nat \ {0} /\ WarmupCount \in Nat /\ TimedCount \in Nat /\ MaxRevision \in Nat
ASSUME PoolAssumption == IsFiniteSet(Workers) /\ Workers # {} /\ Params # {}

Tasks == 1..TaskCount
Frames == 1..(WarmupCount + TimedCount)
Phases == {"Warmup", "Timed"}
None == "None"

\* Frame ids are handed out in order, warmup frames first.
atomsForPhase(p) == {f \in Frames : (f <= WarmupCount) = (p = "Warmup")}

FrameQueue(p) == IF p = "Warmup" THEN [i \in 1..WarmupCount |-> i]
                                 ELSE [i \in 1..TimedCount |-> WarmupCount + i]

VARIABLES
    cancellation,     \* the process-wide flag
    ctl,              \* where the controlling thread is
    initialized, stopping, startupFailed,
    cycle,            \* executionCycleStarted / executionCycleStopped: "New", "Started", "Stopped"
    atoms,            \* the frames prepared and not yet cleared
    staticHeld,       \* staticData still owns something
    taskState,        \* lifecycle of each DummyTask, "Absent" when not in the vector
    readyFrames, freeTasks,
    phaseGate,        \* the phase whose gate workers pass, or None
    released,         \* phases whose gate is open
    submitted,        \* warmupSubmitted, timedSubmitted
    phase,            \* history: the phase startPhase accepted last
    phaseActive, phaseSucceeded, phaseTotal, phaseTerminal, inFlight, lastMaxInFlight,
    worker,           \* each worker: where it is, and the frame, task, gate and result it holds
    sink,             \* the results GraphSink received, per frame
    sealed, registry, revision,   \* ParameterRegistry
    parameters,       \* config.parameters
    applied           \* per task, the parameters its algorithms run with

lifecycleVars == <<initialized, stopping, startupFailed, cycle>>
resourceVars == <<atoms, staticHeld, taskState>>
gateVars == <<phaseGate, released>>
phaseVars == <<submitted, phase, phaseActive, phaseSucceeded, phaseTotal, phaseTerminal>>
flightVars == <<inFlight, lastMaxInFlight>>
poolVars == <<readyFrames, freeTasks>>
parameterVars == <<sealed, registry, revision, parameters, applied>>
vars == <<cancellation, ctl, lifecycleVars, resourceVars, gateVars, phaseVars, flightVars,
          poolVars, worker, sink, parameterVars>>

\* A worker's record while it holds no frame.
At(pc) == [pc |-> pc, frame |-> 0, task |-> 0, gate |-> None, ok |-> FALSE]
Holding == {"Gate", "Executing", "Deliver", "Return"}
Holds(w) == worker[w].pc \in Holding

Init ==
    /\ cancellation = FALSE /\ ctl = "Idle"
    /\ initialized = FALSE /\ stopping = FALSE /\ startupFailed = FALSE /\ cycle = "New"
    /\ atoms = {} /\ staticHeld = FALSE /\ taskState = [t \in Tasks |-> "Absent"]
    /\ phaseGate = None /\ released = {}
    /\ submitted = {} /\ phase = None
    /\ phaseActive = FALSE /\ phaseSucceeded = TRUE /\ phaseTotal = 0 /\ phaseTerminal = 0
    /\ inFlight = 0 /\ lastMaxInFlight = 0
    /\ readyFrames = <<>> /\ freeTasks = <<>>
    /\ worker = [w \in Workers |-> At(None)]
    /\ sink = [f \in Frames |-> <<>>]
    /\ sealed = FALSE /\ revision = 0
    /\ parameters \in Params /\ registry = parameters
    /\ applied = [t \in Tasks |-> parameters]

-----------------------------------------------------------------------------
(* Notification and the helpers that run under schedulerLock.              *)

\* workCondition.notify_all().
WorkNotified == [w \in Workers |-> IF worker[w].pc = "Asleep" THEN At("Parked") ELSE worker[w]]

\* phaseCondition.notify_all().
PhaseNotified == IF ctl = "Asleep" THEN "Waiting" ELSE ctl

\* deliverFrameResult of a failed result for every frame of S.
FailedResults(S) == [f \in Frames |-> IF f \in S THEN Append(sink[f], FALSE) ELSE sink[f]]

\* What cancelReadyFramesLocked delivers, and adds to phaseTerminal.
CancelledFrames == ToSet(readyFrames)

\* Mutant: a cancelled frame is not a terminal one.
CancelledUncounted == 0
CancelledCount == Len(readyFrames)

\* Mutant: the submitted flags are not consulted.
PreparedRegardless == atoms

\* What cancelPreparedFramesLocked delivers: every frame of a phase that was
\* never submitted.
PreparedFrames == UNION {atomsForPhase(p) \cap atoms : p \in Phases \ submitted}

\* Mutant: an empty queue is taken for a finished phase.
QueueDrained(ready, flying, terminal) == phaseActive /\ ready = <<>>

\* The test of finishPhaseIfCompleteLocked, on the values it finds.
PhaseComplete(ready, flying, terminal) ==
    phaseActive /\ ready = <<>> /\ flying = 0 /\ terminal = phaseTotal

\* finishPhaseIfCompleteLocked.
FinishPhaseIfComplete(ready, flying, terminal) ==
    LET done == PhaseComplete(ready, flying, terminal)
    IN  /\ phaseActive' = (phaseActive /\ ~done)
        /\ phaseGate' = IF done THEN None ELSE phaseGate
        /\ ctl' = IF done THEN PhaseNotified ELSE ctl

-----------------------------------------------------------------------------
(* initialize().                                                           *)

\* unloadOnNumaNode: the tasks are stopped if a cycle is running, static data
\* is released, and atoms and tasks are dropped whatever failed.  A thread
\* that cannot be pinned never runs the callback: NotUnloaded.
Unloaded(staticReleased) ==
    /\ cycle' = IF cycle = "Started" THEN "Stopped" ELSE cycle
    /\ staticHeld' = (staticHeld /\ ~staticReleased)
    /\ atoms' = {} /\ submitted' = {}
    /\ taskState' = [t \in Tasks |-> "Absent"]
NotUnloaded == UNCHANGED <<cycle, staticHeld, atoms, submitted, taskState>>
UnloadOnNumaNode == (\E r \in BOOLEAN : Unloaded(r)) \/ NotUnloaded

MayInitialize == ctl = "Idle" /\ ~initialized /\ ~cancellation

\* initializeOnNumaNode succeeded: every task is registered and loaded with the
\* sealed parameters, every frame prepared, static data ready.
SetUp ==
    /\ ~sealed
    /\ sealed' = TRUE
    /\ atoms' = Frames /\ staticHeld' = TRUE
    /\ taskState' = [t \in Tasks |-> "Loaded"]
    /\ applied' = [t \in Tasks |-> registry]
    /\ freeTasks' = [t \in Tasks |-> t]
    /\ UNCHANGED <<registry, revision, parameters>>

\* The setup succeeds and every worker thread is created.
Initialize ==
    /\ MayInitialize
    /\ SetUp
    /\ worker' = [w \in Workers |-> At("Starting")]
    /\ ctl' = "Starting"
    /\ UNCHANGED <<cancellation, lifecycleVars, gateVars, phaseVars, flightVars, readyFrames, sink>>

\* std::thread throws: only some workers exist, and initialize gives up.
InitializeWithoutThreads ==
    /\ MayInitialize
    /\ SetUp
    /\ \E S \in SUBSET Workers :
          S # Workers /\ worker' = [w \in Workers |-> At(IF w \in S THEN "Starting" ELSE None)]
    /\ cancellation' = TRUE /\ stopping' = TRUE
    /\ ctl' = "Abandoning"
    /\ UNCHANGED <<initialized, startupFailed, cycle, gateVars, phaseVars, flightVars, readyFrames, sink>>

\* The setup fails.  A sealed registry refuses the first task already; a first
\* setup fails part-way, and what it built (tasks, a prefix of the frames, then
\* static data) is unloaded or, when the unloading thread cannot be pinned,
\* stays for shutdown.
SetUpFails ==
    /\ MayInitialize
    /\ cancellation' = TRUE
    /\ \/ sealed /\ UnloadOnNumaNode /\ UNCHANGED sealed
       \/ /\ ~sealed /\ sealed' \in BOOLEAN
          /\ \/ atoms' = {} /\ UNCHANGED taskState
             \/ /\ taskState' = [t \in Tasks |-> "Failed"]
                /\ \E n \in 0..(WarmupCount + TimedCount) : atoms' = 1..n
          /\ staticHeld' \in BOOLEAN
          /\ UNCHANGED <<cycle, submitted>>
    /\ UNCHANGED <<ctl, initialized, stopping, startupFailed, gateVars, phase, phaseActive,
                   phaseSucceeded, phaseTotal, phaseTerminal, flightVars, poolVars, worker, sink,
                   registry, revision, parameters, applied>>

\* The head of workerLoop: the thread reports whether it was pinned.
WorkerReady(w) ==
    /\ worker[w].pc = "Starting"
    /\ \/ /\ worker' = [worker EXCEPT ![w] = At("Parked")]
          /\ UNCHANGED <<startupFailed, cancellation>>
       \/ /\ worker' = [worker EXCEPT ![w] = At("Exited")]
          /\ startupFailed' = TRUE /\ cancellation' = TRUE
    /\ UNCHANGED <<ctl, initialized, stopping, cycle, resourceVars, gateVars, phaseVars, flightVars,
                   poolVars, sink, parameterVars>>

\* readyWorkers has reached graphThreads.
InitializeFinishes ==
    /\ ctl = "Starting"
    /\ \A w \in Workers : worker[w].pc # "Starting"
    /\ \/ /\ startupFailed
          /\ stopping' = TRUE /\ worker' = WorkNotified /\ ctl' = "Abandoning"
          /\ UNCHANGED initialized
       \/ /\ ~startupFailed
          /\ initialized' = TRUE /\ ctl' = "Idle"
          /\ UNCHANGED <<stopping, worker>>
    /\ UNCHANGED <<cancellation, startupFailed, cycle, resourceVars, gateVars, phaseVars, flightVars,
                   poolVars, sink, parameterVars>>

WorkersJoined == \A w \in Workers : worker[w].pc \in {None, "Exited"}

\* A failed startup joins the workers and unloads.
InitializeAbandoned ==
    /\ ctl = "Abandoning"
    /\ WorkersJoined
    /\ worker' = [w \in Workers |-> At(None)]
    /\ cancellation' = TRUE
    /\ UnloadOnNumaNode
    /\ ctl' = "Idle"
    /\ UNCHANGED <<initialized, stopping, startupFailed, gateVars, phase, phaseActive, phaseSucceeded,
                   phaseTotal, phaseTerminal, flightVars, poolVars, sink, parameterVars>>

-----------------------------------------------------------------------------
(* start(), changeParameters(), stop().                                    *)

\* A task that is not Loaded refuses start; the ones started before it are
\* stopped again.
FirstRefusing == {t \in Tasks : taskState[t] # "Loaded" /\ \A u \in 1..(t - 1) : taskState[u] = "Loaded"}
StartedTasks ==
    IF FirstRefusing = {} THEN [t \in Tasks |-> "Started"]
    ELSE [t \in Tasks |-> IF \E r \in FirstRefusing : t < r THEN "Stopped" ELSE taskState[t]]

Start ==
    /\ ctl = "Idle" /\ initialized /\ cycle = "New" /\ ~phaseActive /\ ~stopping /\ ~cancellation
    /\ \/ /\ taskState' = StartedTasks
          /\ cycle' = IF FirstRefusing = {} THEN "Started" ELSE cycle
          /\ cancellation' = (FirstRefusing # {})
       \/ /\ cancellation' = TRUE            \* the callback could not run
          /\ UNCHANGED <<taskState, cycle>>
    /\ UNCHANGED <<ctl, initialized, stopping, startupFailed, atoms, staticHeld, gateVars, phaseVars,
                   flightVars, poolVars, worker, sink, parameterVars>>

Notifiable == {"Loaded", "Started", "Stopped"}

\* The condition under which changeParameters may touch the registry.
Quiescent ==
    initialized /\ ~phaseActive /\ inFlight = 0 /\ ~stopping /\ ~cancellation /\ sealed

\* notifyParametersOnNumaNode: the tasks take the new snapshot in order; the
\* first that cannot is Failed, and the ones after it keep the old one.
NotifyAllTasks(p) ==
    /\ \A t \in Tasks : taskState[t] \in Notifiable
    /\ applied' = [t \in Tasks |-> p]
    /\ parameters' = p
    /\ UNCHANGED <<taskState, cancellation>>
NotifyFails(p) ==
    /\ \/ \E k \in Tasks :
             /\ \A t \in 1..(k - 1) : taskState[t] \in Notifiable
             /\ applied' = [t \in Tasks |-> IF t < k THEN p ELSE applied[t]]
             /\ taskState' = [taskState EXCEPT ![k] = "Failed"]
       \/ UNCHANGED <<applied, taskState>>   \* the callback could not run
    /\ cancellation' = TRUE
    /\ UNCHANGED parameters

ChangeParameters(p) ==
    /\ ctl = "Idle" /\ Quiescent
    /\ p # parameters /\ p # registry
    /\ revision < MaxRevision
    /\ registry' = p /\ revision' = revision + 1
    /\ NotifyAllTasks(p) \/ NotifyFails(p)
    /\ UNCHANGED <<ctl, lifecycleVars, atoms, staticHeld, gateVars, phaseVars, flightVars, poolVars,
                   worker, sink, sealed>>

\* Mutant: an active phase with nothing in flight may be stopped.
MayStopPhase == initialized /\ cycle = "Started" /\ inFlight = 0 /\ ~stopping

MayStop ==
    /\ initialized /\ cycle = "Started" /\ ~phaseActive /\ inFlight = 0 /\ ~stopping

\* stopOnNumaNode.
StoppedTasks == [t \in Tasks |-> IF taskState[t] = "Started" THEN "Stopped" ELSE taskState[t]]

Stop ==
    /\ ctl = "Idle" /\ MayStop
    /\ \/ /\ taskState' = StoppedTasks
          /\ \/ (\A t \in Tasks : StoppedTasks[t] = "Stopped") /\ cycle' = "Stopped" /\ UNCHANGED cancellation
             \/ (\E t \in Tasks : StoppedTasks[t] # "Stopped") /\ cancellation' = TRUE /\ UNCHANGED cycle
       \/ /\ cancellation' = TRUE            \* the callback could not run
          /\ UNCHANGED <<taskState, cycle>>
    /\ UNCHANGED <<ctl, initialized, stopping, startupFailed, atoms, staticHeld, gateVars, phaseVars,
                   flightVars, poolVars, worker, sink, parameterVars>>

-----------------------------------------------------------------------------
(* startPhase(), waitForPhase(), and the gate.                             *)

MayStartPhase(p) ==
    /\ initialized /\ cycle = "Started" /\ ~phaseActive /\ ~stopping /\ ~cancellation
    /\ p \notin submitted

\* (Running out of memory here only raises cancellation: CancelElsewhere.)
StartPhase(p) ==
    /\ ctl = "Idle" /\ MayStartPhase(p)
    /\ readyFrames' = FrameQueue(p)
    /\ submitted' = submitted \union {p} /\ phase' = p
    /\ phaseGate' = p
    /\ phaseTotal' = Cardinality(atomsForPhase(p)) /\ phaseTerminal' = 0
    /\ inFlight' = 0 /\ lastMaxInFlight' = 0
    /\ phaseSucceeded' = TRUE
    /\ phaseActive' = (atomsForPhase(p) # {})
    /\ worker' = IF phaseActive' THEN WorkNotified ELSE worker
    /\ UNCHANGED <<cancellation, ctl, lifecycleVars, resourceVars, released, freeTasks, sink, parameterVars>>

\* The caller opens the gate it passed to startPhase.
ReleaseGate ==
    /\ phase # None /\ phase \notin released
    /\ released' = released \union {phase}
    /\ UNCHANGED <<cancellation, ctl, lifecycleVars, resourceVars, phaseGate, phaseVars, flightVars,
                   poolVars, worker, sink, parameterVars>>

WaitForPhase ==
    /\ ctl = "Idle" /\ initialized
    /\ ctl' = "Waiting"
    /\ UNCHANGED <<cancellation, lifecycleVars, resourceVars, gateVars, phaseVars, flightVars, poolVars,
                   worker, sink, parameterVars>>

\* The predicate of the wait: sleep, or return.
WaitForPhaseChecks ==
    /\ ctl = "Waiting"
    /\ ctl' = IF phaseActive THEN "Asleep" ELSE "Idle"
    /\ UNCHANGED <<cancellation, lifecycleVars, resourceVars, gateVars, phaseVars, flightVars, poolVars,
                   worker, sink, parameterVars>>

-----------------------------------------------------------------------------
(* shutdown().                                                             *)

SomethingToShutDown ==
    initialized \/ atoms # {} \/ staticHeld \/ \E t \in Tasks : taskState[t] # "Absent"

\* Mutant: the caller's gate is left alone.
GatesUntouched == released

\* The gate a running phase may have workers behind is opened.
GatesAfterShutdown == IF phaseActive /\ phaseGate # None THEN released \union {phaseGate} ELSE released

Shutdown ==
    /\ ctl = "Idle" /\ SomethingToShutDown
    /\ stopping' = TRUE
    /\ cancellation' = (cancellation \/ phaseActive)
    /\ released' = GatesAfterShutdown
    /\ LET cancelled == IF phaseActive THEN CancelledFrames ELSE {}
       IN  /\ sink' = FailedResults(cancelled \union PreparedFrames)
           /\ phaseTerminal' = phaseTerminal + (IF phaseActive THEN CancelledCount ELSE 0)
    /\ readyFrames' = IF phaseActive THEN <<>> ELSE readyFrames
    /\ phaseSucceeded' = (phaseSucceeded /\ ~phaseActive)
    /\ submitted' = Phases
    /\ worker' = WorkNotified
    /\ ctl' = "Joining"
    /\ UNCHANGED <<initialized, startupFailed, cycle, resourceVars, phaseGate, phase, phaseActive,
                   phaseTotal, flightVars, freeTasks, parameterVars>>

\* Every worker is joined, everything is unloaded, and the scheduler's state
\* is cleared.
ShutdownFinishes ==
    /\ ctl = "Joining"
    /\ WorkersJoined
    /\ worker' = [w \in Workers |-> At(None)]
    /\ \/ \E r \in BOOLEAN : Unloaded(r)
       \/ /\ cycle' = IF cycle = "Started" THEN "New" ELSE cycle
          /\ UNCHANGED <<staticHeld, atoms, submitted, taskState>>
    /\ initialized' = FALSE
    /\ readyFrames' = <<>> /\ freeTasks' = <<>>
    /\ phaseGate' = None /\ phaseActive' = FALSE
    /\ ctl' = "Idle"
    /\ UNCHANGED <<cancellation, stopping, startupFailed, released, phase, phaseSucceeded, phaseTotal,
                   phaseTerminal, flightVars, sink, parameterVars>>

-----------------------------------------------------------------------------
(* workerLoop().                                                           *)

WorkAvailable ==
    stopping \/ (phaseActive /\ (cancellation \/ (readyFrames # <<>> /\ freeTasks # <<>>)))

WorkerSleeps(w) ==
    /\ worker[w].pc = "Parked" /\ ~WorkAvailable
    /\ worker' = [worker EXCEPT ![w] = At("Asleep")]
    /\ UNCHANGED <<cancellation, ctl, lifecycleVars, resourceVars, gateVars, phaseVars, flightVars,
                   poolVars, sink, parameterVars>>

WorkerExits(w) ==
    /\ worker[w].pc = "Parked" /\ stopping
    /\ worker' = [worker EXCEPT ![w] = At("Exited")]
    /\ UNCHANGED <<cancellation, ctl, lifecycleVars, resourceVars, gateVars, phaseVars, flightVars,
                   poolVars, sink, parameterVars>>

\* A worker that finds cancellation cancels what is queued and looks again.
WorkerCancels(w) ==
    /\ worker[w].pc = "Parked" /\ ~stopping /\ phaseActive /\ cancellation
    /\ sink' = FailedResults(CancelledFrames)
    /\ readyFrames' = <<>>
    /\ phaseTerminal' = phaseTerminal + CancelledCount
    /\ phaseSucceeded' = FALSE
    /\ FinishPhaseIfComplete(<<>>, inFlight, phaseTerminal')
    /\ UNCHANGED <<cancellation, lifecycleVars, resourceVars, released, submitted, phase, phaseTotal,
                   flightVars, freeTasks, worker, parameterVars>>

\* The task popped from freeTasks belongs to this worker until it returns it.
FreeAfterClaim == Front(freeTasks)

Claim(w) ==
    /\ worker[w].pc = "Parked" /\ ~stopping /\ phaseActive /\ ~cancellation
    /\ readyFrames # <<>> /\ freeTasks # <<>>
    /\ worker' = [worker EXCEPT ![w] = [pc |-> "Gate", frame |-> Head(readyFrames),
                                        task |-> Last(freeTasks), gate |-> phaseGate, ok |-> FALSE]]
    /\ readyFrames' = Tail(readyFrames) /\ freeTasks' = FreeAfterClaim
    /\ inFlight' = inFlight + 1
    /\ lastMaxInFlight' = IF inFlight' > lastMaxInFlight THEN inFlight' ELSE lastMaxInFlight
    /\ UNCHANGED <<cancellation, ctl, lifecycleVars, resourceVars, gateVars, phaseVars, sink, parameterVars>>

\* gate->wait() returns; a cancelled frame is not executed.
PassGate(w) ==
    /\ worker[w].pc = "Gate" /\ worker[w].gate \in released
    /\ worker' = [worker EXCEPT ![w].pc = IF cancellation THEN "Deliver" ELSE "Executing"]
    /\ UNCHANGED <<cancellation, ctl, lifecycleVars, resourceVars, gateVars, phaseVars, flightVars,
                   poolVars, sink, parameterVars>>

\* staticData.execute() && task->execute() ends: a failure raises cancellation,
\* and a frame that ends after cancellation is a failed one.
Execute(w) ==
    /\ worker[w].pc = "Executing"
    /\ \E succeeded \in BOOLEAN :
          /\ cancellation' = (cancellation \/ ~succeeded)
          /\ worker' = [worker EXCEPT ![w].pc = "Deliver", ![w].ok = succeeded /\ ~cancellation]
    /\ UNCHANGED <<ctl, lifecycleVars, resourceVars, gateVars, phaseVars, flightVars, poolVars, sink,
                   parameterVars>>

DeliverFrameResult(w) ==
    /\ worker[w].pc = "Deliver"
    /\ sink' = [sink EXCEPT ![worker[w].frame] = Append(@, worker[w].ok)]
    /\ worker' = [worker EXCEPT ![w].pc = "Return"]
    /\ UNCHANGED <<cancellation, ctl, lifecycleVars, resourceVars, gateVars, phaseVars, flightVars,
                   poolVars, parameterVars>>

\* Mutant: the verdict is changed only when something is queued.
CancelsNonEmptyQueue == cancellation /\ readyFrames # <<>>

\* The queue after a worker's last critical section: a failed frame, or
\* cancellation seen only now, cancels what is queued.
CancelsQueue == cancellation

ReturnTask(w) ==
    /\ worker[w].pc = "Return"
    /\ freeTasks' = Append(freeTasks, worker[w].task)
    /\ inFlight' = inFlight - 1
    /\ LET cancelled == IF CancelsQueue THEN CancelledFrames ELSE {}
           ready == IF CancelsQueue THEN <<>> ELSE readyFrames
       IN  /\ sink' = FailedResults(cancelled)
           /\ readyFrames' = ready
           /\ phaseTerminal' = phaseTerminal + 1 + (IF CancelsQueue THEN CancelledCount ELSE 0)
           /\ phaseSucceeded' = (phaseSucceeded /\ ~CancelsQueue)
           /\ FinishPhaseIfComplete(ready, inFlight', phaseTerminal')
    /\ worker' = [WorkNotified EXCEPT ![w] = At("Parked")]
    /\ UNCHANGED <<cancellation, lifecycleVars, resourceVars, released, submitted, phase, phaseTotal,
                   lastMaxInFlight, parameterVars>>

-----------------------------------------------------------------------------
\* Another graph copy, or the caller, raises the shared flag.
CancelElsewhere ==
    /\ ~cancellation
    /\ cancellation' = TRUE
    /\ UNCHANGED <<ctl, lifecycleVars, resourceVars, gateVars, phaseVars, flightVars, poolVars, worker,
                   sink, parameterVars>>

Step(w) ==
    \/ WorkerReady(w) \/ WorkerSleeps(w) \/ WorkerExits(w) \/ WorkerCancels(w) \/ Claim(w)
    \/ PassGate(w) \/ Execute(w) \/ DeliverFrameResult(w) \/ ReturnTask(w)

\* The controlling thread inside a call, as opposed to between two calls.
Continue == InitializeFinishes \/ InitializeAbandoned \/ WaitForPhaseChecks \/ ShutdownFinishes

Call ==
    \/ Initialize \/ InitializeWithoutThreads \/ SetUpFails
    \/ Start \/ Stop \/ WaitForPhase \/ Shutdown
    \/ \E p \in Params : ChangeParameters(p)
    \/ \E p \in Phases : StartPhase(p)

\* Without it a graph that has been shut down would be a deadlock.
Done == ctl = "Idle" /\ ~SomethingToShutDown /\ cancellation /\ phase \in released \union {None} /\ UNCHANGED vars

Next == Continue \/ Call \/ ReleaseGate \/ CancelElsewhere \/ (\E w \in Workers : Step(w)) \/ Done

Spec == Init /\ [][Next]_vars

\* Threads inside a call are scheduled, and executions end; nobody is obliged
\* to make a call, to open a gate or to cancel.
Fairness == WF_vars(Continue) /\ \A w \in Workers : WF_vars(Step(w))
FairSpec == Spec /\ Fairness

-----------------------------------------------------------------------------
(* Properties.                                                             *)

TypeOK ==
    /\ cancellation \in BOOLEAN /\ initialized \in BOOLEAN /\ stopping \in BOOLEAN
    /\ startupFailed \in BOOLEAN /\ staticHeld \in BOOLEAN /\ sealed \in BOOLEAN
    /\ phaseActive \in BOOLEAN /\ phaseSucceeded \in BOOLEAN
    /\ ctl \in {"Idle", "Starting", "Abandoning", "Waiting", "Asleep", "Joining"}
    /\ cycle \in {"New", "Started", "Stopped"}
    /\ atoms \subseteq Frames
    /\ taskState \in [Tasks -> {"Absent", "Loaded", "Started", "Stopped", "Failed"}]
    /\ readyFrames \in Seq(Frames) /\ freeTasks \in Seq(Tasks)
    /\ phaseGate \in Phases \union {None} /\ phase \in Phases \union {None}
    /\ released \subseteq Phases /\ submitted \subseteq Phases
    /\ phaseTotal \in Nat /\ phaseTerminal \in Nat /\ inFlight \in Nat /\ lastMaxInFlight \in Nat
    /\ worker \in [Workers -> [pc : {None, "Starting", "Parked", "Asleep", "Exited"} \union Holding,
                               frame : Frames \union {0}, task : Tasks \union {0},
                               gate : Phases \union {None}, ok : BOOLEAN]]
    /\ sink \in [Frames -> Seq(BOOLEAN)]
    /\ registry \in Params /\ revision \in Nat /\ parameters \in Params
    /\ applied \in [Tasks -> Params]

PhaseOf(f) == IF f <= WarmupCount THEN "Warmup" ELSE "Timed"
Undelivered(w) == worker[w].pc \in {"Gate", "Executing", "Deliver"}

\* A prepared frame has one result if its phase was submitted or cancelled and it
\* is neither queued nor with a worker that has yet to deliver, and none
\* otherwise; no frame ever has two, whichever of the three cancelling paths
\* (a worker, a failed frame, shutdown) met it (cancelReadyFramesLocked,
\* cancelPreparedFramesLocked, deliverFrameResult).
ResultsExactlyOnce ==
    \A f \in Frames :
        LET waiting == \/ PhaseOf(f) \notin submitted
                       \/ f \in ToSet(readyFrames)
                       \/ \E w \in Workers : Undelivered(w) /\ worker[w].frame = f
        IN  /\ f \in atoms => Len(sink[f]) = IF waiting THEN 0 ELSE 1
            /\ Len(sink[f]) <= 1

\* While the graph is initialized every task is in freeTasks once or checked out
\* by one worker, never both, and two workers never hold one frame: execute() has
\* its task's stream and buffers to itself.
TaskCheckout ==
    /\ initialized =>
          \A t \in Tasks :
              Cardinality({i \in DOMAIN freeTasks : freeTasks[i] = t})
                + Cardinality({w \in Workers : Holds(w) /\ worker[w].task = t}) = 1
    /\ \A v, w \in Workers : Holds(v) /\ Holds(w) /\ worker[v].frame = worker[w].frame => v = w

\* The counters finishPhaseIfCompleteLocked decides on: inFlight is the number of
\* workers with a frame, queued, in-flight and terminal frames add up to the
\* phase, and the concurrency reported to callers never exceeds the tasks.
PhaseAccounting ==
    /\ inFlight = Cardinality({w \in Workers : Holds(w)})
    /\ phaseActive => phaseTotal = phaseTerminal + Len(readyFrames) + inFlight
    /\ inFlight <= lastMaxInFlight /\ lastMaxInFlight <= TaskCount

\* Tasks, frames, results and counters tally in every critical section of the
\* scheduler, whatever path a frame takes.
SchedulerAccounting == ResultsExactlyOnce /\ TaskCheckout /\ PhaseAccounting

\* A worker with a frame keeps the phase active, so waitForPhase cannot return
\* and its caller cannot destroy the gate the worker waits on; nothing of a phase
\* is left queued when the phase is over.
GateOutlivesItsWorkers ==
    /\ \A w \in Workers : Holds(w) => phaseActive /\ worker[w].gate = phaseGate
    /\ ~phaseActive => readyFrames = <<>>

\* Whatever start, stop, changeParameters, shutdown and their failures do, a
\* worker executes a prepared frame, under held static data, on a started task
\* that runs with the parameters the graph reports.
ExecutionsAreFenced ==
    \A w \in Workers : worker[w].pc = "Executing" =>
        /\ taskState[worker[w].task] = "Started"
        /\ applied[worker[w].task] = parameters
        /\ worker[w].frame \in atoms
        /\ staticHeld

\* The graph as the program that drives it sees it: the phase's verdict counts
\* once the phase is over, and a frame is running from the gate until its
\* execution fails or its result is delivered.
Stage ==
    CASE ~initialized -> IF stopping THEN "Closed" ELSE "New"
      [] initialized /\ ctl = "Joining" -> "Closing"
      [] OTHER -> IF cycle = "New" THEN "Initialized" ELSE cycle
InExecution(w) == worker[w].pc = "Executing" \/ (worker[w].pc = "Deliver" /\ worker[w].ok)
Running == {worker[w].frame : w \in {v \in Workers : InExecution(v)}}
Contract == INSTANCE GraphContract
    WITH Graphs <- {"this"}, gates <- released,
         stage <- [g \in {"this"} |-> Stage],
         phase <- [g \in {"this"} |-> phase],
         active <- [g \in {"this"} |-> phaseActive],
         succeeded <- [g \in {"this"} |-> phaseActive \/ phaseSucceeded],
         running <- [g \in {"this"} |-> Running],
         results <- [g \in {"this"} |-> sink]

\* A graph copy keeps the contract main() relies on: a frame begins to execute
\* only behind its phase's gate and before cancellation, no frame gets two
\* results, a phase ends only when all its frames have theirs and succeeds only
\* if all of them did, and a graph that shuts down has forgotten no frame,
\* whichever of the cancelling paths (a worker, a failed frame, another graph
\* copy, shutdown) meets it.
ImplementsContract == Contract!Spec

\* A phase whose gate is open ends: no frame waits for a sleeping worker, even
\* when another graph copy raises cancellation without notifying this one.
PhaseEnds == (phaseActive /\ phase \in released) ~> ~phaseActive

\* initialize and shutdown return, shutdown even if the caller never opens the
\* gate, and so does waitForPhase once the gate is open.
CallsReturn ==
    (ctl \in {"Starting", "Abandoning", "Joining"} \/ (ctl \in {"Waiting", "Asleep"} /\ phase \in released))
        ~> ctl = "Idle"
===============================================================================
