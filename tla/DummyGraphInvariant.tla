------------------------- MODULE DummyGraphInvariant -------------------------
(***************************************************************************)
(* The inductive invariant of DummyGraph.  The counters and results of a   *)
(* phase are right only together: a frame gets one result because it is    *)
(* queued once or held by one worker, a phase ends late enough because     *)
(* inFlight counts the workers that hold a frame, and an execution meets   *)
(* started tasks because nothing that stops them runs beside a phase.      *)
(***************************************************************************)
EXTENDS DummyGraph

\* Before the first setup, and as long as nothing was cancelled, nothing exists.
Untouched ==
    ~sealed /\ ~cancellation =>
        /\ ctl = "Idle" /\ ~initialized /\ ~staticHeld
        /\ atoms = {} /\ submitted = {} /\ phase = None /\ registry = parameters
        /\ taskState = [t \in Tasks |-> "Absent"]
        /\ sink = [f \in Frames |-> <<>>]
        /\ worker = [w \in Workers |-> At(None)]

\* The graph is set up and owns its frames, tasks and static data.
SetUpDone == initialized \/ ctl = "Starting"

\* What is set up stays until shutdown unloads it, and until something fails
\* the tasks run with the parameters the graph reports and follow its cycle.
Lifecycle ==
    /\ ctl \in {"Starting", "Abandoning"} => ~initialized
    /\ cycle = "Started" => initialized
    /\ SetUpDone => sealed /\ atoms = Frames /\ staticHeld
    /\ SetUpDone /\ ~cancellation => applied = [t \in Tasks |-> parameters]
    /\ initialized /\ cycle = "Started" /\ ~cancellation => \A t \in Tasks : taskState[t] = "Started"

\* A phase runs on an initialized, started graph.
PhaseRuns ==
    phaseActive =>
        /\ initialized /\ cycle = "Started"
        /\ phase \in submitted /\ phaseGate = phase
        /\ \A t \in Tasks : taskState[t] = "Started" /\ applied[t] = parameters

\* Queued frames are frames of the active phase, each queued once; shutdown
\* leaves none queued.
QueueOfPhase ==
    /\ IsInjective(readyFrames)
    /\ \A f \in ToSet(readyFrames) : PhaseOf(f) = phase
    /\ ~phaseActive \/ ctl = "Joining" => readyFrames = <<>>

\* What a worker with a frame holds is its own: the frame is not queued, the
\* task is not free, and no other worker holds either.
HoldersAreExclusive ==
    /\ \A w \in Workers : Holds(w) =>
          /\ phaseActive /\ worker[w].gate = phaseGate
          /\ worker[w].frame \in Frames /\ PhaseOf(worker[w].frame) = phase
          /\ worker[w].frame \notin ToSet(readyFrames)
          /\ worker[w].task \in Tasks /\ worker[w].task \notin ToSet(freeTasks)
    /\ \A v, w \in Workers : Holds(v) /\ Holds(w) /\ v # w =>
          worker[v].frame # worker[w].frame /\ worker[v].task # worker[w].task

\* No task is lost: it is free, or a worker holds it.
TasksAreKept ==
    /\ IsInjective(freeTasks)
    /\ SetUpDone =>
          /\ \A t \in Tasks : t \in ToSet(freeTasks) \/ \E w \in Workers : Holds(w) /\ worker[w].task = t
          /\ Len(freeTasks) + inFlight = TaskCount

IInv ==
    /\ TypeOK
    /\ Untouched
    /\ Lifecycle
    /\ PhaseRuns
    /\ QueueOfPhase
    /\ HoldersAreExclusive
    /\ TasksAreKept
    /\ PhaseAccounting
    /\ ResultsExactlyOnce

-----------------------------------------------------------------------------
(* What the refinement of GraphContract needs besides.                     *)

\* The first setup is the only one that gets anywhere, and a worker that is
\* not pinned cancels.
FirstSetup ==
    /\ ~sealed /\ ~cancellation => ~stopping /\ cycle = "New"
    /\ ctl = "Starting" => ~stopping /\ cycle = "New"
    /\ startupFailed => cancellation

\* A shutdown that waits for its workers has given every frame that was never
\* submitted its result, and failed the phase it interrupted.
Closing ==
    ctl = "Joining" => stopping /\ submitted = Phases /\ (phaseActive => ~phaseSucceeded)

\* Nothing fails without cancellation: not the verdict of a running phase, not
\* a frame on its way to the sink, not a result of the phase.
FailuresAreCancelled ==
    /\ phaseActive /\ ~phaseSucceeded => cancellation
    /\ \A w \in Workers : worker[w].pc \in {"Gate", "Executing"} => worker[w].ok = FALSE
    /\ \A w \in Workers : worker[w].pc = "Deliver" => worker[w].ok \/ cancellation
    /\ phaseActive /\ ~cancellation =>
          \A f \in Frames : PhaseOf(f) = phase => \A i \in DOMAIN sink[f] : sink[f][i] = TRUE

RInv == FirstSetup /\ Closing /\ FailuresAreCancelled
=============================================================================
