----------------------------- MODULE MainProgram -----------------------------
(***************************************************************************)
(* demo/main.cpp: one thread brings up the contexts and one graph per NUMA *)
(* node, runs the warmup and the timed phase on all of them behind a       *)
(* common gate, stops them, shuts them down and turns what happened into   *)
(* the exit status, while the graphs' workers execute.  Each graph is the  *)
(* contract DummyGraph is shown to implement (GraphContract).              *)
(***************************************************************************)
EXTENDS GraphContract

\* main() addresses its graphs by index.
ASSUME GraphsAreIndexed == IsFiniteSet(Graphs) /\ Graphs # {} /\ Graphs = 1..Cardinality(Graphs)
ASSUME FrameCounts == WarmupCount \in Nat /\ TimedCount \in Nat \ {0}

GraphCount == Cardinality(Graphs)

VARIABLES
    pc, index,         \* where main() is, and the graph its loop is at
    current,           \* the phase being run; its gate lives as long
    runSucceeded, stopSucceeded, shutdownSucceeded,
    graphStarted,      \* graphs whose start() succeeded
    started,           \* graphs that accepted the current phase
    holding,           \* graphs that hold tasks or static data
    contexts,          \* GpuContextManager holds the contexts
    exit,              \* the exit status, or -1
    fault              \* history: something external failed

flags == <<runSucceeded, stopSucceeded, shutdownSucceeded>>
mainVars == <<pc, index, current, flags, graphStarted, started, holding, contexts, exit, fault>>
vars == <<mainVars, contractVars>>

MainInit ==
    /\ Init
    /\ pc = "contexts" /\ index = 1 /\ current = "Warmup"
    /\ runSucceeded = TRUE /\ stopSucceeded = TRUE /\ shutdownSucceeded = TRUE
    /\ graphStarted = {} /\ started = {} /\ holding = {}
    /\ contexts = FALSE /\ exit = -1 /\ fault = FALSE

\* The loop goes on to its next graph, or to what comes after the loop.
Loop(after) == IF index < GraphCount THEN pc' = pc /\ index' = index + 1 ELSE pc' = after /\ index' = 1
Leave(to) == pc' = to /\ index' = 1

-----------------------------------------------------------------------------

\* GpuContextManager::init fails and the program ends at once.
ContextsFail ==
    /\ pc = "contexts"
    /\ Leave("exited") /\ exit' = 1 /\ fault' = TRUE
    /\ UNCHANGED <<contractVars, current, flags, graphStarted, started, holding, contexts>>

\* Contexts and graph configurations; frame numbers that do not fit skip the run.
ContextsReady ==
    /\ pc = "contexts"
    /\ contexts' = TRUE
    /\ \/ Leave("initialize") /\ UNCHANGED <<runSucceeded, fault>>
       \/ Leave("stop") /\ runSucceeded' = FALSE /\ fault' = TRUE
    /\ UNCHANGED <<contractVars, current, stopSucceeded, shutdownSucceeded, graphStarted, started,
                   holding, exit>>

InitializeGraph ==
    /\ pc = "initialize" /\ ~cancellation
    /\ Initialize(index)
    /\ holding' = holding \cup {index}
    /\ Loop("start")
    /\ UNCHANGED <<current, flags, graphStarted, started, contexts, exit, fault>>

\* initialize() returns false; what it set up stays when it could not be
\* unloaded.  The graphs after it are never initialized.
InitializeFails ==
    /\ pc = "initialize"
    /\ GiveUp(index) \/ Cancel
    /\ holding' \in {holding, holding \cup {index}}
    /\ runSucceeded' = FALSE /\ fault' = TRUE
    /\ Leave("stop")
    /\ UNCHANGED <<current, stopSucceeded, shutdownSucceeded, graphStarted, started, contexts, exit>>

StartGraph ==
    /\ pc = "start"
    /\ Start(index)
    /\ graphStarted' = graphStarted \cup {index}
    /\ Loop("startPhase")
    /\ UNCHANGED <<current, flags, started, holding, contexts, exit, fault>>

StartFails ==
    /\ pc = "start"
    /\ Cancel
    /\ runSucceeded' = FALSE /\ fault' = TRUE
    /\ Leave("stop")
    /\ UNCHANGED <<current, stopSucceeded, shutdownSucceeded, graphStarted, started, holding, contexts, exit>>

-----------------------------------------------------------------------------
(* A phase: runPhase for the warmup, startPhase and waitForPhase for the   *)
(* timed one.                                                              *)

AcceptPhase ==
    /\ pc = "startPhase"
    /\ StartPhase(index, current)
    /\ started' = started \cup {index}
    /\ Loop("release")
    /\ UNCHANGED <<current, flags, graphStarted, holding, contexts, exit, fault>>

\* Mutant: a refusal is noted and the other graphs run the phase without it.
RefusePhaseQuietly ==
    /\ pc = "startPhase"
    /\ UNCHANGED contractVars
    /\ runSucceeded' = FALSE /\ fault' = TRUE
    /\ Loop("release")
    /\ UNCHANGED <<current, stopSucceeded, shutdownSucceeded, graphStarted, started, holding, contexts, exit>>

\* A graph does not accept the phase: it failed to, or cancellation is raised
\* already.  The others are still asked, and will find cancellation.
RefusePhase ==
    /\ pc = "startPhase"
    /\ Cancel
    /\ runSucceeded' = FALSE /\ fault' = TRUE
    /\ Loop("release")
    /\ UNCHANGED <<current, stopSucceeded, shutdownSucceeded, graphStarted, started, holding, contexts, exit>>

\* Mutant: the gate of a phase that some graph refused stays shut.
ReleaseIfAccepted ==
    /\ pc = "release"
    /\ IF runSucceeded THEN OpenGate(current) ELSE UNCHANGED contractVars
    /\ Leave("wait")
    /\ UNCHANGED <<current, flags, graphStarted, started, holding, contexts, exit, fault>>

Release ==
    /\ pc = "release"
    /\ OpenGate(current)
    /\ Leave("wait")
    /\ UNCHANGED <<current, flags, graphStarted, started, holding, contexts, exit, fault>>

\* Every graph that accepted the phase is waited for, whatever the others
\* reported.  After the last one the gate goes, and the timed phase follows a
\* warmup that succeeded on all graphs.
WaitForPhase ==
    LET ok == (index \in started => succeeded[index] /\ ~cancellation)
        last == index = GraphCount
        good == runSucceeded /\ ok /\ (last => ~cancellation)
    IN  /\ pc = "wait"
        /\ index \in started => ~active[index]
        /\ runSucceeded' = good
        /\ IF last /\ good /\ current = "Warmup"
           THEN Leave("startPhase") /\ current' = "Timed" /\ started' = {}
           ELSE Loop("stop") /\ UNCHANGED <<current, started>>
    /\ UNCHANGED <<contractVars, stopSucceeded, shutdownSucceeded, graphStarted, holding, contexts, exit, fault>>

-----------------------------------------------------------------------------

StopGraph ==
    /\ pc = "stop"
    /\ IF index \in graphStarted THEN Stop(index) ELSE UNCHANGED contractVars
    /\ Loop("shutdown")
    /\ UNCHANGED <<current, flags, graphStarted, started, holding, contexts, exit, fault>>

StopFails ==
    /\ pc = "stop" /\ index \in graphStarted
    /\ Cancel
    /\ stopSucceeded' = FALSE /\ fault' = TRUE
    /\ Loop("shutdown")
    /\ UNCHANGED <<current, runSucceeded, shutdownSucceeded, graphStarted, started, holding, contexts, exit>>

\* The first half of shutdown() of a graph that was initialized.
ShutdownBegins ==
    /\ pc = "shutdown" /\ stage[index] \in {"Initialized", "Started", "Stopped"}
    /\ Close(index, Pending(index) \ running[index])
    /\ UNCHANGED mainVars

\* shutdown() returns, having unloaded the tasks or not.
ShutdownReturns(unloaded) ==
    /\ holding' = IF unloaded THEN holding \ {index} ELSE holding
    /\ shutdownSucceeded' = (shutdownSucceeded /\ unloaded)
    /\ fault' = (fault \/ ~unloaded)
    /\ Loop("release contexts")

ShutdownEnds ==
    /\ pc = "shutdown"
    /\ Closed(index)
    /\ \E unloaded \in BOOLEAN : ShutdownReturns(unloaded)
    /\ UNCHANGED <<current, runSucceeded, stopSucceeded, graphStarted, started, contexts, exit>>

\* shutdown() of a graph that initialize gave up on, or that holds nothing.
ShutdownOfRemains ==
    /\ pc = "shutdown"
    /\ \E S \in SUBSET Pending(index) : CloseRemains(index, S)
    /\ \E unloaded \in BOOLEAN : (unloaded \/ index \in holding) /\ ShutdownReturns(unloaded)
    /\ UNCHANGED <<current, runSucceeded, stopSucceeded, graphStarted, started, contexts, exit>>

\* GpuContextManager::shutdown refuses while tasks are registered (static data
\* alone does not count).
ReleaseContexts ==
    /\ pc = "release contexts"
    /\ contexts' \in IF holding = {} THEN {FALSE} ELSE BOOLEAN
    /\ Leave("count")
    /\ UNCHANGED <<contractVars, current, flags, graphStarted, started, holding, exit, fault>>

\* GraphSink's two counters, as the results they count.
Deliveries == {d \in Graphs \X Frames \X (1..2) : d[3] <= Len(results[d[1]][d[2]])}
Failures == {d \in Deliveries : ~results[d[1]][d[2]][d[3]]}

\* Mutant: a failed shutdown is only logged.
ExitStatusOfRun ==
    IF runSucceeded /\ stopSucceeded /\ Cardinality(Deliveries) = GraphCount * (WarmupCount + TimedCount)
    THEN 0 ELSE 1

ExitStatus ==
    IF /\ runSucceeded /\ stopSucceeded /\ shutdownSucceeded
       /\ Cardinality(Deliveries) = GraphCount * (WarmupCount + TimedCount)
       /\ Failures = {}
    THEN 0 ELSE 1

Return ==
    /\ pc = "count"
    /\ exit' = ExitStatus
    /\ Leave("exited")
    /\ UNCHANGED <<contractVars, current, flags, graphStarted, started, holding, contexts, fault>>

MainStep ==
    \/ ContextsFail \/ ContextsReady \/ InitializeGraph \/ InitializeFails \/ StartGraph \/ StartFails
    \/ AcceptPhase \/ RefusePhase \/ Release \/ WaitForPhase \/ StopGraph \/ StopFails
    \/ ShutdownBegins \/ ShutdownEnds \/ ShutdownOfRemains \/ ReleaseContexts \/ Return

\* The workers of a graph.
GraphStep(g) ==
    \/ /\ \E f \in Frames : Begin(g, f) \/ Deliver(g, f)
       /\ UNCHANGED mainVars
    \/ /\ \E f \in Frames : Abort(g, f)
       /\ fault' = TRUE
       /\ UNCHANGED <<pc, index, current, flags, graphStarted, started, holding, contexts, exit>>
    \/ /\ \E S \in SUBSET Frames, over \in BOOLEAN, verdict \in BOOLEAN : Advance(g, S, over, verdict)
       /\ UNCHANGED mainVars

MainNext == MainStep \/ \E g \in Graphs : GraphStep(g)

MainSpec == MainInit /\ [][MainNext]_vars

\* main() is scheduled and its calls return (CallsReturn of DummyGraph), and a
\* graph goes on with a phase, but is obliged to only behind its open gate
\* (PhaseEnds of DummyGraph).
FairMainSpec ==
    MainSpec /\ WF_vars(MainStep) /\ \A g \in Graphs : WF_vars(phase[g] \in gates /\ GraphStep(g))

-----------------------------------------------------------------------------
(* Properties.                                                             *)

PhaseOf(f) == IF f <= WarmupCount THEN "Warmup" ELSE "Timed"
HasAccepted(g, p) == phase[g] = p \/ (p = "Warmup" /\ phase[g] = "Timed")

\* The graphs run a phase together or not at all: no frame of a phase executes
\* before every graph has accepted that phase, no timed frame before every
\* warmup frame of every graph has succeeded, and no graph is still busy with a
\* phase when main() has moved on and destroyed its gate.
PhasesAreCommon ==
    /\ \A g \in Graphs, f \in Frames :
        f \in running[g] \/ results[g][f] = <<TRUE>> =>
            /\ \A h \in Graphs : HasAccepted(h, PhaseOf(f))
            /\ PhaseOf(f) = "Timed" =>
                \A h \in Graphs, e \in FramesOf("Warmup") : results[h][e] = <<TRUE>>
    /\ \A g \in Graphs : active[g] => pc \in {"startPhase", "release", "wait"} /\ phase[g] = current

\* Exit status 0 means every frame of every graph was delivered once and
\* succeeded, every graph is shut down and the contexts are released.  A run in
\* which no call that main() makes, and no frame, failed exits with 0.
ExitIsHonest ==
    pc = "exited" =>
        /\ exit = 0 => /\ \A g \in Graphs, f \in Frames : results[g][f] = <<TRUE>>
                       /\ \A g \in Graphs : stage[g] = "Closed"
                       /\ ~contexts
        /\ exit # 0 => fault

\* main() returns, whatever fails and on whichever graph.
MainReturns == <>(pc = "exited")
=============================================================================
