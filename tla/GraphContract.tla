---------------------------- MODULE GraphContract ----------------------------
(***************************************************************************)
(* What graph copies promise the program that drives them, without         *)
(* workers, tasks, queues or counters: frames of an accepted phase begin   *)
(* to execute only behind the phase's open gate and before cancellation,   *)
(* every frame gets one result, a phase ends only when all its frames have *)
(* theirs, and shutdown leaves no frame without one.  The copies share the *)
(* cancellation flag and the gates of the two phases.                      *)
(***************************************************************************)
EXTENDS Integers, Sequences, FiniteSets

CONSTANTS Graphs, WarmupCount, TimedCount

Frames == 1..(WarmupCount + TimedCount)
Phases == {"Warmup", "Timed"}
FramesOf(p) == {f \in Frames : (f <= WarmupCount) = (p = "Warmup")}

VARIABLES
    cancellation,
    gates,       \* phases whose gate is open
    stage,       \* graph -> "New", "Initialized", "Started", "Stopped", "Closing", "Closed"
    phase,       \* graph -> the phase it accepted last, or "None"
    active,      \* graph -> whether that phase is still going on
    succeeded,   \* graph -> its verdict once it is over
    running,     \* graph -> frames in execution
    results      \* graph -> frame -> the results delivered

contractVars == <<cancellation, gates, stage, phase, active, succeeded, running, results>>
phaseState == <<phase, active, succeeded, running, results>>

Pending(g) == {f \in Frames : results[g][f] = <<>>}
Give(g, S, ok) == [results EXCEPT ![g] = [f \in Frames |-> IF f \in S THEN Append(@[f], ok) ELSE @[f]]]

Init ==
    /\ cancellation = FALSE /\ gates = {}
    /\ stage = [g \in Graphs |-> "New"]
    /\ phase = [g \in Graphs |-> "None"] /\ active = [g \in Graphs |-> FALSE]
    /\ succeeded = [g \in Graphs |-> TRUE] /\ running = [g \in Graphs |-> {}]
    /\ results = [g \in Graphs |-> [f \in Frames |-> <<>>]]

\* Anything that fails anywhere tells every graph.
Cancel == cancellation' = TRUE /\ UNCHANGED <<gates, stage, phaseState>>

OpenGate(p) == gates' = gates \cup {p} /\ UNCHANGED <<cancellation, stage, phaseState>>

Enter(g, from, to) == stage[g] = from /\ stage' = [stage EXCEPT ![g] = to]

Initialize(g) == Enter(g, "New", "Initialized") /\ UNCHANGED <<cancellation, gates, phaseState>>

\* The workers could not all be started.
GiveUp(g) == Enter(g, "New", "Closed") /\ cancellation' = TRUE /\ UNCHANGED <<gates, phaseState>>

Start(g) == ~cancellation /\ Enter(g, "Initialized", "Started") /\ UNCHANGED <<cancellation, gates, phaseState>>

Stop(g) == ~active[g] /\ Enter(g, "Started", "Stopped") /\ UNCHANGED <<cancellation, gates, phaseState>>

StartPhase(g, p) ==
    /\ stage[g] = "Started" /\ ~active[g] /\ ~cancellation /\ FramesOf(p) \subseteq Pending(g)
    /\ phase' = [phase EXCEPT ![g] = p]
    /\ active' = [active EXCEPT ![g] = (FramesOf(p) # {})]
    /\ succeeded' = [succeeded EXCEPT ![g] = TRUE]
    /\ UNCHANGED <<cancellation, gates, stage, running, results>>

Begin(g, f) ==
    /\ active[g] /\ f \in FramesOf(phase[g]) \cap Pending(g)
    /\ phase[g] \in gates /\ ~cancellation
    /\ running' = [running EXCEPT ![g] = @ \cup {f}]
    /\ UNCHANGED <<cancellation, gates, stage, phase, active, succeeded, results>>

\* An execution fails, or ends after cancellation.
Abort(g, f) ==
    /\ f \in running[g]
    /\ running' = [running EXCEPT ![g] = @ \ {f}]
    /\ cancellation' = TRUE
    /\ UNCHANGED <<gates, stage, phase, active, succeeded, results>>

\* A frame that was executed is delivered.
Deliver(g, f) ==
    /\ f \in running[g] /\ active[g]
    /\ results' = Give(g, {f}, TRUE)
    /\ running' = [running EXCEPT ![g] = @ \ {f}]
    /\ UNCHANGED <<cancellation, gates, stage, phase, active, succeeded>>

\* Frames that will not be executed are delivered as failed, and the phase ends
\* when all its frames are delivered: as failed after a cancellation that was
\* noticed, as succeeded only if every result is a success.
Advance(g, S, over, verdict) ==
    /\ active[g]
    /\ S \subseteq Pending(g) \ running[g] /\ S \subseteq FramesOf(phase[g])
    /\ S # {} => cancellation
    /\ results' = Give(g, S, FALSE)
    /\ over => \A f \in FramesOf(phase[g]) : results'[g][f] # <<>>
    /\ over => IF verdict THEN \A f \in FramesOf(phase[g]) : results[g][f] = <<TRUE>> ELSE cancellation
    /\ ~over => verdict
    /\ active' = [active EXCEPT ![g] = ~over]
    /\ succeeded' = [succeeded EXCEPT ![g] = verdict]
    /\ UNCHANGED <<cancellation, gates, stage, phase, running>>

\* shutdown(): whatever nobody has begun to work on fails; a phase that is
\* still going on is cancelled and its gate opened.
Close(g, S) ==
    /\ stage[g] \in {"Initialized", "Started", "Stopped"}
    /\ stage' = [stage EXCEPT ![g] = "Closing"]
    /\ S \subseteq Pending(g) \ running[g]
    /\ results' = Give(g, S, FALSE)
    /\ cancellation' = (cancellation \/ active[g])
    /\ gates' = IF active[g] THEN gates \cup {phase[g]} ELSE gates
    /\ UNCHANGED <<phase, active, succeeded, running>>

\* shutdown() of a graph that never came up fails the frames it had prepared.
CloseRemains(g, S) ==
    /\ stage[g] \in {"New", "Closed"}
    /\ stage' = [stage EXCEPT ![g] = "Closed"]
    /\ S \subseteq Pending(g)
    /\ results' = Give(g, S, FALSE)
    /\ UNCHANGED <<cancellation, gates, phase, active, succeeded, running>>

\* The workers have left, and no frame is without its result.
Closed(g) ==
    /\ Enter(g, "Closing", "Closed")
    /\ Pending(g) = {} /\ running[g] = {}
    /\ active' = [active EXCEPT ![g] = FALSE]
    /\ succeeded' = [succeeded EXCEPT ![g] = @ /\ ~active[g]]
    /\ UNCHANGED <<cancellation, gates, phase, running, results>>

Next ==
    \/ Cancel \/ \E p \in Phases : OpenGate(p)
    \/ \E g \in Graphs :
        \/ Initialize(g) \/ GiveUp(g) \/ Start(g) \/ Stop(g) \/ Closed(g)
        \/ \E p \in Phases : StartPhase(g, p)
        \/ \E f \in Frames : Begin(g, f) \/ Abort(g, f) \/ Deliver(g, f)
        \/ \E S \in SUBSET Frames :
            \/ Close(g, S) \/ CloseRemains(g, S)
            \/ \E over \in BOOLEAN, verdict \in BOOLEAN : Advance(g, S, over, verdict)

Spec == Init /\ [][Next]_contractVars
=============================================================================
