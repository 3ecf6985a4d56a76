------------------------- MODULE MainProgramInvariant -------------------------
(***************************************************************************)
(* The inductive invariant of MainProgram.  The graphs run their phases    *)
(* together because a gate that is open before cancellation belongs to a   *)
(* phase that every graph has accepted, and because main() starts the      *)
(* timed phase only behind verdicts that speak for every warmup frame; the *)
(* exit status is honest because each loop of main() leaves behind it what *)
(* the next one builds on.                                                 *)
(***************************************************************************)
EXTENDS MainProgram

AllSucceeded(g, p) == \A f \in FramesOf(p) : results[g][f] = <<TRUE>>
WarmedUp == \A g \in Graphs : AllSucceeded(g, "Warmup")
EveryoneAccepted(p) == \A g \in Graphs : HasAccepted(g, p)

\* What a frame has been given: nothing, or one result.
Outcomes == {<<>>, <<TRUE>>, <<FALSE>>}

TypeOK ==
    /\ cancellation \in BOOLEAN /\ gates \subseteq Phases
    /\ stage \in [Graphs -> {"New", "Initialized", "Started", "Stopped", "Closing", "Closed"}]
    /\ phase \in [Graphs -> Phases \cup {"None"}]
    /\ active \in [Graphs -> BOOLEAN] /\ succeeded \in [Graphs -> BOOLEAN]
    /\ running \in [Graphs -> SUBSET Frames]
    /\ results \in [Graphs -> [Frames -> Outcomes]]
    /\ pc \in {"contexts", "initialize", "start", "startPhase", "release", "wait", "stop", "shutdown",
               "release contexts", "count", "exited"}
    /\ index \in Graphs /\ current \in Phases
    /\ runSucceeded \in BOOLEAN /\ stopSucceeded \in BOOLEAN /\ shutdownSucceeded \in BOOLEAN
    /\ started \subseteq Graphs /\ holding \subseteq Graphs
    /\ contexts \in BOOLEAN /\ fault \in BOOLEAN

\* A graph executes pending frames of the phase that is going on.
Executions ==
    \A g \in Graphs :
        /\ running[g] \subseteq FramesOf(phase[g]) \cap Pending(g)
        /\ running[g] # {} => active[g] /\ phase[g] # "None"

\* A frame that executes or succeeded is of a phase that everyone accepted.
Together ==
    \A g \in Graphs, f \in Frames :
        f \in running[g] \/ results[g][f] = <<TRUE>> =>
            EveryoneAccepted(PhaseOf(f)) /\ (PhaseOf(f) = "Timed" => WarmedUp)

\* A gate open before cancellation: everyone accepted its phase, and the timed
\* phase has a warmup behind it.
OpenGates == ~cancellation => \A p \in gates : EveryoneAccepted(p) /\ (p = "Timed" => WarmedUp)

\* What main() knows of the phase: the graphs it asked have accepted it unless
\* someone cancelled, and only they, until it waited for them, are busy with it.
Acceptance ==
    /\ pc \in {"contexts", "initialize", "start"} => started = {}
    /\ pc = "startPhase" => started \subseteq 1..(index - 1) /\ (~cancellation => started = 1..(index - 1))
    /\ pc \in {"release", "wait"} => (~cancellation => started = Graphs)
    /\ \A g \in started : phase[g] = current
    /\ \A g \in Graphs : active[g] => /\ g \in started /\ pc \in {"startPhase", "release", "wait"}
                                      /\ pc = "wait" => g >= index
    /\ \A g \in Graphs : phase[g] = "Timed" => current = "Timed"
    /\ current = "Timed" => WarmedUp

\* A verdict speaks for every frame of the phase; a bad one has a cancellation behind it.
Verdicts ==
    \A g \in Graphs :
        /\ ~active[g] /\ succeeded[g] /\ phase[g] # "None" => AllSucceeded(g, phase[g])
        /\ ~succeeded[g] => cancellation

\* runSucceeded speaks for the graphs that were waited for, and after the phases
\* for every frame.
RunSoFar ==
    runSucceeded =>
        /\ pc = "wait" => \A g \in started : g < index => AllSucceeded(g, current)
        /\ pc \in {"stop", "shutdown", "release contexts", "count"} =>
             \A g \in Graphs, f \in Frames : results[g][f] = <<TRUE>>

\* Without a fault nothing is cancelled and nothing has failed.
Faults == ~fault => ~cancellation /\ runSucceeded /\ stopSucceeded /\ shutdownSucceeded

\* What the shutdown loop leaves behind.
Closing ==
    /\ pc = "shutdown" =>
         \A g \in Graphs : g < index => stage[g] = "Closed" /\ (shutdownSucceeded => g \notin holding)
    /\ pc \in {"release contexts", "count"} =>
         /\ \A g \in Graphs : stage[g] = "Closed"
         /\ shutdownSucceeded => holding = {}
    /\ pc = "count" => (shutdownSucceeded => ~contexts)

IInv ==
    /\ TypeOK
    /\ Executions
    /\ Together
    /\ OpenGates
    /\ Acceptance
    /\ Verdicts
    /\ RunSoFar
    /\ Faults
    /\ Closing
    /\ ExitIsHonest
===============================================================================
