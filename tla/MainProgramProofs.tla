-------------------------- MODULE MainProgramProofs --------------------------
(***************************************************************************)
(* Proofs about MainProgram for every number of graphs and frames: IInv is *)
(* inductive, and with it the phases are common to the graphs and the exit *)
(* status is honest.                                                       *)
(***************************************************************************)
EXTENDS MainProgramInvariant, FiniteSetTheorems, TLAPS

USE DEF flags, mainVars, contractVars, phaseState, vars

-----------------------------------------------------------------------------
(* Graphs, frames and results *)

\* main() addresses its graphs by index.
LEMMA GraphFacts == GraphCount \in Nat /\ GraphCount >= 1 /\ Graphs = 1..GraphCount /\ \A g \in Graphs : g \in Nat /\ ~(g < 1)
<1>1. IsFiniteSet(Graphs) /\ Graphs # {} /\ Graphs = 1..Cardinality(Graphs)
  BY GraphsAreIndexed
<1>2. Cardinality(Graphs) \in Nat
  BY <1>1, FS_CardinalityType
<1>3. Cardinality(Graphs) >= 1
  BY <1>1, <1>2
<1> QED BY <1>1, <1>2, <1>3 DEF GraphCount

\* A frame belongs to one of the two phases.
LEMMA FrameFacts ==
  /\ Frames \subseteq Nat
  /\ \A f \in Frames : PhaseOf(f) \in Phases
  /\ \A f \in Frames, p \in Phases : f \in FramesOf(p) <=> PhaseOf(f) = p
  /\ \A p : FramesOf(p) \subseteq Frames
<1>1. Frames \subseteq Nat
  BY FrameCounts DEF Frames
<1>2. \A f \in Frames : PhaseOf(f) \in Phases
  BY DEF PhaseOf, Phases
<1>3. \A f \in Frames, p \in Phases : f \in FramesOf(p) <=> PhaseOf(f) = p
  BY <1>1 DEF FramesOf, PhaseOf, Phases
<1>4. \A p : FramesOf(p) \subseteq Frames
  BY DEF FramesOf
<1> QED BY <1>1, <1>2, <1>3, <1>4

\* A loop of main() goes to its next graph, and after the last one on.
LEMMA LoopFacts ==
  ASSUME index \in Graphs, NEW after, Loop(after)
  PROVE  /\ index' \in Graphs
         /\ \/ index < GraphCount /\ pc' = pc /\ index' = index + 1
            \/ index = GraphCount /\ pc' = after /\ index' = 1
BY GraphFacts DEF Loop

\* The graphs a loop is done with are those up to the index.
LEMMA LoopSplit ==
  ASSUME index \in Graphs, NEW after, Loop(after)
  PROVE  /\ index < GraphCount \/ index = GraphCount
         /\ index < GraphCount => pc' = pc /\ \A g \in Graphs : g < index' => g <= index
         /\ index = GraphCount => pc' = after /\ \A g \in Graphs : g <= index
BY GraphFacts DEF Loop

\* Leaving a loop.
LEMMA LeaveFacts ==
  ASSUME NEW to, Leave(to)
  PROVE  pc' = to /\ index' = 1 /\ index' \in Graphs
BY GraphFacts DEF Leave

\* The results, with the outcome of the frames S of graph g set to ok.
GivenOnce(new, g, S, ok) ==
    /\ new \in [Graphs -> [Frames -> Outcomes]]
    /\ \A h \in Graphs, f \in Frames : h = g /\ f \in S => new[h][f] = <<ok>>
    /\ \A h \in Graphs, f \in Frames : ~(h = g /\ f \in S) => new[h][f] = results[h][f]

\* A result given to pending frames is their only one.
LEMMA GiveFacts ==
  ASSUME TypeOK, NEW g \in Graphs, NEW S \in SUBSET Pending(g), NEW ok \in BOOLEAN
  PROVE  GivenOnce(Give(g, S, ok), g, S, ok)
<1>0. PICK outcome : outcome = <<ok>>
  OBVIOUS
<1>1. results \in [Graphs -> [Frames -> Outcomes]] /\ results[g] \in [Frames -> Outcomes]
  BY DEF TypeOK
<1>2. \A f \in S : f \in Frames /\ results[g][f] = <<>>
  BY DEF Pending
<1>3. PICK row : row = [f \in Frames |-> IF f \in S THEN Append(results[g][f], ok) ELSE results[g][f]]
  OBVIOUS
<1>4. Append(<<>>, ok) = outcome /\ outcome \in Outcomes
  <2>1. Append(<<>>, ok) = <<ok>>
    OBVIOUS
  <2>2. ok = TRUE \/ ok = FALSE
    OBVIOUS
  <2>3. <<ok>> = <<TRUE>> \/ <<ok>> = <<FALSE>>
    BY <2>2, Zenon
  <2> QED BY <1>0, <2>1, <2>3 DEF Outcomes
<1>5. \A f \in Frames : row[f] = IF f \in S THEN outcome ELSE results[g][f]
  BY <1>2, <1>3, <1>4
<1>6. row \in [Frames -> Outcomes]
  <2>1. \A f \in Frames : row[f] \in Outcomes
    BY <1>1, <1>4, <1>5
  <2>2. row = [f \in Frames |-> row[f]]
    BY <1>3
  <2> QED BY <2>1, <2>2
<1>7. Give(g, S, ok) = [results EXCEPT ![g] = row]
  BY <1>3 DEF Give
<1>8. Give(g, S, ok) \in [Graphs -> [Frames -> Outcomes]]
  BY <1>1, <1>6, <1>7
<1>9. \A h \in Graphs : Give(g, S, ok)[h] = IF h = g THEN row ELSE results[h]
  BY <1>1, <1>7
<1> QED BY <1>0, <1>5, <1>8, <1>9 DEF GivenOnce

\* A good outcome is not a bad one, and neither is none.
LEMMA OutcomesDiffer == <<FALSE>> # <<TRUE>> /\ <<FALSE>> # <<>> /\ <<TRUE>> # <<>>
<1>1. <<FALSE>>[1] = FALSE /\ <<TRUE>>[1] = TRUE
  OBVIOUS
<1>2. <<FALSE>> # <<TRUE>>
  BY <1>1, Zenon
<1>3. <<FALSE>> # <<>> /\ <<TRUE>> # <<>>
  OBVIOUS
<1> QED BY <1>2, <1>3, Zenon

\* Successes stay.
LEMMA SuccessesStay ==
  ASSUME \A g \in Graphs, f \in Frames : results[g][f] = <<TRUE>> => results'[g][f] = <<TRUE>>
  PROVE  /\ \A g \in Graphs : \A p : AllSucceeded(g, p) => \A f \in FramesOf(p) : results'[g][f] = <<TRUE>>
         /\ WarmedUp => WarmedUp'
BY FrameFacts DEF AllSucceeded, WarmedUp

\* A step that leaves the phases of the graphs alone keeps what concerns them.
LEMMA QuietFacts ==
  ASSUME IInv, UNCHANGED <<gates, phaseState>>, cancellation' \in BOOLEAN, cancellation => cancellation'
  PROVE  /\ Executions' /\ Together' /\ OpenGates' /\ Verdicts'
         /\ WarmedUp' = WarmedUp
<1>1. WarmedUp' = WarmedUp
  BY DEF WarmedUp, AllSucceeded
<1>2. \A p : EveryoneAccepted(p)' = EveryoneAccepted(p)
  BY DEF EveryoneAccepted, HasAccepted
<1>3. \A g : Pending(g)' = Pending(g)
  BY DEF Pending
<1>4. Executions'
  BY <1>3 DEF IInv, Executions
<1>5. Together'
  BY <1>1, <1>2 DEF IInv, Together
<1>6. OpenGates'
  BY <1>1, <1>2 DEF IInv, OpenGates, TypeOK
<1>7. Verdicts'
  BY DEF IInv, Verdicts, AllSucceeded
<1> QED BY <1>1, <1>4, <1>5, <1>6, <1>7

\* The initial state.
LEMMA InitInvariant == MainInit => IInv
<1> SUFFICES ASSUME MainInit PROVE IInv
  OBVIOUS
<1>1. TypeOK
  <2>1. running \in [Graphs -> SUBSET Frames]
    BY DEF MainInit, Init
  <2>2. results \in [Graphs -> [Frames -> Outcomes]]
    BY DEF MainInit, Init, Outcomes
  <2>3. index \in Graphs
    BY GraphFacts DEF MainInit
  <2>4. active \in [Graphs -> BOOLEAN] /\ succeeded \in [Graphs -> BOOLEAN]
    BY DEF MainInit, Init
  <2> QED BY <2>1, <2>2, <2>3, <2>4 DEF MainInit, Init, TypeOK, Phases
<1>2. \A g \in Graphs : running[g] = {} /\ \A f \in Frames : results[g][f] = <<>> /\ results[g][f] # <<TRUE>>
  BY DEF MainInit, Init
<1>3. Executions
  BY <1>2 DEF Executions
<1>6. Together
  BY <1>2 DEF Together
<1>4. OpenGates /\ Acceptance /\ Verdicts
  BY DEF MainInit, Init, OpenGates, Acceptance, Verdicts
<1>5. RunSoFar /\ Faults /\ Closing /\ ExitIsHonest
  BY DEF MainInit, Init, RunSoFar, Faults, Closing, ExitIsHonest
<1> QED BY <1>1, <1>3, <1>4, <1>5, <1>6 DEF IInv

-----------------------------------------------------------------------------
(* main() *)

\* GpuContextManager::init fails.
LEMMA ContextsFailStep == IInv /\ ContextsFail => IInv'
<1> SUFFICES ASSUME IInv, ContextsFail PROVE IInv'
  OBVIOUS
<1>1. UNCHANGED <<gates, phaseState>> /\ cancellation' \in BOOLEAN /\ (cancellation => cancellation')
  BY DEF IInv, TypeOK, ContextsFail
<1>2. Executions' /\ Together' /\ OpenGates' /\ Verdicts' /\ WarmedUp' = WarmedUp
  BY <1>1, QuietFacts
<1>3. index \in Graphs /\ index \in Nat /\ index' \in Graphs
  BY GraphFacts, LoopFacts, LeaveFacts DEF IInv, TypeOK, ContextsFail
<1>4. /\ pc = "contexts" /\ pc' = "exited" /\ index' = 1
  BY <1>3, LoopFacts, LeaveFacts DEF ContextsFail
<1>5. TypeOK'
  <2>1. UNCHANGED phaseState /\ stage' \in [Graphs -> {"New", "Initialized", "Started", "Stopped", "Closing", "Closed"}]
    BY <1>1, <1>3 DEF IInv, TypeOK, ContextsFail
  <2> QED BY <1>1, <1>3, <1>4, <2>1 DEF IInv, TypeOK, ContextsFail
<1>6. Acceptance'
  <2>1. started' = started /\ current' = current /\ Acceptance
    BY DEF IInv, ContextsFail
  <2> QED BY <1>1, <1>2, <1>3, <1>4, <2>1, GraphFacts DEF Acceptance
<1>7. RunSoFar'
  BY <1>1, <1>4 DEF IInv, RunSoFar, ContextsFail
<1>8. Faults'
  BY <1>1 DEF IInv, Faults, ContextsFail
<1>9. Closing'
  BY <1>3, <1>4, GraphFacts DEF IInv, Closing, ContextsFail
<1>10. ExitIsHonest'
  BY <1>4 DEF ExitIsHonest, ContextsFail
<1> QED BY <1>2, <1>5, <1>6, <1>7, <1>8, <1>9, <1>10 DEF IInv

\* Contexts and graph configurations.
LEMMA ContextsReadyStep == IInv /\ ContextsReady => IInv'
<1> SUFFICES ASSUME IInv, ContextsReady PROVE IInv'
  OBVIOUS
<1>1. UNCHANGED <<gates, phaseState>> /\ cancellation' \in BOOLEAN /\ (cancellation => cancellation')
  BY DEF IInv, TypeOK, ContextsReady
<1>2. Executions' /\ Together' /\ OpenGates' /\ Verdicts' /\ WarmedUp' = WarmedUp
  BY <1>1, QuietFacts
<1>3. index \in Graphs /\ index \in Nat /\ index' \in Graphs
  BY GraphFacts, LoopFacts, LeaveFacts DEF IInv, TypeOK, ContextsReady
<1>4. /\ pc = "contexts" /\ pc' \in {"initialize", "stop"} /\ (pc' = "stop" => ~runSucceeded') /\ index' = 1
  BY <1>3, LoopFacts, LeaveFacts DEF ContextsReady
<1>5. TypeOK'
  <2>1. UNCHANGED phaseState /\ stage' \in [Graphs -> {"New", "Initialized", "Started", "Stopped", "Closing", "Closed"}]
    BY <1>1, <1>3 DEF IInv, TypeOK, ContextsReady
  <2> QED BY <1>1, <1>3, <1>4, <2>1 DEF IInv, TypeOK, ContextsReady
<1>6. Acceptance'
  <2>1. started' = started /\ current' = current /\ Acceptance
    BY DEF IInv, ContextsReady
  <2> QED BY <1>1, <1>2, <1>3, <1>4, <2>1, GraphFacts DEF Acceptance
<1>7. RunSoFar'
  BY <1>1, <1>4 DEF IInv, RunSoFar, ContextsReady
<1>8. Faults'
  BY <1>1 DEF IInv, Faults, ContextsReady
<1>9. Closing'
  BY <1>3, <1>4, GraphFacts DEF IInv, Closing, ContextsReady
<1>10. ExitIsHonest'
  BY <1>4 DEF ExitIsHonest, ContextsReady
<1> QED BY <1>2, <1>5, <1>6, <1>7, <1>8, <1>9, <1>10 DEF IInv

\* initialize() succeeds.
LEMMA InitializeGraphStep == IInv /\ InitializeGraph => IInv'
<1> SUFFICES ASSUME IInv, InitializeGraph PROVE IInv'
  OBVIOUS
<1>1. UNCHANGED <<gates, phaseState>> /\ cancellation' \in BOOLEAN /\ (cancellation => cancellation')
  BY DEF IInv, TypeOK, InitializeGraph, Initialize, Enter
<1>2. Executions' /\ Together' /\ OpenGates' /\ Verdicts' /\ WarmedUp' = WarmedUp
  BY <1>1, QuietFacts
<1>3. index \in Graphs /\ index \in Nat /\ index' \in Graphs
  BY GraphFacts, LoopFacts, LeaveFacts DEF IInv, TypeOK, InitializeGraph
<1>4. /\ pc = "initialize"
      /\ \/ index < GraphCount /\ pc' = "initialize" /\ index' = index + 1
         \/ index = GraphCount /\ pc' = "start" /\ index' = 1
  BY <1>3, LoopFacts, LeaveFacts DEF InitializeGraph
<1>5. TypeOK'
  <2>1. UNCHANGED phaseState /\ stage' \in [Graphs -> {"New", "Initialized", "Started", "Stopped", "Closing", "Closed"}]
    BY <1>1, <1>3 DEF IInv, TypeOK, InitializeGraph, Initialize, Enter
  <2> QED BY <1>1, <1>3, <1>4, <2>1 DEF IInv, TypeOK, InitializeGraph
<1>6. Acceptance'
  <2>1. started' = started /\ current' = current /\ Acceptance
    BY DEF IInv, InitializeGraph
  <2> QED BY <1>1, <1>2, <1>3, <1>4, <2>1, GraphFacts DEF Acceptance
<1>7. RunSoFar'
  BY <1>1, <1>4 DEF IInv, RunSoFar, InitializeGraph
<1>8. Faults'
  BY <1>1 DEF IInv, Faults, InitializeGraph, Initialize, Enter
<1>9. Closing'
  BY <1>3, <1>4, GraphFacts DEF IInv, Closing, InitializeGraph
<1>10. ExitIsHonest'
  BY <1>4 DEF ExitIsHonest, InitializeGraph
<1> QED BY <1>2, <1>5, <1>6, <1>7, <1>8, <1>9, <1>10 DEF IInv

\* initialize() fails.
LEMMA InitializeFailsStep == IInv /\ InitializeFails => IInv'
<1> SUFFICES ASSUME IInv, InitializeFails PROVE IInv'
  OBVIOUS
<1>1. UNCHANGED <<gates, phaseState>> /\ cancellation' \in BOOLEAN /\ (cancellation => cancellation')
  BY DEF IInv, TypeOK, InitializeFails, GiveUp, Cancel, Enter
<1>2. Executions' /\ Together' /\ OpenGates' /\ Verdicts' /\ WarmedUp' = WarmedUp
  BY <1>1, QuietFacts
<1>3. index \in Graphs /\ index \in Nat /\ index' \in Graphs
  BY GraphFacts, LoopFacts, LeaveFacts DEF IInv, TypeOK, InitializeFails
<1>4. /\ pc = "initialize" /\ pc' = "stop" /\ index' = 1
  BY <1>3, LoopFacts, LeaveFacts DEF InitializeFails
<1>5. TypeOK'
  <2>1. UNCHANGED phaseState /\ stage' \in [Graphs -> {"New", "Initialized", "Started", "Stopped", "Closing", "Closed"}]
    BY <1>1, <1>3 DEF IInv, TypeOK, InitializeFails, GiveUp, Cancel, Enter
  <2> QED BY <1>1, <1>3, <1>4, <2>1 DEF IInv, TypeOK, InitializeFails
<1>6. Acceptance'
  <2>1. started' = started /\ current' = current /\ Acceptance
    BY DEF IInv, InitializeFails
  <2> QED BY <1>1, <1>2, <1>3, <1>4, <2>1, GraphFacts DEF Acceptance
<1>7. RunSoFar'
  BY <1>1, <1>4 DEF IInv, RunSoFar, InitializeFails
<1>8. Faults'
  BY <1>1 DEF IInv, Faults, InitializeFails
<1>9. Closing'
  BY <1>3, <1>4, GraphFacts DEF IInv, Closing, InitializeFails
<1>10. ExitIsHonest'
  BY <1>4 DEF ExitIsHonest, InitializeFails
<1> QED BY <1>2, <1>5, <1>6, <1>7, <1>8, <1>9, <1>10 DEF IInv

\* start() succeeds.
LEMMA StartGraphStep == IInv /\ StartGraph => IInv'
<1> SUFFICES ASSUME IInv, StartGraph PROVE IInv'
  OBVIOUS
<1>1. UNCHANGED <<gates, phaseState>> /\ cancellation' \in BOOLEAN /\ (cancellation => cancellation')
  BY DEF IInv, TypeOK, StartGraph, Start, Enter
<1>2. Executions' /\ Together' /\ OpenGates' /\ Verdicts' /\ WarmedUp' = WarmedUp
  BY <1>1, QuietFacts
<1>3. index \in Graphs /\ index \in Nat /\ index' \in Graphs
  BY GraphFacts, LoopFacts, LeaveFacts DEF IInv, TypeOK, StartGraph
<1>4. /\ pc = "start"
      /\ \/ index < GraphCount /\ pc' = "start" /\ index' = index + 1
         \/ index = GraphCount /\ pc' = "startPhase" /\ index' = 1
  BY <1>3, LoopFacts, LeaveFacts DEF StartGraph
<1>5. TypeOK'
  <2>1. UNCHANGED phaseState /\ stage' \in [Graphs -> {"New", "Initialized", "Started", "Stopped", "Closing", "Closed"}]
    BY <1>1, <1>3 DEF IInv, TypeOK, StartGraph, Start, Enter
  <2> QED BY <1>1, <1>3, <1>4, <2>1 DEF IInv, TypeOK, StartGraph
<1>6. Acceptance'
  <2>1. started' = started /\ current' = current /\ Acceptance
    BY DEF IInv, StartGraph
  <2>2. 1..(1 - 1) = {}
    OBVIOUS
  <2> QED BY <1>1, <1>2, <1>3, <1>4, <2>1, <2>2, GraphFacts DEF Acceptance
<1>7. RunSoFar'
  BY <1>1, <1>4 DEF IInv, RunSoFar, StartGraph
<1>8. Faults'
  BY <1>1 DEF IInv, Faults, StartGraph, Start, Enter
<1>9. Closing'
  BY <1>3, <1>4, GraphFacts DEF IInv, Closing, StartGraph
<1>10. ExitIsHonest'
  BY <1>4 DEF ExitIsHonest, StartGraph
<1> QED BY <1>2, <1>5, <1>6, <1>7, <1>8, <1>9, <1>10 DEF IInv

\* start() fails.
LEMMA StartFailsStep == IInv /\ StartFails => IInv'
<1> SUFFICES ASSUME IInv, StartFails PROVE IInv'
  OBVIOUS
<1>1. UNCHANGED <<gates, phaseState>> /\ cancellation' \in BOOLEAN /\ (cancellation => cancellation')
  BY DEF IInv, TypeOK, StartFails, Cancel
<1>2. Executions' /\ Together' /\ OpenGates' /\ Verdicts' /\ WarmedUp' = WarmedUp
  BY <1>1, QuietFacts
<1>3. index \in Graphs /\ index \in Nat /\ index' \in Graphs
  BY GraphFacts, LoopFacts, LeaveFacts DEF IInv, TypeOK, StartFails
<1>4. /\ pc = "start" /\ pc' = "stop" /\ index' = 1
  BY <1>3, LoopFacts, LeaveFacts DEF StartFails
<1>5. TypeOK'
  <2>1. UNCHANGED phaseState /\ stage' \in [Graphs -> {"New", "Initialized", "Started", "Stopped", "Closing", "Closed"}]
    BY <1>1, <1>3 DEF IInv, TypeOK, StartFails, Cancel
  <2> QED BY <1>1, <1>3, <1>4, <2>1 DEF IInv, TypeOK, StartFails
<1>6. Acceptance'
  <2>1. started' = started /\ current' = current /\ Acceptance
    BY DEF IInv, StartFails
  <2> QED BY <1>1, <1>2, <1>3, <1>4, <2>1, GraphFacts DEF Acceptance
<1>7. RunSoFar'
  BY <1>1, <1>4 DEF IInv, RunSoFar, StartFails
<1>8. Faults'
  BY <1>1 DEF IInv, Faults, StartFails
<1>9. Closing'
  BY <1>3, <1>4, GraphFacts DEF IInv, Closing, StartFails
<1>10. ExitIsHonest'
  BY <1>4 DEF ExitIsHonest, StartFails
<1> QED BY <1>2, <1>5, <1>6, <1>7, <1>8, <1>9, <1>10 DEF IInv

\* A graph does not accept the phase.
LEMMA RefusePhaseStep == IInv /\ RefusePhase => IInv'
<1> SUFFICES ASSUME IInv, RefusePhase PROVE IInv'
  OBVIOUS
<1>1. UNCHANGED <<gates, phaseState>> /\ cancellation' \in BOOLEAN /\ (cancellation => cancellation')
  BY DEF IInv, TypeOK, RefusePhase, Cancel
<1>2. Executions' /\ Together' /\ OpenGates' /\ Verdicts' /\ WarmedUp' = WarmedUp
  BY <1>1, QuietFacts
<1>3. index \in Graphs /\ index \in Nat /\ index' \in Graphs
  BY GraphFacts, LoopFacts, LeaveFacts DEF IInv, TypeOK, RefusePhase
<1>4. /\ pc = "startPhase"
      /\ \/ index < GraphCount /\ pc' = "startPhase" /\ index' = index + 1
         \/ index = GraphCount /\ pc' = "release" /\ index' = 1
  BY <1>3, LoopFacts, LeaveFacts DEF RefusePhase
<1>5. TypeOK'
  <2>1. UNCHANGED phaseState /\ stage' \in [Graphs -> {"New", "Initialized", "Started", "Stopped", "Closing", "Closed"}]
    BY <1>1, <1>3 DEF IInv, TypeOK, RefusePhase, Cancel
  <2> QED BY <1>1, <1>3, <1>4, <2>1 DEF IInv, TypeOK, RefusePhase
<1>6. Acceptance'
  <2>1. started' = started /\ current' = current /\ Acceptance
    BY DEF IInv, RefusePhase
  <2>2. 1..(index - 1) \subseteq 1..((index + 1) - 1) /\ cancellation'
    BY <1>3 DEF RefusePhase, Cancel
  <2> QED BY <1>1, <1>2, <1>3, <1>4, <2>1, <2>2, GraphFacts DEF Acceptance
<1>7. RunSoFar'
  BY <1>1, <1>4 DEF IInv, RunSoFar, RefusePhase
<1>8. Faults'
  BY <1>1 DEF IInv, Faults, RefusePhase
<1>9. Closing'
  BY <1>3, <1>4, GraphFacts DEF IInv, Closing, RefusePhase
<1>10. ExitIsHonest'
  BY <1>4 DEF ExitIsHonest, RefusePhase
<1> QED BY <1>2, <1>5, <1>6, <1>7, <1>8, <1>9, <1>10 DEF IInv

\* stop() succeeds, or is skipped.
LEMMA StopGraphStep == IInv /\ StopGraph => IInv'
<1> SUFFICES ASSUME IInv, StopGraph PROVE IInv'
  OBVIOUS
<1>1. UNCHANGED <<gates, phaseState>> /\ cancellation' \in BOOLEAN /\ (cancellation => cancellation')
  BY DEF IInv, TypeOK, StopGraph, Stop, Enter
<1>2. Executions' /\ Together' /\ OpenGates' /\ Verdicts' /\ WarmedUp' = WarmedUp
  BY <1>1, QuietFacts
<1>3. index \in Graphs /\ index \in Nat /\ index' \in Graphs
  BY GraphFacts, LoopFacts, LeaveFacts DEF IInv, TypeOK, StopGraph
<1>4. /\ pc = "stop"
      /\ \/ index < GraphCount /\ pc' = "stop" /\ index' = index + 1
         \/ index = GraphCount /\ pc' = "shutdown" /\ index' = 1
  BY <1>3, LoopFacts, LeaveFacts DEF StopGraph
<1>5. TypeOK'
  <2>1. UNCHANGED phaseState /\ stage' \in [Graphs -> {"New", "Initialized", "Started", "Stopped", "Closing", "Closed"}]
    BY <1>1, <1>3 DEF IInv, TypeOK, StopGraph, Stop, Enter
  <2> QED BY <1>1, <1>3, <1>4, <2>1 DEF IInv, TypeOK, StopGraph
<1>6. Acceptance'
  <2>1. started' = started /\ current' = current /\ Acceptance
    BY DEF IInv, StopGraph
  <2> QED BY <1>1, <1>2, <1>3, <1>4, <2>1, GraphFacts DEF Acceptance
<1>7. RunSoFar'
  BY <1>1, <1>4 DEF IInv, RunSoFar, StopGraph
<1>8. Faults'
  BY <1>1 DEF IInv, Faults, StopGraph, Stop, Enter
<1>9. Closing'
  BY <1>3, <1>4, GraphFacts DEF Closing
<1>10. ExitIsHonest'
  BY <1>4 DEF ExitIsHonest, StopGraph
<1> QED BY <1>2, <1>5, <1>6, <1>7, <1>8, <1>9, <1>10 DEF IInv

\* stop() fails.
LEMMA StopFailsStep == IInv /\ StopFails => IInv'
<1> SUFFICES ASSUME IInv, StopFails PROVE IInv'
  OBVIOUS
<1>1. UNCHANGED <<gates, phaseState>> /\ cancellation' \in BOOLEAN /\ (cancellation => cancellation')
  BY DEF IInv, TypeOK, StopFails, Cancel
<1>2. Executions' /\ Together' /\ OpenGates' /\ Verdicts' /\ WarmedUp' = WarmedUp
  BY <1>1, QuietFacts
<1>3. index \in Graphs /\ index \in Nat /\ index' \in Graphs
  BY GraphFacts, LoopFacts, LeaveFacts DEF IInv, TypeOK, StopFails
<1>4. /\ pc = "stop"
      /\ \/ index < GraphCount /\ pc' = "stop" /\ index' = index + 1
         \/ index = GraphCount /\ pc' = "shutdown" /\ index' = 1
  BY <1>3, LoopFacts, LeaveFacts DEF StopFails
<1>5. TypeOK'
  <2>1. UNCHANGED phaseState /\ stage' \in [Graphs -> {"New", "Initialized", "Started", "Stopped", "Closing", "Closed"}]
    BY <1>1, <1>3 DEF IInv, TypeOK, StopFails, Cancel
  <2> QED BY <1>1, <1>3, <1>4, <2>1 DEF IInv, TypeOK, StopFails
<1>6. Acceptance'
  <2>1. started' = started /\ current' = current /\ Acceptance
    BY DEF IInv, StopFails
  <2> QED BY <1>1, <1>2, <1>3, <1>4, <2>1, GraphFacts DEF Acceptance
<1>7. RunSoFar'
  BY <1>1, <1>4 DEF IInv, RunSoFar, StopFails
<1>8. Faults'
  BY <1>1 DEF IInv, Faults, StopFails
<1>9. Closing'
  BY <1>3, <1>4, GraphFacts DEF Closing
<1>10. ExitIsHonest'
  BY <1>4 DEF ExitIsHonest, StopFails
<1> QED BY <1>2, <1>5, <1>6, <1>7, <1>8, <1>9, <1>10 DEF IInv

\* GpuContextManager::shutdown.
LEMMA ReleaseContextsStep == IInv /\ ReleaseContexts => IInv'
<1> SUFFICES ASSUME IInv, ReleaseContexts PROVE IInv'
  OBVIOUS
<1>1. UNCHANGED <<gates, phaseState>> /\ cancellation' \in BOOLEAN /\ (cancellation => cancellation')
  BY DEF IInv, TypeOK, ReleaseContexts
<1>2. Executions' /\ Together' /\ OpenGates' /\ Verdicts' /\ WarmedUp' = WarmedUp
  BY <1>1, QuietFacts
<1>3. index \in Graphs /\ index \in Nat /\ index' \in Graphs
  <2>1. Leave("count")
    BY DEF ReleaseContexts
  <2> QED BY <2>1, GraphFacts, LeaveFacts DEF IInv, TypeOK
<1>4. /\ pc = "release contexts" /\ pc' = "count" /\ index' = 1
  BY <1>3, LoopFacts, LeaveFacts DEF ReleaseContexts
<1>5. TypeOK'
  <2>1. UNCHANGED phaseState /\ stage' \in [Graphs -> {"New", "Initialized", "Started", "Stopped", "Closing", "Closed"}]
    BY <1>1, <1>3 DEF IInv, TypeOK, ReleaseContexts
  <2> QED BY <1>1, <1>3, <1>4, <2>1 DEF IInv, TypeOK, ReleaseContexts
<1>6. Acceptance'
  <2>1. started' = started /\ current' = current /\ Acceptance
    BY DEF IInv, ReleaseContexts
  <2> QED BY <1>1, <1>2, <1>3, <1>4, <2>1, GraphFacts DEF Acceptance
<1>7. RunSoFar'
  BY <1>1, <1>4 DEF IInv, RunSoFar, ReleaseContexts
<1>8. Faults'
  BY <1>1 DEF IInv, Faults, ReleaseContexts
<1>9. Closing'
  BY <1>3, <1>4, GraphFacts DEF IInv, Closing, ReleaseContexts
<1>10. ExitIsHonest'
  BY <1>4 DEF ExitIsHonest, ReleaseContexts
<1> QED BY <1>2, <1>5, <1>6, <1>7, <1>8, <1>9, <1>10 DEF IInv

\* A graph accepts the phase.
LEMMA AcceptPhaseStep == IInv /\ AcceptPhase => IInv'
<1> SUFFICES ASSUME IInv, AcceptPhase PROVE IInv'
  OBVIOUS
<1>1. index \in Graphs /\ index \in Nat /\ index' \in Graphs
  BY GraphFacts, LoopFacts DEF IInv, TypeOK, AcceptPhase
<1>2. /\ pc = "startPhase"
      /\ \/ index < GraphCount /\ pc' = "startPhase" /\ index' = index + 1
         \/ index = GraphCount /\ pc' = "release" /\ index' = 1
  BY <1>1, LoopFacts DEF AcceptPhase
<1>3. /\ ~cancellation /\ ~active[index] /\ FramesOf(current) \subseteq Pending(index)
      /\ phase' = [phase EXCEPT ![index] = current]
      /\ active' = [active EXCEPT ![index] = (FramesOf(current) # {})]
      /\ succeeded' = [succeeded EXCEPT ![index] = TRUE]
      /\ UNCHANGED <<cancellation, gates, stage, running, results>>
      /\ started' = started \cup {index}
      /\ UNCHANGED <<current, flags, graphStarted, holding, contexts, exit, fault>>
  BY DEF AcceptPhase, StartPhase
<1>4. current \in Phases /\ current # "None"
  BY DEF IInv, TypeOK, Phases
<1>5. /\ phase' \in [Graphs -> Phases \cup {"None"}] /\ phase'[index] = current
      /\ \A g \in Graphs : g # index => phase'[g] = phase[g]
  BY <1>1, <1>3, <1>4 DEF IInv, TypeOK
<1>6. /\ active' \in [Graphs -> BOOLEAN] /\ active'[index] = (FramesOf(current) # {})
      /\ \A g \in Graphs : g # index => active'[g] = active[g]
  BY <1>1, <1>3 DEF IInv, TypeOK
<1>7. /\ succeeded' \in [Graphs -> BOOLEAN] /\ succeeded'[index] = TRUE
      /\ \A g \in Graphs : g # index => succeeded'[g] = succeeded[g]
  BY <1>1, <1>3 DEF IInv, TypeOK
<1>8. TypeOK'
  BY <1>1, <1>2, <1>3, <1>5, <1>6, <1>7 DEF IInv, TypeOK
<1>9. running[index] = {}
  BY <1>1, <1>3 DEF IInv, Executions
<1>10. WarmedUp' = WarmedUp /\ \A g : Pending(g)' = Pending(g)
  BY <1>3 DEF WarmedUp, AllSucceeded, Pending
<1>11. \A p \in Phases : EveryoneAccepted(p) => EveryoneAccepted(p)'
  <2>1. current # "Timed" => current = "Warmup" /\ phase[index] # "Timed"
    BY <1>1, <1>4 DEF IInv, Acceptance, Phases
  <2> QED BY <1>4, <1>5, <2>1 DEF EveryoneAccepted, HasAccepted, Phases
<1>12. Executions'
  BY <1>3, <1>5, <1>6, <1>9, <1>10 DEF IInv, Executions
<1>13. Together'
  BY <1>3, <1>10, <1>11, FrameFacts DEF IInv, Together
<1>14. OpenGates'
  BY <1>3, <1>10, <1>11 DEF IInv, TypeOK, OpenGates
<1>15. Acceptance'
  <2>1. /\ started = 1..(index - 1) /\ \A g \in started : phase[g] = current
        /\ \A g \in Graphs : active[g] => g \in started
        /\ \A g \in Graphs : phase[g] = "Timed" => current = "Timed"
        /\ current = "Timed" => WarmedUp
    BY <1>2, <1>3 DEF IInv, Acceptance
  <2>2. started' = 1..index
    <3>1. 1..index = (1..(index - 1)) \cup {index}
      BY <1>1, GraphFacts
    <3> QED BY <1>3, <2>1, <3>1
  <2>3. pc' = "startPhase" => started' = 1..(index' - 1)
    BY <1>1, <1>2, <2>2
  <2>4. pc' = "release" => started' = Graphs
    BY <1>2, <2>2, GraphFacts
  <2>5. \A g \in started' : phase'[g] = current'
    BY <1>3, <1>5, <2>1
  <2>6. \A g \in Graphs : active'[g] => g \in started'
    BY <1>3, <1>6, <2>1
  <2>7. \A g \in Graphs : phase'[g] = "Timed" => current' = "Timed"
    BY <1>3, <1>5, <2>1
  <2> QED BY <1>2, <1>3, <1>10, <2>1, <2>3, <2>4, <2>5, <2>6, <2>7 DEF Acceptance
<1>16. Verdicts'
  <2> SUFFICES ASSUME NEW g \in Graphs
               PROVE  /\ ~active'[g] /\ succeeded'[g] /\ phase'[g] # "None" => AllSucceeded(g, phase[g])'
                      /\ ~succeeded'[g] => cancellation'
    BY DEF Verdicts
  <2>1. CASE g = index
    BY <1>3, <1>5, <1>6, <1>7, <2>1 DEF AllSucceeded
  <2>2. CASE g # index
    BY <1>3, <1>5, <1>6, <1>7, <2>2 DEF AllSucceeded, IInv, Verdicts
  <2> QED BY <2>1, <2>2
<1>17. RunSoFar'
  BY <1>2 DEF RunSoFar
<1>18. Faults'
  BY <1>3 DEF IInv, Faults
<1>19. Closing' /\ ExitIsHonest'
  BY <1>2 DEF Closing, ExitIsHonest
<1> QED BY <1>8, <1>12, <1>13, <1>14, <1>15, <1>16, <1>17, <1>18, <1>19 DEF IInv

\* The gate of the phase opens.
LEMMA ReleaseStep == IInv /\ Release => IInv'
<1> SUFFICES ASSUME IInv, Release PROVE IInv'
  OBVIOUS
<1>1. pc = "release" /\ pc' = "wait" /\ index' = 1 /\ index' \in Graphs
  BY LeaveFacts DEF Release
<1>2. /\ gates' = gates \cup {current} /\ UNCHANGED <<cancellation, stage, phaseState>>
      /\ UNCHANGED <<current, flags, graphStarted, started, holding, contexts, exit, fault>>
  BY DEF Release, OpenGate
<1>3. TypeOK'
  BY <1>1, <1>2 DEF IInv, TypeOK
<1>4. WarmedUp' = WarmedUp /\ \A g : Pending(g)' = Pending(g)
  BY <1>2 DEF WarmedUp, AllSucceeded, Pending
<1>5. \A p : EveryoneAccepted(p)' = EveryoneAccepted(p)
  BY <1>2 DEF EveryoneAccepted, HasAccepted
<1>6. Executions'
  BY <1>2, <1>4 DEF IInv, Executions
<1>7. Together'
  BY <1>2, <1>4, <1>5 DEF IInv, Together
<1>8. OpenGates'
  <2>1. ~cancellation => EveryoneAccepted(current) /\ (current = "Timed" => WarmedUp)
    BY <1>1 DEF IInv, Acceptance, EveryoneAccepted, HasAccepted
  <2> QED BY <1>2, <1>4, <1>5, <2>1 DEF IInv, OpenGates
<1>9. Acceptance'
  BY <1>1, <1>2, <1>4, GraphFacts DEF IInv, Acceptance
<1>10. Verdicts'
  BY <1>2 DEF IInv, Verdicts, AllSucceeded
<1>11. RunSoFar'
  <2>1. \A g \in started' : ~(g < index')
    BY <1>1, <1>3, GraphFacts DEF TypeOK
  <2> QED BY <1>1, <2>1 DEF RunSoFar
<1>12. Faults'
  BY <1>2 DEF IInv, Faults
<1>13. Closing' /\ ExitIsHonest'
  BY <1>1 DEF Closing, ExitIsHonest
<1> QED BY <1>3, <1>6, <1>7, <1>8, <1>9, <1>10, <1>11, <1>12, <1>13 DEF IInv

\* waitForPhase of one graph, and what follows the last one.
LEMMA WaitForPhaseStep == IInv /\ WaitForPhase => IInv'
<1> SUFFICES ASSUME IInv, WaitForPhase PROVE IInv'
  OBVIOUS
<1>1. /\ UNCHANGED contractVars
      /\ UNCHANGED <<stopSucceeded, shutdownSucceeded, graphStarted, holding, contexts, exit, fault>>
      /\ pc = "wait" /\ (index \in started => ~active[index])
      /\ index \in Graphs /\ index \in Nat /\ cancellation \in BOOLEAN /\ current \in Phases
  BY GraphFacts DEF WaitForPhase, IInv, TypeOK
<1>2. Executions' /\ Together' /\ OpenGates' /\ Verdicts' /\ WarmedUp' = WarmedUp
  BY <1>1, QuietFacts
<1>3. /\ runSucceeded' \in BOOLEAN
      /\ runSucceeded' => /\ runSucceeded /\ (index \in started => succeeded[index])
                          /\ index = GraphCount => ~cancellation
      /\ runSucceeded /\ ~cancellation /\ (index \in started => succeeded[index]) => runSucceeded'
  BY DEF WaitForPhase
<1>4. \/ /\ index < GraphCount /\ pc' = "wait" /\ index' = index + 1 /\ index' \in Graphs
         /\ UNCHANGED <<current, started>>
      \/ /\ index = GraphCount /\ runSucceeded' /\ current = "Warmup"
         /\ pc' = "startPhase" /\ index' = 1 /\ index' \in Graphs /\ current' = "Timed" /\ started' = {}
      \/ /\ index = GraphCount /\ ~(runSucceeded' /\ current = "Warmup")
         /\ pc' = "stop" /\ index' = 1 /\ index' \in Graphs /\ UNCHANGED <<current, started>>
  <2>1. CASE index = GraphCount /\ runSucceeded' /\ current = "Warmup"
    BY <2>1, <1>1, LeaveFacts DEF WaitForPhase
  <2>2. CASE ~(index = GraphCount /\ runSucceeded' /\ current = "Warmup")
    <3>1. Loop("stop") /\ UNCHANGED <<current, started>>
      BY <2>2 DEF WaitForPhase
    <3> QED BY <1>1, <2>2, <3>1, LoopFacts
  <2> QED BY <2>1, <2>2
\* A graph whose phase ended with a good verdict executed all its frames.
<1>5. index \in started /\ succeeded[index] => AllSucceeded(index, current)
  <2>1. index \in started => phase[index] = current /\ current # "None"
    BY <1>1 DEF IInv, Acceptance, Phases
  <2> QED BY <1>1, <2>1 DEF IInv, Verdicts
<1>6. runSucceeded' => \A g \in started : g <= index => AllSucceeded(g, current)
  <2> SUFFICES ASSUME runSucceeded', NEW g \in started, g <= index PROVE AllSucceeded(g, current)
    OBVIOUS
  <2>1. runSucceeded /\ g \in Nat
    BY <1>3, GraphFacts DEF IInv, TypeOK
  <2>2. CASE g = index
    BY <1>3, <1>5, <2>2
  <2>3. CASE g < index
    BY <1>1, <2>1, <2>3 DEF IInv, RunSoFar
  <2> QED BY <1>1, <2>1, <2>2, <2>3
<1>7. index = GraphCount /\ runSucceeded' => \A g \in Graphs : AllSucceeded(g, current)
  <2> SUFFICES ASSUME index = GraphCount, runSucceeded', NEW g \in Graphs PROVE AllSucceeded(g, current)
    OBVIOUS
  <2>1. started = Graphs
    BY <1>1, <1>3 DEF IInv, Acceptance
  <2>2. g \in started /\ g <= index
    BY <2>1, GraphFacts
  <2> QED BY <1>6, <2>2
<1>8. index = GraphCount => \A g \in Graphs : ~active[g]
  <2> SUFFICES ASSUME index = GraphCount, NEW g \in Graphs, active[g] PROVE FALSE
    BY DEF IInv, TypeOK
  <2>1. g \in started /\ g >= index
    BY <1>1 DEF IInv, Acceptance
  <2>2. g = index
    BY <2>1, GraphFacts
  <2> QED BY <1>1, <2>1, <2>2
<1>9. \A g \in Graphs : \A p : AllSucceeded(g, p) <=> \A f \in FramesOf(p) : results'[g][f] = <<TRUE>>
  BY <1>1 DEF AllSucceeded
<1>10. TypeOK'
  <2>1. started' \subseteq Graphs /\ current' \in Phases
    BY <1>4 DEF IInv, TypeOK, Phases
  <2> QED BY <1>1, <1>3, <1>4, <2>1 DEF IInv, TypeOK
<1>11. Acceptance'
  <2>1. CASE index < GraphCount
    <3>1. \A g \in Graphs : active[g] => g >= index + 1
      <4> SUFFICES ASSUME NEW g \in Graphs, active[g] PROVE g >= index + 1
        OBVIOUS
      <4>1. g \in started /\ g >= index
        BY <1>1 DEF IInv, Acceptance
      <4> QED BY <1>1, <4>1, GraphFacts
    <3>2. pc' = "wait" /\ index' = index + 1 /\ UNCHANGED <<current, started>>
      BY <1>1, <1>4, <2>1
    <3> QED BY <1>1, <1>2, <3>1, <3>2 DEF IInv, Acceptance
  <2>2. CASE index = GraphCount /\ runSucceeded' /\ current = "Warmup"
    <3>1. WarmedUp
      BY <1>7, <2>2 DEF WarmedUp
    <3>2. pc' = "startPhase" /\ index' = 1 /\ current' = "Timed" /\ started' = {}
      BY <1>1, <1>4, <2>2, GraphFacts
    <3>3. 1..(1 - 1) = {}
      OBVIOUS
    <3> QED BY <1>1, <1>2, <1>8, <2>2, <3>1, <3>2, <3>3 DEF Acceptance
  <2>3. CASE index = GraphCount /\ ~(runSucceeded' /\ current = "Warmup")
    <3>1. pc' = "stop" /\ UNCHANGED <<current, started>>
      BY <1>1, <1>4, <2>3, GraphFacts
    <3> QED BY <1>1, <1>2, <1>8, <2>3, <3>1 DEF IInv, Acceptance
  <2> QED BY <1>4, <2>1, <2>2, <2>3
<1>12. RunSoFar'
  <2> SUFFICES ASSUME runSucceeded'
               PROVE  /\ pc' = "wait" => \A g \in started' : g < index' => AllSucceeded(g, current)'
                      /\ pc' \in {"stop", "shutdown", "release contexts", "count"} =>
                           \A g \in Graphs, f \in Frames : results'[g][f] = <<TRUE>>
    BY DEF RunSoFar
  <2>1. pc' = "wait" => \A g \in started' : g < index' => AllSucceeded(g, current)'
    <3> SUFFICES ASSUME pc' = "wait", NEW g \in started', g < index' PROVE AllSucceeded(g, current)'
      OBVIOUS
    <3>1. index' = index + 1 /\ UNCHANGED <<current, started>> /\ g \in started /\ g \in Graphs /\ g \in Nat
      BY <1>4, GraphFacts DEF IInv, TypeOK
    <3>2. g <= index
      BY <1>1, <3>1
    <3>3. AllSucceeded(g, current)
      BY <1>6, <3>1, <3>2
    <3> QED BY <1>9, <3>1, <3>3 DEF AllSucceeded
  <2>2. pc' \in {"stop", "shutdown", "release contexts", "count"} =>
           \A g \in Graphs, f \in Frames : results'[g][f] = <<TRUE>>
    <3> SUFFICES ASSUME pc' \in {"stop", "shutdown", "release contexts", "count"}, NEW g \in Graphs, NEW f \in Frames
                 PROVE  results'[g][f] = <<TRUE>>
      OBVIOUS
    <3>1. index = GraphCount /\ current = "Timed"
      BY <1>1, <1>4 DEF Phases
    <3>2. AllSucceeded(g, "Timed") /\ AllSucceeded(g, "Warmup")
      BY <1>7, <3>1 DEF IInv, Acceptance, WarmedUp
    <3>3. f \in FramesOf("Timed") \/ f \in FramesOf("Warmup")
      BY FrameFacts DEF Phases
    <3> QED BY <1>9, <3>2, <3>3
  <2> QED BY <2>1, <2>2
<1>13. Faults'
  <2>1. ~cancellation => \A g \in Graphs : succeeded[g]
    BY DEF IInv, Verdicts
  <2> QED BY <1>1, <1>3, <2>1 DEF IInv, Faults
<1>14. Closing' /\ ExitIsHonest'
  BY <1>4 DEF Closing, ExitIsHonest
<1> QED BY <1>2, <1>10, <1>11, <1>12, <1>13, <1>14 DEF IInv

\* Once main() has stopped the graphs they are quiet: shutdown gives the frames
\* without a result a bad one, and nothing else about the phases changes.
LEMMA ShutdownFacts ==
  ASSUME IInv, pc = "shutdown", UNCHANGED <<cancellation, gates, phase, active, succeeded, running>>,
         NEW S \in SUBSET Pending(index), results' = Give(index, S, FALSE)
  PROVE  /\ results' \in [Graphs -> [Frames -> Outcomes]]
         /\ \A g \in Graphs, f \in Frames : results[g][f] = <<TRUE>> => results'[g][f] = <<TRUE>>
         /\ Executions' /\ Together' /\ OpenGates' /\ Verdicts'
         /\ WarmedUp => WarmedUp'
<1>1. index \in Graphs /\ TypeOK
  BY DEF IInv, TypeOK
<1>2. /\ results' \in [Graphs -> [Frames -> Outcomes]]
      /\ \A h \in Graphs, f \in Frames : h = index /\ f \in S => results'[h][f] # <<TRUE>>
      /\ \A h \in Graphs, f \in Frames : ~(h = index /\ f \in S) => results'[h][f] = results[h][f]
  <2>1. FALSE \in BOOLEAN
    OBVIOUS
  <2>2. GivenOnce(results', index, S, FALSE)
    BY <1>1, <2>1, GiveFacts, Zenon
  <2> QED BY <2>2, OutcomesDiffer DEF GivenOnce
<1>3. \A f \in S : results[index][f] = <<>> /\ <<>> # <<TRUE>>
  BY DEF Pending
<1>5. \A g \in Graphs, f \in Frames : results[g][f] = <<TRUE>> <=> results'[g][f] = <<TRUE>>
  <2> SUFFICES ASSUME NEW g \in Graphs, NEW f \in Frames PROVE results[g][f] = <<TRUE>> <=> results'[g][f] = <<TRUE>>
    OBVIOUS
  <2>1. CASE g = index /\ f \in S
    <3>1. results'[g][f] # <<TRUE>>
      BY <1>2, <2>1
    <3>2. results[g][f] # <<TRUE>>
      BY <1>3, <2>1
    <3> QED BY <3>1, <3>2
  <2>2. CASE ~(g = index /\ f \in S)
    <3>1. results'[g][f] = results[g][f]
      BY <1>2, <2>2
    <3> QED BY <3>1
  <2> QED BY <2>1, <2>2
<1>6. \A g \in Graphs : ~active[g] /\ running[g] = {}
  BY DEF IInv, Acceptance, Executions
<1>7. /\ \A g \in Graphs : \A p : AllSucceeded(g, p) => \A f \in FramesOf(p) : results'[g][f] = <<TRUE>>
      /\ WarmedUp => WarmedUp'
  BY <1>5, SuccessesStay
<1>8. \A p : EveryoneAccepted(p)' = EveryoneAccepted(p)
  BY DEF EveryoneAccepted, HasAccepted
<1>9. Executions'
  BY <1>6 DEF Executions
<1>10. Together'
  BY <1>5, <1>6, <1>7, <1>8 DEF IInv, Together
<1>11. OpenGates'
  BY <1>7, <1>8 DEF IInv, OpenGates
<1>12. Verdicts'
  BY <1>7 DEF IInv, Verdicts, AllSucceeded
<1> QED BY <1>2, <1>5, <1>7, <1>9, <1>10, <1>11, <1>12

\* The first half of shutdown().
LEMMA ShutdownBeginsStep == IInv /\ ShutdownBegins => IInv'
<1> SUFFICES ASSUME IInv, ShutdownBegins PROVE IInv'
  OBVIOUS
<1>1. /\ pc = "shutdown" /\ UNCHANGED mainVars /\ index \in Graphs
      /\ stage' = [stage EXCEPT ![index] = "Closing"]
      /\ results' = Give(index, Pending(index) \ running[index], FALSE)
      /\ UNCHANGED <<phase, active, succeeded, running>>
      /\ stage[index] # "Closed"
  BY DEF ShutdownBegins, Close, IInv, TypeOK
<1>2. ~active[index]
  BY <1>1 DEF IInv, Acceptance
<1>3. UNCHANGED <<cancellation, gates>>
  BY <1>2 DEF ShutdownBegins, Close, IInv, TypeOK
<1>4. PICK S \in SUBSET Pending(index) : S = Pending(index) \ running[index]
  OBVIOUS
<1>5. /\ results' \in [Graphs -> [Frames -> Outcomes]]
      /\ \A g \in Graphs, f \in Frames : results[g][f] = <<TRUE>> => results'[g][f] = <<TRUE>>
      /\ Executions' /\ Together' /\ OpenGates' /\ Verdicts'
      /\ WarmedUp => WarmedUp'
  BY <1>1, <1>3, <1>4, ShutdownFacts
<1>6. TypeOK'
  <2>1. stage' \in [Graphs -> {"New", "Initialized", "Started", "Stopped", "Closing", "Closed"}]
    BY <1>1 DEF IInv, TypeOK
  <2> QED BY <1>1, <1>3, <1>5, <2>1 DEF IInv, TypeOK
<1>7. Acceptance'
  BY <1>1, <1>3, <1>5 DEF IInv, Acceptance
<1>8. RunSoFar'
  BY <1>1, <1>5 DEF IInv, RunSoFar
<1>9. Faults'
  BY <1>1, <1>3 DEF IInv, Faults
<1>10. Closing'
  <2>1. \A g \in Graphs : g < index => stage'[g] = stage[g]
    BY <1>1, GraphFacts DEF IInv, TypeOK
  <2> QED BY <1>1, <2>1 DEF IInv, Closing
<1>11. ExitIsHonest'
  BY <1>1 DEF ExitIsHonest
<1> QED BY <1>5, <1>6, <1>7, <1>8, <1>9, <1>10, <1>11 DEF IInv

\* shutdown() of a graph returns.
LEMMA ShutdownReturnsStep ==
  ASSUME IInv, pc = "shutdown", NEW unloaded \in BOOLEAN, ShutdownReturns(unloaded),
         stage' = [stage EXCEPT ![index] = "Closed"],
         NEW S \in SUBSET Pending(index), results' = Give(index, S, FALSE),
         UNCHANGED <<cancellation, gates, phase, active, succeeded, running>>,
         UNCHANGED <<current, runSucceeded, stopSucceeded, graphStarted, started, contexts, exit>>
  PROVE  IInv'
<1>1. index \in Graphs /\ index \in Nat
  BY GraphFacts DEF IInv, TypeOK
<1>2. /\ index' \in Graphs
      /\ \/ index < GraphCount /\ pc' = "shutdown" /\ index' = index + 1
         \/ index = GraphCount /\ pc' = "release contexts" /\ index' = 1
  BY <1>1, LoopFacts DEF ShutdownReturns
<1>3. /\ holding' = IF unloaded THEN holding \ {index} ELSE holding
      /\ shutdownSucceeded' = (shutdownSucceeded /\ unloaded)
      /\ fault' = (fault \/ ~unloaded)
  BY DEF ShutdownReturns
<1>4. /\ results' \in [Graphs -> [Frames -> Outcomes]]
      /\ \A g \in Graphs, f \in Frames : results[g][f] = <<TRUE>> => results'[g][f] = <<TRUE>>
      /\ Executions' /\ Together' /\ OpenGates' /\ Verdicts'
      /\ WarmedUp => WarmedUp'
  BY ShutdownFacts
<1>5. /\ stage' \in [Graphs -> {"New", "Initialized", "Started", "Stopped", "Closing", "Closed"}]
      /\ stage'[index] = "Closed" /\ \A g \in Graphs : g # index => stage'[g] = stage[g]
  BY <1>1 DEF IInv, TypeOK
<1>6. TypeOK'
  <2>1. holding' \subseteq Graphs /\ shutdownSucceeded' \in BOOLEAN /\ fault' \in BOOLEAN
    BY <1>3 DEF IInv, TypeOK
  <2> QED BY <1>2, <1>4, <1>5, <2>1 DEF IInv, TypeOK
<1>7. Acceptance'
  <2>1. \A g \in Graphs : ~active[g]
    BY DEF IInv, Acceptance
  <2> QED BY <1>2, <1>4, <2>1 DEF IInv, Acceptance
<1>8. RunSoFar'
  BY <1>2, <1>4 DEF IInv, RunSoFar
<1>9. Faults'
  BY <1>3 DEF IInv, Faults
<1>10. \A g \in Graphs : g <= index => stage'[g] = "Closed" /\ (shutdownSucceeded' => g \notin holding')
  <2> SUFFICES ASSUME NEW g \in Graphs, g <= index
               PROVE  stage'[g] = "Closed" /\ (shutdownSucceeded' => g \notin holding')
    OBVIOUS
  <2>1. CASE g = index
    BY <1>3, <1>5, <2>1
  <2>2. CASE g # index
    <3>1. g < index
      BY <1>1, <2>2, GraphFacts
    <3>2. stage[g] = "Closed" /\ (shutdownSucceeded => g \notin holding)
      BY <3>1 DEF IInv, Closing
    <3> QED BY <1>3, <1>5, <2>2, <3>2
  <2> QED BY <2>1, <2>2
<1>11. Closing'
  <2>1. /\ index < GraphCount \/ index = GraphCount
        /\ index < GraphCount => pc' = "shutdown" /\ \A g \in Graphs : g < index' => g <= index
        /\ index = GraphCount => pc' = "release contexts" /\ \A g \in Graphs : g <= index
    <3>1. Loop("release contexts")
      BY DEF ShutdownReturns
    <3> QED BY <1>1, <3>1, LoopSplit
  <2>2. CASE index < GraphCount
    BY <1>10, <2>1, <2>2 DEF Closing
  <2>3. CASE index = GraphCount
    <3>1. shutdownSucceeded' => holding' = {}
      BY <1>6, <1>10, <2>1, <2>3 DEF TypeOK
    <3> QED BY <1>10, <2>1, <2>3, <3>1 DEF Closing
  <2> QED BY <2>1, <2>2, <2>3
<1>12. ExitIsHonest'
  BY <1>2 DEF ExitIsHonest
<1> QED BY <1>4, <1>6, <1>7, <1>8, <1>9, <1>11, <1>12 DEF IInv

\* The workers of a graph have left and its shutdown() returns.
LEMMA ShutdownEndsStep == IInv /\ ShutdownEnds => IInv'
<1> SUFFICES ASSUME IInv, ShutdownEnds PROVE IInv'
  OBVIOUS
<1>1. /\ pc = "shutdown" /\ index \in Graphs /\ TypeOK /\ ~active[index]
  BY DEF ShutdownEnds, IInv, TypeOK, Acceptance
<1>2. PICK unloaded \in BOOLEAN : ShutdownReturns(unloaded)
  BY DEF ShutdownEnds
<1>3. /\ stage' = [stage EXCEPT ![index] = "Closed"]
      /\ active' = [active EXCEPT ![index] = FALSE]
      /\ succeeded' = [succeeded EXCEPT ![index] = @ /\ ~active[index]]
      /\ UNCHANGED <<cancellation, gates, phase, running, results>>
      /\ UNCHANGED <<current, runSucceeded, stopSucceeded, graphStarted, started, contexts, exit>>
  BY DEF ShutdownEnds, Closed, Enter
<1>4. active' = active /\ succeeded' = succeeded
  <2>1. active \in [Graphs -> BOOLEAN] /\ active[index] = FALSE
    BY <1>1 DEF TypeOK
  <2>2. active' = active
    BY <1>3, <2>1
  <2>3. succeeded \in [Graphs -> BOOLEAN] /\ (succeeded[index] /\ ~active[index]) = succeeded[index]
    BY <1>1, <2>1 DEF TypeOK
  <2>4. succeeded' = succeeded
    BY <1>3, <2>3
  <2> QED BY <2>2, <2>4
<1>5. PICK S : S = {}
  OBVIOUS
<1>6. S \in SUBSET Pending(index) /\ results' = Give(index, S, FALSE)
  <2>1. S \in SUBSET Pending(index)
    BY <1>5
  <2>3. PICK new : new = Give(index, S, FALSE)
    OBVIOUS
  <2>2. /\ new \in [Graphs -> [Frames -> Outcomes]]
        /\ \A h \in Graphs, f \in Frames : ~(h = index /\ f \in S) => new[h][f] = results[h][f]
    <3>1. FALSE \in BOOLEAN
      OBVIOUS
    <3>2. GivenOnce(new, index, S, FALSE)
      BY <1>1, <2>1, <2>3, <3>1, GiveFacts, Zenon
    <3> QED BY <3>2 DEF GivenOnce
  <2>5. new \in [Graphs -> [Frames -> Outcomes]] /\ results \in [Graphs -> [Frames -> Outcomes]]
    BY <1>1, <2>2, <2>3 DEF TypeOK
  <2>6. \A h \in Graphs, f \in Frames : new[h][f] = results[h][f]
    BY <1>5, <2>2, <2>3
  <2>7. \A h \in Graphs : new[h] = results[h]
    <3> SUFFICES ASSUME NEW h \in Graphs PROVE new[h] = results[h]
      OBVIOUS
    <3>1. new[h] \in [Frames -> Outcomes] /\ results[h] \in [Frames -> Outcomes]
      BY <2>5
    <3> QED BY <2>6, <3>1
  <2>8. new = results
    BY <2>5, <2>7
  <2> QED BY <1>3, <2>1, <2>3, <2>8
<1> QED BY <1>1, <1>2, <1>3, <1>4, <1>6, ShutdownReturnsStep

\* shutdown() of a graph that never came up.
LEMMA ShutdownOfRemainsStep == IInv /\ ShutdownOfRemains => IInv'
<1> SUFFICES ASSUME IInv, ShutdownOfRemains PROVE IInv'
  OBVIOUS
<1>1. PICK S \in SUBSET Pending(index) : CloseRemains(index, S)
  BY DEF ShutdownOfRemains
<1>2. PICK unloaded \in BOOLEAN : ShutdownReturns(unloaded)
  BY DEF ShutdownOfRemains
<1>3. /\ pc = "shutdown"
      /\ UNCHANGED <<current, runSucceeded, stopSucceeded, graphStarted, started, contexts, exit>>
  BY DEF ShutdownOfRemains
<1>4. /\ stage' = [stage EXCEPT ![index] = "Closed"] /\ results' = Give(index, S, FALSE)
      /\ UNCHANGED <<cancellation, gates, phase, active, succeeded, running>>
  BY <1>1 DEF CloseRemains
<1> QED BY <1>2, <1>3, <1>4, ShutdownReturnsStep

\* The counters of the sink, when every frame was delivered once and succeeded.
LEMMA CountersWhenComplete ==
  ASSUME \A g \in Graphs, f \in Frames : results[g][f] = <<TRUE>>
  PROVE  Cardinality(Deliveries) = GraphCount * (WarmupCount + TimedCount) /\ Failures = {}
<1>0. Len(<<TRUE>>) = 1 /\ <<TRUE>>[1] = TRUE
  OBVIOUS
<1>1. PICK one : one = <<TRUE>> /\ Len(one) = 1 /\ one[1] = TRUE
  BY <1>0, Zenon
<1>2. Deliveries = {<<g, f, 1>> : g \in Graphs, f \in Frames}
  <2>1. ASSUME NEW d \in Deliveries PROVE d \in {<<g, f, 1>> : g \in Graphs, f \in Frames}
    <3>1. PICK g \in Graphs, f \in Frames, n \in 1..2 : d = <<g, f, n>> /\ n <= Len(results[g][f])
      BY DEF Deliveries
    <3>2. results[g][f] = one
      BY <1>1
    <3>3. n = 1
      BY <1>1, <3>1, <3>2
    <3> QED BY <3>1, <3>3
  <2>2. ASSUME NEW g \in Graphs, NEW f \in Frames PROVE <<g, f, 1>> \in Deliveries
    <3>1. Len(results[g][f]) = 1
      BY <1>1
    <3>2. PICK d : d = <<g, f, 1>>
      OBVIOUS
    <3>3. d \in Graphs \X Frames \X (1..2) /\ d[1] = g /\ d[2] = f /\ d[3] = 1
      BY <3>2
    <3> QED BY <3>1, <3>2, <3>3 DEF Deliveries
  <2> QED BY <2>1, <2>2
<1>3. Failures = {}
  <2> SUFFICES ASSUME NEW d \in Failures PROVE FALSE
    OBVIOUS
  <2>1. d \in Deliveries /\ ~results[d[1]][d[2]][d[3]]
    BY DEF Failures
  <2>2. PICK g \in Graphs, f \in Frames : d = <<g, f, 1>>
    BY <1>2, <2>1
  <2>3. d[1] = g /\ d[2] = f /\ d[3] = 1
    BY <2>2
  <2>4. results[d[1]][d[2]][d[3]] = TRUE
    <3>1. results[g][f] = one
      BY <1>1
    <3> QED BY <1>1, <2>3, <3>1
  <2> QED BY <2>1, <2>4
<1>4. /\ IsFiniteSet(Graphs) /\ IsFiniteSet(Frames)
      /\ Cardinality(Graphs) = GraphCount /\ Cardinality(Frames) = WarmupCount + TimedCount
  <2>1. WarmupCount + TimedCount \in Nat
    BY FrameCounts
  <2> QED BY <2>1, GraphsAreIndexed, FS_Interval DEF Frames, GraphCount
<1>5. IsFiniteSet(Graphs \X Frames) /\ Cardinality(Graphs \X Frames) = GraphCount * (WarmupCount + TimedCount)
  BY <1>4, FS_Product
<1>6. PICK m : m = [e \in Graphs \X Frames |-> <<e[1], e[2], 1>>]
  OBVIOUS
<1>7. m \in Bijection(Graphs \X Frames, Deliveries)
  <2>1. m \in [Graphs \X Frames -> Deliveries]
    BY <1>2, <1>6
  <2>2. \A a, b \in Graphs \X Frames : m[a] = m[b] => a = b
    BY <1>6
  <2>3. \A d \in Deliveries : \E e \in Graphs \X Frames : m[e] = d
    <3> SUFFICES ASSUME NEW d \in Deliveries PROVE \E e \in Graphs \X Frames : m[e] = d
      OBVIOUS
    <3>1. PICK g \in Graphs, f \in Frames : d = <<g, f, 1>>
      BY <1>2
    <3>2. <<g, f>> \in Graphs \X Frames /\ m[<<g, f>>] = d
      BY <1>6, <3>1
    <3> QED BY <3>2
  <2> QED BY <2>1, <2>2, <2>3 DEF Bijection, Injection, Surjection, IsInjective
<1>8. Cardinality(Deliveries) = Cardinality(Graphs \X Frames)
  BY <1>5, <1>7, FS_Bijection DEF ExistsBijection
<1> QED BY <1>3, <1>5, <1>8

\* main() returns.
LEMMA ReturnStep == IInv /\ Return => IInv'
<1> SUFFICES ASSUME IInv, Return PROVE IInv'
  OBVIOUS
<1>1. /\ pc = "count" /\ pc' = "exited" /\ index' = 1 /\ index' \in Graphs /\ exit' = ExitStatus
      /\ UNCHANGED <<contractVars, current, flags, graphStarted, started, holding, contexts, fault>>
  BY LeaveFacts DEF Return
<1>2. Executions' /\ Together' /\ OpenGates' /\ Verdicts' /\ WarmedUp' = WarmedUp
  <2>1. UNCHANGED <<gates, phaseState>> /\ cancellation' \in BOOLEAN /\ (cancellation => cancellation')
    BY <1>1 DEF IInv, TypeOK
  <2> QED BY <2>1, QuietFacts
<1>3. TypeOK'
  BY <1>1 DEF IInv, TypeOK
<1>4. Acceptance'
  BY <1>1, <1>2 DEF IInv, Acceptance
<1>5. RunSoFar' /\ Closing'
  BY <1>1 DEF RunSoFar, Closing
<1>6. Faults'
  BY <1>1 DEF IInv, Faults
<1>7. ExitIsHonest'
  <2>1. exit' = 0 => runSucceeded /\ shutdownSucceeded
    BY <1>1 DEF ExitStatus
  <2>2. runSucceeded => \A g \in Graphs, f \in Frames : results[g][f] = <<TRUE>>
    BY <1>1 DEF IInv, RunSoFar
  <2>3. (\A g \in Graphs : stage[g] = "Closed") /\ (shutdownSucceeded => ~contexts)
    BY <1>1 DEF IInv, Closing
  <2>4. ~fault => exit' = 0
    <3> SUFFICES ASSUME ~fault PROVE exit' = 0
      OBVIOUS
    <3>1. runSucceeded /\ stopSucceeded /\ shutdownSucceeded
      BY DEF IInv, Faults
    <3>2. Cardinality(Deliveries) = GraphCount * (WarmupCount + TimedCount) /\ Failures = {}
      BY <2>2, <3>1, CountersWhenComplete
    <3> QED BY <1>1, <3>1, <3>2 DEF ExitStatus
  <2>5. fault' = fault /\ fault \in BOOLEAN /\ UNCHANGED <<results, stage, contexts>>
    BY <1>1 DEF IInv, TypeOK
  <2> QED BY <2>1, <2>2, <2>3, <2>4, <2>5 DEF ExitIsHonest
<1> QED BY <1>2, <1>3, <1>4, <1>5, <1>6, <1>7 DEF IInv

-----------------------------------------------------------------------------
(* The workers of the graphs *)

\* What a worker's step leaves to main(): as long as no graph becomes busy, no
\* verdict and no success is lost, and cancellation is not taken back, what
\* main() knows stays true.
LEMMA WorkerFacts ==
  ASSUME IInv, UNCHANGED <<pc, index, current, flags, graphStarted, started, holding, contexts, exit>>,
         UNCHANGED <<stage, phase>>, cancellation => cancellation',
         \A h \in Graphs : active'[h] => active[h],
         \A h \in Graphs, e \in Frames : results[h][e] = <<TRUE>> => results'[h][e] = <<TRUE>>,
         pc # "exited"
  PROVE  /\ Acceptance' /\ RunSoFar' /\ Closing' /\ ExitIsHonest'
         /\ \A h \in Graphs : \A p : AllSucceeded(h, p) => \A e \in FramesOf(p) : results'[h][e] = <<TRUE>>
         /\ WarmedUp => WarmedUp'
         /\ \A p : EveryoneAccepted(p)' = EveryoneAccepted(p)
<1>1. /\ \A h \in Graphs : \A p : AllSucceeded(h, p) => \A e \in FramesOf(p) : results'[h][e] = <<TRUE>>
      /\ WarmedUp => WarmedUp'
  BY SuccessesStay
<1>2. \A p : EveryoneAccepted(p)' = EveryoneAccepted(p)
  BY DEF EveryoneAccepted, HasAccepted
<1>3. Acceptance'
  BY <1>1 DEF IInv, Acceptance
<1>4. RunSoFar'
  <2> SUFFICES ASSUME runSucceeded
               PROVE  /\ pc = "wait" => \A g \in started : g < index => AllSucceeded(g, current)'
                      /\ pc \in {"stop", "shutdown", "release contexts", "count"} =>
                           \A g \in Graphs, f \in Frames : results'[g][f] = <<TRUE>>
    BY DEF RunSoFar
  <2>1. RunSoFar /\ started \subseteq Graphs
    BY DEF IInv, TypeOK
  <2>2. pc = "wait" => \A g \in started : g < index => AllSucceeded(g, current)'
    BY <1>1, <2>1 DEF RunSoFar, AllSucceeded
  <2>3. pc \in {"stop", "shutdown", "release contexts", "count"} =>
           \A g \in Graphs, f \in Frames : results'[g][f] = <<TRUE>>
    BY <2>1 DEF RunSoFar
  <2> QED BY <2>2, <2>3
<1>5. Closing'
  BY DEF IInv, Closing
<1>6. ExitIsHonest'
  BY DEF ExitIsHonest
<1> QED BY <1>1, <1>2, <1>3, <1>4, <1>5, <1>6

\* Nobody works when main() has returned.
LEMMA BusyFacts ==
  ASSUME IInv, NEW g \in Graphs, active[g] \/ running[g] # {}
  PROVE  pc # "exited" /\ active[g]
BY DEF IInv, Executions, Acceptance

\* A worker begins to execute a frame.
LEMMA BeginStep ==
  ASSUME IInv, NEW g \in Graphs, NEW f \in Frames, Begin(g, f), UNCHANGED mainVars
  PROVE  IInv'
<1>1. /\ active[g] /\ f \in FramesOf(phase[g]) \cap Pending(g)
      /\ phase[g] \in gates /\ ~cancellation
      /\ running' = [running EXCEPT ![g] = @ \cup {f}]
      /\ UNCHANGED <<cancellation, gates, stage, phase, active, succeeded, results>>
  BY DEF Begin
<1>2. /\ running' \in [Graphs -> SUBSET Frames]
      /\ \A h \in Graphs, e \in Frames : e \in running'[h] <=> e \in running[h] \/ (h = g /\ e = f)
  BY <1>1 DEF IInv, TypeOK
<1>3. TypeOK'
  BY <1>1, <1>2 DEF IInv, TypeOK
<1>4. phase[g] \in Phases
  BY <1>1 DEF IInv, TypeOK
<1>5. /\ Acceptance' /\ RunSoFar' /\ Closing' /\ ExitIsHonest'
      /\ WarmedUp' = WarmedUp
      /\ \A p : EveryoneAccepted(p)' = EveryoneAccepted(p)
  <2>1. WarmedUp' = WarmedUp
    BY <1>1 DEF WarmedUp, AllSucceeded
  <2> QED BY <1>1, <2>1, BusyFacts, WorkerFacts
<1>6. Executions'
  <2> SUFFICES ASSUME NEW h \in Graphs
               PROVE  /\ running'[h] \subseteq FramesOf(phase'[h]) \cap Pending(h)'
                      /\ running'[h] # {} => active'[h] /\ phase'[h] # "None"
    BY DEF Executions
  <2>1. Pending(h)' = Pending(h) /\ running'[h] \subseteq Frames
    BY <1>1, <1>2 DEF Pending
  <2>2. CASE h = g
    BY <1>1, <1>2, <1>4, <2>1, <2>2 DEF IInv, Executions, Phases
  <2>3. CASE h # g
    BY <1>1, <1>2, <2>1, <2>3 DEF IInv, Executions, TypeOK
  <2> QED BY <2>2, <2>3
<1>7. EveryoneAccepted(PhaseOf(f)) /\ (PhaseOf(f) = "Timed" => WarmedUp)
  <2>1. PhaseOf(f) = phase[g]
    BY <1>1, <1>4, FrameFacts
  <2> QED BY <1>1, <2>1 DEF IInv, OpenGates
<1>8. Together'
  BY <1>1, <1>2, <1>5, <1>7 DEF IInv, Together
<1>9. OpenGates' /\ Verdicts'
  BY <1>1, <1>5 DEF IInv, OpenGates, Verdicts, AllSucceeded
<1>10. Faults'
  BY <1>1 DEF IInv, Faults
<1> QED BY <1>3, <1>5, <1>6, <1>8, <1>9, <1>10 DEF IInv

\* An execution fails, or ends after cancellation.
LEMMA AbortStep ==
  ASSUME IInv, NEW g \in Graphs, NEW f \in Frames, Abort(g, f), fault' = TRUE,
         UNCHANGED <<pc, index, current, flags, graphStarted, started, holding, contexts, exit>>
  PROVE  IInv'
<1>1. /\ f \in running[g] /\ cancellation' = TRUE
      /\ running' = [running EXCEPT ![g] = @ \ {f}]
      /\ UNCHANGED <<gates, stage, phase, active, succeeded, results>>
  BY DEF Abort
<1>2. running' \in [Graphs -> SUBSET Frames] /\ \A h \in Graphs : running'[h] \subseteq running[h]
  BY <1>1 DEF IInv, TypeOK
<1>3. TypeOK'
  BY <1>1, <1>2 DEF IInv, TypeOK
<1>4. /\ Acceptance' /\ RunSoFar' /\ Closing' /\ ExitIsHonest'
      /\ WarmedUp' = WarmedUp
      /\ \A p : EveryoneAccepted(p)' = EveryoneAccepted(p)
  <2>1. WarmedUp' = WarmedUp
    BY <1>1 DEF WarmedUp, AllSucceeded
  <2>2. pc # "exited"
    BY <1>1, BusyFacts
  <2>3. cancellation'
    BY <1>1
  <2> QED BY <1>1, <2>1, <2>2, <2>3, WorkerFacts
<1>5. Executions'
  <2>1. \A h : Pending(h)' = Pending(h)
    BY <1>1 DEF Pending
  <2> QED BY <1>1, <1>2, <2>1 DEF IInv, Executions
<1>6. Together'
  BY <1>1, <1>2, <1>4 DEF IInv, Together
<1>7. OpenGates' /\ Verdicts' /\ Faults'
  BY <1>1 DEF IInv, OpenGates, Verdicts, Faults, AllSucceeded
<1> QED BY <1>3, <1>4, <1>5, <1>6, <1>7 DEF IInv

\* A frame that was executed is delivered.
LEMMA DeliverStep ==
  ASSUME IInv, NEW g \in Graphs, NEW f \in Frames, Deliver(g, f), UNCHANGED mainVars
  PROVE  IInv'
<1>1. /\ f \in running[g] /\ active[g]
      /\ running' = [running EXCEPT ![g] = @ \ {f}]
      /\ UNCHANGED <<cancellation, gates, stage, phase, active, succeeded>>
  BY DEF Deliver
<1>2. f \in Pending(g) /\ results[g][f] = <<>>
  BY <1>1 DEF IInv, Executions, Pending
<1>3. /\ results' \in [Graphs -> [Frames -> Outcomes]]
      /\ results'[g][f] = <<TRUE>>
      /\ \A h \in Graphs, e \in Frames : ~(h = g /\ e = f) => results'[h][e] = results[h][e]
  <2>1. PICK S : S = {f}
    OBVIOUS
  <2>2. TRUE \in BOOLEAN /\ S \in SUBSET Pending(g) /\ TypeOK
    BY <1>2, <2>1 DEF IInv
  <2>3. results' = Give(g, S, TRUE)
    BY <2>1 DEF Deliver
  <2>4. GivenOnce(results', g, S, TRUE)
    BY <2>2, <2>3, GiveFacts, Zenon
  <2> QED BY <2>1, <2>4 DEF GivenOnce
<1>4. \A h \in Graphs, e \in Frames : results[h][e] = <<TRUE>> => results'[h][e] = <<TRUE>>
  BY <1>3
<1>5. /\ running' \in [Graphs -> SUBSET Frames]
      /\ \A h \in Graphs : running'[h] \subseteq running[h]
      /\ f \notin running'[g]
  BY <1>1 DEF IInv, TypeOK
<1>6. TypeOK'
  BY <1>1, <1>3, <1>5 DEF IInv, TypeOK
<1>7. /\ Acceptance' /\ RunSoFar' /\ Closing' /\ ExitIsHonest'
      /\ \A h \in Graphs : \A p : AllSucceeded(h, p) => \A e \in FramesOf(p) : results'[h][e] = <<TRUE>>
      /\ WarmedUp => WarmedUp'
      /\ \A p : EveryoneAccepted(p)' = EveryoneAccepted(p)
  <2>1. pc # "exited"
    BY <1>1, BusyFacts
  <2> QED BY <1>1, <1>4, <2>1, WorkerFacts
<1>8. Executions'
  <2> SUFFICES ASSUME NEW h \in Graphs
               PROVE  /\ running'[h] \subseteq FramesOf(phase'[h]) \cap Pending(h)'
                      /\ running'[h] # {} => active'[h] /\ phase'[h] # "None"
    BY DEF Executions
  <2>1. running'[h] \subseteq Pending(h)'
    <3> SUFFICES ASSUME NEW e \in running'[h] PROVE e \in Pending(h)'
      OBVIOUS
    <3>1. e \in Pending(h) /\ ~(h = g /\ e = f) /\ e \in Frames
      BY <1>5 DEF IInv, Executions, TypeOK
    <3> QED BY <1>3, <3>1 DEF Pending
  <2> QED BY <1>1, <1>5, <2>1 DEF IInv, Executions
<1>9. Together'
  <2> SUFFICES ASSUME NEW h \in Graphs, NEW e \in Frames, e \in running'[h] \/ results'[h][e] = <<TRUE>>
               PROVE  EveryoneAccepted(PhaseOf(e))' /\ (PhaseOf(e) = "Timed" => WarmedUp')
    BY DEF Together
  <2>1. e \in running[h] \/ results[h][e] = <<TRUE>>
    BY <1>1, <1>3, <1>5
  <2> QED BY <1>7, <2>1 DEF IInv, Together
<1>10. OpenGates'
  BY <1>1, <1>7 DEF IInv, OpenGates
<1>11. Verdicts'
  BY <1>1, <1>7 DEF IInv, Verdicts, AllSucceeded
<1>12. Faults'
  BY <1>1 DEF IInv, Faults
<1> QED BY <1>6, <1>7, <1>8, <1>9, <1>10, <1>11, <1>12 DEF IInv

\* Frames are given up, and the phase ends or goes on.
LEMMA AdvanceStep ==
  ASSUME IInv, NEW g \in Graphs, NEW S \in SUBSET Frames, NEW over \in BOOLEAN, NEW verdict \in BOOLEAN,
         Advance(g, S, over, verdict), UNCHANGED mainVars
  PROVE  IInv'
<1>1. /\ active[g] /\ S \subseteq Pending(g) \ running[g]
      /\ over => \A f \in FramesOf(phase[g]) : results'[g][f] # <<>>
      /\ over /\ verdict => \A f \in FramesOf(phase[g]) : results[g][f] = <<TRUE>>
      /\ over /\ ~verdict => cancellation
      /\ ~over => verdict
      /\ active' = [active EXCEPT ![g] = ~over]
      /\ succeeded' = [succeeded EXCEPT ![g] = verdict]
      /\ UNCHANGED <<cancellation, gates, stage, phase, running>>
  BY DEF Advance
<1>2. /\ results' \in [Graphs -> [Frames -> Outcomes]]
      /\ \A h \in Graphs, e \in Frames : h = g /\ e \in S => results'[h][e] # <<TRUE>>
      /\ \A h \in Graphs, e \in Frames : ~(h = g /\ e \in S) => results'[h][e] = results[h][e]
  <2>1. FALSE \in BOOLEAN /\ S \in SUBSET Pending(g) /\ TypeOK
    BY <1>1 DEF IInv
  <2>2. results' = Give(g, S, FALSE)
    BY DEF Advance
  <2>3. GivenOnce(results', g, S, FALSE)
    BY <2>1, <2>2, GiveFacts, Zenon
  <2> QED BY <2>3, OutcomesDiffer DEF GivenOnce
<1>3. \A e \in S : results[g][e] = <<>> /\ results[g][e] # <<TRUE>> /\ e \notin running[g]
  BY <1>1, OutcomesDiffer DEF Pending
<1>4. \A h \in Graphs, e \in Frames : results[h][e] = <<TRUE>> => results'[h][e] = <<TRUE>>
  BY <1>2, <1>3
<1>5. /\ active' \in [Graphs -> BOOLEAN] /\ active'[g] = ~over /\ \A h \in Graphs : h # g => active'[h] = active[h]
      /\ succeeded' \in [Graphs -> BOOLEAN] /\ succeeded'[g] = verdict
      /\ \A h \in Graphs : h # g => succeeded'[h] = succeeded[h]
  BY <1>1 DEF IInv, TypeOK
<1>6. \A h \in Graphs : active'[h] => active[h]
  BY <1>1, <1>5
<1>7. TypeOK'
  BY <1>1, <1>2, <1>5 DEF IInv, TypeOK
<1>8. /\ Acceptance' /\ RunSoFar' /\ Closing' /\ ExitIsHonest'
      /\ \A h \in Graphs : \A p : AllSucceeded(h, p) => \A e \in FramesOf(p) : results'[h][e] = <<TRUE>>
      /\ WarmedUp => WarmedUp'
      /\ \A p : EveryoneAccepted(p)' = EveryoneAccepted(p)
  <2>1. pc # "exited"
    BY <1>1, BusyFacts
  <2> QED BY <1>1, <1>4, <1>6, <2>1, WorkerFacts
<1>9. Executions'
  <2> SUFFICES ASSUME NEW h \in Graphs
               PROVE  /\ running'[h] \subseteq FramesOf(phase'[h]) \cap Pending(h)'
                      /\ running'[h] # {} => active'[h] /\ phase'[h] # "None"
    BY DEF Executions
  <2>0. /\ running[h] \subseteq FramesOf(phase[h]) \cap Pending(h)
        /\ running[h] # {} => active[h] /\ phase[h] # "None"
    BY DEF IInv, Executions
  <2>1. running[h] \subseteq Pending(h)'
    <3> SUFFICES ASSUME NEW e \in running[h] PROVE e \in Pending(h)'
      OBVIOUS
    <3>1. e \in Pending(h) /\ ~(h = g /\ e \in S) /\ e \in Frames
      BY <1>3, <2>0 DEF Pending
    <3> QED BY <1>2, <3>1 DEF Pending
  \* The phase of a graph that still executes a frame cannot be over.
  <2>2. running[h] # {} => active'[h]
    <3>1. CASE h = g /\ over
      <4> SUFFICES ASSUME NEW e \in running[h] PROVE FALSE
        OBVIOUS
      <4>1. e \in FramesOf(phase[g]) /\ e \in Pending(h)'
        BY <2>0, <2>1, <3>1
      <4> QED BY <1>1, <3>1, <4>1 DEF Pending
    <3>2. CASE ~(h = g /\ over)
      BY <1>1, <1>5, <2>0, <3>2
    <3> QED BY <3>1, <3>2
  <2> QED BY <1>1, <2>0, <2>1, <2>2
<1>10. Together'
  <2> SUFFICES ASSUME NEW h \in Graphs, NEW e \in Frames, e \in running'[h] \/ results'[h][e] = <<TRUE>>
               PROVE  EveryoneAccepted(PhaseOf(e))' /\ (PhaseOf(e) = "Timed" => WarmedUp')
    BY DEF Together
  <2>1. e \in running[h] \/ results[h][e] = <<TRUE>>
    BY <1>1, <1>2
  <2> QED BY <1>8, <2>1 DEF IInv, Together
<1>11. OpenGates'
  BY <1>1, <1>8 DEF IInv, OpenGates
<1>12. Verdicts'
  <2> SUFFICES ASSUME NEW h \in Graphs
               PROVE  /\ ~active'[h] /\ succeeded'[h] /\ phase'[h] # "None" => AllSucceeded(h, phase[h])'
                      /\ ~succeeded'[h] => cancellation'
    BY DEF Verdicts
  <2>1. CASE h = g
    <3>1. over /\ verdict => AllSucceeded(h, phase[h])
      BY <1>1, <2>1 DEF AllSucceeded
    <3>2. ~active'[h] /\ succeeded'[h] => AllSucceeded(h, phase[h])'
      BY <1>1, <1>5, <1>8, <2>1, <3>1 DEF AllSucceeded
    <3>3. ~succeeded'[h] => cancellation'
      BY <1>1, <1>5, <2>1
    <3> QED BY <3>2, <3>3
  <2>2. CASE h # g
    BY <1>1, <1>5, <1>8, <2>2 DEF IInv, Verdicts, AllSucceeded
  <2> QED BY <2>1, <2>2
<1>13. Faults'
  BY <1>1 DEF IInv, Faults
<1> QED BY <1>7, <1>8, <1>9, <1>10, <1>11, <1>12, <1>13 DEF IInv

-----------------------------------------------------------------------------
(* The theorems *)

\* Every step keeps the invariant.
LEMMA NextInvariant == IInv /\ [MainNext]_vars => IInv'
<1> SUFFICES ASSUME IInv, [MainNext]_vars PROVE IInv'
  OBVIOUS
<1>1. CASE UNCHANGED vars
  <2>1. Executions' /\ Together' /\ OpenGates' /\ Verdicts' /\ WarmedUp' = WarmedUp
    <3>1. UNCHANGED <<gates, phaseState>> /\ cancellation' \in BOOLEAN /\ (cancellation => cancellation')
      BY <1>1 DEF IInv, TypeOK
    <3> QED BY <3>1, QuietFacts
  <2>2. TypeOK'
    BY <1>1 DEF IInv, TypeOK
  <2>3. Acceptance'
    BY <1>1, <2>1 DEF IInv, Acceptance
  <2>4. RunSoFar' /\ Faults'
    BY <1>1 DEF IInv, RunSoFar, Faults, AllSucceeded
  <2>5. Closing' /\ ExitIsHonest'
    BY <1>1 DEF IInv, Closing, ExitIsHonest
  <2> QED BY <2>1, <2>2, <2>3, <2>4, <2>5 DEF IInv
<1>2. CASE MainStep
  BY <1>2, ContextsFailStep, ContextsReadyStep, InitializeGraphStep, InitializeFailsStep, StartGraphStep, StartFailsStep,
     AcceptPhaseStep, RefusePhaseStep, ReleaseStep, WaitForPhaseStep, StopGraphStep, StopFailsStep,
     ShutdownBeginsStep, ShutdownEndsStep, ShutdownOfRemainsStep, ReleaseContextsStep, ReturnStep
  DEF MainStep
<1>3. CASE \E g \in Graphs : GraphStep(g)
  <2>1. PICK g \in Graphs : GraphStep(g)
    BY <1>3
  <2>2. CASE \E f \in Frames : Begin(g, f) /\ UNCHANGED mainVars
    BY <2>2, BeginStep
  <2>3. CASE \E f \in Frames : Deliver(g, f) /\ UNCHANGED mainVars
    BY <2>3, DeliverStep
  <2>4. CASE /\ \E f \in Frames : Abort(g, f)
             /\ fault' = TRUE
             /\ UNCHANGED <<pc, index, current, flags, graphStarted, started, holding, contexts, exit>>
    BY <2>4, AbortStep
  <2>5. CASE /\ \E S \in SUBSET Frames, over \in BOOLEAN, verdict \in BOOLEAN : Advance(g, S, over, verdict)
             /\ UNCHANGED mainVars
    BY <2>5, AdvanceStep
  <2> QED BY <2>1, <2>2, <2>3, <2>4, <2>5 DEF GraphStep
<1> QED BY <1>1, <1>2, <1>3 DEF MainNext

\* The invariant holds in every state main() and the graphs reach, for every
\* number of graphs, warmup frames and timed frames.
THEOREM InductiveInvariant == MainSpec => []IInv
BY InitInvariant, NextInvariant, PTL DEF MainSpec

\* The graphs run each phase together, the timed phase behind a complete warmup,
\* and none is busy when main() has destroyed the gate.
THEOREM PhasesHold == MainSpec => []PhasesAreCommon
<1>1. IInv => PhasesAreCommon
  <2> SUFFICES ASSUME IInv PROVE PhasesAreCommon
    OBVIOUS
  <2>1. \A g \in Graphs, f \in Frames :
          f \in running[g] \/ results[g][f] = <<TRUE>> =>
            /\ \A h \in Graphs : HasAccepted(h, PhaseOf(f))
            /\ PhaseOf(f) = "Timed" => \A h \in Graphs, e \in FramesOf("Warmup") : results[h][e] = <<TRUE>>
    BY DEF IInv, Together, EveryoneAccepted, WarmedUp, AllSucceeded
  <2>2. \A g \in Graphs : active[g] => pc \in {"startPhase", "release", "wait"} /\ phase[g] = current
    BY DEF IInv, Acceptance
  <2> QED BY <2>1, <2>2 DEF PhasesAreCommon
<1> QED BY <1>1, InductiveInvariant, PTL

\* Exit status 0 speaks for every frame, every graph and the contexts, and any
\* other status has a fault behind it.
THEOREM ExitHolds == MainSpec => []ExitIsHonest
<1>1. IInv => ExitIsHonest
  BY DEF IInv
<1> QED BY <1>1, InductiveInvariant, PTL
===============================================================================
