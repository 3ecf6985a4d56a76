----------------------- MODULE GpuContextManagerProofs -----------------------
(***************************************************************************)
(* Proofs about GpuContextManager for every number of devices, nodes,      *)
(* tasks and calls of init: IInv is inductive, and the properties of the   *)
(* registration table follow.                                              *)
(***************************************************************************)
EXTENDS GpuContextManagerInvariant, FiniteSetTheorems, SequenceTheorems, WellFoundedInduction, TLAPS

USE SizesAssumption, NodesAssumption, ResourcesAssumption
USE DEF hostVars, managerVars, vars

-----------------------------------------------------------------------------
(* Numbers, slots and nodes *)

\* A set of naturals has a least element.
LEMMA LeastElement ==
  ASSUME NEW T \in SUBSET Nat, T # {}
  PROVE  \E x \in T : \A y \in T : x <= y
<1>1. PICK R : IsWellFoundedOn(R, Nat) /\ \A x, y \in Nat : y < x => <<y, x>> \in R
  <2>1. IsWellFoundedOn(OpToRel(<, Nat), Nat)
    BY NatLessThanWellFounded, Zenon
  <2>2. \A x, y \in Nat : y < x => <<y, x>> \in OpToRel(<, Nat)
    BY Zenon DEF OpToRel
  <2> QED BY <2>1, <2>2, Zenon
<1>2. PICK x \in T : \A y \in T : ~ (<<y, x>> \in R)
  BY <1>1, WFMin, Zenon
<1>3. \A y \in T : ~(y < x)
  BY <1>1, <1>2, Zenon
<1> QED BY <1>3

\* The positions of a list are finitely many, and so is any part of them.
LEMMA FinitePositions ==
  ASSUME NEW S, NEW s \in Seq(S), NEW T \in SUBSET DOMAIN s
  PROVE  IsFiniteSet(T) /\ Cardinality(T) \in Nat /\ (Cardinality(T) = 0 <=> T = {})
<1>1. IsFiniteSet(1..Len(s))
  BY FS_Interval
<1>2. IsFiniteSet(T)
  BY <1>1, FS_Subset
<1> QED BY <1>2, FS_CardinalityType, FS_EmptySet

\* registerTask takes an empty slot or appends one.
LEMMA SlotFacts ==
  ASSUME NEW c \in Contexts
  PROVE  /\ SlotFor(c) \in 1..(Len(c.slots) + 1)
         /\ SlotFor(c) \in DOMAIN c.slots => c.slots[SlotFor(c)] = Free
<1>1. c.slots \in Seq(Resources \union {Free}) /\ Len(c.slots) \in Nat /\ DOMAIN c.slots = 1..Len(c.slots)
  BY DEF Contexts
<1>2. CASE FreeSlots(c) = {}
  <2>1. SlotFor(c) = Len(c.slots) + 1
    BY <1>2 DEF SlotFor
  <2> QED BY <1>1, <2>1
<1>3. CASE FreeSlots(c) # {}
  <2>1. FreeSlots(c) \in SUBSET Nat
    BY <1>1 DEF FreeSlots
  <2>2. \E i \in FreeSlots(c) : \A j \in FreeSlots(c) : i <= j
    BY <1>3, <2>1, LeastElement
  <2>3. SlotFor(c) \in FreeSlots(c)
    BY <1>3, <2>2 DEF SlotFor
  <2> QED BY <1>1, <2>3 DEF FreeSlots
<1> QED BY <1>2, <1>3

\* Writing slot i of a context changes that slot and nothing else.
LEMMA WithSlotFacts ==
  ASSUME NEW c \in Contexts, NEW i \in 1..(Len(c.slots) + 1), NEW r \in Resources \union {Free}
  PROVE  /\ WithSlot(c, i, r) \in Contexts
         /\ WithSlot(c, i, r).id = c.id /\ WithSlot(c, i, r).gpuId = c.gpuId
         /\ WithSlot(c, i, r).numaNode = c.numaNode
         /\ DOMAIN WithSlot(c, i, r).slots = DOMAIN c.slots \cup {i}
         /\ WithSlot(c, i, r).slots[i] = r
         /\ \A j \in DOMAIN c.slots \ {i} : WithSlot(c, i, r).slots[j] = c.slots[j]
<1>1. c.slots \in Seq(Resources \union {Free}) /\ Len(c.slots) \in Nat /\ DOMAIN c.slots = 1..Len(c.slots)
  BY DEF Contexts
<1> DEFINE n == IF i > Len(c.slots) THEN i ELSE Len(c.slots)
           s == [j \in 1..n |-> IF j = i THEN r ELSE c.slots[j]]
<1>2. n \in Nat /\ 1..n = DOMAIN c.slots \cup {i}
  BY <1>1
<1>3. s \in Seq(Resources \union {Free})
  <2>1. \A j \in 1..n : (IF j = i THEN r ELSE c.slots[j]) \in Resources \union {Free}
    BY <1>1, <1>2
  <2> QED BY <1>2, <2>1
<1>4. WithSlot(c, i, r) = [c EXCEPT !.slots = s]
  BY DEF WithSlot
<1>5. DOMAIN s = DOMAIN c.slots \cup {i} /\ s[i] = r /\ \A j \in DOMAIN c.slots \ {i} : s[j] = c.slots[j]
  BY <1>1, <1>2
<1> HIDE DEF n, s
<1> QED BY <1>3, <1>4, <1>5 DEF Contexts

\* A node the strict resolution finds is the one the lenient resolution finds.
LEMMA NodeFacts ==
  ASSUME TypeOK, NEW g \in Gpus, NEW strict \in BOOLEAN, resolveGpuNumaNode(reported[g], strict) # Unknown
  PROVE  resolveGpuNumaNode(reported[g], strict) = NodeOf(g) /\ NodeOf(g) \in Nodes
BY DEF TypeOK, NodeOf, resolveGpuNumaNode, Unknown

\* A context without tasks has no slot that names one.
LEMMA ActiveFacts ==
  ASSUME NEW c \in Contexts
  PROVE  activeTaskCount(c) = 0 <=> \A i \in DOMAIN c.slots : c.slots[i] = Free
<1>1. c.slots \in Seq(Resources \union {Free})
  BY DEF Contexts
<1>2. {i \in DOMAIN c.slots : c.slots[i] # Free} \in SUBSET DOMAIN c.slots
  OBVIOUS
<1> QED BY <1>1, <1>2, FinitePositions DEF activeTaskCount

\* What the type invariant says of the list of contexts.
LEMMA ContextTypes ==
  ASSUME TypeOK
  PROVE  /\ Len(contexts) \in Nat /\ DOMAIN contexts = 1..Len(contexts)
         /\ \A k \in DOMAIN contexts : contexts[k] \in Contexts
BY DEF TypeOK

\* releaseContexts gives back everything when no context has a task.
LEMMA ReleaseFacts ==
  ASSUME IInv, \A k \in DOMAIN contexts : activeTaskCount(contexts[k]) = 0
  PROVE  AfterRelease(contexts) = [g \in Gpus |-> 0]
<1>1. ASSUME NEW g \in Gpus
      PROVE  {i \in DOMAIN contexts : contexts[i].gpuId = g /\ activeTaskCount(contexts[i]) = 0}
               = {i \in DOMAIN contexts : contexts[i].gpuId = g}
  OBVIOUS
<1>2. \A g \in Gpus : retained[g] \in Int /\ retained[g] = Cardinality({i \in DOMAIN contexts : contexts[i].gpuId = g})
  BY DEF IInv, TypeOK, RetainsAreBalanced
<1> QED BY <1>1, <1>2 DEF AfterRelease

\* An empty list retains nothing.
LEMMA EmptyBalance ==
  ASSUME contexts' = <<>>, retained' = [g \in Gpus |-> 0]
  PROVE  RetainsAreBalanced'
<1>1. \A g \in Gpus : {i \in DOMAIN contexts' : contexts'[i].gpuId = g} = {}
  OBVIOUS
<1> QED BY <1>1, FS_EmptySet DEF RetainsAreBalanced

\* Before the first init there is nothing to go wrong.
LEMMA InitInvariant == Init => IInv
<1> SUFFICES ASSUME Init PROVE IInv
  OBVIOUS
<1>1. TypeOK
  <2>1. resources \in [Resources -> [resourceId : Int, gpuId : Gpus \union {Unknown}, ctx : Nat \union {Unknown}]]
    BY DEF Init, Unregistered, Unknown
  <2>2. task \in [Resources -> [pc : {"Idle", "Locating", "Resolved", "Registering", "Current"},
                               gpuId : Gpus \union {Unknown}]]
    BY DEF Init, At
  <2>3. retained \in [Gpus -> Int] /\ contexts \in Seq(Contexts) /\ inits \in Nat
    BY DEF Init
  <2>4. initialised \in BOOLEAN /\ requireNuma \in BOOLEAN /\ lock \in {Free, "init"}
    BY DEF Init
  <2> QED BY <2>1, <2>2, <2>3, <2>4 DEF Init, TypeOK
<1>2. ContextsInOrder /\ Construction
  BY DEF Init, ContextsInOrder, Construction
<1>3. Resolutions /\ RegistrationsAreExact
  BY DEF Init, Resolutions, RegistrationsAreExact, Unregistered, At
<1>4. RetainsAreBalanced
  <2>1. \A g \in Gpus : {i \in DOMAIN contexts : contexts[i].gpuId = g} = {}
    BY DEF Init
  <2> QED BY <2>1, FS_EmptySet DEF Init, RetainsAreBalanced
<1> QED BY <1>1, <1>2, <1>3, <1>4 DEF IInv

-----------------------------------------------------------------------------
(* init and shutdown *)

\* Nothing about the host, the tasks and their resources changes.
TasksUnchanged == UNCHANGED <<hostVars, resources, task>>

\* The devices of the host and their nodes stay what they are.
LEMMA HostFacts ==
  ASSUME UNCHANGED hostVars
  PROVE  /\ \A g : NodeOf(g)' = NodeOf(g)
         /\ \A r, g : OnlyDevice(r, g)' = OnlyDevice(r, g)
<1>1. ASSUME NEW g PROVE NodeOf(g)' = NodeOf(g)
  BY DEF NodeOf, resolveGpuNumaNode
<1>2. ASSUME NEW r, NEW g PROVE OnlyDevice(r, g)' = OnlyDevice(r, g)
  BY <1>1 DEF OnlyDevice
<1> QED BY <1>1, <1>2

\* Without an initialised manager no task is registered.
LEMMA NobodyBeforeInit ==
  ASSUME IInv, ~initialised
  PROVE  /\ \A r \in Resources : resources[r].ctx = Unknown
         /\ \A k \in DOMAIN contexts : activeTaskCount(contexts[k]) = 0
<1>1. \A r \in Resources : resources[r].ctx = Unknown
  BY DEF IInv, RegistrationsAreExact
<1>2. \A k \in DOMAIN contexts : activeTaskCount(contexts[k]) = 0
  <2> SUFFICES ASSUME NEW k \in DOMAIN contexts PROVE activeTaskCount(contexts[k]) = 0
    OBVIOUS
  <2>1. contexts[k] \in Contexts /\ contexts[k].slots = <<>>
    BY ContextTypes DEF IInv, Construction
  <2>2. \A i \in DOMAIN contexts[k].slots : contexts[k].slots[i] = Free
    BY <2>1
  <2> QED BY <2>1, <2>2, ActiveFacts
<1> QED BY <1>1, <1>2

\* A shutdown that is not blocked finds no task registered.
LEMMA NobodyAtShutdown ==
  ASSUME IInv, NoActiveTask
  PROVE  \A r \in Resources : resources[r].ctx = Unknown
<1> SUFFICES ASSUME NEW r \in Resources, resources[r].ctx # Unknown PROVE FALSE
  OBVIOUS
<1>1. PICK k \in DOMAIN contexts : /\ resources[r].resourceId \in DOMAIN contexts[k].slots
                                   /\ contexts[k].slots[resources[r].resourceId] = r
  BY DEF IInv, RegistrationsAreExact
<1>2. contexts[k] \in Contexts /\ activeTaskCount(contexts[k]) = 0
  BY <1>1, ContextTypes DEF IInv, NoActiveTask
<1>3. \A i \in DOMAIN contexts[k].slots : contexts[k].slots[i] = Free
  BY <1>2, ActiveFacts
<1> QED BY <1>1, <1>3

\* What an emptied list of contexts leaves to show: the manager is not
\* initialised, the lock is free, and no task is registered.
LEMMA EmptiedInvariant ==
  ASSUME IInv, TasksUnchanged, contexts' = <<>>, retained' = [g \in Gpus |-> 0], initialised' = FALSE,
         lock' = Free, requireNuma' \in BOOLEAN, inits' \in Nat,
         \A r \in Resources : resources[r].ctx = Unknown
  PROVE  IInv'
<1>1. TypeOK'
  <2>1. retained' \in [Gpus -> Int]
    OBVIOUS
  <2>2. contexts' \in Seq(Contexts)
    OBVIOUS
  <2>3. initialised' \in BOOLEAN /\ lock' \in {Free, "init"}
    OBVIOUS
  <2>4. Contexts' = Contexts
    BY DEF Contexts
  <2> QED BY <2>1, <2>2, <2>3, <2>4 DEF IInv, TypeOK, TasksUnchanged
<1>2. ContextsInOrder' /\ Construction'
  BY DEF ContextsInOrder, Construction, Free
<1>3. Resolutions'
  BY HostFacts DEF IInv, Resolutions, TasksUnchanged
<1>4. RegistrationsAreExact'
  BY DEF RegistrationsAreExact, TasksUnchanged
<1>5. RetainsAreBalanced'
  BY EmptyBalance
<1> QED BY <1>1, <1>2, <1>3, <1>4, <1>5 DEF IInv

\* init takes the lock over an empty list.
LEMMA BeginInitStep == IInv /\ BeginInit => IInv'
<1> SUFFICES ASSUME IInv, BeginInit PROVE IInv'
  OBVIOUS
<1>1. contexts = <<>>
  BY DEF IInv, Construction, BeginInit
<1>2. contexts' = contexts
  BY <1>1 DEF BeginInit
<1>3. TypeOK'
  <2>1. lock' \in {Free, "init"} /\ requireNuma' \in BOOLEAN
    BY DEF BeginInit
  <2> QED BY <1>2, <2>1 DEF IInv, TypeOK, BeginInit, Contexts
<1>4. ContextsInOrder' /\ Construction'
  BY <1>1 DEF BeginInit, ContextsInOrder, Construction
<1>5. Resolutions'
  BY HostFacts DEF IInv, Resolutions, BeginInit
<1>6. RegistrationsAreExact' /\ RetainsAreBalanced'
  BY <1>2 DEF IInv, RegistrationsAreExact, RetainsAreBalanced, BeginInit
<1> QED BY <1>3, <1>4, <1>5, <1>6 DEF IInv

\* A failed init gives everything back.
LEMMA InitFailsStep == IInv /\ InitFails => IInv'
<1> SUFFICES ASSUME IInv, InitFails PROVE IInv'
  OBVIOUS
<1>1. ~initialised /\ initialised \in BOOLEAN
  BY DEF IInv, TypeOK, Construction, InitFails, Free
<1>2. AfterRelease(contexts) = [g \in Gpus |-> 0]
  BY <1>1, NobodyBeforeInit, ReleaseFacts
<1>3. inits' \in Nat /\ requireNuma' \in BOOLEAN
  BY DEF IInv, TypeOK, InitFails
<1>4. initialised' = FALSE
  BY <1>1 DEF InitFails
<1> QED BY <1>1, <1>2, <1>3, <1>4, NobodyBeforeInit, EmptiedInvariant DEF InitFails, TasksUnchanged

\* A shutdown gives everything back.
LEMMA ShutdownStep == IInv /\ Shutdown => IInv'
<1> SUFFICES ASSUME IInv, Shutdown PROVE IInv'
  OBVIOUS
<1>1. AfterRelease(contexts) = [g \in Gpus |-> 0]
  BY ReleaseFacts DEF Shutdown, NoActiveTask
<1>2. inits' \in Nat /\ requireNuma' \in BOOLEAN
  BY DEF IInv, TypeOK, Shutdown
<1>3. \A r \in Resources : resources[r].ctx = Unknown
  BY NobodyAtShutdown DEF Shutdown
<1> QED BY <1>1, <1>2, <1>3, EmptiedInvariant DEF Shutdown, TasksUnchanged

\* An init that went through all devices publishes the complete list.
LEMMA InitSucceedsStep == IInv /\ InitSucceeds => IInv'
<1> SUFFICES ASSUME IInv, InitSucceeds PROVE IInv'
  OBVIOUS
<1>1. ~initialised
  BY DEF IInv, Construction, InitSucceeds, Free
<1>2. TypeOK'
  <2>1. initialised' \in BOOLEAN /\ lock' \in {Free, "init"} /\ inits' \in Nat
    BY DEF IInv, TypeOK, InitSucceeds
  <2> QED BY <2>1 DEF IInv, TypeOK, InitSucceeds, Contexts
<1>3. ContextsInOrder'
  BY HostFacts DEF IInv, ContextsInOrder, InitSucceeds, Free
<1>4. Construction'
  BY DEF Construction, InitSucceeds, NextDevice
<1>5. Resolutions'
  BY HostFacts DEF IInv, Resolutions, InitSucceeds
<1>6. RegistrationsAreExact' /\ RetainsAreBalanced'
  BY DEF IInv, RegistrationsAreExact, RetainsAreBalanced, InitSucceeds
<1> QED BY <1>2, <1>3, <1>4, <1>5, <1>6 DEF IInv

\* init lists and retains one device more.
LEMMA AddContextStep == IInv /\ AddContext => IInv'
<1> SUFFICES ASSUME IInv, AddContext PROVE IInv'
  OBVIOUS
<1> DEFINE g == Len(contexts)
           node == resolveGpuNumaNode(reported[g], requireNuma)
<1>1. /\ g \in Gpus /\ g \in Nat /\ DOMAIN contexts = 1..g
      /\ contexts \in Seq(Contexts) /\ \A k \in DOMAIN contexts : contexts[k] \in Contexts
  BY ContextTypes DEF IInv, TypeOK, AddContext, NextDevice, Gpus
<1>2. node = NodeOf(g) /\ node \in Nodes
  BY <1>1, NodeFacts DEF IInv, TypeOK, AddContext, NextDevice
<1>3. PICK b \in Nat : b = inits * GpuCount
  <2>1. inits \in Nat /\ GpuCount \in Nat
    BY DEF IInv, TypeOK
  <2> QED BY <2>1
<1>4. PICK new : new = [id |-> b + g, gpuId |-> g, numaNode |-> node, slots |-> <<>>]
  OBVIOUS
<1>5. contexts' = Append(contexts, new) /\ new \in Contexts
  BY <1>1, <1>2, <1>3, <1>4 DEF AddContext, NextDevice, NewContext, Contexts
<1>6. /\ contexts' \in Seq(Contexts) /\ Len(contexts') = g + 1 /\ DOMAIN contexts' = 1..(g + 1)
      /\ contexts'[g + 1] = new /\ \A k \in 1..g : contexts'[k] = contexts[k]
  BY <1>1, <1>5
<1>7. ~initialised
  BY DEF IInv, Construction, AddContext, Free
<1>8. /\ \A k \in 1..g : contexts[k].gpuId = k - 1 /\ contexts[k].numaNode = NodeOf(k - 1)
      /\ \A k \in 1..g : contexts[k].id = b + (k - 1) /\ contexts[k].slots = <<>>
  BY <1>1, <1>3, <1>7 DEF IInv, ContextsInOrder, Construction, AddContext
<1>9. new.id = b + g /\ new.gpuId = g /\ new.numaNode = NodeOf(g) /\ new.slots = <<>>
  BY <1>2, <1>4
<1> HIDE DEF g, node
<1>10. \A k \in 1..(g + 1) : /\ contexts'[k].gpuId = k - 1 /\ contexts'[k].numaNode = NodeOf(k - 1)
                             /\ contexts'[k].id = b + (k - 1) /\ contexts'[k].slots = <<>>
  <2> SUFFICES ASSUME NEW k \in 1..(g + 1)
               PROVE  /\ contexts'[k].gpuId = k - 1 /\ contexts'[k].numaNode = NodeOf(k - 1)
                      /\ contexts'[k].id = b + (k - 1) /\ contexts'[k].slots = <<>>
    OBVIOUS
  <2>1. CASE k = g + 1
    BY <1>1, <1>3, <1>6, <1>9, <2>1
  <2>2. CASE k \in 1..g
    BY <1>6, <1>8, <2>2
  <2> QED BY <1>1, <2>1, <2>2
<1>11. TypeOK'
  <2>1. retained' \in [Gpus -> Int]
    BY <1>1 DEF IInv, TypeOK, AddContext, NextDevice
  <2>2. Contexts' = Contexts
    BY DEF Contexts
  <2> QED BY <1>6, <2>1, <2>2 DEF IInv, TypeOK, AddContext
<1>12. ContextsInOrder'
  <2>1. Len(contexts') <= GpuCount
    BY <1>1, <1>6 DEF Gpus
  <2>2. inits' * GpuCount = b
    BY <1>3 DEF AddContext
  <2>3. \A k \in DOMAIN contexts' : contexts'[k].gpuId = k - 1 /\ contexts'[k].numaNode = NodeOf(k - 1)'
    BY <1>6, <1>10, HostFacts DEF AddContext
  <2>4. \A j, k \in DOMAIN contexts' : contexts'[j].id = contexts'[k].id => j = k
    BY <1>1, <1>3, <1>6, <1>10
  <2> QED BY <1>6, <1>10, <2>1, <2>2, <2>3, <2>4 DEF ContextsInOrder
<1>13. Construction'
  BY <1>6, <1>7, <1>10 DEF Construction, AddContext, Free
<1>14. Resolutions'
  BY HostFacts DEF IInv, Resolutions, AddContext
<1>15. RegistrationsAreExact'
  BY <1>6, <1>7, <1>10, NobodyBeforeInit DEF RegistrationsAreExact, AddContext
<1>16. RetainsAreBalanced'
  <2> SUFFICES ASSUME NEW h \in Gpus
               PROVE  retained'[h] = Cardinality({i \in DOMAIN contexts' : contexts'[i].gpuId = h})
    BY DEF RetainsAreBalanced
  <2>1. retained[h] = Cardinality({i \in DOMAIN contexts : contexts[i].gpuId = h}) /\ retained \in [Gpus -> Int]
    BY DEF IInv, TypeOK, RetainsAreBalanced
  <2>2. CASE h = g
    <3>1. {i \in DOMAIN contexts : contexts[i].gpuId = h} = {}
      BY <1>1, <1>8, <2>2
    <3>2. {i \in DOMAIN contexts' : contexts'[i].gpuId = h} = {g + 1}
      BY <1>1, <1>6, <1>10, <2>2
    <3>3. retained[h] = 0
      BY <2>1, <3>1, FS_EmptySet
    <3>4. retained'[h] = retained[h] + 1
      BY <2>1, <2>2 DEF AddContext, NextDevice, g
    <3>5. Cardinality({g + 1}) = 1
      BY FS_Singleton
    <3> QED BY <3>2, <3>3, <3>4, <3>5
  <2>3. CASE h # g
    <3>1. {i \in DOMAIN contexts' : contexts'[i].gpuId = h} = {i \in DOMAIN contexts : contexts[i].gpuId = h}
      BY <1>1, <1>6, <1>8, <1>10, <2>3 DEF Gpus
    <3>2. retained'[h] = retained[h]
      BY <2>1, <2>3 DEF AddContext, NextDevice, g
    <3> QED BY <2>1, <3>1, <3>2
  <2> QED BY <2>2, <2>3
<1> QED BY <1>11, <1>12, <1>13, <1>14, <1>15, <1>16 DEF IInv

-----------------------------------------------------------------------------
(* The calls of a task *)

\* A step that changes only where one task is keeps the invariant, if the task's
\* new place is one that Resolutions allows.
LEMMA QuietStep ==
  ASSUME IInv, NEW r \in Resources, NEW to \in [pc : {"Idle", "Locating", "Resolved", "Registering", "Current"},
                                                gpuId : Gpus \union {Unknown}],
         UNCHANGED <<hostVars, managerVars, resources>>,
         task' = [task EXCEPT ![r] = to],
         to.pc \in {"Locating", "Resolved", "Registering"} => resources[r].ctx = Unknown,
         to.pc \in {"Resolved", "Registering"} => OnlyDevice(r, to.gpuId)
  PROVE  IInv'
<1>1. TypeOK'
  <2>1. task' \in [Resources -> [pc : {"Idle", "Locating", "Resolved", "Registering", "Current"},
                                 gpuId : Gpus \union {Unknown}]]
    BY DEF IInv, TypeOK
  <2>2. Contexts' = Contexts
    BY DEF Contexts
  <2> QED BY <2>1, <2>2 DEF IInv, TypeOK
<1>2. ContextsInOrder' /\ Construction'
  BY HostFacts DEF IInv, ContextsInOrder, Construction
<1>3. Resolutions'
  <2> SUFFICES ASSUME NEW q \in Resources
               PROVE  /\ task'[q].pc \in {"Locating", "Resolved", "Registering"} => resources'[q].ctx = Unknown
                      /\ task'[q].pc \in {"Resolved", "Registering"} => OnlyDevice(q, task'[q].gpuId)
                      /\ resources'[q].ctx # Unknown => OnlyDevice(q, resources'[q].gpuId)
    BY HostFacts DEF Resolutions
  <2>1. task'[q] = IF q = r THEN to ELSE task[q]
    BY DEF IInv, TypeOK
  <2>2. CASE q = r
    BY <2>1, <2>2 DEF IInv, Resolutions
  <2>3. CASE q # r
    BY <2>1, <2>3 DEF IInv, Resolutions
  <2> QED BY <2>2, <2>3
<1>4. RegistrationsAreExact' /\ RetainsAreBalanced'
  BY DEF IInv, RegistrationsAreExact, RetainsAreBalanced
<1> QED BY <1>1, <1>2, <1>3, <1>4 DEF IInv

\* What Goto does to the task.
LEMMA GotoFacts ==
  ASSUME TypeOK, NEW r \in Resources, NEW pc \in {"Idle", "Locating", "Resolved", "Registering", "Current"}, Goto(r, pc)
  PROVE  /\ task' = [task EXCEPT ![r] = [pc |-> pc, gpuId |-> task[r].gpuId]]
         /\ [pc |-> pc, gpuId |-> task[r].gpuId] \in [pc : {"Idle", "Locating", "Resolved", "Registering", "Current"},
                                                      gpuId : Gpus \union {Unknown}]
<1>1. task[r] \in [pc : {"Idle", "Locating", "Resolved", "Registering", "Current"}, gpuId : Gpus \union {Unknown}]
  BY DEF TypeOK
<1>2. [task[r] EXCEPT !.pc = pc] = [pc |-> pc, gpuId |-> task[r].gpuId]
  BY <1>1
<1>3. task' = [task EXCEPT ![r] = [task[r] EXCEPT !.pc = pc]]
  BY DEF Goto
<1> QED BY <1>1, <1>2, <1>3

\* The first half of gpuIdsForCurrentNumaNode.
LEMMA BeginResolveStep == \A r \in Resources : IInv /\ BeginResolve(r) => IInv'
<1> SUFFICES ASSUME NEW r \in Resources, IInv, BeginResolve(r) PROVE IInv'
  OBVIOUS
<1>1. Goto(r, "Locating")
  BY DEF BeginResolve
<1>2. resources[r].ctx = Unknown /\ UNCHANGED <<hostVars, managerVars, resources>>
  BY DEF BeginResolve
<1>3. TypeOK
  BY DEF IInv
<1>4. PICK to : to = [pc |-> "Locating", gpuId |-> task[r].gpuId]
  OBVIOUS
<1>5. to.pc = "Locating"
  BY <1>4
<1> QED BY <1>1, <1>2, <1>3, <1>4, <1>5, GotoFacts, QuietStep

\* A device that is the only listed one of a node is the only one of the host,
\* because a list that can be read without an init running is complete.
LEMMA ResolvedIsOnly ==
  ASSUME IInv, NEW r \in Resources, lock = Free, NEW g \in resolveGpuIds(home[r])
  PROVE  OnlyDevice(r, g)
<1> DEFINE matching == {i \in DOMAIN contexts : contexts[i].numaNode = home[r]}
<1>1. Cardinality(matching) = 1 /\ g \in {contexts[i].gpuId : i \in matching}
  BY DEF resolveGpuIds
<1>2. IsFiniteSet(matching)
  <2>1. contexts \in Seq(Contexts) /\ matching \in SUBSET DOMAIN contexts
    BY DEF IInv, TypeOK
  <2> QED BY <2>1, FinitePositions
<1>3. PICK k : matching = {k}
  BY <1>1, <1>2, FS_Singleton
<1>4. k \in DOMAIN contexts /\ contexts[k].numaNode = home[r] /\ g = contexts[k].gpuId
  BY <1>1, <1>3
<1>5. initialised
  BY <1>4 DEF IInv, Construction
<1>6. Len(contexts) = GpuCount /\ DOMAIN contexts = 1..GpuCount
  BY <1>5, ContextTypes DEF IInv, Construction
<1>7. \A j \in 1..GpuCount : contexts[j].gpuId = j - 1 /\ contexts[j].numaNode = NodeOf(j - 1)
  BY <1>6 DEF IInv, ContextsInOrder
<1>8. g = k - 1 /\ k \in 1..GpuCount /\ g \in Gpus /\ NodeOf(g) = home[r]
  BY <1>4, <1>6, <1>7 DEF Gpus
<1>9. ASSUME NEW h \in Gpus, NodeOf(h) = home[r] PROVE h = g
  <2>1. h + 1 \in 1..GpuCount /\ h = (h + 1) - 1
    BY DEF Gpus
  <2>2. contexts[h + 1].numaNode = home[r]
    BY <1>7, <1>9, <2>1
  <2>3. h + 1 \in matching
    BY <1>6, <2>1, <2>2
  <2>4. h + 1 = k
    BY <1>3, <2>3
  <2> QED BY <1>8, <2>1, <2>4 DEF Gpus
<1> QED BY <1>8, <1>9 DEF OnlyDevice

\* gpuLocations and resolveGpuIds, under the lock.
LEMMA ResolveStep == \A r \in Resources : IInv /\ Resolve(r) => IInv'
<1> SUFFICES ASSUME NEW r \in Resources, IInv, Resolve(r) PROVE IInv'
  OBVIOUS
<1>1. CASE Goto(r, "Idle")
  <2>1. TypeOK
    BY DEF IInv
  <2>2. PICK to : to = [pc |-> "Idle", gpuId |-> task[r].gpuId]
    OBVIOUS
  <2>3. to.pc = "Idle" /\ to.gpuId = task[r].gpuId
    BY <2>2
  <2>4. UNCHANGED <<hostVars, managerVars, resources>>
    BY DEF Resolve
  <2> QED BY <1>1, <2>1, <2>2, <2>3, <2>4, GotoFacts, QuietStep
<1>2. CASE \E g \in resolveGpuIds(home[r]) : task' = [task EXCEPT ![r] = [pc |-> "Resolved", gpuId |-> g]]
  <2>1. PICK g \in resolveGpuIds(home[r]) : task' = [task EXCEPT ![r] = [pc |-> "Resolved", gpuId |-> g]]
    BY <1>2
  <2>2. OnlyDevice(r, g) /\ g \in Gpus
    BY ResolvedIsOnly DEF Resolve, MayLock, OnlyDevice
  <2>3. resources[r].ctx = Unknown
    BY DEF IInv, Resolutions, Resolve
  <2>4. [pc |-> "Resolved", gpuId |-> g] \in [pc : {"Idle", "Locating", "Resolved", "Registering", "Current"},
                                              gpuId : Gpus \union {Unknown}]
    BY <2>2
  <2> QED BY <2>1, <2>2, <2>3, <2>4, QuietStep DEF Resolve
<1> QED BY <1>1, <1>2 DEF Resolve

\* registerTask up to its lock.
LEMMA BeginRegisterStep == \A r \in Resources : IInv /\ BeginRegister(r) => IInv'
<1> SUFFICES ASSUME NEW r \in Resources, IInv, BeginRegister(r) PROVE IInv'
  OBVIOUS
<1>1. OnlyDevice(r, task[r].gpuId) /\ resources[r].ctx = Unknown
  BY DEF IInv, Resolutions, BeginRegister
<1>2. CASE Goto(r, "Registering")
  <2>1. TypeOK
    BY DEF IInv
  <2>2. PICK to : to = [pc |-> "Registering", gpuId |-> task[r].gpuId]
    OBVIOUS
  <2>3. to.pc = "Registering" /\ to.gpuId = task[r].gpuId
    BY <2>2
  <2>4. UNCHANGED <<hostVars, managerVars, resources>>
    BY DEF BeginRegister
  <2> QED BY <1>1, <1>2, <2>1, <2>2, <2>3, <2>4, GotoFacts, QuietStep
<1>3. CASE Goto(r, "Idle")
  <2>1. TypeOK
    BY DEF IInv
  <2>2. PICK to : to = [pc |-> "Idle", gpuId |-> task[r].gpuId]
    OBVIOUS
  <2>3. to.pc = "Idle" /\ to.gpuId = task[r].gpuId
    BY <2>2
  <2>4. UNCHANGED <<hostVars, managerVars, resources>>
    BY DEF BeginRegister
  <2> QED BY <1>3, <2>1, <2>2, <2>3, <2>4, GotoFacts, QuietStep
<1> QED BY <1>2, <1>3 DEF BeginRegister

\* makeTaskCurrent.
LEMMA MakeTaskCurrentStep == \A r \in Resources : IInv /\ MakeTaskCurrent(r) => IInv'
<1> SUFFICES ASSUME NEW r \in Resources, IInv, MakeTaskCurrent(r) PROVE IInv'
  OBVIOUS
<1>1. Goto(r, "Current")
  BY DEF MakeTaskCurrent
<1>2. UNCHANGED <<hostVars, managerVars, resources>>
  BY DEF MakeTaskCurrent
<1>3. TypeOK
  BY DEF IInv
<1>4. PICK to : to = [pc |-> "Current", gpuId |-> task[r].gpuId]
  OBVIOUS
<1>5. to.pc = "Current"
  BY <1>4
<1> QED BY <1>1, <1>2, <1>3, <1>4, <1>5, GotoFacts, QuietStep

\* Writing one slot of one context leaves the list in order and complete, its
\* contexts retained.
LEMMA SlotStep ==
  ASSUME IInv, initialised, NEW k \in DOMAIN contexts, NEW i \in 1..(Len(contexts[k].slots) + 1),
         NEW r \in Resources \union {Free},
         contexts' = [contexts EXCEPT ![k] = WithSlot(@, i, r)],
         UNCHANGED <<hostVars, initialised, lock, requireNuma, inits, retained>>
  PROVE  /\ contexts' \in Seq(Contexts) /\ DOMAIN contexts' = DOMAIN contexts
         /\ \A j \in DOMAIN contexts : /\ contexts'[j].id = contexts[j].id
                                       /\ j # k => contexts'[j] = contexts[j]
                                       /\ contexts'[j].gpuId = contexts[j].gpuId
         /\ DOMAIN contexts'[k].slots = DOMAIN contexts[k].slots \cup {i}
         /\ contexts'[k].slots[i] = r
         /\ \A j \in DOMAIN contexts[k].slots \ {i} : contexts'[k].slots[j] = contexts[k].slots[j]
         /\ ContextsInOrder' /\ Construction' /\ RetainsAreBalanced'
<1>1. contexts \in Seq(Contexts) /\ contexts[k] \in Contexts /\ DOMAIN contexts = 1..Len(contexts)
  BY ContextTypes DEF IInv, TypeOK
<1>2. PICK c : c = WithSlot(contexts[k], i, r)
  OBVIOUS
<1>3. /\ c \in Contexts /\ c.id = contexts[k].id /\ c.gpuId = contexts[k].gpuId
      /\ c.numaNode = contexts[k].numaNode /\ DOMAIN c.slots = DOMAIN contexts[k].slots \cup {i}
      /\ c.slots[i] = r /\ \A j \in DOMAIN contexts[k].slots \ {i} : c.slots[j] = contexts[k].slots[j]
  BY <1>1, <1>2, WithSlotFacts
<1>4. contexts' = [contexts EXCEPT ![k] = c]
  BY <1>2
<1>5. /\ contexts' \in Seq(Contexts) /\ DOMAIN contexts' = DOMAIN contexts /\ Len(contexts') = Len(contexts)
      /\ contexts'[k] = c /\ \A j \in DOMAIN contexts : j # k => contexts'[j] = contexts[j]
  BY <1>1, <1>3, <1>4
<1>6. \A j \in DOMAIN contexts : /\ contexts'[j].id = contexts[j].id /\ contexts'[j].gpuId = contexts[j].gpuId
                                 /\ contexts'[j].numaNode = contexts[j].numaNode
  BY <1>3, <1>5
<1>7. ContextsInOrder'
  <2>1. lock = Free /\ Free # "init"
    BY DEF IInv, Construction, Free
  <2> QED BY <1>5, <1>6, <2>1, HostFacts DEF IInv, ContextsInOrder
<1>8. Construction'
  BY <1>5 DEF IInv, Construction
<1>9. RetainsAreBalanced'
  <2>1. ASSUME NEW g \in Gpus
        PROVE  {j \in DOMAIN contexts' : contexts'[j].gpuId = g} = {j \in DOMAIN contexts : contexts[j].gpuId = g}
    BY <1>5, <1>6
  <2> QED BY <2>1 DEF IInv, RetainsAreBalanced
<1> QED BY <1>3, <1>5, <1>6, <1>7, <1>8, <1>9

\* Tasks in the type of their variables.
LEMMA TaskTypes ==
  ASSUME TypeOK, NEW r \in Resources, NEW to \in [pc : {"Idle", "Locating", "Resolved", "Registering", "Current"},
                                                  gpuId : Gpus \union {Unknown}],
         NEW res \in [resourceId : Int, gpuId : Gpus \union {Unknown}, ctx : Nat \union {Unknown}],
         task' = [task EXCEPT ![r] = to], resources' = [resources EXCEPT ![r] = res],
         contexts' \in Seq(Contexts),
         UNCHANGED <<hostVars, initialised, lock, requireNuma, inits, retained>>
  PROVE  /\ TypeOK'
         /\ task'[r] = to /\ resources'[r] = res
         /\ \A q \in Resources : q # r => task'[q] = task[q] /\ resources'[q] = resources[q]
<1>1. /\ task' \in [Resources -> [pc : {"Idle", "Locating", "Resolved", "Registering", "Current"},
                                  gpuId : Gpus \union {Unknown}]]
      /\ task'[r] = to /\ \A q \in Resources : q # r => task'[q] = task[q]
  BY DEF TypeOK
<1>2. /\ resources' \in [Resources -> [resourceId : Int, gpuId : Gpus \union {Unknown}, ctx : Nat \union {Unknown}]]
      /\ resources'[r] = res /\ \A q \in Resources : q # r => resources'[q] = resources[q]
  BY DEF TypeOK
<1>3. Contexts' = Contexts
  BY DEF Contexts
<1>4. TypeOK'
  BY <1>1, <1>2, <1>3 DEF TypeOK
<1> QED BY <1>1, <1>2, <1>4

\* registerTask under its lock.
LEMMA RegisterStep == \A r \in Resources : IInv /\ Register(r) => IInv'
<1> SUFFICES ASSUME NEW r \in Resources, IInv, Register(r) PROVE IInv'
  OBVIOUS
<1> DEFINE g == task[r].gpuId
<1>1. OnlyDevice(r, g) /\ g \in Gpus /\ resources[r].ctx = Unknown
  BY DEF IInv, Resolutions, Register, OnlyDevice
<1>2. /\ task' = [task EXCEPT ![r] = At("Idle")] /\ At("Idle").pc = "Idle"
      /\ At("Idle") \in [pc : {"Idle", "Locating", "Resolved", "Registering", "Current"}, gpuId : Gpus \union {Unknown}]
      /\ UNCHANGED <<hostVars, initialised, lock, requireNuma, inits, retained>>
  BY DEF Register, At
<1>3. CASE UNCHANGED <<contexts, resources>>
  BY <1>2, <1>3, QuietStep
<1>4. CASE \E k \in findGpu(g) :
             /\ contexts' = [contexts EXCEPT ![k] = WithSlot(@, SlotFor(contexts[k]), r)]
             /\ resources' = [resources EXCEPT ![r] =
                                [resourceId |-> SlotFor(contexts[k]), gpuId |-> g, ctx |-> contexts[k].id]]
  <2>1. PICK k \in findGpu(g) :
             /\ contexts' = [contexts EXCEPT ![k] = WithSlot(@, SlotFor(contexts[k]), r)]
             /\ resources' = [resources EXCEPT ![r] =
                                [resourceId |-> SlotFor(contexts[k]), gpuId |-> g, ctx |-> contexts[k].id]]
    BY <1>4
  <2>2. k \in DOMAIN contexts /\ contexts[k].gpuId = g /\ contexts[k] \in Contexts
    BY <2>1, ContextTypes DEF findGpu, IInv
  <2>3. initialised
    BY <2>2 DEF IInv, Construction, Register, MayLock
  <2>4. PICK slot : slot = SlotFor(contexts[k])
    OBVIOUS
  <2>5. /\ slot \in 1..(Len(contexts[k].slots) + 1) /\ Len(contexts[k].slots) \in Nat /\ slot \in Int
        /\ slot \in DOMAIN contexts[k].slots => contexts[k].slots[slot] = Free
    <3>1. Len(contexts[k].slots) \in Nat
      BY <2>2 DEF Contexts
    <3> QED BY <2>2, <2>4, <3>1, SlotFacts
  <2>6. PICK res : res = [resourceId |-> slot, gpuId |-> g, ctx |-> contexts[k].id]
    OBVIOUS
  <2>7. /\ res \in [resourceId : Int, gpuId : Gpus \union {Unknown}, ctx : Nat \union {Unknown}]
        /\ res.ctx = contexts[k].id /\ res.gpuId = g /\ res.resourceId = slot /\ contexts[k].id \in Nat
    BY <1>1, <2>2, <2>5, <2>6 DEF Contexts
  <2> HIDE DEF g
  <2>8. /\ contexts' = [contexts EXCEPT ![k] = WithSlot(@, slot, r)]
        /\ resources' = [resources EXCEPT ![r] = res]
    BY <2>1, <2>4, <2>6
  <2>9. /\ contexts' \in Seq(Contexts) /\ DOMAIN contexts' = DOMAIN contexts
        /\ \A j \in DOMAIN contexts : /\ contexts'[j].id = contexts[j].id
                                      /\ j # k => contexts'[j] = contexts[j]
                                      /\ contexts'[j].gpuId = contexts[j].gpuId
        /\ DOMAIN contexts'[k].slots = DOMAIN contexts[k].slots \cup {slot}
        /\ contexts'[k].slots[slot] = r
        /\ \A j \in DOMAIN contexts[k].slots \ {slot} : contexts'[k].slots[j] = contexts[k].slots[j]
        /\ ContextsInOrder' /\ Construction' /\ RetainsAreBalanced'
    BY <1>2, <2>2, <2>3, <2>5, <2>8, SlotStep
  <2>10. /\ TypeOK' /\ task'[r] = At("Idle") /\ resources'[r] = res
         /\ \A q \in Resources : q # r => task'[q] = task[q] /\ resources'[q] = resources[q]
    <3>1. TypeOK
      BY DEF IInv
    <3>2. contexts' \in Seq(Contexts)
      BY <2>9
    <3>3. PICK to : to = At("Idle")
      OBVIOUS
    <3>4. to \in [pc : {"Idle", "Locating", "Resolved", "Registering", "Current"}, gpuId : Gpus \union {Unknown}]
      BY <1>2, <3>3
    <3>5. res \in [resourceId : Int, gpuId : Gpus \union {Unknown}, ctx : Nat \union {Unknown}]
      BY <2>7
    <3>6. task' = [task EXCEPT ![r] = to] /\ UNCHANGED <<hostVars, initialised, lock, requireNuma, inits, retained>>
      BY <1>2, <3>3
    <3>7. /\ TypeOK' /\ task'[r] = to /\ resources'[r] = res
          /\ \A q \in Resources : q # r => task'[q] = task[q] /\ resources'[q] = resources[q]
      BY <2>8, <3>1, <3>2, <3>4, <3>5, <3>6, TaskTypes
    <3> QED BY <3>3, <3>7
  <2>11. Resolutions'
    <3> SUFFICES ASSUME NEW q \in Resources
                 PROVE  /\ task'[q].pc \in {"Locating", "Resolved", "Registering"} => resources'[q].ctx = Unknown
                        /\ task'[q].pc \in {"Resolved", "Registering"} => OnlyDevice(q, task'[q].gpuId)
                        /\ resources'[q].ctx # Unknown => OnlyDevice(q, resources'[q].gpuId)
      BY <1>2, HostFacts DEF Resolutions
    <3>1. CASE q = r
      BY <1>1, <1>2, <2>7, <2>10, <3>1
    <3>2. CASE q # r
      BY <2>10, <3>2 DEF IInv, Resolutions
    <3> QED BY <3>1, <3>2
  <2>12. RegistrationsAreExact'
    <3>1. ASSUME NEW q \in Resources, resources'[q].ctx # Unknown
          PROVE  /\ initialised'
                 /\ \E j \in DOMAIN contexts' :
                       /\ contexts'[j].id = resources'[q].ctx /\ contexts'[j].gpuId = resources'[q].gpuId
                       /\ resources'[q].resourceId \in DOMAIN contexts'[j].slots
                       /\ contexts'[j].slots[resources'[q].resourceId] = q
      <4>1. CASE q = r
        <5>1. /\ contexts'[k].id = resources'[q].ctx /\ contexts'[k].gpuId = resources'[q].gpuId
              /\ resources'[q].resourceId \in DOMAIN contexts'[k].slots
              /\ contexts'[k].slots[resources'[q].resourceId] = q
          BY <2>2, <2>7, <2>9, <2>10, <4>1
        <5> QED BY <1>2, <2>2, <2>3, <2>9, <5>1
      <4>2. CASE q # r
        <5>1. resources'[q] = resources[q]
          BY <2>10, <4>2
        <5>2. PICK j \in DOMAIN contexts :
                 /\ contexts[j].id = resources[q].ctx /\ contexts[j].gpuId = resources[q].gpuId
                 /\ resources[q].resourceId \in DOMAIN contexts[j].slots
                 /\ contexts[j].slots[resources[q].resourceId] = q
          BY <3>1, <5>1 DEF IInv, RegistrationsAreExact
        <5>3. j = k => resources[q].resourceId # slot
          BY <2>5, <5>2
        <5>4. /\ contexts'[j].id = resources[q].ctx /\ contexts'[j].gpuId = resources[q].gpuId
              /\ resources[q].resourceId \in DOMAIN contexts'[j].slots
              /\ contexts'[j].slots[resources[q].resourceId] = q
          BY <2>9, <5>2, <5>3
        <5> QED BY <1>2, <2>3, <2>9, <5>1, <5>4
      <4> QED BY <4>1, <4>2
    <3>2. ASSUME NEW j \in DOMAIN contexts', NEW s \in DOMAIN contexts'[j].slots, contexts'[j].slots[s] # Free
          PROVE  /\ resources'[contexts'[j].slots[s]].ctx = contexts'[j].id
                 /\ resources'[contexts'[j].slots[s]].resourceId = s
      <4>1. CASE j = k /\ s = slot
        BY <2>7, <2>9, <2>10, <4>1
      <4>2. CASE ~(j = k /\ s = slot)
        <5>1. j \in DOMAIN contexts /\ s \in DOMAIN contexts[j].slots /\ contexts'[j].slots[s] = contexts[j].slots[s]
          BY <2>9, <3>2, <4>2
        <5>2. PICK q : q = contexts[j].slots[s]
          OBVIOUS
        <5>3. q # Free /\ resources[q].ctx = contexts[j].id /\ resources[q].resourceId = s
          BY <3>2, <5>1, <5>2 DEF IInv, RegistrationsAreExact
        <5>4. q \in Resources /\ contexts[j].id \in Nat
          <6>1. contexts[j] \in Contexts
            BY <5>1, ContextTypes DEF IInv
          <6>2. contexts[j].slots \in Seq(Resources \union {Free}) /\ contexts[j].id \in Nat
            BY <6>1 DEF Contexts
          <6> QED BY <5>1, <5>2, <5>3, <6>2
        <5>5. q # r
          BY <1>1, <5>3, <5>4 DEF Unknown
        <5> QED BY <2>9, <2>10, <5>1, <5>2, <5>3, <5>4, <5>5
      <4> QED BY <4>1, <4>2
    <3> QED BY <3>1, <3>2 DEF RegistrationsAreExact
  <2> QED BY <2>9, <2>10, <2>11, <2>12 DEF IInv
<1> QED BY <1>3, <1>4 DEF Register

\* unregisterTask.
LEMMA UnregisterStep == \A r \in Resources : IInv /\ Unregister(r) => IInv'
<1> SUFFICES ASSUME NEW r \in Resources, IInv, Unregister(r) PROVE IInv'
  OBVIOUS
<1>1. PICK k \in DOMAIN contexts :
         /\ contexts[k].id = resources[r].ctx
         /\ resources[r].resourceId \in DOMAIN contexts[k].slots
         /\ contexts[k].slots[resources[r].resourceId] = r
         /\ contexts' = [contexts EXCEPT ![k] = WithSlot(@, resources[r].resourceId, Free)]
  BY DEF Unregister
<1>2. PICK slot : slot = resources[r].resourceId
  OBVIOUS
<1>3. /\ initialised /\ UNCHANGED <<hostVars, initialised, lock, requireNuma, inits, retained>>
      /\ resources' = [resources EXCEPT ![r] = Unregistered] /\ Goto(r, "Idle")
  BY DEF Unregister
<1>4. /\ contexts[k] \in Contexts /\ slot \in DOMAIN contexts[k].slots
      /\ slot \in 1..(Len(contexts[k].slots) + 1)
  <2>1. contexts[k] \in Contexts
    BY ContextTypes DEF IInv
  <2>2. contexts[k].slots \in Seq(Resources \union {Free})
    BY <2>1 DEF Contexts
  <2> QED BY <1>1, <1>2, <2>1, <2>2
<1>5. /\ contexts' \in Seq(Contexts) /\ DOMAIN contexts' = DOMAIN contexts
      /\ \A j \in DOMAIN contexts : /\ contexts'[j].id = contexts[j].id
                                    /\ j # k => contexts'[j] = contexts[j]
                                    /\ contexts'[j].gpuId = contexts[j].gpuId
      /\ DOMAIN contexts'[k].slots = DOMAIN contexts[k].slots \cup {slot}
      /\ contexts'[k].slots[slot] = Free
      /\ \A j \in DOMAIN contexts[k].slots \ {slot} : contexts'[k].slots[j] = contexts[k].slots[j]
      /\ ContextsInOrder' /\ Construction' /\ RetainsAreBalanced'
  <2>1. Free \in Resources \union {Free} /\ contexts' = [contexts EXCEPT ![k] = WithSlot(@, slot, Free)]
    BY <1>1, <1>2
  <2>2. initialised /\ UNCHANGED <<hostVars, initialised, lock, requireNuma, inits, retained>>
    BY <1>3
  <2> QED BY <1>4, <2>1, <2>2, SlotStep
<1>6. PICK to : to = [pc |-> "Idle", gpuId |-> task[r].gpuId]
  OBVIOUS
<1>7. /\ to \in [pc : {"Idle", "Locating", "Resolved", "Registering", "Current"}, gpuId : Gpus \union {Unknown}]
      /\ task' = [task EXCEPT ![r] = to] /\ to.pc = "Idle"
  <2>1. TypeOK
    BY DEF IInv
  <2> QED BY <1>3, <1>6, <2>1, GotoFacts
<1>8. /\ Unregistered \in [resourceId : Int, gpuId : Gpus \union {Unknown}, ctx : Nat \union {Unknown}]
      /\ Unregistered.ctx = Unknown
  BY DEF Unregistered, Unknown
<1>9. /\ TypeOK' /\ task'[r] = to /\ resources'[r] = Unregistered
      /\ \A q \in Resources : q # r => task'[q] = task[q] /\ resources'[q] = resources[q]
  <2>1. TypeOK
    BY DEF IInv
  <2>2. contexts' \in Seq(Contexts)
    BY <1>5
  <2>3. UNCHANGED <<hostVars, initialised, lock, requireNuma, inits, retained>>
    BY <1>3
  <2>4. PICK res : res = Unregistered
    OBVIOUS
  <2>5. /\ res \in [resourceId : Int, gpuId : Gpus \union {Unknown}, ctx : Nat \union {Unknown}]
        /\ resources' = [resources EXCEPT ![r] = res]
    BY <1>3, <1>8, <2>4
  <2>6. /\ TypeOK' /\ task'[r] = to /\ resources'[r] = res
        /\ \A q \in Resources : q # r => task'[q] = task[q] /\ resources'[q] = resources[q]
    BY <1>7, <2>1, <2>2, <2>3, <2>5, TaskTypes
  <2> QED BY <2>4, <2>6
<1>10. Resolutions'
  <2> SUFFICES ASSUME NEW q \in Resources
               PROVE  /\ task'[q].pc \in {"Locating", "Resolved", "Registering"} => resources'[q].ctx = Unknown
                      /\ task'[q].pc \in {"Resolved", "Registering"} => OnlyDevice(q, task'[q].gpuId)
                      /\ resources'[q].ctx # Unknown => OnlyDevice(q, resources'[q].gpuId)
    BY <1>3, HostFacts DEF Resolutions
  <2>1. CASE q = r
    BY <1>7, <1>8, <1>9, <2>1
  <2>2. CASE q # r
    BY <1>9, <2>2 DEF IInv, Resolutions
  <2> QED BY <2>1, <2>2
<1>11. RegistrationsAreExact'
  <2>1. ASSUME NEW q \in Resources, resources'[q].ctx # Unknown
        PROVE  /\ initialised'
               /\ \E j \in DOMAIN contexts' :
                     /\ contexts'[j].id = resources'[q].ctx /\ contexts'[j].gpuId = resources'[q].gpuId
                     /\ resources'[q].resourceId \in DOMAIN contexts'[j].slots
                     /\ contexts'[j].slots[resources'[q].resourceId] = q
    <3>1. q # r /\ resources'[q] = resources[q]
      BY <1>8, <1>9, <2>1
    <3>2. PICK j \in DOMAIN contexts :
             /\ contexts[j].id = resources[q].ctx /\ contexts[j].gpuId = resources[q].gpuId
             /\ resources[q].resourceId \in DOMAIN contexts[j].slots
             /\ contexts[j].slots[resources[q].resourceId] = q
      BY <2>1, <3>1 DEF IInv, RegistrationsAreExact
    <3>3. j = k => resources[q].resourceId # slot
      BY <1>1, <1>2, <3>1, <3>2
    <3>4. /\ contexts'[j].id = resources[q].ctx /\ contexts'[j].gpuId = resources[q].gpuId
          /\ resources[q].resourceId \in DOMAIN contexts'[j].slots
          /\ contexts'[j].slots[resources[q].resourceId] = q
      BY <1>5, <3>2, <3>3
    <3> QED BY <1>3, <1>5, <3>1, <3>4
  <2>2. ASSUME NEW j \in DOMAIN contexts', NEW s \in DOMAIN contexts'[j].slots, contexts'[j].slots[s] # Free
        PROVE  /\ resources'[contexts'[j].slots[s]].ctx = contexts'[j].id
               /\ resources'[contexts'[j].slots[s]].resourceId = s
    <3>1. ~(j = k /\ s = slot)
      BY <1>5, <2>2
    <3>2. j \in DOMAIN contexts /\ s \in DOMAIN contexts[j].slots /\ contexts'[j].slots[s] = contexts[j].slots[s]
      BY <1>5, <2>2, <3>1
    <3>3. PICK q : q = contexts[j].slots[s]
      OBVIOUS
    <3>4. q # Free /\ resources[q].ctx = contexts[j].id /\ resources[q].resourceId = s
      BY <2>2, <3>2, <3>3 DEF IInv, RegistrationsAreExact
    <3>5. q \in Resources
      <4>1. contexts[j] \in Contexts
        BY <3>2, ContextTypes DEF IInv
      <4>2. contexts[j].slots \in Seq(Resources \union {Free})
        BY <4>1 DEF Contexts
      <4> QED BY <3>2, <3>3, <3>4, <4>2
    <3>6. q # r
      \* Else j is r's context and s its slot.
      BY <1>1, <1>2, <3>1, <3>2, <3>4 DEF IInv, ContextsInOrder
    <3> QED BY <1>5, <1>9, <3>2, <3>3, <3>4, <3>5, <3>6
  <2> QED BY <2>1, <2>2 DEF RegistrationsAreExact
<1> QED BY <1>5, <1>9, <1>10, <1>11 DEF IInv

-----------------------------------------------------------------------------
(* The theorems *)

\* Every step keeps the invariant.
LEMMA NextInvariant == IInv /\ [Next]_vars => IInv'
<1> SUFFICES ASSUME IInv, [Next]_vars PROVE IInv'
  OBVIOUS
<1>1. CASE UNCHANGED vars
  <2>1. Contexts' = Contexts
    BY DEF Contexts
  <2>2. TypeOK'
    BY <1>1, <2>1 DEF IInv, TypeOK
  <2>3. ContextsInOrder' /\ Construction' /\ Resolutions'
    BY <1>1, HostFacts DEF IInv, ContextsInOrder, Construction, Resolutions
  <2>4. RegistrationsAreExact' /\ RetainsAreBalanced'
    BY <1>1 DEF IInv, RegistrationsAreExact, RetainsAreBalanced
  <2> QED BY <2>2, <2>3, <2>4 DEF IInv
<1>2. CASE BeginInit \/ AddContext \/ InitFails \/ InitSucceeds \/ Shutdown
  BY <1>2, BeginInitStep, AddContextStep, InitFailsStep, InitSucceedsStep, ShutdownStep
<1>3. CASE \E r \in Resources : TaskStep(r)
  BY <1>3, BeginResolveStep, ResolveStep, BeginRegisterStep, RegisterStep, MakeTaskCurrentStep, UnregisterStep
  DEF TaskStep
<1> QED BY <1>1, <1>2, <1>3 DEF Next

\* The invariant holds in every state the manager and its tasks reach, for every
\* number of devices, nodes, tasks and calls of init.
THEOREM InductiveInvariant == Spec => []IInv
BY InitInvariant, NextInvariant, PTL DEF Spec

\* A registered task's context is listed, for its device and with its slot, and
\* the slots that block shutdown name living registered tasks.
THEOREM RegistrationsHold == Spec => []RegistrationsAreExact
<1>1. IInv => RegistrationsAreExact
  BY DEF IInv
<1> QED BY <1>1, InductiveInvariant, PTL

\* The driver's retain counts are those of the listed contexts, through failed
\* initializations, shutdowns and new initializations.
THEOREM RetainsHold == Spec => []RetainsAreBalanced
<1>1. IInv => RetainsAreBalanced
  BY DEF IInv
<1> QED BY <1>1, InductiveInvariant, PTL

\* A task's device is the one device of the node its thread runs on, whenever it
\* resolved it.
THEOREM TasksOnNodeHold == Spec => []TasksStayOnTheirNode
<1>1. IInv => TasksStayOnTheirNode
  <2> SUFFICES ASSUME IInv, NEW r \in Resources, NEW k \in DOMAIN contexts, contexts[k].id = resources[r].ctx
               PROVE  /\ contexts[k].numaNode = home[r]
                      /\ \A j \in DOMAIN contexts : contexts[j].numaNode = home[r] => j = k
    BY DEF TasksStayOnTheirNode
  <2>1. contexts[k] \in Contexts
    BY ContextTypes DEF IInv
  <2>2. contexts[k].id \in Nat
    BY <2>1 DEF Contexts
  <2>3. resources[r].ctx # Unknown
    BY <2>2 DEF Unknown
  <2>4. OnlyDevice(r, resources[r].gpuId)
    BY <2>3 DEF IInv, Resolutions
  <2>5. contexts[k].gpuId = resources[r].gpuId
    BY <2>3 DEF IInv, RegistrationsAreExact, ContextsInOrder
  <2>6. /\ DOMAIN contexts = 1..Len(contexts) /\ Len(contexts) \in Nat /\ Len(contexts) <= GpuCount
        /\ \A j \in DOMAIN contexts : contexts[j].gpuId = j - 1 /\ contexts[j].numaNode = NodeOf(j - 1)
    BY ContextTypes DEF IInv, ContextsInOrder
  <2>7. \A j \in DOMAIN contexts : j - 1 \in Gpus
    BY <2>6 DEF Gpus
  <2>8. \A j \in DOMAIN contexts : NodeOf(j - 1) = home[r] => j - 1 = k - 1
    BY <2>4, <2>5, <2>6, <2>7 DEF OnlyDevice
  <2>9. contexts[k].numaNode = home[r]
    BY <2>4, <2>5, <2>6 DEF OnlyDevice
  <2> QED BY <2>6, <2>8, <2>9
<1> QED BY <1>1, InductiveInvariant, PTL
===============================================================================
