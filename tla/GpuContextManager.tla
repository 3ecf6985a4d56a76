--------------------------- MODULE GpuContextManager ---------------------------
(***************************************************************************)
(* The process-wide table of retained GPU contexts                         *)
(* (src/Context/GpuContextManager.cpp, GpuTopology.cpp).  One              *)
(* administrating thread initializes and shuts down; every task, on a      *)
(* thread pinned to its NUMA node, resolves the GPU of its node, registers *)
(* its TaskGpuResources, makes them current and unregisters.               *)
(*                                                                         *)
(* `initialised` is an atomic that registerTask and                        *)
(* gpuIdsForCurrentNumaNode read before they take the lock, and that       *)
(* makeTaskCurrent reads without taking it at all: what they found may be  *)
(* out of date when they go on.  init holds the lock over all devices; it  *)
(* is one step per device here so that lock-free readers see the middle.   *)
(***************************************************************************)
EXTENDS Integers, Sequences, FiniteSets

CONSTANTS GpuCount,    \* devices 0 .. GpuCount - 1
          Nodes,       \* NUMA nodes
          Resources,   \* the TaskGpuResources of the tasks
          MaxInits     \* bound on completed or failed calls of init

ASSUME SizesAssumption == GpuCount \in Nat \ {0} /\ MaxInits \in Nat
ASSUME NodesAssumption == Nodes \subseteq Nat /\ 0 \in Nodes

Gpus == 0..(GpuCount - 1)
Unknown == -1
Free == "free"

\* A null slot is no task.
ASSUME ResourcesAssumption == Free \notin Resources

VARIABLES
    reported,     \* the node sysfs reports for each device, or Unknown
    onlyNode,     \* the single online node, or Unknown
    home,         \* the node each task's thread is pinned to
    initialised, contexts, lock,
    requireNuma,  \* of the init call that is running
    inits,
    retained,     \* the driver's count of retained primary contexts, per device
    resources,    \* gpuId, resourceId and ctx of each task
    task          \* where each task's thread is, and the device it resolved

hostVars == <<reported, onlyNode, home>>
managerVars == <<initialised, contexts, lock, requireNuma, inits, retained>>
vars == <<hostVars, managerVars, resources, task>>

Unregistered == [resourceId |-> Unknown, gpuId |-> Unknown, ctx |-> Unknown]
At(pc) == [pc |-> pc, gpuId |-> Unknown]

Init ==
    /\ reported \in [Gpus -> Nodes \union {Unknown}]
    /\ onlyNode \in Nodes \union {Unknown}
    /\ home \in [Resources -> Nodes]
    /\ initialised = FALSE /\ contexts = <<>> /\ lock = Free
    /\ requireNuma = FALSE /\ inits = 0
    /\ retained = [g \in Gpus |-> 0]
    /\ resources = [r \in Resources |-> Unregistered]
    /\ task = [r \in Resources |-> At("Idle")]

-----------------------------------------------------------------------------
(* init() and shutdown().                                                  *)

resolveGpuNumaNode(reportedNode, strict) ==
    CASE reportedNode # Unknown -> reportedNode
      [] reportedNode = Unknown /\ onlyNode # Unknown -> onlyNode
      [] OTHER -> IF strict THEN Unknown ELSE 0

\* Each context is an object of its own, told apart by the init that made it.
NewContext(g, node) == [id |-> inits * GpuCount + g, gpuId |-> g, numaNode |-> node, slots |-> <<>>]

activeTaskCount(c) == Cardinality({i \in DOMAIN c.slots : c.slots[i] # Free})

\* Mutant: a failed initialization forgets the contexts without giving them back.
NothingReleased(cs) == retained
\* releaseContexts: contexts without tasks go back to the driver, the list is cleared.
AfterRelease(cs) ==
    [g \in Gpus |-> retained[g] - Cardinality({i \in DOMAIN cs : cs[i].gpuId = g /\ activeTaskCount(cs[i]) = 0})]

BeginInit ==
    /\ lock = Free /\ ~initialised /\ inits < MaxInits
    /\ lock' = "init" /\ contexts' = <<>>
    /\ requireNuma' \in BOOLEAN
    /\ UNCHANGED <<hostVars, initialised, inits, retained, resources, task>>

\* The device the loop of init is at.
NextDevice == Len(contexts)

\* The device's node is known, its primary context retained and listed.
AddContext ==
    /\ lock = "init" /\ NextDevice < GpuCount
    /\ LET node == resolveGpuNumaNode(reported[NextDevice], requireNuma)
       IN  /\ node # Unknown
           /\ contexts' = Append(contexts, NewContext(NextDevice, node))
    /\ retained' = [retained EXCEPT ![NextDevice] = @ + 1]
    /\ UNCHANGED <<hostVars, initialised, lock, requireNuma, inits, resources, task>>

\* A CUDA call of the loop fails, before or after its context was listed, or the
\* node of a device cannot be resolved: everything listed is given back.
InitFails ==
    /\ lock = "init"
    /\ retained' = AfterRelease(contexts)
    /\ contexts' = <<>> /\ lock' = Free /\ inits' = inits + 1
    /\ UNCHANGED <<hostVars, initialised, requireNuma, resources, task>>

InitSucceeds ==
    /\ lock = "init" /\ NextDevice = GpuCount
    /\ initialised' = TRUE /\ lock' = Free /\ inits' = inits + 1
    /\ UNCHANGED <<hostVars, contexts, requireNuma, retained, resources, task>>

\* Mutant: only the first device is asked for its tasks.
FirstDeviceIdle == contexts = <<>> \/ activeTaskCount(contexts[1]) = 0
\* The test that blocks shutdown.
NoActiveTask == \A i \in DOMAIN contexts : activeTaskCount(contexts[i]) = 0

Shutdown ==
    /\ lock = Free /\ initialised
    /\ NoActiveTask
    /\ retained' = AfterRelease(contexts)
    /\ contexts' = <<>> /\ initialised' = FALSE
    /\ UNCHANGED <<hostVars, lock, requireNuma, inits, resources, task>>

-----------------------------------------------------------------------------
(* The calls of a task.                                                    *)

Goto(r, pc) == task' = [task EXCEPT ![r].pc = pc]
MayLock == lock = Free

\* gpuIdsForCurrentNumaNode up to gpuLocations.
BeginResolve(r) ==
    /\ task[r].pc = "Idle" /\ resources[r].ctx = Unknown
    /\ initialised
    /\ Goto(r, "Locating")
    /\ UNCHANGED <<hostVars, managerVars, resources>>

\* Mutant: a node with several devices is served by any of them.
AnyLocalGpu(node) == {contexts[i].gpuId : i \in {j \in DOMAIN contexts : contexts[j].numaNode = node}}
\* resolveGpuIds: the only device on the node, if there is just one.
resolveGpuIds(node) ==
    LET matching == {i \in DOMAIN contexts : contexts[i].numaNode = node}
    IN  IF Cardinality(matching) = 1 THEN {contexts[i].gpuId : i \in matching} ELSE {}

\* gpuLocations and resolveGpuIds.
Resolve(r) ==
    /\ task[r].pc = "Locating" /\ MayLock
    /\ LET found == resolveGpuIds(home[r])
       IN  \/ found = {} /\ Goto(r, "Idle")
           \/ \E g \in found : task' = [task EXCEPT ![r] = [pc |-> "Resolved", gpuId |-> g]]
    /\ UNCHANGED <<hostVars, managerVars, resources>>

\* registerTask up to its lock, with the device resolved before.
BeginRegister(r) ==
    /\ task[r].pc = "Resolved"
    /\ Goto(r, IF initialised /\ resources[r].ctx = Unknown THEN "Registering" ELSE "Idle")
    /\ UNCHANGED <<hostVars, managerVars, resources>>

findGpu(g) == {i \in DOMAIN contexts : contexts[i].gpuId = g}

FreeSlots(c) == {i \in DOMAIN c.slots : c.slots[i] = Free}

\* The first empty slot, or one more.
SlotFor(c) ==
    IF FreeSlots(c) = {} THEN Len(c.slots) + 1
    ELSE CHOOSE i \in FreeSlots(c) : \A j \in FreeSlots(c) : i <= j

\* Slot i is overwritten, or pushed back when it is a new one.
WithSlot(c, i, r) ==
    [c EXCEPT !.slots = [j \in 1..(IF i > Len(@) THEN i ELSE Len(@)) |-> IF j = i THEN r ELSE @[j]]]

Register(r) ==
    /\ task[r].pc = "Registering" /\ MayLock
    /\ LET g == task[r].gpuId
       IN  \/ findGpu(g) = {} /\ UNCHANGED <<contexts, resources>>
           \/ \E k \in findGpu(g) :
                 LET slot == SlotFor(contexts[k])
                 IN  /\ contexts' = [contexts EXCEPT ![k] = WithSlot(@, slot, r)]
                     /\ resources' = [resources EXCEPT ![r] =
                                        [resourceId |-> slot, gpuId |-> g, ctx |-> contexts[k].id]]
    /\ task' = [task EXCEPT ![r] = At("Idle")]
    /\ UNCHANGED <<hostVars, initialised, lock, requireNuma, inits, retained>>

\* makeTaskCurrent reads initialised, then follows resources.ctx: the task's
\* device is selected if the context still is the one it registered with.
MakeTaskCurrent(r) ==
    /\ task[r].pc \in {"Idle", "Current"}
    /\ initialised /\ resources[r].ctx # Unknown
    /\ Goto(r, "Current")
    /\ UNCHANGED <<hostVars, managerVars, resources>>

\* unregisterTask: only the slot's own task may empty it.
Unregister(r) ==
    /\ task[r].pc \in {"Idle", "Current"} /\ MayLock
    /\ resources[r].ctx # Unknown /\ initialised
    /\ \E k \in DOMAIN contexts :
          /\ contexts[k].id = resources[r].ctx
          /\ resources[r].resourceId \in DOMAIN contexts[k].slots
          /\ contexts[k].slots[resources[r].resourceId] = r
          /\ contexts' = [contexts EXCEPT ![k] = WithSlot(@, resources[r].resourceId, Free)]
    /\ resources' = [resources EXCEPT ![r] = Unregistered]
    /\ Goto(r, "Idle")
    /\ UNCHANGED <<hostVars, initialised, lock, requireNuma, inits, retained>>

TaskStep(r) ==
    \/ BeginResolve(r) \/ Resolve(r) \/ BeginRegister(r) \/ Register(r)
    \/ MakeTaskCurrent(r) \/ Unregister(r)

Next ==
    \/ BeginInit \/ AddContext \/ InitFails \/ InitSucceeds \/ Shutdown
    \/ \E r \in Resources : TaskStep(r)

Spec == Init /\ [][Next]_vars

-----------------------------------------------------------------------------
\* A registered task's context pointer is good: the context is still listed, for
\* the task's device, under an initialised manager, and the task's slot in it
\* names the task.  makeTaskCurrent follows the pointer without the lock, and
\* init and shutdown may have run since registerTask tested initialised.  The
\* slots hold nothing else: a slot names a task that points back at it, so the
\* counts that block shutdown are those of living tasks, each listed once.
RegistrationsAreExact ==
    /\ \A r \in Resources : resources[r].ctx # Unknown =>
          /\ initialised
          /\ \E k \in DOMAIN contexts :
                /\ contexts[k].id = resources[r].ctx /\ contexts[k].gpuId = resources[r].gpuId
                /\ resources[r].resourceId \in DOMAIN contexts[k].slots
                /\ contexts[k].slots[resources[r].resourceId] = r
    /\ \A k \in DOMAIN contexts : \A s \in DOMAIN contexts[k].slots :
          LET r == contexts[k].slots[s]
          IN  r # Free => resources[r].ctx = contexts[k].id /\ resources[r].resourceId = s

\* Every listed context is retained once and nothing else is, through failed
\* initializations, shutdowns and new initializations.
RetainsAreBalanced ==
    \A g \in Gpus : retained[g] = Cardinality({i \in DOMAIN contexts : contexts[i].gpuId = g})

\* A task registers with the one device of the node its thread runs on, even
\* when it resolved the device before a shutdown and a new init.
TasksStayOnTheirNode ==
    \A r \in Resources : \A k \in DOMAIN contexts :
        contexts[k].id = resources[r].ctx =>
            /\ contexts[k].numaNode = home[r]
            /\ \A j \in DOMAIN contexts : contexts[j].numaNode = home[r] => j = k
===============================================================================
