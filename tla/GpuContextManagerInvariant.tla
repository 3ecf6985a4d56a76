---------------------- MODULE GpuContextManagerInvariant ----------------------
(***************************************************************************)
(* The inductive invariant of GpuContextManager.  A context pointer stays  *)
(* good although makeTaskCurrent follows it without the lock, because the  *)
(* list of contexts is either empty, being built, or complete, and because *)
(* only a complete one has tasks; a device resolved under one init is      *)
(* still the right one under the next, because its node depends on the     *)
(* host alone.                                                             *)
(***************************************************************************)
EXTENDS GpuContextManager

Contexts == [id : Nat, gpuId : Gpus, numaNode : Nodes, slots : Seq(Resources \union {Free})]

TypeOK ==
    /\ reported \in [Gpus -> Nodes \union {Unknown}]
    /\ onlyNode \in Nodes \union {Unknown}
    /\ home \in [Resources -> Nodes]
    /\ initialised \in BOOLEAN /\ requireNuma \in BOOLEAN
    /\ lock \in {Free, "init"} /\ inits \in Nat
    /\ contexts \in Seq(Contexts)
    /\ retained \in [Gpus -> Int]
    /\ resources \in [Resources -> [resourceId : Int, gpuId : Gpus \union {Unknown}, ctx : Nat \union {Unknown}]]
    /\ task \in [Resources -> [pc : {"Idle", "Locating", "Resolved", "Registering", "Current"},
                               gpuId : Gpus \union {Unknown}]]

\* The node of a device, when it has one: whether init is strict decides only
\* whether a device without a node is an error.
NodeOf(g) == resolveGpuNumaNode(reported[g], FALSE)

\* The contexts are those of the first devices, in order, each with its own id.
ContextsInOrder ==
    /\ Len(contexts) <= GpuCount
    /\ \A k \in DOMAIN contexts : contexts[k].gpuId = k - 1 /\ contexts[k].numaNode = NodeOf(k - 1)
    /\ \A j, k \in DOMAIN contexts : contexts[j].id = contexts[k].id => j = k
    /\ lock = "init" => \A k \in DOMAIN contexts : contexts[k].id = inits * GpuCount + (k - 1)

\* Under the lock the list is built, and nobody is in it yet; else it is
\* complete or empty.
Construction ==
    /\ initialised => lock = Free /\ Len(contexts) = GpuCount
    /\ ~initialised /\ lock = Free => contexts = <<>>
    /\ ~initialised => \A k \in DOMAIN contexts : contexts[k].slots = <<>>

\* The device is the only one on the task's node.
OnlyDevice(r, g) == g \in Gpus /\ NodeOf(g) = home[r] /\ \A h \in Gpus : NodeOf(h) = home[r] => h = g

\* A device that a task resolved, or registered with, is the only one of its node.
Resolutions ==
    \A r \in Resources :
        /\ task[r].pc \in {"Locating", "Resolved", "Registering"} => resources[r].ctx = Unknown
        /\ task[r].pc \in {"Resolved", "Registering"} => OnlyDevice(r, task[r].gpuId)
        /\ resources[r].ctx # Unknown => OnlyDevice(r, resources[r].gpuId)

IInv ==
    /\ TypeOK
    /\ ContextsInOrder
    /\ Construction
    /\ Resolutions
    /\ RegistrationsAreExact
    /\ RetainsAreBalanced
===============================================================================
