------------------------ MODULE StaticDataInvariant ------------------------
(***************************************************************************)
(* The inductive invariant of StaticData.  The cache keeps its own, IInv:  *)
(* every step of StaticData is a step of GpuDataCache or leaves it alone.  *)
(* DataInv adds what release, init and the uploads know about one another. *)
(***************************************************************************)
EXTENDS StaticData, GpuDataCacheInvariant

\* The shape of the state that StaticData adds to the cache's.
DataTypeOK ==
    /\ owned \in BOOLEAN
    /\ currentState \in {"Empty", "Uploading", "Ready", "Failed"}
    /\ capacity \in [StaticGpuDataType -> Sizes]
    /\ d_data \subseteq StaticGpuDataType
    /\ uploadStream \in BOOLEAN
    /\ step \in {"idle", "initCache", "initStatic", "undo", "freeCache", "freeStatic"}
    /\ config.bytes \in [StaticGpuDataType -> Sizes]
    /\ undrainedZeros \in BOOLEAN /\ poisoned \in BOOLEAN
    /\ overrun \in BOOLEAN /\ overcommitted \in BOOLEAN

\* Users of the cache came in through the gate, which is still open.
UsersPassedTheGate == Live # {} \/ Sleepers # {} => execute

\* What StaticData owns is complete; a failed init owns nothing yet.
OwnedIsAllocated ==
    /\ owned => d_data = Enabled(capacity)
    /\ step \in {"initCache", "initStatic", "undo"} => ~owned

\* Empty static data comes with an empty cache, but for the moment between the
\* two halves of init; static buffers are freed after the cache.
EmptyIsEmpty ==
    /\ currentState = "Empty" => d_data = {} /\ ~uploadStream
    /\ currentState = "Empty" /\ step # "initStatic" => ManagerEmpty
    /\ step = "freeStatic" => ManagerEmpty

\* An attempt that is still on its way to Ready, or there, has no failed upload.
NothingPoisoned ==
    /\ currentState = "Uploading" => ~poisoned
    /\ currentState = "Ready" => ~poisoned /\ ~undrainedZeros

\* The inductive invariant of StaticData.
DataInv ==
    /\ IInv
    /\ DataTypeOK
    /\ UsersPassedTheGate
    /\ OwnedIsAllocated
    /\ EmptyIsEmpty
    /\ NothingPoisoned
    /\ SizesAreExact
=============================================================================
