---------------------------- MODULE StaticData ----------------------------
(***************************************************************************)
(* src/StaticData: the owner of one graph copy's frame cache (GpuDataCache)*)
(* and of its static buffers (StaticGpuData).  The steps of the cache are  *)
(* those of GpuDataCache; this module adds the two classes around it.      *)
(*                                                                         *)
(* The framework serializes init, uploads, finalization, reset and release *)
(* and starts no request during them; a lease, or a request asleep in the  *)
(* cache, may still be there when release is called.  step says where the  *)
(* one cold-path call is.                                                  *)
(*                                                                         *)
(* Sizes are bytes of a SizeBits wide std::size_t.                         *)
(***************************************************************************)
EXTENDS GpuDataCache

CONSTANT SizeBits   \* bits of std::size_t

\* The second conjunct follows from the first; the provers know nothing about
\* powers.
ASSUME SizeAssumption == SizeBits \in Nat \ {0} /\ 2 ^ SizeBits \in Nat \ {0}

VARIABLES
    \* StaticData
    owned,          \* StaticData::initialized
    frameRuntime,   \* the layout of its frames; DefaultShape has zero bytes
    \* StaticGpuData
    currentState, capacity, d_data, uploadStream,
    \* the cold-path call in progress
    step, config,
    \* no counterpart in the code
    undrainedZeros, \* the buffers' zeroing may still be running
    poisoned,       \* an upload of this attempt failed
    overrun,        \* an upload wrote outside its buffer
    overcommitted   \* init accepted more bytes than the device had

ownerVars  == <<owned, frameRuntime>>
staticVars == <<currentState, capacity, d_data, uploadStream>>
ghostVars  == <<undrainedZeros, poisoned, overrun, overcommitted>>
dataVars   == <<vars, ownerVars, staticVars, step, config, ghostVars>>

StaticGpuDataType == {"DetectionZones", "DistortionTables"}
MaxSize == 2 ^ SizeBits - 1
Sizes   == 0 .. MaxSize
Wrap(n) == n % (MaxSize + 1)

NoBuffers == [t \in StaticGpuDataType |-> 0]
NoConfig  == [shape |-> DefaultShape, bytes |-> NoBuffers]
Enabled(bytes) == {t \in StaticGpuDataType : bytes[t] # 0}

\* execute(): the gate in front of every task execution.
execute == owned /\ currentState = "Ready"
-----------------------------------------------------------------------------
\* StaticData::init

InitAllowed == ~owned /\ currentState = "Empty" /\ ~initialized /\ frameRuntime = DefaultShape

\* The overflow checks in front of the sum, and the sum against cudaMemGetInfo.
Fits(count, inBytes, bytes, free) ==
    LET cache == Wrap(count * inBytes) IN
    /\ count # 0 => inBytes <= MaxSize \div count
    /\ bytes["DetectionZones"] <= MaxSize - cache
    /\ bytes["DistortionTables"] <= MaxSize - cache - bytes["DetectionZones"]
    /\ Wrap(cache + bytes["DetectionZones"] + bytes["DistortionTables"]) <= free

\* The checks of init, and the first half of gpuDataCache.initialize.
InitBegin(m, cacheConfig, shape, inBytes, bytes, free) ==
    /\ step = "idle"
    /\ InitAllowed
    /\ inBytes # 0
    /\ Fits(cacheConfig.count, inBytes, bytes, free)
    /\ InitializeBegin(m, cacheConfig)
    /\ step' = "initCache"
    /\ config' = [shape |-> shape, bytes |-> bytes]
    /\ overcommitted' = (overcommitted \/
         cacheConfig.count * inBytes + bytes["DetectionZones"] + bytes["DistortionTables"] > free)
    /\ UNCHANGED <<ownerVars, staticVars, undrainedZeros, poisoned, overrun>>

InitCacheFails(m) ==
    /\ step = "initCache"
    /\ InitializeFail(m)
    /\ step' = "idle"
    /\ config' = NoConfig
    /\ UNCHANGED <<ownerVars, staticVars, ghostVars>>

InitCacheDone(m) ==
    /\ step = "initCache"
    /\ InitializePublish(m)
    /\ step' = "initStatic"
    /\ UNCHANGED <<ownerVars, staticVars, config, ghostVars>>

\* gpuStaticData.initialize succeeds: a stream and zeroed buffers for the
\* enabled regions; with none, init finalizes at once.
InitStaticDone ==
    LET enabled == Enabled(config.bytes) IN
    /\ step = "initStatic"
    /\ currentState' = IF enabled = {} THEN "Ready" ELSE "Uploading"
    /\ capacity' = config.bytes
    /\ d_data' = enabled
    /\ uploadStream' = (enabled # {})
    /\ undrainedZeros' = (enabled # {})
    /\ poisoned' = FALSE
    /\ frameRuntime' = config.shape
    /\ owned' = TRUE
    /\ step' = "idle"
    /\ config' = NoConfig
    /\ UNCHANGED <<vars, overrun, overcommitted>>

\* A CUDA call of it, or of that finalization, fails.  failInitialization frees
\* what it can: kept and streamKept are the allocations that stay.  init then
\* calls release.
InitStaticFails(kept, streamKept) ==
    /\ step = "initStatic"
    /\ kept \subseteq Enabled(config.bytes)
    /\ streamKept => Enabled(config.bytes) # {}
    /\ currentState' = "Failed"
    /\ d_data' = kept
    /\ uploadStream' = streamKept
    /\ capacity' = IF kept = {} /\ ~streamKept THEN NoBuffers ELSE config.bytes
    /\ undrainedZeros' = (kept # {})
    /\ step' = "undo"
    /\ config' = NoConfig
    /\ UNCHANGED <<vars, ownerVars, poisoned, overrun, overcommitted>>
-----------------------------------------------------------------------------
\* StaticGpuData: uploads and finalization

\* Mutant: offset and count are added before they are compared.
InBoundsWrapped(offset, count, size) == Wrap(offset + count) <= size

\* The segment lies in the buffer, tested without overflowing.
InBounds(offset, count, size) == offset <= size /\ count <= size - offset

\* An invalid or failed upload poisons the attempt.
StateAfterUpload(ok) == IF ok THEN "Uploading" ELSE "Failed"

\* uploadStaticData; ok says that source is there and every CUDA call works.
\* The copy is synchronous, so that it drains the zeroing too.
UploadStaticData(type, offset, count, ok) ==
    LET size   == capacity[type]
        writes == size # 0 /\ count # 0 /\ InBounds(offset, count, size) /\ ok IN
    /\ step = "idle"
    /\ owned
    /\ currentState = "Uploading"
    /\ currentState' = StateAfterUpload(writes)
    /\ undrainedZeros' = (undrainedZeros /\ ~writes)
    /\ poisoned' = (poisoned \/ ~writes)
    /\ overrun' = (overrun \/ (writes /\ offset + count > size))
    /\ UNCHANGED <<vars, ownerVars, capacity, d_data, uploadStream, step, config, overcommitted>>

\* Mutant: finalization does not wait for the upload stream.
DrainedAtOnce(ok) == undrainedZeros

\* cudaStreamSynchronize(uploadStream)
DrainedBy(ok) == undrainedZeros /\ ~ok

FinalizeStaticData(ok) ==
    /\ step = "idle"
    /\ owned
    /\ currentState = "Uploading"
    /\ currentState' = IF ok THEN "Ready" ELSE "Failed"
    /\ undrainedZeros' = DrainedBy(ok)
    /\ UNCHANGED <<vars, ownerVars, capacity, d_data, uploadStream, step, config, poisoned,
                   overrun, overcommitted>>
-----------------------------------------------------------------------------
\* StaticData::release

\* Mutant: the static buffers go whatever the cache answers.
ReleasedRegardless(released) == "freeStatic"

\* "Reject live cache users before touching static buffers."
AfterCacheRelease(released) == IF released THEN "freeStatic" ELSE "idle"

\* The first critical section of gpuDataCache.release, which has nothing to
\* do, refuses, or starts to free.  undo is release called by a failed init.
ReleaseBegins(m) ==
    /\ step \in {"idle", "undo"}
    /\ \/ ManagerEmpty /\ step' = AfterCacheRelease(TRUE) /\ UNCHANGED vars
       \/ ~ManagerEmpty /\ (releasing \/ ~CanReset) /\ step' = AfterCacheRelease(FALSE) /\ UNCHANGED vars
       \/ ReleaseBegin(m) /\ step' = "freeCache"
    /\ UNCHANGED <<ownerVars, staticVars, config, ghostVars>>

ReleaseCacheEnds(m, freed) ==
    /\ step = "freeCache"
    /\ ReleaseEnd(m, freed)
    /\ step' = AfterCacheRelease(AllReleased(freed))
    /\ UNCHANGED <<ownerVars, staticVars, config, ghostVars>>

\* Mutant: the state is cleared although an allocation stayed.
ClearedAfterRelease(kept, streamKept) == TRUE

\* gpuStaticData has given everything back.
NothingKept(kept, streamKept) == kept = {} /\ ~streamKept

\* gpuStaticData.release: kept and streamKept are what cudaFree,
\* cudaStreamDestroy or the device guard failed on.
ReleaseStatic(kept, streamKept) ==
    /\ step = "freeStatic"
    /\ kept \subseteq d_data
    /\ streamKept => uploadStream
    /\ d_data' = kept
    /\ uploadStream' = streamKept
    /\ undrainedZeros' = (undrainedZeros /\ kept # {})
    /\ owned' = FALSE
    /\ IF NothingKept(kept, streamKept)
       THEN currentState' = "Empty" /\ capacity' = NoBuffers /\ frameRuntime' = DefaultShape
       ELSE currentState' = "Failed" /\ UNCHANGED <<capacity, frameRuntime>>
    /\ step' = "idle"
    /\ UNCHANGED <<vars, config, poisoned, overrun, overcommitted>>
-----------------------------------------------------------------------------
\* Requests and reset

\* The gate and the fixed layout; the cache sees nothing else.
validateFrame(f) == execute /\ f.shape = frameRuntime

StaticGetCacheData(a, f, late) ==
    /\ step = "idle"
    /\ validateFrame(f)
    /\ GetCacheData(a, f, late)
    /\ UNCHANGED <<ownerVars, staticVars, step, config, ghostVars>>

StaticResetCache ==
    /\ step = "idle"
    /\ owned
    /\ frameRuntime # DefaultShape
    /\ ResetCache
    /\ UNCHANGED <<ownerVars, staticVars, step, config, ghostVars>>

\* What goes on in the cache without StaticData.
LeaseStep(a) ==
    \/ DeadlinePasses(a)
    \/ WakeUp(a)
    \/ \E submitted, ok \in BOOLEAN, retention \in {"Keep", "Discard", "Unknown"} :
          FreeCacheData(a, submitted, retention, ok)
    \/ \E submitted, ok \in BOOLEAN : AbortUnfinishedAccess(a, submitted, ok)
    \/ NoteSyncFailure(a)
    \/ EndHit(a)
    \/ EndFill(a)
    \/ EndFallback(a)
-----------------------------------------------------------------------------
DataInit ==
    /\ Init
    /\ owned = FALSE /\ frameRuntime = DefaultShape
    /\ currentState = "Empty" /\ capacity = NoBuffers /\ d_data = {} /\ uploadStream = FALSE
    /\ step = "idle" /\ config = NoConfig
    /\ undrainedZeros = FALSE /\ poisoned = FALSE /\ overrun = FALSE /\ overcommitted = FALSE

ColdPath(m) ==
    \/ \E c \in Config, shape \in Shapes, inBytes, free \in Sizes, bytes \in [StaticGpuDataType -> Sizes] :
          InitBegin(m, c, shape, inBytes, bytes, free)
    \/ InitCacheFails(m)
    \/ InitCacheDone(m)
    \/ ReleaseBegins(m)
    \/ \E freed \in SUBSET {e \in Entries : allocated[e]} : ReleaseCacheEnds(m, freed)

DataNext ==
    \/ \E m \in Admins : ColdPath(m)
    \/ InitStaticDone
    \/ \E kept \in SUBSET StaticGpuDataType, streamKept \in BOOLEAN :
          InitStaticFails(kept, streamKept) \/ ReleaseStatic(kept, streamKept)
    \/ \E type \in StaticGpuDataType, offset, count \in Sizes, ok \in BOOLEAN :
          UploadStaticData(type, offset, count, ok)
    \/ \E ok \in BOOLEAN : FinalizeStaticData(ok)
    \/ StaticResetCache
    \/ \E a \in Accesses :
        \/ \E f \in Frames, late \in BOOLEAN : StaticGetCacheData(a, f, late)
        \/ LeaseStep(a) /\ UNCHANGED <<ownerVars, staticVars, step, config, ghostVars>>

DataSpec == DataInit /\ [][DataNext]_dataVars
-----------------------------------------------------------------------------
\* The static buffers outlive every user of the cache: as long as a lease is
\* live or a request sleeps, they are allocated and Ready, because release
\* asks the cache first.
StaticBuffersOutliveLeases ==
    Live # {} \/ Sleepers # {} => execute /\ d_data = Enabled(capacity)

\* Pointers are exposed only in Ready, after everything is written: no zeroing
\* may still run behind them, and no upload of this attempt has failed.
ReadyIsComplete ==
    currentState = "Ready" => ~undrainedZeros /\ ~poisoned

\* Nothing is leaked by a new init: when it is allowed, neither the cache nor
\* the static data of an earlier, failed or half-released attempt owns memory.
FreshStart ==
    InitAllowed /\ step = "idle" =>
        d_data = {} /\ ~uploadStream /\ \A e \in Index : ~allocated[e]

\* Size arithmetic never wraps: uploads stay in their buffers, and init accepts
\* only what the device has room for.
SizesAreExact == ~overrun /\ ~overcommitted
=============================================================================
