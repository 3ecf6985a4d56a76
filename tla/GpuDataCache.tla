--------------------------- MODULE GpuDataCache ---------------------------
(***************************************************************************)
(* The manager of src/DataCache: GpuDataCache, its entries                 *)
(* (GpuDataCacheEntry) and the scoped leases it hands out (GpuDataAccess). *)
(*                                                                         *)
(* A step is one critical section of GpuDataCache::lock, one stream        *)
(* synchronization outside that lock, or the passing of a deadline.  An    *)
(* element of Accesses is one GpuDataAccess object with the getCacheData   *)
(* call that produces it; a thread that holds two leases is two accesses.  *)
(* An element of Admins is a thread calling initialize, release or         *)
(* resetCache.  Calls that return without changing anything are stuttering *)
(* steps and have no action.                                               *)
(*                                                                         *)
(* The residency table is a partial map here (GpuResidencyTable refines    *)
(* it) and the two intrusive lists are sequences of entry indices.         *)
(***************************************************************************)
EXTENDS Integers, FiniteSets, SequencesExt

CONSTANTS
    Accesses,       \* GpuDataAccess objects / concurrent requests
    Admins,         \* threads that call the manager's lifecycle operations
    Keys,           \* GpuDataKey values
    DefaultKey,     \* GpuDataKey(), a legal key: all identifiers zero
    Shapes,         \* the rest of a valid FrameMetadata (bytes, size, dtype)
    DefaultShape,   \* the rest of FrameMetadata(): width and height are zero
    MaxEntryCount,  \* largest cacheEntryCount passed to initialize
    WaitTimeouts,   \* waitTimeout choices: TRUE is positive, FALSE is zero
    Policies        \* CacheEvictionPolicy choices

ASSUME CacheAssumption ==
    /\ IsFiniteSet(Accesses)
    /\ DefaultKey \in Keys
    /\ DefaultShape \notin Shapes
    /\ MaxEntryCount \in Nat
    /\ WaitTimeouts \subseteq BOOLEAN
    /\ Policies \subseteq {"LRU", "FIFO"}

VARIABLES
    \* GpuDataCache
    initialized, releasing, failed, entryCount, waitTimeout, evictionPolicy,
    activeFallbackAccesses,
    residency,      \* residencyTable: key -> entry index or NO_ENTRY
    emptyEntries,   \* stack of empty entries, top at the end
    evictable,      \* leastRecentlyUsed ... mostRecentlyUsed
    filled,         \* oldestFilled ... newestFilled, used under FIFO only
    \* GpuDataCacheEntry, per index
    cacheState, activeAccesses, discardWhenUnused, metadata, replicaValid,
    allocated,      \* isInitialized(): the entry owns its cudaMalloc
    \* GpuDataAccess / getCacheData, per access
    pc, frame, accessStatus, entryIndex, completion,
    notified,       \* sleepers that notify_all has woken
    expired,        \* sleepers whose deadline has passed
    \* initialize / release in progress, per admin
    adminPc, adminConfig,
    \* what the GPU memory holds; no counterpart in the code
    content,        \* the frame whose payload an entry's buffer holds
    undrained       \* entries a failed synchronization left work on

managerVars == <<initialized, releasing, failed, entryCount, waitTimeout, evictionPolicy>>
listVars    == <<residency, emptyEntries, evictable, filled>>
entryVars   == <<cacheState, activeAccesses, discardWhenUnused, metadata, replicaValid>>
accessVars  == <<pc, frame, accessStatus, entryIndex, completion>>
wakeVars    == <<notified, expired>>
adminVars   == <<adminPc, adminConfig>>
memoryVars  == <<allocated, content, undrained>>
vars == <<managerVars, activeFallbackAccesses, listVars, entryVars, accessVars,
          wakeVars, adminVars, memoryVars>>

NO_ENTRY == -1
Index    == 0 .. MaxEntryCount - 1
Entries  == 0 .. entryCount - 1

Frames       == [key : Keys, shape : Shapes]
DefaultFrame == [key |-> DefaultKey, shape |-> DefaultShape]

Idle       == [succeeded |-> FALSE, retention |-> "Keep", abort |-> FALSE]
Completion == [succeeded : BOOLEAN, retention : {"Keep", "Discard"}, abort : BOOLEAN]
\* What a caller may pass to initialize, and the defaults of the header.
Config        == [count : 0 .. MaxEntryCount, wait : WaitTimeouts, policy : Policies]
DefaultConfig == [count |-> 0, wait |-> TRUE, policy |-> "LRU"]

\* A lease is live from getCacheData's return to completeAccess / abortAccess.
LivePc     == {"held", "syncFailed", "drained"}
Live       == {a \in Accesses : pc[a] \in LivePc}
Sleepers   == {a \in Accesses : pc[a] = "asleep"}
Leases(e)  == {a \in Live : entryIndex[a] = e}
Fallbacks  == {a \in Live : accessStatus[a] = "TaskFallback"}

-----------------------------------------------------------------------------
\* Entry bookkeeping shared by the operations.

\* Mutant: nobody is told.
NotifyNobody == UNCHANGED notified

\* cacheChanged.notify_all()
NotifyAll == notified' = notified \cup Sleepers

\* Mutant: the stack is built from count instead of count-1.
AllEmptyOffByOne(count) == [i \in 1 .. count |-> count - i + 1]

\* The fresh stack of empty entries: count-1 at the bottom, 0 on top.
AllEmpty(count) == [i \in 1 .. count |-> count - i]

\* Mutant: sleepers are not counted (no waitingAccesses).
CanResetPastSleepers ==
    /\ activeFallbackAccesses = 0
    /\ \A e \in Entries : activeAccesses[e] = 0 /\ cacheState[e] # "Loading"

\* releasing and leases aside, nothing of the manager is in use.
CanReset ==
    /\ activeFallbackAccesses = 0
    /\ Sleepers = {}
    /\ \A e \in Entries : activeAccesses[e] = 0 /\ cacheState[e] # "Loading"

\* resetEntry: unlink, forget the key, make the entry empty and tell waiters.
ResetEntry(e) ==
    /\ evictable' = RemoveFirst(evictable, e)
    /\ filled' = RemoveFirst(filled, e)
    /\ residency' = [residency EXCEPT ![metadata[e].key] = IF @ = e THEN NO_ENTRY ELSE @]
    /\ metadata' = [metadata EXCEPT ![e] = DefaultFrame]
    /\ replicaValid' = [replicaValid EXCEPT ![e] = FALSE]
    /\ cacheState' = [cacheState EXCEPT ![e] = "Empty"]
    /\ activeAccesses' = [activeAccesses EXCEPT ![e] = 0]
    /\ discardWhenUnused' = [discardWhenUnused EXCEPT ![e] = FALSE]
    /\ emptyEntries' = Append(emptyEntries, e)
    /\ NotifyAll

\* Mutant: a later Keep overwrites an earlier Discard.
DiscardIfLast(e, discard) == discard

\* Some reader of the entry, this one or an earlier one, asked for a discard.
DiscardAsked(e, discard) == discardWhenUnused[e] \/ discard

\* One reader leaves; the last one makes the entry evictable, or discards it
\* (releaseReaderEntry).
EndRead(e, discard) ==
    IF activeAccesses[e] > 1
    THEN /\ activeAccesses' = [activeAccesses EXCEPT ![e] = @ - 1]
         /\ discardWhenUnused' = [discardWhenUnused EXCEPT ![e] = DiscardAsked(e, discard)]
         /\ UNCHANGED <<listVars, cacheState, metadata, replicaValid, notified>>
    ELSE IF DiscardAsked(e, discard)
    THEN ResetEntry(e)
    ELSE /\ activeAccesses' = [activeAccesses EXCEPT ![e] = 0]
         /\ evictable' = Append(evictable, e)
         /\ NotifyAll
         /\ UNCHANGED <<residency, emptyEntries, filled, cacheState, metadata,
                        discardWhenUnused, replicaValid>>

\* takeCandidate: an empty entry first, else the policy's victim.  FIFO skips
\* entries with readers but leaves them at their place in the list.
FirstIdleFilled ==
    {filled[i] : i \in {j \in DOMAIN filled :
        /\ activeAccesses[filled[j]] = 0
        /\ \A k \in 1 .. j - 1 : activeAccesses[filled[k]] # 0}}

Victims ==
    IF evictable = <<>> THEN {}
    ELSE IF evictionPolicy = "FIFO" THEN FirstIdleFilled \cap Range(evictable)
    ELSE {Head(evictable)}

Candidates == IF emptyEntries # <<>> THEN {Last(emptyEntries)} ELSE Victims

\* Mutant: an entry that was empty is treated like an evicted one.
OldKeyErased(c) == {metadata[c].key}

\* The key an eviction erases from the table before the new one goes in.
ErasedKeys(c) == IF emptyEntries # <<>> THEN {} ELSE {metadata[c].key}
ResidentKeys  == {k \in Keys : residency[k] # NO_ENTRY}

\* What getCacheData checks of a candidate before it reuses the entry; the
\* table refuses an insertion beyond its limit.
CandidateUsable(c) ==
    /\ allocated[c]
    /\ activeAccesses[c] = 0
    /\ IF emptyEntries # <<>>
       THEN cacheState[c] = "Empty" /\ c \notin Range(evictable)
       ELSE /\ cacheState[c] = "Valid"
            /\ residency[metadata[c].key] = c
            /\ evictionPolicy = "FIFO" => c \in Range(filled)
    /\ Cardinality(ResidentKeys \ ErasedKeys(c)) < entryCount

\* Where a request for frame f stands in the loop of getCacheData.
Resident(f) == residency[f.key] # NO_ENTRY
Matching(f) == Resident(f) /\ residency[f.key] \in Entries /\ metadata[residency[f.key]] = f

BlockedLoading(f) == Matching(f) /\ cacheState[residency[f.key]] = "Loading"
BlockedFull(f)    == ~Resident(f) /\ Candidates = {}
Blocked(f)        == BlockedLoading(f) \/ BlockedFull(f)

ReadableEntry(f) == Matching(f) /\ cacheState[residency[f.key]] = "Valid"
ReplicaReady(e)  == allocated[e] /\ replicaValid[e]
ReaderLeaseOk(e) ==
    /\ evictionPolicy = "FIFO" => e \in Range(filled)
    /\ activeAccesses[e] = 0 <=> e \in Range(evictable)

\* Mutant: a resident key is a hit, whatever the state of its entry.
HitOnResident(f) == Matching(f) /\ ReaderLeaseOk(residency[f.key])

CanHit(f) == ReadableEntry(f) /\ ReplicaReady(residency[f.key]) /\ ReaderLeaseOk(residency[f.key])
CanFill(f) == ~Resident(f) /\ \E c \in Candidates : CandidateUsable(c)
MissingReplica(f) == ReadableEntry(f) /\ ~ReplicaReady(residency[f.key])

\* Mutant: the deadline is not looked at again after a wakeup.
MayWaitForever(late) == entryCount > 0 /\ waitTimeout

\* waitForCacheChange refuses to wait: no entries, no timeout, or too late.
MayWait(late) == entryCount > 0 /\ waitTimeout /\ ~late
-----------------------------------------------------------------------------
\* The loop body of getCacheData for access a and frame f; late says that the
\* deadline has passed.  Exactly one of these runs per pass.

\* The access leaves the call, or falls asleep, with the given outcome.
Leaves(a, f, status, e) ==
    /\ pc' = [pc EXCEPT ![a] = IF status = "Invalid" THEN "idle" ELSE "held"]
    /\ frame' = [frame EXCEPT ![a] = IF status = "Invalid" THEN DefaultFrame ELSE f]
    /\ accessStatus' = [accessStatus EXCEPT ![a] = status]
    /\ entryIndex' = [entryIndex EXCEPT ![a] = e]
    /\ expired' = expired \ {a}
    /\ UNCHANGED completion

\* A share of a published entry; the first reader takes it off the list.
ServeHit(a, f) ==
    LET e == residency[f.key] IN
    /\ ~failed
    /\ CanHit(f)
    /\ evictable' = RemoveFirst(evictable, e)
    /\ activeAccesses' = [activeAccesses EXCEPT ![e] = @ + 1]
    /\ Leaves(a, f, "CacheHit", e)
    /\ notified' = notified \ {a}
    /\ UNCHANGED <<managerVars, activeFallbackAccesses, residency, emptyEntries, filled,
                   cacheState, discardWhenUnused, metadata, replicaValid, adminVars, memoryVars>>

\* The exclusive reservation of an empty entry or of an evicted one.  From
\* here on its caller may overwrite the buffer at any moment.
ServeFill(a, f) ==
    /\ ~failed
    /\ CanFill(f)
    /\ \E c \in Candidates :
        /\ emptyEntries' = IF emptyEntries # <<>> THEN Front(emptyEntries) ELSE emptyEntries
        /\ evictable' = IF emptyEntries # <<>> THEN evictable ELSE RemoveFirst(evictable, c)
        /\ filled' = IF emptyEntries # <<>> THEN filled ELSE RemoveFirst(filled, c)
        /\ residency' = [k \in Keys |-> IF k = f.key THEN c
                                        ELSE IF k \in ErasedKeys(c) THEN NO_ENTRY
                                        ELSE residency[k]]
        /\ metadata' = [metadata EXCEPT ![c] = f]
        /\ replicaValid' = [replicaValid EXCEPT ![c] = FALSE]
        /\ cacheState' = [cacheState EXCEPT ![c] = "Loading"]
        /\ activeAccesses' = [activeAccesses EXCEPT ![c] = 1]
        /\ discardWhenUnused' = [discardWhenUnused EXCEPT ![c] = FALSE]
        /\ content' = [content EXCEPT ![c] = DefaultFrame]
        /\ Leaves(a, f, "CacheFill", c)
    /\ notified' = notified \ {a}
    /\ UNCHANGED <<managerVars, activeFallbackAccesses, adminVars, allocated, undrained>>

\* makeFallbackAccess: the caller's private buffer.
ServeFallback(a, f, late) ==
    /\ ~failed
    /\ (Blocked(f) /\ ~MayWait(late)) \/ MissingReplica(f)
    /\ activeFallbackAccesses' = activeFallbackAccesses + 1
    /\ Leaves(a, f, "TaskFallback", NO_ENTRY)
    /\ notified' = notified \ {a}
    /\ UNCHANGED <<managerVars, listVars, entryVars, adminVars, memoryVars>>

\* cacheChanged.wait_until releases the mutex; a fresh wait has no pending
\* notification.
ServeSleep(a, f, late) ==
    /\ ~failed
    /\ Blocked(f)
    /\ MayWait(late)
    /\ pc' = [pc EXCEPT ![a] = "asleep"]
    /\ frame' = [frame EXCEPT ![a] = f]
    /\ notified' = notified \ {a}
    /\ UNCHANGED <<managerVars, activeFallbackAccesses, listVars, entryVars, accessStatus,
                   entryIndex, completion, expired, adminVars, memoryVars>>

\* A candidate that fails its checks goes back where it came from
\* (restoreCandidate): an evictable one to the most recently used end.
RestoreCandidate(a, f) ==
    IF ~failed /\ ~Resident(f) /\ emptyEntries = <<>> /\ Victims # {}
    THEN \E c \in Victims :
            LET back == cacheState[c] = "Valid" /\ activeAccesses[c] = 0 IN
            /\ evictable' = IF back THEN Append(RemoveFirst(evictable, c), c)
                            ELSE RemoveFirst(evictable, c)
            /\ notified' = IF back THEN (notified \cup Sleepers) \ {a} ELSE notified \ {a}
    ELSE UNCHANGED evictable /\ notified' = notified \ {a}

\* A failed manager, a metadata mismatch, or inconsistent bookkeeping.
ServeInvalid(a, f) ==
    /\ failed \/ ~(CanHit(f) \/ CanFill(f) \/ Blocked(f) \/ MissingReplica(f))
    /\ RestoreCandidate(a, f)
    /\ Leaves(a, f, "Invalid", NO_ENTRY)
    /\ UNCHANGED <<managerVars, activeFallbackAccesses, residency, emptyEntries, filled,
                   entryVars, adminVars, memoryVars>>

\* getCacheData, first pass.  Manager and request are validated once, here;
\* taking the mutex may have used up the waiting time (late).
Accepts == initialized /\ ~releasing /\ ~failed

GetCacheData(a, f, late) ==
    /\ pc[a] = "idle"
    /\ Accepts
    /\ \/ ServeHit(a, f)
       \/ ServeFill(a, f)
       \/ ServeFallback(a, f, late)
       \/ ServeSleep(a, f, late)
       \/ ServeInvalid(a, f)

\* The clock reaches a sleeper's deadline.
DeadlinePasses(a) ==
    /\ a \in Sleepers \ expired
    /\ expired' = expired \cup {a}
    /\ UNCHANGED <<managerVars, activeFallbackAccesses, listVars, entryVars, accessVars,
                   notified, adminVars, memoryVars>>

\* A sleeper has the mutex again (notified, timed out or spuriously woken) and
\* runs the loop body; only failed is looked at again.
WakeUp(a) ==
    /\ pc[a] = "asleep"
    /\ \/ ServeHit(a, frame[a])
       \/ ServeFill(a, frame[a])
       \/ ServeFallback(a, frame[a], a \in expired)
       \/ ServeSleep(a, frame[a], a \in expired)
       \/ ServeInvalid(a, frame[a])
-----------------------------------------------------------------------------
\* GpuDataAccess: the end of a lease.

\* Mutant: the lease is ended without marking the manager failed.
AfterSyncIgnored(ok) == "drained"

\* freeCacheData and abortUnfinishedAccess call noteSyncFailure first when the
\* synchronization failed.
AfterSync(ok) == IF ok THEN "drained" ELSE "syncFailed"

\* cudaStreamSynchronize, outside the lock.  A fill whose work was submitted
\* and drained has its whole payload in the buffer; a failed synchronization
\* may leave kernels running on the entry.
Synchronize(a, submitted, ok, how) ==
    /\ pc[a] = "held"
    /\ pc' = [pc EXCEPT ![a] = AfterSync(ok)]
    /\ completion' = [completion EXCEPT ![a] = how]
    /\ content' = IF accessStatus[a] = "CacheFill" /\ submitted /\ ok
                  THEN [content EXCEPT ![entryIndex[a]] = frame[a]]
                  ELSE content
    /\ undrained' = IF ~ok /\ accessStatus[a] # "TaskFallback"
                    THEN undrained \cup {entryIndex[a]}
                    ELSE undrained
    /\ UNCHANGED <<managerVars, activeFallbackAccesses, listVars, entryVars, frame,
                   accessStatus, entryIndex, wakeVars, adminVars, allocated>>

\* freeCacheData.  An unknown retention is a failed completion with Keep.
FreeCacheData(a, submitted, retention, ok) ==
    Synchronize(a, submitted, ok,
                [succeeded |-> submitted /\ retention # "Unknown" /\ ok,
                 retention |-> IF retention = "Unknown" THEN "Keep" ELSE retention,
                 abort |-> FALSE])

\* abortUnfinishedAccess, from the destructor or a move assignment.
AbortUnfinishedAccess(a, submitted, ok) ==
    Synchronize(a, submitted, ok, [Idle EXCEPT !.abort = TRUE])

\* Its own critical section, before the one that ends the lease.
NoteSyncFailure(a) ==
    /\ pc[a] = "syncFailed"
    /\ pc' = [pc EXCEPT ![a] = "drained"]
    /\ failed' = TRUE
    /\ NotifyAll
    /\ UNCHANGED <<initialized, releasing, entryCount, waitTimeout, evictionPolicy,
                   activeFallbackAccesses, listVars, entryVars, frame, accessStatus, entryIndex,
                   completion, expired, adminVars, memoryVars>>

\* GpuDataAccess::reset.  The code writes index 0; an access without an owner
\* never uses its index, and NO_ENTRY says so.
ResetAccess(a) ==
    /\ pc' = [pc EXCEPT ![a] = "idle"]
    /\ frame' = [frame EXCEPT ![a] = DefaultFrame]
    /\ accessStatus' = [accessStatus EXCEPT ![a] = "Invalid"]
    /\ entryIndex' = [entryIndex EXCEPT ![a] = NO_ENTRY]
    /\ completion' = [completion EXCEPT ![a] = Idle]

\* completeAccess and abortAccess both look the entry up again; completion
\* also wants a running manager.
SameEntry(a) ==
    /\ entryIndex[a] \in Entries
    /\ metadata[entryIndex[a]].key = frame[a].key
    /\ allocated[entryIndex[a]]

ReaderMayEnd(a) ==
    LET e == entryIndex[a] IN
    /\ SameEntry(a)
    /\ cacheState[e] = "Valid" /\ activeAccesses[e] > 0 /\ e \notin Range(evictable)
    /\ completion[a].abort \/ (initialized /\ ~releasing /\ replicaValid[e])

FillMayEnd(a) ==
    LET e == entryIndex[a] IN
    /\ SameEntry(a)
    /\ cacheState[e] = "Loading" /\ activeAccesses[e] = 1 /\ e \notin Range(evictable)
    /\ completion[a].abort \/ (initialized /\ ~releasing)

\* Unmatched bookkeeping: the access is reset and nothing else happens.
LeaveEntriesAlone == UNCHANGED <<listVars, entryVars, notified>>

EndHit(a) ==
    /\ pc[a] = "drained"
    /\ accessStatus[a] = "CacheHit"
    /\ IF ReaderMayEnd(a)
       THEN EndRead(entryIndex[a], completion[a].retention = "Discard")
       ELSE LeaveEntriesAlone
    /\ ResetAccess(a)
    /\ UNCHANGED <<managerVars, activeFallbackAccesses, expired, adminVars, memoryVars>>

\* addFilledEntry: the list is kept under FIFO only.
FillOrder(e) == IF evictionPolicy = "FIFO" THEN Append(filled, e) ELSE filled

\* A successful fill that is kept becomes visible to readers.
Publish(e) ==
    /\ replicaValid' = [replicaValid EXCEPT ![e] = TRUE]
    /\ cacheState' = [cacheState EXCEPT ![e] = "Valid"]
    /\ activeAccesses' = [activeAccesses EXCEPT ![e] = 0]
    /\ filled' = FillOrder(e)
    /\ evictable' = Append(evictable, e)
    /\ NotifyAll
    /\ UNCHANGED <<residency, emptyEntries, metadata, discardWhenUnused>>

\* Mutant: the outcome of the fill is not looked at.
KeepAnyFill(a) == completion[a].retention = "Keep"

\* The fill succeeded, is to be kept, and can be put on both lists.
KeepFill(a) ==
    /\ completion[a].succeeded
    /\ completion[a].retention = "Keep"
    /\ evictionPolicy = "FIFO" => entryIndex[a] \notin Range(filled)

EndFill(a) ==
    /\ pc[a] = "drained"
    /\ accessStatus[a] = "CacheFill"
    /\ IF ~FillMayEnd(a) THEN LeaveEntriesAlone
       ELSE IF KeepFill(a)
       THEN Publish(entryIndex[a])
       ELSE ResetEntry(entryIndex[a])
    /\ ResetAccess(a)
    /\ UNCHANGED <<managerVars, activeFallbackAccesses, expired, adminVars, memoryVars>>

EndFallback(a) ==
    /\ pc[a] = "drained"
    /\ accessStatus[a] = "TaskFallback"
    /\ activeFallbackAccesses' =
         IF activeFallbackAccesses > 0 /\ (completion[a].abort \/ (initialized /\ ~releasing))
         THEN activeFallbackAccesses - 1
         ELSE activeFallbackAccesses
    /\ ResetAccess(a)
    /\ UNCHANGED <<managerVars, listVars, entryVars, wakeVars, adminVars, memoryVars>>

\* takeAccess: a takes a field over, other.reset() empties it.
Move(f, a, other, empty) == [f EXCEPT ![a] = f[other], ![other] = empty]

\* takeAccess: a move transfers a lease between access objects.  A move
\* assignment over a live access first runs AbortUnfinishedAccess on it.
TakeAccess(a, other) ==
    /\ pc[a] = "idle"
    /\ pc[other] = "held"
    /\ pc' = Move(pc, a, other, "idle")
    /\ frame' = Move(frame, a, other, DefaultFrame)
    /\ accessStatus' = Move(accessStatus, a, other, "Invalid")
    /\ entryIndex' = Move(entryIndex, a, other, NO_ENTRY)
    /\ UNCHANGED <<managerVars, activeFallbackAccesses, listVars, entryVars, completion,
                   wakeVars, adminVars, memoryVars>>
-----------------------------------------------------------------------------
\* The manager's lifecycle.

\* entries, eligibleGpuIds, residencyTable and the lists are published and
\* cleared together; a manager with zero entries differs from an empty one
\* only by initialized or releasing.
ManagerEmpty ==
    /\ ~initialized
    /\ ~releasing
    /\ entryCount = 0
    /\ emptyEntries = <<>> /\ evictable = <<>> /\ filled = <<>>

\* initialize, first critical section; the allocation follows without a lock.
InitializeBegin(m, config) ==
    /\ adminPc[m] = "idle"
    /\ ManagerEmpty
    /\ adminPc' = [adminPc EXCEPT ![m] = "allocating"]
    /\ adminConfig' = [adminConfig EXCEPT ![m] = config]
    /\ UNCHANGED <<managerVars, activeFallbackAccesses, listVars, entryVars, accessVars,
                   wakeVars, memoryVars>>

\* cudaMalloc or a host allocation fails: what was allocated is freed again.
InitializeFail(m) ==
    /\ adminPc[m] = "allocating"
    /\ adminPc' = [adminPc EXCEPT ![m] = "idle"]
    /\ adminConfig' = [adminConfig EXCEPT ![m] = DefaultConfig]
    /\ UNCHANGED <<managerVars, activeFallbackAccesses, listVars, entryVars, accessVars,
                   wakeVars, memoryVars>>

\* Second critical section.  Another thread may have initialized meanwhile;
\* then this call frees its own allocations and returns false.
InitializePublish(m) ==
    LET config == adminConfig[m] IN
    /\ adminPc[m] = "allocating"
    /\ adminPc' = [adminPc EXCEPT ![m] = "idle"]
    /\ adminConfig' = [adminConfig EXCEPT ![m] = DefaultConfig]
    /\ IF ManagerEmpty
       THEN /\ entryCount' = config.count
            /\ waitTimeout' = config.wait
            /\ evictionPolicy' = config.policy
            /\ initialized' = TRUE
            /\ failed' = FALSE
            /\ activeFallbackAccesses' = 0
            /\ residency' = [k \in Keys |-> NO_ENTRY]
            /\ emptyEntries' = AllEmpty(config.count)
            /\ allocated' = [e \in Index |-> e < config.count]
            /\ UNCHANGED <<releasing, evictable, filled>>
       ELSE UNCHANGED <<managerVars, activeFallbackAccesses, listVars, allocated>>
    /\ UNCHANGED <<entryVars, accessVars, wakeVars, content, undrained>>

\* release, first critical section: refused while anything is in use.
ReleaseBegin(m) ==
    /\ adminPc[m] = "idle"
    /\ ~ManagerEmpty
    /\ ~releasing
    /\ CanReset
    /\ initialized' = FALSE
    /\ releasing' = TRUE
    /\ adminPc' = [adminPc EXCEPT ![m] = "freeing"]
    /\ UNCHANGED <<failed, entryCount, waitTimeout, evictionPolicy, activeFallbackAccesses,
                   listVars, entryVars, accessVars, wakeVars, adminConfig, memoryVars>>

\* The state of the entries in S after GpuDataCacheEntry::release freed them.
\* Their list links are cleared as well; the lists of a manager that is not
\* initialized are never followed, and ReleaseEnd drops them with the entries.
FreeEntries(S) ==
    /\ allocated' = [e \in Index |-> allocated[e] /\ e \notin S]
    /\ cacheState' = [e \in Index |-> IF e \in S THEN "Empty" ELSE cacheState[e]]
    /\ activeAccesses' = [e \in Index |-> IF e \in S THEN 0 ELSE activeAccesses[e]]
    /\ discardWhenUnused' = [e \in Index |-> discardWhenUnused[e] /\ e \notin S]
    /\ metadata' = [e \in Index |-> IF e \in S THEN DefaultFrame ELSE metadata[e]]
    /\ replicaValid' = [e \in Index |-> replicaValid[e] /\ e \notin S]
    /\ content' = [e \in Index |-> IF e \in S THEN DefaultFrame ELSE content[e]]
    /\ undrained' = undrained \ S

\* Mutant: one freed entry is taken for all of them.
SomeReleased(freed) == freed # {}

\* No entry owns an allocation any more.
AllReleased(freed) == \A e \in Entries : e \in freed \/ ~allocated[e]

\* The unlocked loop over the entries, where cudaFree may fail for some of
\* them, and the second critical section.  Nothing else touches an entry in
\* between: initialized is false, releasing is true and no lease is live.
ReleaseEnd(m, freed) ==
    /\ adminPc[m] = "freeing"
    /\ adminPc' = [adminPc EXCEPT ![m] = "idle"]
    /\ FreeEntries(freed)
    /\ releasing' = FALSE
    /\ IF AllReleased(freed)
       THEN /\ entryCount' = 0
            /\ residency' = [k \in Keys |-> NO_ENTRY]
            /\ emptyEntries' = <<>> /\ evictable' = <<>> /\ filled' = <<>>
            /\ activeFallbackAccesses' = 0
            /\ failed' = FALSE
            /\ initialized' = FALSE
       ELSE UNCHANGED <<entryCount, listVars, activeFallbackAccesses, failed, initialized>>
    /\ UNCHANGED <<waitTimeout, evictionPolicy, accessVars, wakeVars, adminConfig>>

\* resetCache: every entry becomes empty again, allocations stay.
ResetCache ==
    /\ Accepts
    /\ CanReset
    /\ residency' = [k \in Keys |-> NO_ENTRY]
    /\ emptyEntries' = AllEmpty(entryCount)
    /\ evictable' = <<>> /\ filled' = <<>>
    /\ metadata' = [e \in Index |-> DefaultFrame]
    /\ replicaValid' = [e \in Index |-> FALSE]
    /\ cacheState' = [e \in Index |-> "Empty"]
    /\ activeAccesses' = [e \in Index |-> 0]
    /\ discardWhenUnused' = [e \in Index |-> FALSE]
    /\ UNCHANGED <<managerVars, activeFallbackAccesses, accessVars, wakeVars, adminVars, memoryVars>>
-----------------------------------------------------------------------------
Init ==
    /\ initialized = FALSE /\ releasing = FALSE /\ failed = FALSE
    /\ entryCount = 0
    /\ waitTimeout = DefaultConfig.wait
    /\ evictionPolicy = DefaultConfig.policy
    /\ activeFallbackAccesses = 0
    /\ residency = [k \in Keys |-> NO_ENTRY]
    /\ emptyEntries = <<>> /\ evictable = <<>> /\ filled = <<>>
    /\ cacheState = [e \in Index |-> "Empty"]
    /\ activeAccesses = [e \in Index |-> 0]
    /\ discardWhenUnused = [e \in Index |-> FALSE]
    /\ metadata = [e \in Index |-> DefaultFrame]
    /\ replicaValid = [e \in Index |-> FALSE]
    /\ allocated = [e \in Index |-> FALSE]
    /\ pc = [a \in Accesses |-> "idle"]
    /\ frame = [a \in Accesses |-> DefaultFrame]
    /\ accessStatus = [a \in Accesses |-> "Invalid"]
    /\ entryIndex = [a \in Accesses |-> NO_ENTRY]
    /\ completion = [a \in Accesses |-> Idle]
    /\ notified = {} /\ expired = {}
    /\ adminPc = [m \in Admins |-> "idle"]
    /\ adminConfig = [m \in Admins |-> DefaultConfig]
    /\ content = [e \in Index |-> DefaultFrame]
    /\ undrained = {}

AccessNext(a) ==
    \/ \E f \in Frames, late \in BOOLEAN : GetCacheData(a, f, late)
    \/ DeadlinePasses(a)
    \/ WakeUp(a)
    \/ \E submitted, ok \in BOOLEAN, retention \in {"Keep", "Discard", "Unknown"} :
          FreeCacheData(a, submitted, retention, ok)
    \/ \E submitted, ok \in BOOLEAN : AbortUnfinishedAccess(a, submitted, ok)
    \/ NoteSyncFailure(a)
    \/ EndHit(a)
    \/ EndFill(a)
    \/ EndFallback(a)
    \/ \E other \in Accesses : TakeAccess(a, other)

AdminNext(m) ==
    \/ \E config \in Config : InitializeBegin(m, config)
    \/ InitializeFail(m)
    \/ InitializePublish(m)
    \/ ReleaseBegin(m)
    \/ \E freed \in SUBSET {e \in Entries : allocated[e]} : ReleaseEnd(m, freed)

Next ==
    \/ \E a \in Accesses : AccessNext(a)
    \/ \E m \in Admins : AdminNext(m)
    \/ ResetCache

Spec == Init /\ [][Next]_vars

\* Threads are scheduled, the clock advances, and wait_until returns once it is
\* notified or timed out.  Nothing forces anybody to end a lease, to make a
\* request or a lifecycle call.
Fairness == \A a \in Accesses :
    /\ WF_vars(DeadlinePasses(a))
    /\ WF_vars(a \in notified \cup expired /\ WakeUp(a))

FairSpec == Spec /\ Fairness
-----------------------------------------------------------------------------
\* The shape of the state.
TypeOK ==
    /\ initialized \in BOOLEAN /\ releasing \in BOOLEAN /\ failed \in BOOLEAN
    /\ entryCount \in 0 .. MaxEntryCount
    /\ waitTimeout \in BOOLEAN
    /\ evictionPolicy \in {"LRU", "FIFO"}
    /\ activeFallbackAccesses \in Nat
    /\ residency \in [Keys -> Index \cup {NO_ENTRY}]
    /\ emptyEntries \in Seq(Index) /\ evictable \in Seq(Index) /\ filled \in Seq(Index)
    /\ cacheState \in [Index -> {"Empty", "Loading", "Valid"}]
    /\ activeAccesses \in [Index -> Nat]
    /\ discardWhenUnused \in [Index -> BOOLEAN]
    /\ metadata \in [Index -> Frames \cup {DefaultFrame}]
    /\ replicaValid \in [Index -> BOOLEAN]
    /\ allocated \in [Index -> BOOLEAN]
    /\ pc \in [Accesses -> {"idle", "asleep"} \cup LivePc]
    /\ frame \in [Accesses -> Frames \cup {DefaultFrame}]
    /\ accessStatus \in [Accesses -> {"Invalid", "CacheHit", "CacheFill", "TaskFallback"}]
    /\ entryIndex \in [Accesses -> Index \cup {NO_ENTRY}]
    /\ completion \in [Accesses -> Completion]
    /\ notified \subseteq Accesses /\ expired \subseteq Accesses
    /\ adminPc \in [Admins -> {"idle", "allocating", "freeing"}]
    /\ adminConfig \in [Admins -> [count : 0 .. MaxEntryCount, wait : BOOLEAN,
                                   policy : {"LRU", "FIFO"}]]
    /\ content \in [Index -> Frames \cup {DefaultFrame}]
    /\ undrained \subseteq Index

\* Every live lease is counted once on its entry, or once as a fallback, so
\* that eviction, reset and release see it (getCacheData, completeAccess,
\* abortAccess, and the moves of GpuDataAccess between them).
LeaseAccounting ==
    /\ \A e \in Index : activeAccesses[e] = Cardinality(Leases(e))
    /\ activeFallbackAccesses = Cardinality(Fallbacks)

\* A fill reservation is exclusive: while one is live nobody else, reader or
\* filler, holds the same entry, and the entry is not readable.
FillIsExclusive ==
    \A a \in Live : accessStatus[a] = "CacheFill" =>
        /\ cacheState[entryIndex[a]] = "Loading"
        /\ Leases(entryIndex[a]) = {a}

\* "Keeping this object alive prevents a cache-backed entry from being
\* evicted": the buffer of a live hit holds the frame it was asked for.
ReaderSeesItsFrame ==
    \A a \in Live : accessStatus[a] = "CacheHit" =>
        /\ allocated[entryIndex[a]]
        /\ content[entryIndex[a]] = frame[a]

\* Work that a failed synchronization may have left on an entry is never
\* overtaken: such an entry is not handed to a new filler (noteSyncFailure
\* runs before the critical section that frees the entry).
NoFillOverUndrainedWork ==
    \A a \in Live : accessStatus[a] = "CacheFill" /\ pc[a] = "held"
                        => entryIndex[a] \notin undrained

\* No lost wakeup: a sleeper that nobody has notified still has a reason to
\* sleep.  Every change that could serve it comes with a notify_all, a
\* synchronization failure included.
NoLostWakeup ==
    \A a \in Sleepers \ notified : initialized /\ ~failed /\ Blocked(frame[a])

\* Reset, release and re-initialization never pass a lease or a sleeper: both
\* exist only under a running manager (canResetLocked and waitingAccesses).
UseImpliesRunning == Live # {} \/ Sleepers # {} => initialized /\ ~releasing

\* The defensive branches of getCacheData are dead: a running manager rejects
\* a well-formed request only for a metadata mismatch, and never lacks the
\* one replica.
RequestsAreServable ==
    Accepts => \A f \in Frames :
        /\ ~MissingReplica(f)
        /\ CanHit(f) \/ CanFill(f) \/ Blocked(f)
             \/ (Resident(f) /\ metadata[residency[f.key]].key = f.key
                             /\ metadata[residency[f.key]] # f)

\* The defensive branches of completeAccess and abortAccess are dead: the
\* bookkeeping of every live lease still matches when it ends.
LeasesCanEnd ==
    \A a \in Live :
        /\ accessStatus[a] = "CacheHit" => ReaderMayEnd(a)
        /\ accessStatus[a] = "CacheFill" => FillMayEnd(a)
        /\ accessStatus[a] = "TaskFallback" => activeFallbackAccesses > 0

\* Every entry of a running manager is on exactly the lists its state asks for:
\* empty ones on the stack, idle published ones evictable, published ones in
\* fill order under FIFO, once each.
ListsMatchEntries ==
    initialized =>
        /\ IsInjective(emptyEntries) /\ IsInjective(evictable) /\ IsInjective(filled)
        /\ Range(emptyEntries) = {e \in Entries : cacheState[e] = "Empty"}
        /\ Range(evictable) = {e \in Entries : cacheState[e] = "Valid" /\ activeAccesses[e] = 0}
        /\ Range(filled) = {e \in Entries : cacheState[e] = "Valid" /\ evictionPolicy = "FIFO"}

\* The table and the entries agree: a key is resident at most once, at the
\* entry that carries it, and an entry in use is found under its key.
ResidencyMatchesEntries ==
    initialized =>
        \A k \in Keys, e \in Index :
            residency[k] = e <=> e \in Entries /\ cacheState[e] # "Empty" /\ metadata[e].key = k

\* The manager's counts, lists and table agree with its entries and leases
\* through every sequence of fills, hits, evictions, discards, moves, aborts
\* and resets, and so the checks at the end of a lease never refuse it.
Bookkeeping == LeaseAccounting /\ ListsMatchEntries /\ ResidencyMatchesEntries /\ LeasesCanEnd

\* "Later Keep releases cannot undo it": an entry marked for discard is
\* waiting for its readers and is never evictable, so it can only end empty.
DiscardIsPending ==
    \A e \in Index : discardWhenUnused[e] =>
        cacheState[e] = "Valid" /\ activeAccesses[e] > 0 /\ e \notin Range(evictable)

\* The lease of access a ends in this step and its owner asked for a discard.
EndsWithDiscard(a) ==
    /\ pc[a] = "drained" /\ pc'[a] = "idle"
    /\ accessStatus[a] \in {"CacheHit", "CacheFill"} /\ completion[a].retention = "Discard"

\* A discard that is asked for happens: a lease that ends with one leaves its
\* entry empty, or marked while it has other readers, and the mark disappears
\* only together with the payload and the key, whatever those readers ask for.
DiscardIsFinal ==
    [][/\ \A a \in Accesses : EndsWithDiscard(a) =>
            discardWhenUnused'[entryIndex[a]] \/ cacheState'[entryIndex[a]] = "Empty"
       /\ \A e \in Index : discardWhenUnused[e] /\ ~discardWhenUnused'[e] =>
            cacheState'[e] = "Empty" /\ \A k \in Keys : residency'[k] # e]_vars

\* "rejects new requests and resets until it is released and initialized
\* again": failed is cleared only once every allocation is gone, and while it
\* is set no access gets a lease.
FailureIsSticky ==
    [][failed =>
          /\ ~failed' => \A e \in Index : ~allocated'[e]
          /\ Cardinality(Live') <= Cardinality(Live)]_vars

\* Every getCacheData call returns: sleepers leave by their deadline, which a
\* wakeup never restarts.
EveryRequestReturns == \A a \in Accesses : pc[a] = "asleep" ~> pc[a] # "asleep"

\* What the manager looks like from outside: its valid payloads and the leases
\* its callers hold.
published == IF initialized THEN {content[e] : e \in {d \in Index : cacheState[d] = "Valid"}} ELSE {}
lease == [a \in Accesses |->
            IF pc[a] \notin LivePc THEN [kind |-> "none"]
            ELSE [kind |-> CASE accessStatus[a] = "CacheHit" -> "read"
                             [] accessStatus[a] = "CacheFill" -> "fill"
                             [] OTHER -> "private",
                  frame |-> frame[a]]]
Store == INSTANCE LeaseStore WITH capacity <- IF initialized THEN entryCount ELSE 0, broken <- failed

\* The manager implements the store of its contract: one producer per key,
\* payloads that stay while they are read, bounded room, no lease from a failed
\* manager, and a lifecycle that waits for every lease.
ImplementsStore == Store!Spec
=============================================================================
