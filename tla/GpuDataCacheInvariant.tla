----------------------- MODULE GpuDataCacheInvariant -----------------------
(***************************************************************************)
(* The inductive invariant of GpuDataCache.  The safety properties of that *)
(* module are not inductive one by one: each needs the shape of the leases *)
(* and the agreement between entries, lists and table that the others      *)
(* state.  IInv collects what every step of Next preserves.                *)
(***************************************************************************)
EXTENDS GpuDataCache

\* A lease names an entry of the manager exactly when it is cache-backed, and
\* only a call in progress or a lease remembers its frame.
AccessShape ==
    \A a \in Accesses :
        /\ pc[a] \in {"idle", "asleep"} => accessStatus[a] = "Invalid" /\ entryIndex[a] = NO_ENTRY
        /\ pc[a] # "idle" => frame[a] \in Frames
        /\ pc[a] \in LivePc =>
            \/ accessStatus[a] \in {"CacheHit", "CacheFill"} /\ entryIndex[a] \in Entries
            \/ accessStatus[a] = "TaskFallback" /\ entryIndex[a] = NO_ENTRY

\* Calls and leases need a running manager; one thread at a time releases it;
\* a failure is forgotten only with the last allocation.
Lifecycle ==
    /\ \A a \in Accesses : pc[a] # "idle" => initialized
    /\ initialized => ~releasing
    /\ failed => initialized \/ releasing \/ entryCount > 0
    /\ \A m \in Admins : adminPc[m] = "freeing" => releasing
    /\ \A m, n \in Admins : adminPc[m] = "freeing" /\ adminPc[n] = "freeing" => m = n

\* What an entry's state says about its other fields and its buffer.
EntryShape ==
    \A e \in Index :
        /\ allocated[e] => e \in Entries
        /\ initialized /\ e \in Entries => allocated[e]
        /\ ~allocated[e] => cacheState[e] = "Empty" /\ e \notin undrained
        /\ cacheState[e] = "Empty" => activeAccesses[e] = 0
        /\ cacheState[e] = "Loading" => activeAccesses[e] = 1 /\ metadata[e] \in Frames
        /\ cacheState[e] = "Valid" => replicaValid[e] /\ metadata[e] \in Frames /\ content[e] = metadata[e]
        /\ discardWhenUnused[e] => cacheState[e] = "Valid" /\ activeAccesses[e] > 0

\* A lease and its entry agree: a reader's entry is published with the
\* reader's frame, a filler's is loading it, and a fill that is about to be
\* reported as successful has its payload in the buffer.
LeaseShape ==
    \A a \in Live :
        /\ accessStatus[a] = "CacheHit" =>
            cacheState[entryIndex[a]] = "Valid" /\ metadata[entryIndex[a]] = frame[a]
        /\ accessStatus[a] = "CacheFill" =>
            /\ cacheState[entryIndex[a]] = "Loading" /\ metadata[entryIndex[a]] = frame[a]
            /\ pc[a] # "held" /\ completion[a].succeeded =>
                 content[entryIndex[a]] = frame[a]
            /\ pc[a] = "held" => entryIndex[a] \notin undrained

\* The lists never hold an entry twice, running or not.
ListsInjective == IsInjective(emptyEntries) /\ IsInjective(evictable) /\ IsInjective(filled)

\* The manager knows of every undrained entry, or the lease that found out is
\* still about to tell it.
UndrainedIsKnown ==
    \A e \in undrained : failed \/ \E a \in Accesses : pc[a] = "syncFailed" /\ entryIndex[a] = e

\* The inductive invariant of the manager: its parts above, the properties of
\* GpuDataCache that are inductive together with them, and the type invariant.
IInv ==
    /\ TypeOK
    /\ AccessShape
    /\ Lifecycle
    /\ EntryShape
    /\ LeaseShape
    /\ LeaseAccounting
    /\ ListsInjective
    /\ ListsMatchEntries
    /\ ResidencyMatchesEntries
    /\ UndrainedIsKnown

\* No entry is empty or idle: there is nothing a request could reuse.
NothingFree ==
    \A e \in Entries : cacheState[e] # "Empty" /\ ~(cacheState[e] = "Valid" /\ activeAccesses[e] = 0)

\* Blocked(f) in terms of the entries: the lists and the order in which the
\* policy walks them do not matter.
StillBlocked(f) ==
    \/ BlockedLoading(f)
    \/ ~Resident(f) /\ NothingFree

\* NoLostWakeup in those terms; with IInv it is inductive.
SleepersStuck == \A a \in Sleepers \ notified : ~failed /\ StillBlocked(frame[a])
=============================================================================
