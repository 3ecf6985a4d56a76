------------------------ MODULE GpuDataCacheProofs ------------------------
(***************************************************************************)
(* Proofs about GpuDataCache for every number of accesses, threads, keys   *)
(* and entries: IInv is inductive, and the safety properties follow.  One  *)
(* lemma per operation, one step per part of IInv.                         *)
(*                                                                         *)
(* The two specifications built around the cache come after it, since each *)
(* of their steps is a step of the cache or leaves it alone, and IInv      *)
(* carries over: StaticData, for every width of std::size_t, where DataInv *)
(* relates the cache to the static data; and GpuDataCacheStatistics, where *)
(* StatInv relates the counters to the entries and the requests.           *)
(***************************************************************************)
EXTENDS StaticDataInvariant, GpuDataCacheStatistics, ListLemmas, FiniteSetTheorems

-----------------------------------------------------------------------------
(* Counting leases *)

\* There are finitely many leases, on one entry or in all.
LEMMA LeasesFinite ==
  ASSUME CacheAssumption
  PROVE  /\ \A e : IsFiniteSet(Leases(e))
         /\ IsFiniteSet(Fallbacks)
<1>1. IsFiniteSet(Accesses)
  BY DEF CacheAssumption
<1>2. (\A e : Leases(e) \subseteq Accesses) /\ Fallbacks \subseteq Accesses
  BY DEF Leases, Fallbacks, Live
<1> QED BY <1>1, <1>2, FS_Subset

\* A new lease adds one to the count of its entry, or to the fallbacks.
LEMMA LeaseGained ==
  ASSUME CacheAssumption, NEW a \in Accesses, pc[a] \notin LivePc, pc'[a] \in LivePc,
         \A b \in Accesses \ {a} : /\ pc'[b] = pc[b]
                                  /\ entryIndex'[b] = entryIndex[b]
                                  /\ accessStatus'[b] = accessStatus[b]
  PROVE  /\ \A e : Cardinality(Leases(e)') =
                     Cardinality(Leases(e)) + IF e = entryIndex'[a] THEN 1 ELSE 0
         /\ Cardinality(Fallbacks') =
              Cardinality(Fallbacks) + IF accessStatus'[a] = "TaskFallback" THEN 1 ELSE 0
<1>1. a \notin Live /\ a \notin Fallbacks /\ \A e : a \notin Leases(e)
  BY DEF Live, Leases, Fallbacks
<1>2. Live' = Live \cup {a}
  BY DEF Live
<1>3. ASSUME NEW e
      PROVE  Cardinality(Leases(e)') =
               Cardinality(Leases(e)) + IF e = entryIndex'[a] THEN 1 ELSE 0
  <2>1. Leases(e)' = IF e = entryIndex'[a] THEN Leases(e) \cup {a} ELSE Leases(e)
    BY <1>1, <1>2 DEF Leases, Live
  <2>2. Cardinality(Leases(e) \cup {a}) = Cardinality(Leases(e)) + 1
    BY <1>1, LeasesFinite, FS_AddElement
  <2>3. Cardinality(Leases(e)) \in Nat
    BY LeasesFinite, FS_CardinalityType
  <2> QED BY <2>1, <2>2, <2>3
<1>4. Cardinality(Fallbacks') =
        Cardinality(Fallbacks) + IF accessStatus'[a] = "TaskFallback" THEN 1 ELSE 0
  <2>1. Fallbacks' = IF accessStatus'[a] = "TaskFallback" THEN Fallbacks \cup {a} ELSE Fallbacks
    BY <1>1, <1>2 DEF Fallbacks, Live
  <2>2. Cardinality(Fallbacks \cup {a}) = Cardinality(Fallbacks) + 1
    BY <1>1, LeasesFinite, FS_AddElement
  <2>3. Cardinality(Fallbacks) \in Nat
    BY LeasesFinite, FS_CardinalityType
  <2> QED BY <2>1, <2>2, <2>3
<1> QED BY <1>3, <1>4

\* The end of a lease takes it off the count it was on.
LEMMA LeaseLost ==
  ASSUME CacheAssumption, NEW a \in Accesses, pc[a] \in LivePc, pc'[a] \notin LivePc,
         \A b \in Accesses \ {a} : /\ pc'[b] = pc[b]
                                  /\ entryIndex'[b] = entryIndex[b]
                                  /\ accessStatus'[b] = accessStatus[b]
  PROVE  /\ \A e : Cardinality(Leases(e)') =
                     Cardinality(Leases(e)) - IF e = entryIndex[a] THEN 1 ELSE 0
         /\ Cardinality(Fallbacks') =
              Cardinality(Fallbacks) - IF accessStatus[a] = "TaskFallback" THEN 1 ELSE 0
<1>1. a \in Live /\ Live' = Live \ {a}
  BY DEF Live
<1>2. ASSUME NEW e
      PROVE  Cardinality(Leases(e)') =
               Cardinality(Leases(e)) - IF e = entryIndex[a] THEN 1 ELSE 0
  <2>1. Leases(e)' = IF e = entryIndex[a] THEN Leases(e) \ {a} ELSE Leases(e)
    BY <1>1 DEF Leases, Live
  <2>2. e = entryIndex[a] => Cardinality(Leases(e) \ {a}) = Cardinality(Leases(e)) - 1
    <3>1. e = entryIndex[a] => a \in Leases(e)
      BY <1>1 DEF Leases
    <3> QED BY <3>1, LeasesFinite, FS_RemoveElement
  <2>3. Cardinality(Leases(e)) \in Nat
    BY LeasesFinite, FS_CardinalityType
  <2> QED BY <2>1, <2>2, <2>3
<1>3. Cardinality(Fallbacks') =
        Cardinality(Fallbacks) - IF accessStatus[a] = "TaskFallback" THEN 1 ELSE 0
  <2>1. Fallbacks' = IF accessStatus[a] = "TaskFallback" THEN Fallbacks \ {a} ELSE Fallbacks
    BY <1>1 DEF Fallbacks, Live
  <2>2. accessStatus[a] = "TaskFallback" =>
          Cardinality(Fallbacks \ {a}) = Cardinality(Fallbacks) - 1
    <3>1. accessStatus[a] = "TaskFallback" => a \in Fallbacks
      BY <1>1 DEF Fallbacks
    <3> QED BY <3>1, LeasesFinite, FS_RemoveElement
  <2>3. Cardinality(Fallbacks) \in Nat
    BY LeasesFinite, FS_CardinalityType
  <2> QED BY <2>1, <2>2, <2>3
<1> QED BY <1>2, <1>3

\* A step that leaves the live accesses and their fields alone counts the same.
LEMMA LeasesKept ==
  ASSUME Live' = Live, entryIndex' = entryIndex, accessStatus' = accessStatus
  PROVE  (\A e : Leases(e)' = Leases(e)) /\ Fallbacks' = Fallbacks
BY DEF Leases, Fallbacks

\* A lease on an entry counts: none means zero, and a single one is alone.
LEMMA LeasesOfEntry ==
  ASSUME CacheAssumption, LeaseAccounting, NEW e \in Index
  PROVE  /\ activeAccesses[e] = 0 => Leases(e) = {}
         /\ activeAccesses[e] = 1 => \A a, b \in Leases(e) : a = b
<1>1. IsFiniteSet(Leases(e)) /\ activeAccesses[e] = Cardinality(Leases(e))
  BY LeasesFinite DEF LeaseAccounting
<1>2. activeAccesses[e] = 0 => Leases(e) = {}
  BY <1>1, FS_EmptySet
<1>3. activeAccesses[e] = 1 => \A a, b \in Leases(e) : a = b
  <2>1. activeAccesses[e] = 1 => \E x : Leases(e) = {x}
    BY <1>1, FS_Singleton
  <2> QED BY <2>1
<1> QED BY <1>2, <1>3
-----------------------------------------------------------------------------
(* getCacheData *)

\* A hit preserves the invariant.
LEMMA ServeHitStep ==
  ASSUME CacheAssumption, IInv, initialized, NEW a \in Accesses, NEW f \in Frames,
         pc[a] \in {"idle", "asleep"}, ServeHit(a, f)
  PROVE  IInv'
<1> DEFINE e == residency[f.key]
<1>1. /\ e \in Index /\ e \in Entries /\ e # NO_ENTRY
      /\ metadata[e] = f
      /\ cacheState[e] = "Valid"
  BY DEF IInv, TypeOK, ServeHit, CanHit, ReadableEntry, Matching, Resident, Entries, Index,
         NO_ENTRY, Frames
<1>2. /\ RemoveFirst(evictable, e) \in Seq(Index)
      /\ IsInjective(RemoveFirst(evictable, e))
      /\ Range(RemoveFirst(evictable, e)) = Range(evictable) \ {e}
  BY RemoveFirstFacts DEF IInv, TypeOK, ListsInjective
<1> HIDE DEF e
<1>3. /\ pc' = [pc EXCEPT ![a] = "held"]
      /\ frame' = [frame EXCEPT ![a] = f]
      /\ accessStatus' = [accessStatus EXCEPT ![a] = "CacheHit"]
      /\ entryIndex' = [entryIndex EXCEPT ![a] = e]
      /\ completion' = completion
      /\ expired' = expired \ {a}
      /\ notified' = notified \ {a}
      /\ activeAccesses' = [activeAccesses EXCEPT ![e] = @ + 1]
      /\ evictable' = RemoveFirst(evictable, e)
  BY DEF ServeHit, Leaves, e
<1>4. UNCHANGED <<managerVars, activeFallbackAccesses, residency, emptyEntries, filled,
                  cacheState, discardWhenUnused, metadata, replicaValid, adminVars, memoryVars>>
  BY DEF ServeHit
<1>5. Entries' = Entries
  BY <1>4 DEF Entries, managerVars
<1>6. TypeOK'
  BY <1>1, <1>2, <1>3, <1>4 DEF IInv, TypeOK, managerVars, adminVars, memoryVars, LivePc
<1>7. AccessShape'
  BY <1>1, <1>3, <1>4, <1>5 DEF IInv, TypeOK, AccessShape, LivePc
<1>8. Lifecycle'
  BY <1>3, <1>4 DEF IInv, TypeOK, Lifecycle, managerVars, adminVars
<1>9. EntryShape'
  BY <1>1, <1>3, <1>4, <1>5 DEF IInv, TypeOK, EntryShape, memoryVars, managerVars
<1>10. LeaseShape'
  BY <1>1, <1>3, <1>4 DEF IInv, TypeOK, LeaseShape, Live, LivePc, memoryVars
<1>11. LeaseAccounting'
  <2>1. /\ pc[a] \notin LivePc /\ pc'[a] \in LivePc
        /\ entryIndex'[a] = e /\ accessStatus'[a] = "CacheHit"
        /\ \A b \in Accesses \ {a} : /\ pc'[b] = pc[b]
                                     /\ entryIndex'[b] = entryIndex[b]
                                     /\ accessStatus'[b] = accessStatus[b]
    BY <1>3 DEF IInv, TypeOK, LivePc
  <2>2. /\ \A i : Cardinality(Leases(i)') = Cardinality(Leases(i)) + IF i = e THEN 1 ELSE 0
        /\ Cardinality(Fallbacks') = Cardinality(Fallbacks) + 0
    BY <2>1, LeaseGained
  <2> QED BY <1>1, <1>3, <1>4, <2>2 DEF IInv, TypeOK, LeaseAccounting
<1>12. ListsInjective'
  BY <1>2, <1>3, <1>4 DEF IInv, ListsInjective
<1>13. ListsMatchEntries'
  BY <1>1, <1>2, <1>3, <1>4, <1>5
     DEF IInv, TypeOK, ListsMatchEntries, ListsInjective, managerVars
<1>14. ResidencyMatchesEntries'
  BY <1>3, <1>4, <1>5 DEF IInv, ResidencyMatchesEntries, managerVars
<1>15. UndrainedIsKnown'
  BY <1>1, <1>3, <1>4 DEF IInv, TypeOK, UndrainedIsKnown, memoryVars, managerVars
<1> QED BY <1>6, <1>7, <1>8, <1>9, <1>10, <1>11, <1>12, <1>13, <1>14, <1>15 DEF IInv

\* takeCandidate returns an entry of the manager, and after the checks of
\* getCacheData it is empty or an idle published one.
LEMMA CandidateFacts ==
  ASSUME CacheAssumption, IInv, initialized, NEW c \in Candidates
  PROVE  /\ c \in Index /\ c \in Entries
         /\ emptyEntries # <<>> => c = Last(emptyEntries) /\ cacheState[c] = "Empty"
         /\ emptyEntries = <<>> => c \in Range(evictable) /\ cacheState[c] = "Valid"
         /\ activeAccesses[c] = 0
<1>1. /\ IsInjective(emptyEntries)
      /\ Range(emptyEntries) = {e \in Entries : cacheState[e] = "Empty"}
      /\ Range(evictable) = {e \in Entries : cacheState[e] = "Valid" /\ activeAccesses[e] = 0}
  BY DEF IInv, ListsMatchEntries
<1>2. Entries \subseteq Index
  BY DEF IInv, TypeOK, Entries, Index
<1>3. CASE emptyEntries # <<>>
  <2>1. c = Last(emptyEntries)
    BY <1>3 DEF Candidates
  <2>2. c \in Range(emptyEntries)
    BY <1>1, <1>3, <2>1, FrontFacts DEF IInv, TypeOK
  <2> QED BY <1>1, <1>2, <1>3, <2>1, <2>2 DEF IInv, EntryShape
<1>4. CASE emptyEntries = <<>>
  <2>1. c \in Victims
    BY <1>4 DEF Candidates
  <2>2. c \in Range(evictable)
    <3>1. CASE evictionPolicy = "FIFO"
      BY <2>1, <3>1 DEF Victims
    <3>2. CASE evictionPolicy # "FIFO"
      <4>1. evictable # <<>> /\ c = Head(evictable)
        BY <2>1, <3>2 DEF Victims
      <4>2. evictable \in Seq(Index)
        BY DEF IInv, TypeOK
      <4>3. 1 \in DOMAIN evictable /\ Head(evictable) = evictable[1]
        BY <4>1, <4>2
      <4> QED BY <4>1, <4>3 DEF Range
    <3> QED BY <3>1, <3>2
  <2> QED BY <1>1, <1>2, <1>4, <2>2
<1> QED BY <1>3, <1>4

\* A reservation preserves the invariant.
LEMMA ServeFillStep ==
  ASSUME CacheAssumption, IInv, initialized, NEW a \in Accesses, NEW f \in Frames,
         pc[a] \in {"idle", "asleep"}, ServeFill(a, f)
  PROVE  IInv'
<1>1. PICK c \in Candidates :
        /\ emptyEntries' = IF emptyEntries # <<>> THEN Front(emptyEntries) ELSE emptyEntries
        /\ evictable' = IF emptyEntries # <<>> THEN evictable ELSE RemoveFirst(evictable, c)
        /\ filled' = IF emptyEntries # <<>> THEN filled ELSE RemoveFirst(filled, c)
        /\ residency' = [k \in Keys |-> IF k = f.key THEN c
                                        ELSE IF k \in ErasedKeys(c) THEN NO_ENTRY
                                        ELSE residency[k]]
        /\ metadata' = [metadata EXCEPT ![c] = f]
        /\ replicaValid' = [replicaValid EXCEPT ![c] = FALSE]
        /\ cacheState' = [cacheState EXCEPT ![c] = "Loading"]
        /\ activeAccesses' = [activeAccesses EXCEPT ![c] = 1]
        /\ discardWhenUnused' = [discardWhenUnused EXCEPT ![c] = FALSE]
        /\ content' = [content EXCEPT ![c] = DefaultFrame]
        /\ Leaves(a, f, "CacheFill", c)
  BY DEF ServeFill
<1>2. /\ c \in Index /\ c \in Entries
      /\ emptyEntries # <<>> => c = Last(emptyEntries) /\ cacheState[c] = "Empty"
      /\ emptyEntries = <<>> => c \in Range(evictable) /\ cacheState[c] = "Valid"
      /\ activeAccesses[c] = 0
  BY CandidateFacts
<1>3. /\ ~failed /\ residency[f.key] = NO_ENTRY /\ f.key \in Keys
      /\ notified' = notified \ {a}
  BY DEF ServeFill, CanFill, Resident, Frames
<1>4. UNCHANGED <<managerVars, activeFallbackAccesses, adminVars, allocated, undrained>>
  BY DEF ServeFill
<1>5. /\ pc' = [pc EXCEPT ![a] = "held"]
      /\ frame' = [frame EXCEPT ![a] = f]
      /\ accessStatus' = [accessStatus EXCEPT ![a] = "CacheFill"]
      /\ entryIndex' = [entryIndex EXCEPT ![a] = c]
      /\ completion' = completion
      /\ expired' = expired \ {a}
  BY <1>1 DEF Leaves
<1>6. Entries' = Entries
  BY <1>4 DEF Entries, managerVars
<1>7. Leases(c) = {}
  BY <1>2, LeasesOfEntry DEF IInv
<1>8. /\ emptyEntries' \in Seq(Index) /\ IsInjective(emptyEntries')
      /\ Range(emptyEntries') = Range(emptyEntries) \ {c}
  <2>1. CASE emptyEntries # <<>>
    BY <1>1, <1>2, <2>1, FrontFacts DEF IInv, TypeOK, ListsInjective
  <2>2. CASE emptyEntries = <<>>
    BY <1>1, <2>2 DEF IInv, TypeOK, ListsInjective, Range
  <2> QED BY <2>1, <2>2
<1>9. /\ Range(emptyEntries) = {e \in Entries : cacheState[e] = "Empty"}
      /\ Range(evictable) = {e \in Entries : cacheState[e] = "Valid" /\ activeAccesses[e] = 0}
      /\ Range(filled) = {e \in Entries : cacheState[e] = "Valid" /\ evictionPolicy = "FIFO"}
  BY DEF IInv, ListsMatchEntries
<1>10. /\ evictable' \in Seq(Index) /\ IsInjective(evictable')
       /\ Range(evictable') = Range(evictable) \ {c}
       /\ filled' \in Seq(Index) /\ IsInjective(filled')
       /\ Range(filled') = Range(filled) \ {c}
  <2>1. CASE emptyEntries # <<>>
    BY <1>1, <1>2, <1>9, <2>1 DEF IInv, TypeOK, ListsInjective
  <2>2. CASE emptyEntries = <<>>
    BY <1>1, <2>2, RemoveFirstFacts DEF IInv, TypeOK, ListsInjective
  <2> QED BY <2>1, <2>2
<1>11. TypeOK'
  BY <1>1, <1>2, <1>3, <1>4, <1>5, <1>8, <1>10
     DEF IInv, TypeOK, managerVars, adminVars, LivePc, NO_ENTRY
<1>12. AccessShape'
  BY <1>2, <1>5, <1>6 DEF IInv, TypeOK, AccessShape, LivePc
<1>13. Lifecycle'
  BY <1>4, <1>5 DEF IInv, TypeOK, Lifecycle, managerVars, adminVars
<1>14. EntryShape'
  BY <1>1, <1>2, <1>4, <1>6 DEF IInv, TypeOK, EntryShape, managerVars
<1>15. LeaseShape'
  <2>1. c \notin undrained
    BY <1>3, <1>7 DEF IInv, UndrainedIsKnown, Leases, Live, LivePc
  <2>2. \A b \in Live : entryIndex[b] # c
    BY <1>7 DEF Leases
  <2> QED BY <1>1, <1>2, <1>4, <1>5, <2>1, <2>2
          DEF IInv, TypeOK, LeaseShape, Live, LivePc, AccessShape
<1>16. LeaseAccounting'
  <2>1. /\ pc[a] \notin LivePc /\ pc'[a] \in LivePc
        /\ entryIndex'[a] = c /\ accessStatus'[a] = "CacheFill"
        /\ \A b \in Accesses \ {a} : /\ pc'[b] = pc[b]
                                     /\ entryIndex'[b] = entryIndex[b]
                                     /\ accessStatus'[b] = accessStatus[b]
    BY <1>5 DEF IInv, TypeOK, LivePc
  <2>2. /\ \A i : Cardinality(Leases(i)') = Cardinality(Leases(i)) + IF i = c THEN 1 ELSE 0
        /\ Cardinality(Fallbacks') = Cardinality(Fallbacks) + 0
    BY <2>1, LeaseGained
  <2> QED BY <1>1, <1>2, <1>4, <2>2 DEF IInv, TypeOK, LeaseAccounting
<1>17. ListsInjective'
  BY <1>8, <1>10 DEF ListsInjective
<1>18. ListsMatchEntries'
  <2>1. Entries \subseteq Index
    BY DEF IInv, TypeOK, Entries, Index
  <2>2. Range(emptyEntries') = {e \in Entries' : cacheState'[e] = "Empty"}
    BY <1>1, <1>2, <1>6, <1>8, <1>9, <2>1 DEF IInv, TypeOK
  <2>3. Range(evictable') = {e \in Entries' : cacheState'[e] = "Valid" /\ activeAccesses'[e] = 0}
    BY <1>1, <1>2, <1>6, <1>9, <1>10, <2>1 DEF IInv, TypeOK
  <2>4. Range(filled') = {e \in Entries' : cacheState'[e] = "Valid" /\ evictionPolicy' = "FIFO"}
    BY <1>1, <1>2, <1>4, <1>6, <1>9, <1>10, <2>1 DEF IInv, TypeOK, managerVars
  <2> QED BY <1>8, <1>10, <2>2, <2>3, <2>4 DEF ListsMatchEntries
<1>19. ResidencyMatchesEntries'
  <2>1. \A k \in Keys, e \in Index :
          residency[k] = e <=> e \in Entries /\ cacheState[e] # "Empty" /\ metadata[e].key = k
    BY DEF IInv, ResidencyMatchesEntries
  <2>2. NO_ENTRY \notin Index
    BY DEF NO_ENTRY, Index
  <2>3. ErasedKeys(c) = IF cacheState[c] = "Empty" THEN {} ELSE {metadata[c].key}
    BY <1>2 DEF ErasedKeys
  <2>4. ASSUME NEW k \in Keys, NEW e \in Index
        PROVE  residency'[k] = e <=>
                 e \in Entries' /\ cacheState'[e] # "Empty" /\ metadata'[e].key = k
    <3>1. CASE e = c
      BY <1>1, <1>2, <1>3, <1>6, <2>1, <2>2, <2>3, <3>1 DEF IInv, TypeOK
    <3>2. CASE e # c
      BY <1>1, <1>2, <1>3, <1>6, <2>1, <2>2, <2>3, <3>2 DEF IInv, TypeOK
    <3> QED BY <3>1, <3>2
  <2> QED BY <1>4, <2>4 DEF ResidencyMatchesEntries, managerVars, Index
<1>20. UndrainedIsKnown'
  BY <1>4, <1>5 DEF IInv, TypeOK, UndrainedIsKnown, managerVars
<1> QED BY <1>11, <1>12, <1>13, <1>14, <1>15, <1>16, <1>17, <1>18, <1>19, <1>20 DEF IInv

\* A fallback preserves the invariant.
LEMMA ServeFallbackStep ==
  ASSUME CacheAssumption, IInv, initialized, NEW a \in Accesses, NEW f \in Frames, NEW late,
         pc[a] \in {"idle", "asleep"}, ServeFallback(a, f, late)
  PROVE  IInv'
<1>1. /\ pc' = [pc EXCEPT ![a] = "held"]
      /\ frame' = [frame EXCEPT ![a] = f]
      /\ accessStatus' = [accessStatus EXCEPT ![a] = "TaskFallback"]
      /\ entryIndex' = [entryIndex EXCEPT ![a] = NO_ENTRY]
      /\ completion' = completion
      /\ expired' = expired \ {a}
      /\ notified' = notified \ {a}
      /\ activeFallbackAccesses' = activeFallbackAccesses + 1
  BY DEF ServeFallback, Leaves
<1>2. UNCHANGED <<managerVars, listVars, entryVars, adminVars, memoryVars>>
  BY DEF ServeFallback
<1>3. Entries' = Entries
  BY <1>2 DEF Entries, managerVars
<1>4. TypeOK'
  BY <1>1, <1>2 DEF IInv, TypeOK, managerVars, listVars, entryVars, adminVars, memoryVars, LivePc
<1>5. AccessShape'
  BY <1>1, <1>3 DEF IInv, TypeOK, AccessShape, LivePc
<1>6. Lifecycle'
  BY <1>1, <1>2 DEF IInv, TypeOK, Lifecycle, managerVars, adminVars
<1>7. EntryShape'
  BY <1>2, <1>3 DEF IInv, EntryShape, managerVars, entryVars, memoryVars
<1>8. LeaseShape'
  BY <1>1, <1>2 DEF IInv, TypeOK, LeaseShape, Live, LivePc, entryVars, memoryVars
<1>9. LeaseAccounting'
  <2>1. /\ pc[a] \notin LivePc /\ pc'[a] \in LivePc
        /\ entryIndex'[a] = NO_ENTRY /\ accessStatus'[a] = "TaskFallback"
        /\ \A b \in Accesses \ {a} : /\ pc'[b] = pc[b]
                                     /\ entryIndex'[b] = entryIndex[b]
                                     /\ accessStatus'[b] = accessStatus[b]
    BY <1>1 DEF IInv, TypeOK, LivePc
  <2>2. /\ \A i : Cardinality(Leases(i)') = Cardinality(Leases(i)) + IF i = NO_ENTRY THEN 1 ELSE 0
        /\ Cardinality(Fallbacks') = Cardinality(Fallbacks) + 1
    BY <2>1, LeaseGained
  <2>3. NO_ENTRY \notin Index
    BY DEF NO_ENTRY, Index
  <2>4. activeAccesses' = activeAccesses /\ \A e \in Index : activeAccesses[e] \in Nat
    BY <1>2 DEF IInv, TypeOK, entryVars
  <2> QED BY <1>1, <2>2, <2>3, <2>4 DEF IInv, LeaseAccounting
<1>10. ListsInjective' /\ ListsMatchEntries' /\ ResidencyMatchesEntries'
  BY <1>2, <1>3 DEF IInv, ListsInjective, ListsMatchEntries, ResidencyMatchesEntries,
                    managerVars, listVars, entryVars
<1>11. UndrainedIsKnown'
  BY <1>1, <1>2 DEF IInv, TypeOK, UndrainedIsKnown, managerVars, memoryVars
<1> QED BY <1>4, <1>5, <1>6, <1>7, <1>8, <1>9, <1>10, <1>11 DEF IInv

\* A step of an access without a lease that changes nothing but whether it
\* sleeps, and possibly the order of the evictable list, preserves the
\* invariant.
LEMMA BystanderStep ==
  ASSUME CacheAssumption, IInv, TypeOK', NEW a \in Accesses,
         pc[a] \in {"idle", "asleep"},
         /\ pc'[a] \in {"idle", "asleep"}
         /\ pc'[a] = "asleep" => initialized /\ frame'[a] \in Frames
         /\ accessStatus'[a] = "Invalid" /\ entryIndex'[a] = NO_ENTRY,
         \A b \in Accesses \ {a} : /\ pc'[b] = pc[b] /\ frame'[b] = frame[b]
                                   /\ accessStatus'[b] = accessStatus[b]
                                   /\ entryIndex'[b] = entryIndex[b],
         completion' = completion,
         IsInjective(evictable'), Range(evictable') = Range(evictable),
         UNCHANGED <<managerVars, activeFallbackAccesses, residency, emptyEntries, filled,
                     entryVars, adminVars, memoryVars>>
  PROVE  IInv'
<1>1. Entries' = Entries
  BY DEF Entries, managerVars
<1>2. Live' = Live
  BY DEF Live, LivePc
<1>3. AccessShape'
  BY <1>1 DEF IInv, AccessShape, LivePc
<1>4. Lifecycle'
  BY DEF IInv, Lifecycle, managerVars, adminVars
<1>5. EntryShape'
  BY <1>1 DEF IInv, EntryShape, managerVars, entryVars, memoryVars
<1>6. \A b \in Live : b \in Accesses \ {a}
  BY DEF Live, LivePc
<1>7. LeaseShape'
  BY <1>2, <1>6 DEF IInv, LeaseShape, entryVars, memoryVars
<1>8. LeaseAccounting'
  <2>1. (\A e : Leases(e)' = Leases(e)) /\ Fallbacks' = Fallbacks
    BY <1>2, <1>6 DEF Leases, Fallbacks
  <2> QED BY <2>1 DEF IInv, LeaseAccounting, entryVars
<1>9. ListsInjective' /\ ListsMatchEntries' /\ ResidencyMatchesEntries'
  BY <1>1 DEF IInv, ListsInjective, ListsMatchEntries, ResidencyMatchesEntries,
              managerVars, entryVars
<1>10. UndrainedIsKnown'
  <2> SUFFICES ASSUME NEW e \in undrained', ~failed'
               PROVE  \E b \in Accesses : pc'[b] = "syncFailed" /\ entryIndex'[b] = e
    BY DEF UndrainedIsKnown
  <2>1. PICK b \in Accesses : pc[b] = "syncFailed" /\ entryIndex[b] = e
    BY DEF IInv, UndrainedIsKnown, managerVars, memoryVars
  <2> QED BY <2>1
<1> QED BY <1>3, <1>4, <1>5, <1>7, <1>8, <1>9, <1>10 DEF IInv

\* Falling asleep preserves the invariant.
LEMMA ServeSleepStep ==
  ASSUME CacheAssumption, IInv, initialized, NEW a \in Accesses, NEW f \in Frames, NEW late,
         pc[a] \in {"idle", "asleep"}, ServeSleep(a, f, late)
  PROVE  IInv'
<1>1. /\ pc' = [pc EXCEPT ![a] = "asleep"]
      /\ frame' = [frame EXCEPT ![a] = f]
      /\ notified' = notified \ {a}
      /\ UNCHANGED <<managerVars, activeFallbackAccesses, listVars, entryVars, accessStatus,
                     entryIndex, completion, expired, adminVars, memoryVars>>
  BY DEF ServeSleep
<1>2. TypeOK'
  BY <1>1 DEF IInv, TypeOK, managerVars, listVars, entryVars, adminVars, memoryVars
<1>3. accessStatus[a] = "Invalid" /\ entryIndex[a] = NO_ENTRY
  BY DEF IInv, AccessShape
<1>4. /\ pc'[a] = "asleep" /\ frame'[a] = f
      /\ \A b \in Accesses \ {a} : pc'[b] = pc[b] /\ frame'[b] = frame[b]
  BY <1>1 DEF IInv, TypeOK
<1>5. IsInjective(evictable') /\ Range(evictable') = Range(evictable)
  BY <1>1 DEF IInv, ListsInjective, listVars
<1> QED BY <1>1, <1>2, <1>3, <1>4, <1>5, BystanderStep DEF listVars

\* A rejected request leaves everything in place: the candidate that
\* restoreCandidate puts back is still published and idle.
LEMMA ServeInvalidStep ==
  ASSUME CacheAssumption, IInv, initialized, NEW a \in Accesses, NEW f \in Frames,
         pc[a] \in {"idle", "asleep"}, ServeInvalid(a, f)
  PROVE  IInv'
<1>1. /\ pc' = [pc EXCEPT ![a] = "idle"]
      /\ frame' = [frame EXCEPT ![a] = DefaultFrame]
      /\ accessStatus' = [accessStatus EXCEPT ![a] = "Invalid"]
      /\ entryIndex' = [entryIndex EXCEPT ![a] = NO_ENTRY]
      /\ completion' = completion
      /\ expired' = expired \ {a}
  BY DEF ServeInvalid, Leaves
<1>2. UNCHANGED <<managerVars, activeFallbackAccesses, residency, emptyEntries, filled,
                  entryVars, adminVars, memoryVars>>
  BY DEF ServeInvalid
<1>3. /\ evictable' \in Seq(Index)
      /\ IsInjective(evictable') /\ Range(evictable') = Range(evictable)
      /\ notified' \subseteq Accesses
  <2>1. CASE ~failed /\ ~Resident(f) /\ emptyEntries = <<>> /\ Victims # {}
    <3>1. PICK c \in Victims :
            LET back == cacheState[c] = "Valid" /\ activeAccesses[c] = 0 IN
            /\ evictable' = IF back THEN Append(RemoveFirst(evictable, c), c)
                            ELSE RemoveFirst(evictable, c)
            /\ notified' = IF back THEN (notified \cup Sleepers) \ {a} ELSE notified \ {a}
      BY <2>1 DEF ServeInvalid, RestoreCandidate
    <3>2. c \in Candidates
      BY <2>1 DEF Candidates
    <3>3. c \in Index /\ c \in Range(evictable) /\ cacheState[c] = "Valid" /\ activeAccesses[c] = 0
      BY <2>1, <3>2, CandidateFacts
    <3>4. evictable' = Append(RemoveFirst(evictable, c), c)
      BY <3>1, <3>3
    <3>5. /\ RemoveFirst(evictable, c) \in Seq(Index)
          /\ IsInjective(RemoveFirst(evictable, c))
          /\ Range(RemoveFirst(evictable, c)) = Range(evictable) \ {c}
      BY RemoveFirstFacts DEF IInv, TypeOK, ListsInjective
    <3>6. /\ Append(RemoveFirst(evictable, c), c) \in Seq(Index)
          /\ Range(Append(RemoveFirst(evictable, c), c)) = Range(RemoveFirst(evictable, c)) \cup {c}
          /\ IsInjective(Append(RemoveFirst(evictable, c), c))
      BY <3>3, <3>5, AppendFacts
    <3>7. notified' \subseteq Accesses
      BY <3>1 DEF IInv, TypeOK, Sleepers
    <3> QED BY <3>3, <3>4, <3>5, <3>6, <3>7
  <2>2. CASE ~(~failed /\ ~Resident(f) /\ emptyEntries = <<>> /\ Victims # {})
    <3>1. evictable' = evictable /\ notified' = notified \ {a}
      BY <2>2 DEF ServeInvalid, RestoreCandidate
    <3> QED BY <3>1 DEF IInv, TypeOK, ListsInjective
  <2> QED BY <2>1, <2>2
<1>4. TypeOK'
  BY <1>1, <1>2, <1>3 DEF IInv, TypeOK, managerVars, entryVars, adminVars, memoryVars
<1>5. /\ pc'[a] = "idle" /\ accessStatus'[a] = "Invalid" /\ entryIndex'[a] = NO_ENTRY
      /\ \A b \in Accesses \ {a} : /\ pc'[b] = pc[b] /\ frame'[b] = frame[b]
                                   /\ accessStatus'[b] = accessStatus[b]
                                   /\ entryIndex'[b] = entryIndex[b]
  BY <1>1 DEF IInv, TypeOK
<1> QED BY <1>1, <1>2, <1>3, <1>4, <1>5, BystanderStep

\* getCacheData preserves the invariant, on its first pass and after every wait.
LEMMA GetCacheDataStep ==
  ASSUME CacheAssumption, IInv, NEW a \in Accesses,
         \/ WakeUp(a)
         \/ \E f \in Frames, late \in BOOLEAN : GetCacheData(a, f, late)
  PROVE  IInv'
<1>1. CASE WakeUp(a)
  <2>1. pc[a] = "asleep" /\ initialized /\ frame[a] \in Frames
    BY <1>1 DEF WakeUp, IInv, AccessShape, Lifecycle
  <2> QED BY <1>1, <2>1, ServeHitStep, ServeFillStep, ServeFallbackStep, ServeSleepStep,
             ServeInvalidStep DEF WakeUp
<1>2. CASE \E f \in Frames, late \in BOOLEAN : GetCacheData(a, f, late)
  BY <1>2, ServeHitStep, ServeFillStep, ServeFallbackStep, ServeSleepStep, ServeInvalidStep
     DEF GetCacheData, Accepts
<1> QED BY <1>1, <1>2

\* The passing of a deadline preserves the invariant.
LEMMA DeadlinePassesStep ==
  ASSUME CacheAssumption, IInv, NEW a \in Accesses, DeadlinePasses(a)
  PROVE  IInv'
<1>1. /\ pc[a] = "asleep"
      /\ expired' = expired \cup {a}
      /\ UNCHANGED <<managerVars, activeFallbackAccesses, listVars, entryVars, accessVars,
                     notified, adminVars, memoryVars>>
  BY DEF DeadlinePasses, Sleepers
<1>2. TypeOK'
  BY <1>1 DEF IInv, TypeOK, managerVars, listVars, entryVars, accessVars, adminVars, memoryVars
<1>3. /\ initialized /\ frame[a] \in Frames
      /\ accessStatus[a] = "Invalid" /\ entryIndex[a] = NO_ENTRY
  BY <1>1 DEF IInv, AccessShape, Lifecycle
<1>4. IsInjective(evictable') /\ Range(evictable') = Range(evictable)
  BY <1>1 DEF IInv, ListsInjective, listVars
<1> QED BY <1>1, <1>2, <1>3, <1>4, BystanderStep DEF listVars, accessVars
-----------------------------------------------------------------------------
(* The end of a lease *)

\* A cache-backed lease has its entry: the checks of completeAccess and
\* abortAccess never fail.
LEMMA LeaseMayEnd ==
  ASSUME CacheAssumption, IInv
  PROVE  LeasesCanEnd
<1> SUFFICES ASSUME NEW a \in Live
             PROVE  /\ accessStatus[a] = "CacheHit" => ReaderMayEnd(a)
                    /\ accessStatus[a] = "CacheFill" => FillMayEnd(a)
                    /\ accessStatus[a] = "TaskFallback" => activeFallbackAccesses > 0
  BY DEF LeasesCanEnd
<1>1. a \in Accesses /\ pc[a] \in LivePc /\ initialized /\ ~releasing
  BY DEF Live, LivePc, IInv, Lifecycle
<1>2. accessStatus[a] = "TaskFallback" => activeFallbackAccesses > 0
  <2> SUFFICES ASSUME accessStatus[a] = "TaskFallback" PROVE activeFallbackAccesses > 0
    OBVIOUS
  <2>1. a \in Fallbacks
    BY DEF Fallbacks
  <2>2. Cardinality(Fallbacks) \in Nat /\ Cardinality(Fallbacks) # 0
    BY <2>1, LeasesFinite, FS_CardinalityType, FS_EmptySet
  <2> QED BY <2>2 DEF IInv, LeaseAccounting
<1> DEFINE e == entryIndex[a]
<1>3. ASSUME accessStatus[a] \in {"CacheHit", "CacheFill"}
      PROVE  e \in Index /\ SameEntry(a) /\ activeAccesses[e] \in Nat /\ activeAccesses[e] # 0
  <2>1. e \in Entries /\ e \in Index /\ activeAccesses[e] \in Nat
    BY <1>1, <1>3 DEF IInv, TypeOK, AccessShape, Entries, Index
  <2>2. metadata[e] = frame[a]
    BY <1>3 DEF IInv, LeaseShape
  <2>3. allocated[e]
    BY <1>1, <2>1 DEF IInv, EntryShape
  <2>4. a \in Leases(e)
    BY DEF Leases
  <2>5. activeAccesses[e] # 0
    BY <2>1, <2>4, LeasesOfEntry DEF IInv
  <2> QED BY <2>1, <2>2, <2>3, <2>5 DEF SameEntry
<1>4. accessStatus[a] = "CacheHit" => ReaderMayEnd(a)
  <2> SUFFICES ASSUME accessStatus[a] = "CacheHit" PROVE ReaderMayEnd(a)
    OBVIOUS
  <2>1. cacheState[e] = "Valid" /\ replicaValid[e]
    BY <1>3 DEF IInv, LeaseShape, EntryShape
  <2>2. e \notin Range(evictable)
    BY <1>1, <1>3 DEF IInv, ListsMatchEntries
  <2> QED BY <1>1, <1>3, <2>1, <2>2 DEF ReaderMayEnd
<1>5. accessStatus[a] = "CacheFill" => FillMayEnd(a)
  <2> SUFFICES ASSUME accessStatus[a] = "CacheFill" PROVE FillMayEnd(a)
    OBVIOUS
  <2>1. cacheState[e] = "Loading" /\ activeAccesses[e] = 1
    BY <1>3 DEF IInv, LeaseShape, EntryShape
  <2>2. e \notin Range(evictable)
    BY <1>1, <2>1 DEF IInv, ListsMatchEntries
  <2> QED BY <1>1, <1>3, <2>1, <2>2 DEF FillMayEnd
<1> QED BY <1>2, <1>4, <1>5

\* The synchronization of a lease's stream preserves the invariant.
LEMMA SynchronizeStep ==
  ASSUME CacheAssumption, IInv, NEW a \in Accesses,
         NEW submitted \in BOOLEAN, NEW ok \in BOOLEAN, NEW how \in Completion,
         how.succeeded => submitted /\ ok,
         Synchronize(a, submitted, ok, how)
  PROVE  IInv'
<1>1. /\ pc[a] = "held"
      /\ pc' = [pc EXCEPT ![a] = IF ok THEN "drained" ELSE "syncFailed"]
      /\ completion' = [completion EXCEPT ![a] = how]
      /\ content' = IF accessStatus[a] = "CacheFill" /\ submitted /\ ok
                    THEN [content EXCEPT ![entryIndex[a]] = frame[a]]
                    ELSE content
      /\ undrained' = IF ~ok /\ accessStatus[a] # "TaskFallback"
                      THEN undrained \cup {entryIndex[a]}
                      ELSE undrained
      /\ UNCHANGED <<managerVars, activeFallbackAccesses, listVars, entryVars, frame,
                     accessStatus, entryIndex, wakeVars, adminVars, allocated>>
  BY DEF Synchronize, AfterSync
<1>2. Entries' = Entries /\ initialized /\ a \in Live /\ Entries \subseteq Index
  BY <1>1 DEF Entries, managerVars, IInv, TypeOK, Lifecycle, Live, LivePc, Index
<1>3. Live' = Live
  BY <1>1 DEF IInv, TypeOK, Live, LivePc
<1>4. \/ accessStatus[a] \in {"CacheHit", "CacheFill"} /\ entryIndex[a] \in Entries
      \/ accessStatus[a] = "TaskFallback" /\ entryIndex[a] = NO_ENTRY
  BY <1>1 DEF IInv, AccessShape, LivePc
<1>5. frame[a] \in Frames
  BY <1>1 DEF IInv, AccessShape
<1>6. TypeOK'
  BY <1>1, <1>2, <1>4, <1>5
     DEF IInv, TypeOK, managerVars, listVars, entryVars, wakeVars, adminVars, LivePc
<1>7. AccessShape'
  BY <1>1, <1>2 DEF IInv, TypeOK, AccessShape, LivePc
<1>8. Lifecycle'
  BY <1>1, <1>2 DEF IInv, TypeOK, Lifecycle, managerVars, adminVars
<1>9. EntryShape'
  <2>1. accessStatus[a] = "CacheFill" => cacheState[entryIndex[a]] = "Loading"
    BY <1>2 DEF IInv, LeaseShape
  <2>2. accessStatus[a] # "TaskFallback" => allocated[entryIndex[a]]
    BY <1>2, <1>4 DEF IInv, EntryShape
  <2> QED BY <1>1, <1>2, <1>4, <2>1, <2>2 DEF IInv, TypeOK, EntryShape, managerVars, entryVars
<1>10. LeaseShape'
  <2>1. ASSUME NEW b \in Live, b # a, accessStatus[b] = "CacheFill"
        PROVE  entryIndex[b] # entryIndex[a]
    <3>1. entryIndex[b] \in Index /\ activeAccesses[entryIndex[b]] = 1
      BY <1>2, <2>1 DEF IInv, TypeOK, LeaseShape, EntryShape, AccessShape, Live, Entries, Index
    <3>2. b \in Leases(entryIndex[b]) /\ (entryIndex[a] = entryIndex[b] => a \in Leases(entryIndex[b]))
      BY <1>2 DEF Leases
    <3> QED BY <2>1, <3>1, <3>2, LeasesOfEntry DEF IInv
  <2>2. ASSUME NEW b \in Live, b # a
        PROVE  /\ pc'[b] = pc[b] /\ completion'[b] = completion[b]
               /\ accessStatus[b] = "CacheFill" =>
                    /\ content'[entryIndex[b]] = content[entryIndex[b]]
                    /\ entryIndex[b] \notin undrained => entryIndex[b] \notin undrained'
    <3>1. entryIndex[a] # entryIndex[b] \/ accessStatus[b] # "CacheFill"
      BY <2>1, <2>2
    <3> QED BY <1>1, <2>2, <3>1 DEF IInv, TypeOK, Live
  <2>3. /\ pc'[a] # "held" /\ completion'[a] = how
        /\ accessStatus[a] = "CacheFill" /\ how.succeeded => content'[entryIndex[a]] = frame[a]
    BY <1>1, <1>2, <1>4 DEF IInv, TypeOK
  <2>4. UNCHANGED <<frame, accessStatus, entryIndex, cacheState, metadata>>
    BY <1>1 DEF entryVars
  <2> QED BY <1>2, <1>3, <2>2, <2>3, <2>4 DEF IInv, LeaseShape
<1>11. LeaseAccounting'
  BY <1>1, <1>3, LeasesKept DEF IInv, LeaseAccounting, entryVars
<1>12. ListsInjective' /\ ListsMatchEntries' /\ ResidencyMatchesEntries'
  BY <1>1, <1>2 DEF IInv, ListsInjective, ListsMatchEntries, ResidencyMatchesEntries,
                    managerVars, listVars, entryVars
<1>13. UndrainedIsKnown'
  BY <1>1 DEF IInv, TypeOK, UndrainedIsKnown, managerVars
<1> QED BY <1>6, <1>7, <1>8, <1>9, <1>10, <1>11, <1>12, <1>13 DEF IInv

\* Marking the manager failed preserves the invariant.
LEMMA NoteSyncFailureStep ==
  ASSUME CacheAssumption, IInv, NEW a \in Accesses, NoteSyncFailure(a)
  PROVE  IInv'
<1>1. /\ pc[a] = "syncFailed"
      /\ pc' = [pc EXCEPT ![a] = "drained"]
      /\ failed' = TRUE
      /\ notified' = notified \cup Sleepers
      /\ UNCHANGED <<initialized, releasing, entryCount, waitTimeout, evictionPolicy,
                     activeFallbackAccesses, listVars, entryVars, frame, accessStatus,
                     entryIndex, completion, expired, adminVars, memoryVars>>
  BY DEF NoteSyncFailure, NotifyAll
<1>2. Entries' = Entries /\ Live' = Live
  BY <1>1 DEF IInv, TypeOK, Entries, Live, LivePc
<1>3. TypeOK'
  BY <1>1 DEF IInv, TypeOK, listVars, entryVars, adminVars, memoryVars, LivePc, Sleepers
<1>4. AccessShape'
  BY <1>1, <1>2 DEF IInv, TypeOK, AccessShape, LivePc
<1>5. Lifecycle'
  BY <1>1 DEF IInv, TypeOK, Lifecycle, adminVars
<1>6. EntryShape'
  BY <1>1, <1>2 DEF IInv, EntryShape, entryVars, memoryVars
<1>7. LeaseShape'
  BY <1>1, <1>2 DEF IInv, TypeOK, LeaseShape, Live, entryVars, memoryVars
<1>8. LeaseAccounting'
  BY <1>1, <1>2, LeasesKept DEF IInv, LeaseAccounting, entryVars
<1>9. ListsInjective' /\ ListsMatchEntries' /\ ResidencyMatchesEntries'
  BY <1>1, <1>2 DEF IInv, ListsInjective, ListsMatchEntries, ResidencyMatchesEntries,
                    listVars, entryVars
<1>10. UndrainedIsKnown'
  BY <1>1 DEF UndrainedIsKnown
<1> QED BY <1>3, <1>4, <1>5, <1>6, <1>7, <1>8, <1>9, <1>10 DEF IInv

\* What GpuDataAccess::reset does to the leases, whatever happens to the entry.
LEMMA LeaseEnds ==
  ASSUME CacheAssumption, IInv, NEW a \in Accesses, pc[a] = "drained", ResetAccess(a),
         UNCHANGED <<managerVars, adminVars, memoryVars>>
  PROVE  /\ AccessShape' /\ Lifecycle' /\ UndrainedIsKnown'
         /\ Entries' = Entries /\ a \in Live /\ initialized
         /\ Live' = Live \ {a}
         /\ \A b \in Live' : /\ b \in Live /\ b # a
                             /\ pc'[b] = pc[b] /\ frame'[b] = frame[b]
                             /\ accessStatus'[b] = accessStatus[b]
                             /\ entryIndex'[b] = entryIndex[b]
                             /\ completion'[b] = completion[b]
         /\ \A e : Cardinality(Leases(e)') =
                     Cardinality(Leases(e)) - IF e = entryIndex[a] THEN 1 ELSE 0
         /\ Cardinality(Fallbacks') =
              Cardinality(Fallbacks) - IF accessStatus[a] = "TaskFallback" THEN 1 ELSE 0
<1>1. /\ pc' = [pc EXCEPT ![a] = "idle"]
      /\ frame' = [frame EXCEPT ![a] = DefaultFrame]
      /\ accessStatus' = [accessStatus EXCEPT ![a] = "Invalid"]
      /\ entryIndex' = [entryIndex EXCEPT ![a] = NO_ENTRY]
      /\ completion' = [completion EXCEPT ![a] = Idle]
  BY DEF ResetAccess
<1>2. Entries' = Entries
  BY DEF Entries, managerVars
<1>3. Live' = Live \ {a} /\ a \in Live
  BY <1>1 DEF IInv, TypeOK, Live, LivePc
<1>4. initialized
  BY DEF IInv, Lifecycle
<1>5. AccessShape'
  BY <1>1, <1>2 DEF IInv, TypeOK, AccessShape, LivePc
<1>6. Lifecycle'
  BY <1>1 DEF IInv, TypeOK, Lifecycle, managerVars, adminVars
<1>7. UndrainedIsKnown'
  BY <1>1 DEF IInv, TypeOK, UndrainedIsKnown, managerVars, memoryVars
<1>8. \A b \in Live' : /\ b \in Live /\ b # a
                       /\ pc'[b] = pc[b] /\ frame'[b] = frame[b]
                       /\ accessStatus'[b] = accessStatus[b]
                       /\ entryIndex'[b] = entryIndex[b]
                       /\ completion'[b] = completion[b]
  BY <1>1, <1>3 DEF IInv, TypeOK, Live
<1>9. /\ pc[a] \in LivePc /\ pc'[a] \notin LivePc
      /\ \A b \in Accesses \ {a} : /\ pc'[b] = pc[b]
                                   /\ entryIndex'[b] = entryIndex[b]
                                   /\ accessStatus'[b] = accessStatus[b]
  BY <1>1 DEF IInv, TypeOK, LivePc
<1>10. /\ \A e : Cardinality(Leases(e)') =
                   Cardinality(Leases(e)) - IF e = entryIndex[a] THEN 1 ELSE 0
       /\ Cardinality(Fallbacks') =
            Cardinality(Fallbacks) - IF accessStatus[a] = "TaskFallback" THEN 1 ELSE 0
  BY <1>9, LeaseLost
<1> QED BY <1>2, <1>3, <1>4, <1>5, <1>6, <1>7, <1>8, <1>10

\* The types of the fields of an access after its reset.
LEMMA ResetAccessType ==
  ASSUME TypeOK, NEW a \in Accesses, ResetAccess(a)
  PROVE  /\ pc' \in [Accesses -> {"idle", "asleep"} \cup LivePc]
         /\ frame' \in [Accesses -> Frames \cup {DefaultFrame}]
         /\ accessStatus' \in [Accesses -> {"Invalid", "CacheHit", "CacheFill", "TaskFallback"}]
         /\ entryIndex' \in [Accesses -> Index \cup {NO_ENTRY}]
         /\ completion' \in [Accesses -> Completion]
BY DEF TypeOK, ResetAccess, Completion, Idle

\* The end of a fallback preserves the invariant.
LEMMA EndFallbackStep ==
  ASSUME CacheAssumption, IInv, NEW a \in Accesses, EndFallback(a)
  PROVE  IInv'
<1>1. /\ pc[a] = "drained" /\ accessStatus[a] = "TaskFallback"
      /\ ResetAccess(a)
      /\ UNCHANGED <<managerVars, listVars, entryVars, wakeVars, adminVars, memoryVars>>
  BY DEF EndFallback
<1>2. a \in Live /\ initialized /\ ~releasing
  BY <1>1 DEF Live, LivePc, IInv, Lifecycle
<1>3. activeFallbackAccesses > 0 /\ activeFallbackAccesses' = activeFallbackAccesses - 1
  <2>1. activeFallbackAccesses > 0
    BY <1>1, <1>2, LeaseMayEnd DEF LeasesCanEnd
  <2> QED BY <1>2, <2>1 DEF EndFallback
<1>4. /\ AccessShape' /\ Lifecycle' /\ UndrainedIsKnown'
      /\ Entries' = Entries
      /\ \A b \in Live' : /\ b \in Live /\ b # a
                          /\ pc'[b] = pc[b] /\ frame'[b] = frame[b]
                          /\ accessStatus'[b] = accessStatus[b]
                          /\ entryIndex'[b] = entryIndex[b]
                          /\ completion'[b] = completion[b]
      /\ \A e : Cardinality(Leases(e)') =
                  Cardinality(Leases(e)) - IF e = entryIndex[a] THEN 1 ELSE 0
      /\ Cardinality(Fallbacks') = Cardinality(Fallbacks) - 1
  BY <1>1, LeaseEnds
<1>5. entryIndex[a] \notin Index
  BY <1>1 DEF IInv, AccessShape, LivePc, NO_ENTRY, Index
<1>6. TypeOK'
  <2>1. activeFallbackAccesses' \in Nat
    BY <1>3 DEF IInv, TypeOK
  <2> QED BY <1>1, <2>1, ResetAccessType
          DEF IInv, TypeOK, managerVars, listVars, entryVars, wakeVars, adminVars, memoryVars
<1>7. EntryShape'
  BY <1>1, <1>4 DEF IInv, EntryShape, managerVars, entryVars, memoryVars
<1>8. LeaseShape'
  BY <1>1, <1>4 DEF IInv, LeaseShape, entryVars, memoryVars
<1>9. LeaseAccounting'
  <2>1. activeAccesses' = activeAccesses /\ \A e \in Index : activeAccesses[e] \in Nat
    BY <1>1 DEF IInv, TypeOK, entryVars
  <2> QED BY <1>3, <1>4, <1>5, <2>1 DEF IInv, LeaseAccounting
<1>10. ListsInjective' /\ ListsMatchEntries' /\ ResidencyMatchesEntries'
  BY <1>1, <1>4 DEF IInv, ListsInjective, ListsMatchEntries, ResidencyMatchesEntries,
                    managerVars, listVars, entryVars
<1> QED BY <1>4, <1>6, <1>7, <1>8, <1>9, <1>10 DEF IInv

\* resetEntry returns an entry in use to the stack of empty ones and keeps
\* lists, table and entries in agreement.
LEMMA ResetEntryFacts ==
  ASSUME CacheAssumption, IInv, initialized, NEW e \in Entries, cacheState[e] # "Empty",
         ResetEntry(e), UNCHANGED managerVars
  PROVE  /\ ListsInjective' /\ ListsMatchEntries' /\ ResidencyMatchesEntries'
         /\ residency' \in [Keys -> Index \cup {NO_ENTRY}]
         /\ emptyEntries' \in Seq(Index) /\ evictable' \in Seq(Index) /\ filled' \in Seq(Index)
         /\ cacheState' = [cacheState EXCEPT ![e] = "Empty"]
         /\ activeAccesses' = [activeAccesses EXCEPT ![e] = 0]
         /\ discardWhenUnused' = [discardWhenUnused EXCEPT ![e] = FALSE]
         /\ metadata' = [metadata EXCEPT ![e] = DefaultFrame]
         /\ replicaValid' = [replicaValid EXCEPT ![e] = FALSE]
         /\ notified' = notified \cup Sleepers
<1>1. e \in Index /\ Entries \subseteq Index /\ Entries' = Entries /\ initialized'
  BY DEF IInv, TypeOK, Entries, Index, managerVars
<1>2. /\ Range(emptyEntries) = {d \in Entries : cacheState[d] = "Empty"}
      /\ Range(evictable) = {d \in Entries : cacheState[d] = "Valid" /\ activeAccesses[d] = 0}
      /\ Range(filled) = {d \in Entries : cacheState[d] = "Valid" /\ evictionPolicy = "FIFO"}
  BY DEF IInv, ListsMatchEntries
<1>3. /\ evictable' = RemoveFirst(evictable, e)
      /\ filled' = RemoveFirst(filled, e)
      /\ residency' = [residency EXCEPT ![metadata[e].key] = IF @ = e THEN NO_ENTRY ELSE @]
      /\ emptyEntries' = Append(emptyEntries, e)
      /\ cacheState' = [cacheState EXCEPT ![e] = "Empty"]
      /\ activeAccesses' = [activeAccesses EXCEPT ![e] = 0]
      /\ discardWhenUnused' = [discardWhenUnused EXCEPT ![e] = FALSE]
      /\ metadata' = [metadata EXCEPT ![e] = DefaultFrame]
      /\ replicaValid' = [replicaValid EXCEPT ![e] = FALSE]
      /\ notified' = notified \cup Sleepers
  BY DEF ResetEntry, NotifyAll
<1>4. /\ evictable' \in Seq(Index) /\ IsInjective(evictable')
      /\ Range(evictable') = Range(evictable) \ {e}
  BY <1>3, RemoveFirstFacts DEF IInv, TypeOK, ListsInjective
<1>5. /\ filled' \in Seq(Index) /\ IsInjective(filled')
      /\ Range(filled') = Range(filled) \ {e}
  BY <1>3, RemoveFirstFacts DEF IInv, TypeOK, ListsInjective
<1>6. /\ emptyEntries' \in Seq(Index) /\ IsInjective(emptyEntries')
      /\ Range(emptyEntries') = Range(emptyEntries) \cup {e}
  BY <1>1, <1>2, <1>3, AppendFacts DEF IInv, TypeOK, ListsInjective
<1>7. ListsMatchEntries'
  <2>1. Range(emptyEntries') = {d \in Entries' : cacheState'[d] = "Empty"}
    BY <1>1, <1>2, <1>3, <1>6 DEF IInv, TypeOK
  <2>2. Range(evictable') = {d \in Entries' : cacheState'[d] = "Valid" /\ activeAccesses'[d] = 0}
    BY <1>1, <1>2, <1>3, <1>4 DEF IInv, TypeOK
  <2>3. Range(filled') = {d \in Entries' : cacheState'[d] = "Valid" /\ evictionPolicy' = "FIFO"}
    BY <1>1, <1>2, <1>3, <1>5 DEF IInv, TypeOK, managerVars
  <2> QED BY <1>4, <1>5, <1>6, <2>1, <2>2, <2>3 DEF ListsMatchEntries
<1>8. /\ ResidencyMatchesEntries'
      /\ residency' \in [Keys -> Index \cup {NO_ENTRY}]
  <2>1. \A k \in Keys, d \in Index :
          residency[k] = d <=> d \in Entries /\ cacheState[d] # "Empty" /\ metadata[d].key = k
    BY DEF IInv, ResidencyMatchesEntries
  <2>2. NO_ENTRY \notin Index
    BY DEF NO_ENTRY, Index
  <2>3. residency' \in [Keys -> Index \cup {NO_ENTRY}]
    BY <1>3 DEF IInv, TypeOK
  <2>4. ASSUME NEW k \in Keys, NEW d \in Index
        PROVE  residency'[k] = d <=>
                 d \in Entries' /\ cacheState'[d] # "Empty" /\ metadata'[d].key = k
    BY <1>1, <1>3, <2>1, <2>2 DEF IInv, TypeOK
  <2> QED BY <2>3, <2>4 DEF ResidencyMatchesEntries, Index
<1> QED BY <1>3, <1>4, <1>5, <1>6, <1>7, <1>8 DEF ListsInjective

\* The last lease on an entry ends and the entry is emptied: a discard, or the
\* rollback of a fill.
LEMMA EntryEmptied ==
  ASSUME CacheAssumption, IInv, NEW a \in Accesses, pc[a] = "drained",
         accessStatus[a] \in {"CacheHit", "CacheFill"},
         activeAccesses[entryIndex[a]] = 1,
         ResetEntry(entryIndex[a]), ResetAccess(a),
         UNCHANGED <<managerVars, activeFallbackAccesses, expired, adminVars, memoryVars>>
  PROVE  IInv'
<1> DEFINE e == entryIndex[a]
<1>1. e \in Entries /\ e \in Index /\ initialized /\ a \in Live /\ cacheState[e] # "Empty"
  BY DEF IInv, TypeOK, AccessShape, Lifecycle, LeaseShape, Live, LivePc, Entries, Index
<1>2. /\ AccessShape' /\ Lifecycle' /\ UndrainedIsKnown'
      /\ Entries' = Entries
      /\ \A b \in Live' : /\ b \in Live /\ b # a
                          /\ pc'[b] = pc[b] /\ frame'[b] = frame[b]
                          /\ accessStatus'[b] = accessStatus[b]
                          /\ entryIndex'[b] = entryIndex[b]
                          /\ completion'[b] = completion[b]
      /\ \A d : Cardinality(Leases(d)') = Cardinality(Leases(d)) - IF d = e THEN 1 ELSE 0
      /\ Cardinality(Fallbacks') = Cardinality(Fallbacks) - 0
  BY LeaseEnds
<1>3. /\ ListsInjective' /\ ListsMatchEntries' /\ ResidencyMatchesEntries'
      /\ residency' \in [Keys -> Index \cup {NO_ENTRY}]
      /\ emptyEntries' \in Seq(Index) /\ evictable' \in Seq(Index) /\ filled' \in Seq(Index)
      /\ cacheState' = [cacheState EXCEPT ![e] = "Empty"]
      /\ activeAccesses' = [activeAccesses EXCEPT ![e] = 0]
      /\ discardWhenUnused' = [discardWhenUnused EXCEPT ![e] = FALSE]
      /\ metadata' = [metadata EXCEPT ![e] = DefaultFrame]
      /\ replicaValid' = [replicaValid EXCEPT ![e] = FALSE]
      /\ notified' = notified \cup Sleepers
  BY <1>1, ResetEntryFacts
<1>4. \A b \in Live : b # a => entryIndex[b] # e
  <2>1. \A b, c \in Leases(e) : b = c
    BY <1>1, LeasesOfEntry DEF IInv
  <2> QED BY <1>1, <2>1 DEF Leases
<1> HIDE DEF e
<1>5. TypeOK'
  BY <1>1, <1>3, ResetAccessType
     DEF IInv, TypeOK, managerVars, adminVars, memoryVars, Sleepers
<1>6. EntryShape'
  BY <1>1, <1>2, <1>3 DEF IInv, TypeOK, EntryShape, managerVars, memoryVars
<1>7. LeaseShape'
  <2> SUFFICES ASSUME NEW b \in Live'
               PROVE  /\ cacheState'[entryIndex[b]] = cacheState[entryIndex[b]]
                      /\ metadata'[entryIndex[b]] = metadata[entryIndex[b]]
                      /\ UNCHANGED <<content, undrained>>
    BY <1>2 DEF IInv, LeaseShape
  <2>1. entryIndex[b] # e
    BY <1>2, <1>4
  <2> QED BY <1>1, <1>3, <2>1 DEF IInv, TypeOK, memoryVars
<1>8. LeaseAccounting'
  BY <1>1, <1>2, <1>3 DEF IInv, TypeOK, LeaseAccounting, e
<1> QED BY <1>2, <1>3, <1>5, <1>6, <1>7, <1>8 DEF IInv

\* The end of a hit preserves the invariant.
LEMMA EndHitStep ==
  ASSUME CacheAssumption, IInv, NEW a \in Accesses, EndHit(a)
  PROVE  IInv'
<1> DEFINE e == entryIndex[a]
           discard == completion[a].retention = "Discard"
<1>1. /\ pc[a] = "drained" /\ accessStatus[a] = "CacheHit" /\ ResetAccess(a)
      /\ UNCHANGED <<managerVars, activeFallbackAccesses, expired, adminVars, memoryVars>>
  BY DEF EndHit
<1>2. a \in Live /\ initialized /\ e \in Entries /\ e \in Index /\ cacheState[e] = "Valid"
  BY <1>1 DEF IInv, TypeOK, AccessShape, Lifecycle, LeaseShape, Live, LivePc, Entries, Index
<1>3. ReaderMayEnd(a)
  BY <1>1, <1>2, LeaseMayEnd DEF LeasesCanEnd
<1>4. EndRead(e, discard) /\ activeAccesses[e] \in Nat \ {0} /\ e \notin Range(evictable)
  BY <1>2, <1>3 DEF EndHit, ReaderMayEnd, IInv, TypeOK
<1>5. /\ AccessShape' /\ Lifecycle' /\ UndrainedIsKnown'
      /\ Entries' = Entries
      /\ \A b \in Live' : /\ b \in Live /\ b # a
                          /\ pc'[b] = pc[b] /\ frame'[b] = frame[b]
                          /\ accessStatus'[b] = accessStatus[b]
                          /\ entryIndex'[b] = entryIndex[b]
                          /\ completion'[b] = completion[b]
      /\ \A d : Cardinality(Leases(d)') = Cardinality(Leases(d)) - IF d = e THEN 1 ELSE 0
      /\ Cardinality(Fallbacks') = Cardinality(Fallbacks) - 0
  BY <1>1, LeaseEnds
<1>6. CASE activeAccesses[e] > 1
  <2>1. /\ activeAccesses' = [activeAccesses EXCEPT ![e] = @ - 1]
        /\ discardWhenUnused' = [discardWhenUnused EXCEPT ![e] = discardWhenUnused[e] \/ discard]
        /\ UNCHANGED <<listVars, cacheState, metadata, replicaValid, notified>>
    BY <1>4, <1>6 DEF EndRead, DiscardAsked
  <2> HIDE DEF e, discard
  <2>2. TypeOK'
    BY <1>1, <1>2, <1>6, <2>1, ResetAccessType
       DEF IInv, TypeOK, managerVars, listVars, adminVars, memoryVars
  <2>3. EntryShape'
    BY <1>1, <1>2, <1>5, <1>6, <2>1 DEF IInv, TypeOK, EntryShape, managerVars, memoryVars
  <2>4. LeaseShape'
    BY <1>1, <1>5, <2>1 DEF IInv, LeaseShape, memoryVars
  <2>5. LeaseAccounting'
    BY <1>1, <1>2, <1>5, <2>1 DEF IInv, TypeOK, LeaseAccounting
  <2>6. ListsInjective' /\ ListsMatchEntries' /\ ResidencyMatchesEntries'
    BY <1>1, <1>2, <1>5, <1>6, <2>1
       DEF IInv, TypeOK, ListsInjective, ListsMatchEntries, ResidencyMatchesEntries,
           managerVars, listVars
  <2> QED BY <1>5, <2>2, <2>3, <2>4, <2>5, <2>6 DEF IInv
<1>7. CASE activeAccesses[e] = 1 /\ DiscardAsked(e, discard)
  <2>1. ResetEntry(e)
    BY <1>4, <1>7 DEF EndRead
  <2> QED BY <1>1, <1>7, <2>1, EntryEmptied
<1>8. CASE activeAccesses[e] = 1 /\ ~DiscardAsked(e, discard)
  <2>1. /\ activeAccesses' = [activeAccesses EXCEPT ![e] = 0]
        /\ evictable' = Append(evictable, e)
        /\ notified' = notified \cup Sleepers
        /\ UNCHANGED <<residency, emptyEntries, filled, cacheState, metadata,
                       discardWhenUnused, replicaValid>>
        /\ ~discardWhenUnused[e]
    BY <1>4, <1>8 DEF EndRead, DiscardAsked, NotifyAll
  <2>2. /\ evictable' \in Seq(Index) /\ IsInjective(evictable')
        /\ Range(evictable') = Range(evictable) \cup {e}
    BY <1>2, <1>4, <2>1, AppendFacts DEF IInv, TypeOK, ListsInjective
  <2> HIDE DEF e, discard
  <2>3. TypeOK'
    BY <1>1, <1>2, <2>1, <2>2, ResetAccessType
       DEF IInv, TypeOK, managerVars, adminVars, memoryVars, Sleepers
  <2>4. EntryShape'
    BY <1>1, <1>2, <1>5, <2>1 DEF IInv, TypeOK, EntryShape, managerVars, memoryVars
  <2>5. LeaseShape'
    BY <1>1, <1>5, <2>1 DEF IInv, LeaseShape, memoryVars
  <2>6. LeaseAccounting'
    BY <1>1, <1>2, <1>5, <1>8, <2>1 DEF IInv, TypeOK, LeaseAccounting
  <2>7. ListsInjective' /\ ResidencyMatchesEntries'
    BY <1>1, <1>5, <2>1, <2>2
       DEF IInv, ListsInjective, ResidencyMatchesEntries, managerVars
  <2>8. ListsMatchEntries'
    BY <1>1, <1>2, <1>5, <2>1, <2>2
       DEF IInv, TypeOK, ListsMatchEntries, ListsInjective, managerVars
  <2> QED BY <1>5, <2>3, <2>4, <2>5, <2>6, <2>7, <2>8 DEF IInv
<1> QED BY <1>4, <1>6, <1>7, <1>8

\* The end of a fill, published or rolled back, preserves the invariant.
LEMMA EndFillStep ==
  ASSUME CacheAssumption, IInv, NEW a \in Accesses, EndFill(a)
  PROVE  IInv'
<1> DEFINE e == entryIndex[a]
<1>1. /\ pc[a] = "drained" /\ accessStatus[a] = "CacheFill" /\ ResetAccess(a)
      /\ UNCHANGED <<managerVars, activeFallbackAccesses, expired, adminVars, memoryVars>>
  BY DEF EndFill
<1>2. a \in Live /\ initialized /\ e \in Entries /\ e \in Index
  BY <1>1 DEF IInv, TypeOK, AccessShape, Lifecycle, Live, LivePc, Entries, Index
<1>3. cacheState[e] = "Loading" /\ metadata[e] = frame[a] /\ activeAccesses[e] = 1
  BY <1>1, <1>2 DEF IInv, LeaseShape, EntryShape
<1>4. FillMayEnd(a)
  BY <1>1, <1>2, LeaseMayEnd DEF LeasesCanEnd
<1>5. CASE ~KeepFill(a)
  <2>1. ResetEntry(e)
    BY <1>4, <1>5 DEF EndFill
  <2> QED BY <1>1, <1>3, <2>1, EntryEmptied
<1>6. CASE KeepFill(a)
  <2>1. /\ replicaValid' = [replicaValid EXCEPT ![e] = TRUE]
        /\ cacheState' = [cacheState EXCEPT ![e] = "Valid"]
        /\ activeAccesses' = [activeAccesses EXCEPT ![e] = 0]
        /\ filled' = IF evictionPolicy = "FIFO" THEN Append(filled, e) ELSE filled
        /\ evictable' = Append(evictable, e)
        /\ notified' = notified \cup Sleepers
        /\ UNCHANGED <<residency, emptyEntries, metadata, discardWhenUnused>>
    BY <1>4, <1>6 DEF EndFill, Publish, FillOrder, NotifyAll
  <2>2. content[e] = frame[a]
    BY <1>1, <1>2, <1>6 DEF KeepFill, IInv, LeaseShape
  <2>3. /\ Range(emptyEntries) = {d \in Entries : cacheState[d] = "Empty"}
        /\ Range(evictable) = {d \in Entries : cacheState[d] = "Valid" /\ activeAccesses[d] = 0}
        /\ Range(filled) = {d \in Entries : cacheState[d] = "Valid" /\ evictionPolicy = "FIFO"}
    BY <1>2 DEF IInv, ListsMatchEntries
  <2>4. /\ evictable' \in Seq(Index) /\ IsInjective(evictable')
        /\ Range(evictable') = Range(evictable) \cup {e}
    BY <1>2, <1>3, <2>1, <2>3, AppendFacts DEF IInv, TypeOK, ListsInjective
  <2>5. /\ filled' \in Seq(Index) /\ IsInjective(filled')
        /\ Range(filled') = Range(filled) \cup (IF evictionPolicy = "FIFO" THEN {e} ELSE {})
    <3>1. CASE evictionPolicy = "FIFO"
      BY <1>2, <1>3, <2>1, <2>3, <3>1, AppendFacts DEF IInv, TypeOK, ListsInjective
    <3>2. CASE evictionPolicy # "FIFO"
      BY <2>1, <3>2 DEF IInv, TypeOK, ListsInjective
    <3> QED BY <3>1, <3>2
  <2>6. /\ AccessShape' /\ Lifecycle' /\ UndrainedIsKnown'
        /\ Entries' = Entries
        /\ \A b \in Live' : /\ b \in Live /\ b # a
                            /\ pc'[b] = pc[b] /\ frame'[b] = frame[b]
                            /\ accessStatus'[b] = accessStatus[b]
                            /\ entryIndex'[b] = entryIndex[b]
                            /\ completion'[b] = completion[b]
        /\ \A d : Cardinality(Leases(d)') = Cardinality(Leases(d)) - IF d = e THEN 1 ELSE 0
        /\ Cardinality(Fallbacks') = Cardinality(Fallbacks) - 0
    BY <1>1, LeaseEnds
  <2>7. \A b \in Live : b # a => entryIndex[b] # e
    <3>1. \A b, c \in Leases(e) : b = c
      BY <1>2, <1>3, LeasesOfEntry DEF IInv
    <3> QED BY <1>2, <3>1 DEF Leases
  <2>8. frame[a] \in Frames /\ ~discardWhenUnused[e]
    BY <1>1, <1>2, <1>3 DEF IInv, AccessShape, EntryShape
  <2> HIDE DEF e
  <2>9. TypeOK'
    BY <1>1, <1>2, <2>1, <2>4, <2>5, ResetAccessType
       DEF IInv, TypeOK, managerVars, adminVars, memoryVars, Sleepers
  <2>10. EntryShape'
    BY <1>1, <1>2, <1>3, <2>1, <2>2, <2>6, <2>8
       DEF IInv, TypeOK, EntryShape, managerVars, memoryVars
  <2>11. LeaseShape'
    <3> SUFFICES ASSUME NEW b \in Live'
                 PROVE  /\ cacheState'[entryIndex[b]] = cacheState[entryIndex[b]]
                        /\ UNCHANGED <<metadata, content, undrained>>
      BY <2>6 DEF IInv, LeaseShape
    <3>1. entryIndex[b] # e
      BY <2>6, <2>7
    <3> QED BY <1>1, <1>2, <2>1, <3>1 DEF IInv, TypeOK, memoryVars
  <2>12. LeaseAccounting'
    BY <1>1, <1>2, <1>3, <2>1, <2>6 DEF IInv, TypeOK, LeaseAccounting
  <2>13. ListsInjective'
    BY <2>1, <2>4, <2>5 DEF IInv, ListsInjective
  <2>14. ListsMatchEntries'
    <3>1. Entries \subseteq Index
      BY DEF IInv, TypeOK, Entries, Index
    <3>2. Range(emptyEntries') = {d \in Entries' : cacheState'[d] = "Empty"}
      BY <1>2, <1>3, <2>1, <2>3, <2>6, <3>1 DEF IInv, TypeOK
    <3>3. Range(evictable') = {d \in Entries' : cacheState'[d] = "Valid" /\ activeAccesses'[d] = 0}
      BY <1>2, <2>1, <2>3, <2>4, <2>6, <3>1 DEF IInv, TypeOK
    <3>4. Range(filled') = {d \in Entries' : cacheState'[d] = "Valid" /\ evictionPolicy' = "FIFO"}
      BY <1>1, <1>2, <2>1, <2>3, <2>5, <2>6, <3>1 DEF IInv, TypeOK, managerVars
    <3> QED BY <2>13, <3>2, <3>3, <3>4 DEF ListsMatchEntries, ListsInjective
  <2>15. ResidencyMatchesEntries'
    BY <1>1, <1>2, <1>3, <2>1, <2>6
       DEF IInv, TypeOK, ResidencyMatchesEntries, managerVars
  <2> QED BY <2>6, <2>9, <2>10, <2>11, <2>12, <2>13, <2>14, <2>15 DEF IInv
<1> QED BY <1>5, <1>6

\* Moving a lease to another access object preserves the invariant.
LEMMA TakeAccessStep ==
  ASSUME CacheAssumption, IInv, NEW a \in Accesses, NEW other \in Accesses,
         TakeAccess(a, other)
  PROVE  IInv'
<1>1. /\ pc[a] = "idle" /\ pc[other] = "held" /\ a # other
      /\ pc' = [pc EXCEPT ![a] = "held", ![other] = "idle"]
      /\ frame' = [frame EXCEPT ![a] = frame[other], ![other] = DefaultFrame]
      /\ accessStatus' = [accessStatus EXCEPT ![a] = accessStatus[other], ![other] = "Invalid"]
      /\ entryIndex' = [entryIndex EXCEPT ![a] = entryIndex[other], ![other] = NO_ENTRY]
      /\ UNCHANGED <<managerVars, activeFallbackAccesses, listVars, entryVars, completion,
                     wakeVars, adminVars, memoryVars>>
  BY DEF TakeAccess, Move
<1>2. Entries' = Entries /\ initialized
  BY <1>1 DEF Entries, managerVars, IInv, Lifecycle
<1>3. Live' = (Live \ {other}) \cup {a} /\ other \in Live /\ a \notin Live
  BY <1>1 DEF IInv, TypeOK, Live, LivePc
<1>4. /\ pc'[a] = "held" /\ frame'[a] = frame[other]
      /\ accessStatus'[a] = accessStatus[other] /\ entryIndex'[a] = entryIndex[other]
      /\ \A b \in Accesses \ {a, other} : /\ pc'[b] = pc[b] /\ frame'[b] = frame[b]
                                          /\ accessStatus'[b] = accessStatus[b]
                                          /\ entryIndex'[b] = entryIndex[b]
  BY <1>1 DEF IInv, TypeOK
<1>5. TypeOK'
  BY <1>1 DEF IInv, TypeOK, managerVars, listVars, entryVars, wakeVars, adminVars, memoryVars, LivePc
<1>6. AccessShape'
  BY <1>1, <1>2 DEF IInv, TypeOK, AccessShape, LivePc
<1>7. Lifecycle'
  BY <1>1, <1>2 DEF IInv, TypeOK, Lifecycle, managerVars, adminVars
<1>8. EntryShape'
  BY <1>1, <1>2 DEF IInv, EntryShape, managerVars, entryVars, memoryVars
<1>9. LeaseShape'
  <2> SUFFICES ASSUME NEW b \in Live'
               PROVE  \E c \in Live :
                        /\ pc'[b] = pc[c] /\ frame'[b] = frame[c]
                        /\ accessStatus'[b] = accessStatus[c] /\ entryIndex'[b] = entryIndex[c]
                        /\ pc'[b] = "held" \/ completion'[b] = completion[c]
                        /\ UNCHANGED <<cacheState, metadata, content, undrained>>
    BY DEF IInv, LeaseShape
  <2>1. CASE b = a
    BY <1>1, <1>3, <1>4, <2>1 DEF entryVars, memoryVars
  <2>2. CASE b # a
    BY <1>1, <1>3, <1>4, <2>2 DEF Live, entryVars, memoryVars
  <2> QED BY <2>1, <2>2
<1>10. LeaseAccounting'
  <2>1. ASSUME NEW S, NEW T, IsFiniteSet(S), T = (S \ {other}) \cup {a}, other \in S, a \notin S
        PROVE  Cardinality(T) = Cardinality(S)
    <3>1. /\ IsFiniteSet(S \ {other}) /\ Cardinality(S \ {other}) = Cardinality(S) - 1
      BY <2>1, FS_RemoveElement
    <3>2. Cardinality(T) = Cardinality(S \ {other}) + 1
      BY <2>1, <3>1, FS_AddElement
    <3>3. Cardinality(S) \in Nat
      BY <2>1, FS_CardinalityType
    <3> QED BY <3>1, <3>2, <3>3
  <2>2. ASSUME NEW e PROVE Cardinality(Leases(e)') = Cardinality(Leases(e))
    <3>1. CASE entryIndex[other] = e
      <4>1. Leases(e)' = (Leases(e) \ {other}) \cup {a} /\ other \in Leases(e) /\ a \notin Leases(e)
        BY <1>3, <1>4, <3>1 DEF Leases, Live
      <4> QED BY <2>1, <4>1, LeasesFinite
    <3>2. CASE entryIndex[other] # e
      <4>1. Leases(e)' = Leases(e)
        BY <1>3, <1>4, <3>2 DEF Leases, Live
      <4> QED BY <4>1
    <3> QED BY <3>1, <3>2
  <2>3. Cardinality(Fallbacks') = Cardinality(Fallbacks)
    <3>1. CASE accessStatus[other] = "TaskFallback"
      <4>1. Fallbacks' = (Fallbacks \ {other}) \cup {a} /\ other \in Fallbacks /\ a \notin Fallbacks
        BY <1>3, <1>4, <3>1 DEF Fallbacks, Live
      <4> QED BY <2>1, <4>1, LeasesFinite
    <3>2. CASE accessStatus[other] # "TaskFallback"
      <4>1. Fallbacks' = Fallbacks
        BY <1>3, <1>4, <3>2 DEF Fallbacks, Live
      <4> QED BY <4>1
    <3> QED BY <3>1, <3>2
  <2> QED BY <1>1, <2>2, <2>3 DEF IInv, LeaseAccounting, entryVars
<1>11. ListsInjective' /\ ListsMatchEntries' /\ ResidencyMatchesEntries'
  BY <1>1, <1>2 DEF IInv, ListsInjective, ListsMatchEntries, ResidencyMatchesEntries,
                    managerVars, listVars, entryVars
<1>12. UndrainedIsKnown'
  <2> SUFFICES ASSUME NEW e \in undrained', ~failed'
               PROVE  \E b \in Accesses : pc'[b] = "syncFailed" /\ entryIndex'[b] = e
    BY DEF UndrainedIsKnown
  <2>1. PICK b \in Accesses : pc[b] = "syncFailed" /\ entryIndex[b] = e
    BY <1>1 DEF IInv, UndrainedIsKnown, managerVars, memoryVars
  <2>2. b \in Accesses \ {a, other}
    BY <1>1, <2>1
  <2> QED BY <1>4, <2>1, <2>2
<1> QED BY <1>5, <1>6, <1>7, <1>8, <1>9, <1>10, <1>11, <1>12 DEF IInv
-----------------------------------------------------------------------------
(* The lifecycle *)

\* An admin step that touches nothing but its own program counter, without
\* starting to free, preserves the invariant.
LEMMA AdminWaitsStep ==
  ASSUME CacheAssumption, IInv, TypeOK', NEW m \in Admins,
         adminPc'[m] # "freeing", \A n \in Admins \ {m} : adminPc'[n] = adminPc[n],
         UNCHANGED <<managerVars, activeFallbackAccesses, listVars, entryVars, accessVars,
                     wakeVars, memoryVars>>
  PROVE  IInv'
<1>1. Entries' = Entries /\ Live' = Live
  BY DEF Entries, Live, managerVars, accessVars
<1>2. Lifecycle'
  BY DEF IInv, Lifecycle, managerVars, accessVars
<1>3. AccessShape' /\ EntryShape' /\ LeaseShape' /\ UndrainedIsKnown'
  BY <1>1 DEF IInv, AccessShape, EntryShape, LeaseShape, UndrainedIsKnown, managerVars,
              entryVars, accessVars, memoryVars
<1>4. LeaseAccounting'
  BY <1>1, LeasesKept DEF IInv, LeaseAccounting, entryVars, accessVars
<1>5. ListsInjective' /\ ListsMatchEntries' /\ ResidencyMatchesEntries'
  BY <1>1 DEF IInv, ListsInjective, ListsMatchEntries, ResidencyMatchesEntries,
              managerVars, listVars, entryVars
<1> QED BY <1>2, <1>3, <1>4, <1>5 DEF IInv

\* Without a running manager nobody holds or awaits a lease.
LEMMA NobodyThere ==
  ASSUME CacheAssumption, IInv, ~initialized
  PROVE  /\ \A a \in Accesses : pc[a] = "idle"
         /\ Live = {} /\ Sleepers = {}
         /\ \A e \in Index : activeAccesses[e] = 0 /\ cacheState[e] # "Loading"
         /\ activeFallbackAccesses = 0
<1>1. \A a \in Accesses : pc[a] = "idle"
  BY DEF IInv, Lifecycle
<1>2. Live = {} /\ Sleepers = {}
  BY <1>1 DEF Live, LivePc, Sleepers
<1>3. (\A e : Leases(e) = {}) /\ Fallbacks = {}
  BY <1>2 DEF Leases, Fallbacks
<1>4. (\A e \in Index : activeAccesses[e] = 0) /\ activeFallbackAccesses = 0
  BY <1>3, FS_EmptySet DEF IInv, LeaseAccounting
<1>5. \A e \in Index : cacheState[e] # "Loading"
  BY <1>4 DEF IInv, EntryShape
<1> QED BY <1>1, <1>2, <1>4, <1>5

\* The first half of initialize and its failure preserve the invariant.
LEMMA InitializeBeginStep ==
  ASSUME CacheAssumption, IInv, NEW m \in Admins,
         InitializeFail(m) \/ \E conf \in Config : InitializeBegin(m, conf)
  PROVE  IInv'
<1>1. DefaultConfig \in [count : 0 .. MaxEntryCount, wait : BOOLEAN, policy : {"LRU", "FIFO"}]
  BY DEF DefaultConfig, CacheAssumption
<1>2. Config \subseteq [count : 0 .. MaxEntryCount, wait : BOOLEAN, policy : {"LRU", "FIFO"}]
  BY DEF Config, CacheAssumption
<1>3. PICK conf \in [count : 0 .. MaxEntryCount, wait : BOOLEAN, policy : {"LRU", "FIFO"}],
           to \in {"idle", "allocating"} :
        /\ adminPc' = [adminPc EXCEPT ![m] = to]
        /\ adminConfig' = [adminConfig EXCEPT ![m] = conf]
        /\ UNCHANGED <<managerVars, activeFallbackAccesses, listVars, entryVars, accessVars,
                       wakeVars, memoryVars>>
  <2>1. CASE InitializeFail(m)
    BY <1>1, <2>1 DEF InitializeFail
  <2>2. CASE \E conf \in Config : InitializeBegin(m, conf)
    BY <1>2, <2>2 DEF InitializeBegin
  <2> QED BY <2>1, <2>2
<1>4. TypeOK'
  BY <1>3 DEF IInv, TypeOK, managerVars, listVars, entryVars, accessVars, wakeVars, memoryVars
<1>5. adminPc'[m] # "freeing" /\ \A n \in Admins \ {m} : adminPc'[n] = adminPc[n]
  BY <1>3 DEF IInv, TypeOK
<1> QED BY <1>3, <1>4, <1>5, AdminWaitsStep

\* The stack of empty entries that initialize and resetCache build.
LEMMA AllEmptyFacts ==
  ASSUME CacheAssumption, NEW n \in 0 .. MaxEntryCount
  PROVE  /\ AllEmpty(n) \in Seq(Index)
         /\ IsInjective(AllEmpty(n))
         /\ Range(AllEmpty(n)) = 0 .. n - 1
<1>1. AllEmpty(n) = [i \in 1 .. n |-> n - i] /\ n \in Nat /\ n <= MaxEntryCount /\ MaxEntryCount \in Nat
  BY DEF AllEmpty, CacheAssumption
<1>2. \A i \in 1 .. n : n - i \in Index
  BY <1>1 DEF Index
<1>3. AllEmpty(n) \in Seq(Index)
  BY <1>1, <1>2
<1>4. IsInjective(AllEmpty(n))
  BY <1>1 DEF IsInjective
<1>5. Range(AllEmpty(n)) = 0 .. n - 1
  <2>1. Range(AllEmpty(n)) \subseteq 0 .. n - 1
    BY <1>1 DEF Range
  <2>2. ASSUME NEW e \in 0 .. n - 1 PROVE e \in Range(AllEmpty(n))
    <3>1. n - e \in 1 .. n /\ AllEmpty(n)[n - e] = e
      BY <1>1
    <3>2. n - e \in DOMAIN AllEmpty(n)
      BY <1>1, <3>1
    <3> QED BY <3>1, <3>2 DEF Range
  <2> QED BY <2>1, <2>2
<1> QED BY <1>3, <1>4, <1>5

\* Publishing a freshly allocated manager, or losing the race for it,
\* preserves the invariant.
LEMMA InitializePublishStep ==
  ASSUME CacheAssumption, IInv, NEW m \in Admins, InitializePublish(m)
  PROVE  IInv'
<1> DEFINE conf == adminConfig[m]
<1>1. /\ adminPc[m] = "allocating"
      /\ adminPc' = [adminPc EXCEPT ![m] = "idle"]
      /\ adminConfig' = [adminConfig EXCEPT ![m] = DefaultConfig]
      /\ UNCHANGED <<entryVars, accessVars, wakeVars, content, undrained>>
  BY DEF InitializePublish
<1>2. /\ conf \in [count : 0 .. MaxEntryCount, wait : BOOLEAN, policy : {"LRU", "FIFO"}]
      /\ adminConfig' \in [Admins -> [count : 0 .. MaxEntryCount, wait : BOOLEAN,
                                      policy : {"LRU", "FIFO"}]]
      /\ adminPc' \in [Admins -> {"idle", "allocating", "freeing"}]
      /\ \A n \in Admins \ {m} : adminPc'[n] = adminPc[n]
      /\ adminPc'[m] # "freeing"
      /\ conf.count \in 0 .. MaxEntryCount /\ conf.wait \in BOOLEAN
      /\ conf.policy \in {"LRU", "FIFO"}
  BY <1>1 DEF IInv, TypeOK, DefaultConfig, CacheAssumption
<1>3. CASE ~ManagerEmpty
  <2>1. UNCHANGED <<managerVars, activeFallbackAccesses, listVars, allocated>>
    BY <1>3 DEF InitializePublish
  <2>2. TypeOK'
    BY <1>1, <1>2, <2>1 DEF IInv, TypeOK, managerVars, listVars, entryVars, accessVars, wakeVars
  <2> QED BY <1>1, <1>2, <2>1, <2>2, AdminWaitsStep DEF memoryVars
<1>4. CASE ManagerEmpty
  <2>1. /\ entryCount' = conf.count
        /\ waitTimeout' = conf.wait
        /\ evictionPolicy' = conf.policy
        /\ initialized' = TRUE
        /\ failed' = FALSE
        /\ activeFallbackAccesses' = 0
        /\ residency' = [k \in Keys |-> NO_ENTRY]
        /\ emptyEntries' = AllEmpty(conf.count)
        /\ allocated' = [e \in Index |-> e < conf.count]
        /\ UNCHANGED <<releasing, evictable, filled>>
    BY <1>4 DEF InitializePublish
  <2>2. /\ ~initialized /\ ~releasing /\ entryCount = 0
        /\ evictable = <<>> /\ filled = <<>>
    BY <1>4 DEF ManagerEmpty
  <2>3. /\ AllEmpty(conf.count) \in Seq(Index)
        /\ IsInjective(AllEmpty(conf.count))
        /\ Range(AllEmpty(conf.count)) = Entries'
    BY <1>2, <2>1, AllEmptyFacts DEF Entries
  <2>4. /\ \A a \in Accesses : pc[a] = "idle"
        /\ Live = {}
        /\ \A e \in Index : activeAccesses[e] = 0 /\ cacheState[e] # "Loading"
    BY <2>2, NobodyThere
  <2>5. \A e \in Index : ~allocated[e] /\ cacheState[e] = "Empty" /\ e \notin undrained
    BY <2>2 DEF IInv, EntryShape, Entries
  <2>6. Live' = {} /\ Entries' \subseteq Index /\ Entries' = 0 .. conf.count - 1
    BY <1>1, <1>2, <2>1, <2>4 DEF Live, accessVars, Entries, Index, CacheAssumption
  <2>7. NO_ENTRY \notin Index
    BY DEF NO_ENTRY, Index
  <2> HIDE DEF conf
  <2>8. TypeOK'
    <3>1. residency' \in [Keys -> Index \cup {NO_ENTRY}] /\ allocated' \in [Index -> BOOLEAN]
      BY <2>1
    <3>2. evictable' \in Seq(Index) /\ filled' \in Seq(Index) /\ emptyEntries' \in Seq(Index)
      BY <2>1, <2>3 DEF IInv, TypeOK
    <3> QED BY <1>1, <1>2, <2>1, <3>1, <3>2 DEF IInv, TypeOK, entryVars, accessVars, wakeVars
  <2>9. AccessShape'
    BY <1>1, <2>4 DEF IInv, AccessShape, accessVars, LivePc
  <2>10. Lifecycle'
    BY <1>2, <2>1, <2>2 DEF IInv, Lifecycle
  <2>11. EntryShape'
    <3>1. \A e \in Index : e \in Entries' <=> allocated'[e]
      <4>1. conf.count \in Int /\ \A e \in Index : e \in Int /\ e >= 0
        BY <1>2 DEF Index
      <4>2. \A e \in Index : allocated'[e] <=> e < conf.count
        BY <2>1
      <4> QED BY <2>6, <4>1, <4>2
    <3> QED BY <1>1, <2>1, <2>4, <2>5, <3>1 DEF IInv, EntryShape, entryVars
  <2>12. LeaseShape' /\ UndrainedIsKnown'
    BY <1>1, <2>5, <2>6 DEF LeaseShape, UndrainedIsKnown, IInv, TypeOK
  <2>13. LeaseAccounting'
    <3>1. (\A e : Leases(e)' = {}) /\ Fallbacks' = {}
      BY <2>6 DEF Leases, Fallbacks
    <3> QED BY <1>1, <2>1, <2>4, <3>1, FS_EmptySet DEF LeaseAccounting, entryVars
  <2>14. ListsInjective'
    BY <2>1, <2>2, <2>3 DEF ListsInjective, IInv
  <2>15. ListsMatchEntries'
    <3>1. Range(<<>>) = {}
      BY DEF Range
    <3>2. \A e \in Entries' : cacheState'[e] = "Empty"
      BY <1>1, <2>5, <2>6 DEF entryVars
    <3> QED BY <2>1, <2>2, <2>3, <2>14, <3>1, <3>2 DEF ListsMatchEntries, ListsInjective
  <2>16. ResidencyMatchesEntries'
    BY <1>1, <2>1, <2>5, <2>7 DEF ResidencyMatchesEntries, entryVars
  <2> QED BY <2>8, <2>9, <2>10, <2>11, <2>12, <2>13, <2>14, <2>15, <2>16 DEF IInv
<1> QED BY <1>3, <1>4

\* The first half of release preserves the invariant: CanReset leaves nobody
\* behind.
LEMMA ReleaseBeginStep ==
  ASSUME CacheAssumption, IInv, NEW m \in Admins, ReleaseBegin(m)
  PROVE  IInv'
<1>1. /\ adminPc[m] = "idle" /\ ~releasing /\ CanReset
      /\ initialized' = FALSE /\ releasing' = TRUE
      /\ adminPc' = [adminPc EXCEPT ![m] = "freeing"]
      /\ UNCHANGED <<failed, entryCount, waitTimeout, evictionPolicy, activeFallbackAccesses,
                     listVars, entryVars, accessVars, wakeVars, adminConfig, memoryVars>>
  BY DEF ReleaseBegin
<1>2. Entries' = Entries /\ Live' = Live
  BY <1>1 DEF Entries, Live, accessVars
<1>3. \A a \in Accesses : pc[a] = "idle"
  <2> SUFFICES ASSUME NEW a \in Accesses, pc[a] # "idle" PROVE FALSE
    OBVIOUS
  <2>1. pc[a] \in LivePc
    BY <1>1 DEF CanReset, Sleepers, IInv, TypeOK
  <2>2. a \in Live
    BY <2>1 DEF Live
  <2>3. CASE accessStatus[a] = "TaskFallback"
    BY <1>1, <2>2, <2>3, LeaseMayEnd DEF LeasesCanEnd, CanReset
  <2>4. CASE accessStatus[a] \in {"CacheHit", "CacheFill"}
    <3>1. entryIndex[a] \in Entries /\ entryIndex[a] \in Index
      BY <2>1, <2>4 DEF IInv, TypeOK, AccessShape, Entries, Index
    <3>2. a \in Leases(entryIndex[a]) /\ activeAccesses[entryIndex[a]] = 0
      BY <1>1, <2>2, <3>1 DEF Leases, CanReset
    <3> QED BY <3>1, <3>2, LeasesOfEntry DEF IInv
  <2> QED BY <2>1, <2>3, <2>4 DEF IInv, AccessShape
<1>4. TypeOK'
  BY <1>1 DEF IInv, TypeOK, listVars, entryVars, accessVars, wakeVars, memoryVars
<1>5. AccessShape' /\ LeaseShape' /\ UndrainedIsKnown'
  BY <1>1, <1>2 DEF IInv, AccessShape, LeaseShape, UndrainedIsKnown, entryVars, accessVars,
                    memoryVars
<1>6. Lifecycle'
  BY <1>1, <1>3 DEF IInv, TypeOK, Lifecycle, accessVars
<1>7. EntryShape'
  BY <1>1, <1>2 DEF IInv, EntryShape, entryVars, memoryVars
<1>8. LeaseAccounting'
  BY <1>1, <1>2, LeasesKept DEF IInv, LeaseAccounting, entryVars, accessVars
<1>9. ListsInjective' /\ ListsMatchEntries' /\ ResidencyMatchesEntries'
  BY <1>1 DEF IInv, ListsInjective, ListsMatchEntries, ResidencyMatchesEntries, listVars
<1> QED BY <1>4, <1>5, <1>6, <1>7, <1>8, <1>9 DEF IInv

\* The second half of release preserves the invariant, also when some entries
\* could not be freed.
LEMMA ReleaseEndStep ==
  ASSUME CacheAssumption, IInv, NEW m \in Admins,
         NEW freed \in SUBSET {e \in Entries : allocated[e]}, ReleaseEnd(m, freed)
  PROVE  IInv'
<1>1. /\ adminPc[m] = "freeing"
      /\ adminPc' = [adminPc EXCEPT ![m] = "idle"]
      /\ releasing' = FALSE
      /\ UNCHANGED <<waitTimeout, evictionPolicy, accessVars, wakeVars, adminConfig>>
  BY DEF ReleaseEnd
<1>2. /\ allocated' = [e \in Index |-> allocated[e] /\ e \notin freed]
      /\ cacheState' = [e \in Index |-> IF e \in freed THEN "Empty" ELSE cacheState[e]]
      /\ activeAccesses' = [e \in Index |-> IF e \in freed THEN 0 ELSE activeAccesses[e]]
      /\ discardWhenUnused' = [e \in Index |-> discardWhenUnused[e] /\ e \notin freed]
      /\ metadata' = [e \in Index |-> IF e \in freed THEN DefaultFrame ELSE metadata[e]]
      /\ replicaValid' = [e \in Index |-> replicaValid[e] /\ e \notin freed]
      /\ content' = [e \in Index |-> IF e \in freed THEN DefaultFrame ELSE content[e]]
      /\ undrained' = undrained \ freed
  BY DEF ReleaseEnd, FreeEntries
<1>3. releasing /\ ~initialized
  BY <1>1 DEF IInv, Lifecycle
<1>4. /\ \A a \in Accesses : pc[a] = "idle"
      /\ Live = {}
      /\ \A e \in Index : activeAccesses[e] = 0 /\ cacheState[e] # "Loading"
      /\ activeFallbackAccesses = 0
  BY <1>3, NobodyThere
<1>5. Live' = {}
  BY <1>1, <1>4 DEF Live, accessVars
<1>6. /\ ~initialized'
      /\ activeFallbackAccesses' = 0
      /\ \/ AllReleased(freed) /\ entryCount' = 0 /\ failed' = FALSE
            /\ residency' = [k \in Keys |-> NO_ENTRY]
            /\ emptyEntries' = <<>> /\ evictable' = <<>> /\ filled' = <<>>
         \/ entryCount' = entryCount /\ failed' = failed /\ UNCHANGED listVars
  BY <1>3, <1>4 DEF ReleaseEnd
<1>7. freed \subseteq Index
  BY DEF IInv, EntryShape, TypeOK, Entries, Index
<1>8. TypeOK'
  <2>1. /\ allocated' \in [Index -> BOOLEAN]
        /\ cacheState' \in [Index -> {"Empty", "Loading", "Valid"}]
        /\ activeAccesses' \in [Index -> Nat]
        /\ discardWhenUnused' \in [Index -> BOOLEAN]
        /\ metadata' \in [Index -> Frames \cup {DefaultFrame}]
        /\ replicaValid' \in [Index -> BOOLEAN]
        /\ content' \in [Index -> Frames \cup {DefaultFrame}]
        /\ undrained' \subseteq Index
    BY <1>2 DEF IInv, TypeOK
  <2>2. CASE AllReleased(freed)
    <3>1. /\ initialized' = FALSE /\ failed' = FALSE /\ entryCount' = 0
          /\ residency' = [k \in Keys |-> NO_ENTRY]
          /\ emptyEntries' = <<>> /\ evictable' = <<>> /\ filled' = <<>>
      BY <2>2 DEF ReleaseEnd
    <3>2. 0 \in 0 .. MaxEntryCount /\ <<>> \in Seq(Index)
      BY DEF CacheAssumption
    <3> QED BY <1>1, <1>6, <2>1, <3>1, <3>2 DEF IInv, TypeOK, accessVars, wakeVars
  <2>3. CASE ~AllReleased(freed)
    <3>1. UNCHANGED <<initialized, failed, entryCount, listVars>>
      BY <2>3 DEF ReleaseEnd
    <3> QED BY <1>1, <1>6, <2>1, <3>1 DEF IInv, TypeOK, accessVars, wakeVars, listVars
  <2> QED BY <2>2, <2>3
<1>9. AccessShape'
  BY <1>1, <1>4 DEF IInv, AccessShape, accessVars, LivePc
<1>10. Lifecycle'
  <2>1. CASE AllReleased(freed)
    <3>1. failed' = FALSE
      BY <2>1 DEF ReleaseEnd
    <3> QED BY <1>1, <1>4, <1>6, <3>1 DEF IInv, TypeOK, Lifecycle, accessVars
  <2>2. CASE ~AllReleased(freed)
    <3>1. entryCount > 0 /\ entryCount' = entryCount
      BY <2>2 DEF AllReleased, Entries, ReleaseEnd, IInv, TypeOK
    <3> QED BY <1>1, <1>4, <1>6, <3>1 DEF IInv, TypeOK, Lifecycle, accessVars
  <2> QED BY <2>1, <2>2
<1>11. EntryShape'
  <2>1. ASSUME NEW e \in Index, allocated'[e] PROVE e \in Entries'
    <3>1. allocated[e] /\ e \notin freed /\ e \in Entries
      BY <1>2, <2>1 DEF IInv, EntryShape, TypeOK
    <3>2. ~AllReleased(freed)
      BY <3>1 DEF AllReleased
    <3> QED BY <1>6, <3>1, <3>2 DEF Entries
  <2>2. \A e \in Index : ~allocated'[e] => cacheState'[e] = "Empty" /\ e \notin undrained'
    BY <1>2 DEF IInv, EntryShape, TypeOK
  <2>3. \A e \in Index :
          /\ cacheState'[e] = "Empty" => activeAccesses'[e] = 0
          /\ cacheState'[e] # "Loading"
          /\ cacheState'[e] = "Valid" =>
               replicaValid'[e] /\ metadata'[e] \in Frames /\ content'[e] = metadata'[e]
          /\ ~discardWhenUnused'[e]
    BY <1>2, <1>4 DEF IInv, EntryShape, TypeOK
  <2> QED BY <1>6, <2>1, <2>2, <2>3 DEF EntryShape
<1>12. LeaseShape'
  BY <1>5 DEF LeaseShape
<1>13. LeaseAccounting'
  <2>1. (\A e : Leases(e)' = {}) /\ Fallbacks' = {}
    BY <1>5 DEF Leases, Fallbacks
  <2> QED BY <1>2, <1>4, <1>6, <2>1, FS_EmptySet DEF LeaseAccounting
<1>14. ListsInjective' /\ ListsMatchEntries' /\ ResidencyMatchesEntries'
  <2>1. IsInjective(<<>>)
    BY DEF IsInjective
  <2> QED BY <1>6, <2>1
          DEF IInv, ListsInjective, ListsMatchEntries, ResidencyMatchesEntries, listVars
<1>15. UndrainedIsKnown'
  <2>1. CASE AllReleased(freed)
    <3>1. undrained' = {}
      BY <1>2, <2>1 DEF AllReleased, IInv, EntryShape, TypeOK
    <3> QED BY <3>1 DEF UndrainedIsKnown
  <2>2. CASE ~AllReleased(freed)
    BY <1>2, <1>4, <1>6, <2>2 DEF IInv, UndrainedIsKnown
  <2> QED BY <2>1, <2>2
<1> QED BY <1>8, <1>9, <1>10, <1>11, <1>12, <1>13, <1>14, <1>15 DEF IInv

\* resetCache preserves the invariant.
LEMMA ResetCacheStep ==
  ASSUME CacheAssumption, IInv, ResetCache
  PROVE  IInv'
<1>1. /\ initialized /\ CanReset
      /\ residency' = [k \in Keys |-> NO_ENTRY]
      /\ emptyEntries' = AllEmpty(entryCount)
      /\ evictable' = <<>> /\ filled' = <<>>
      /\ metadata' = [e \in Index |-> DefaultFrame]
      /\ replicaValid' = [e \in Index |-> FALSE]
      /\ cacheState' = [e \in Index |-> "Empty"]
      /\ activeAccesses' = [e \in Index |-> 0]
      /\ discardWhenUnused' = [e \in Index |-> FALSE]
      /\ UNCHANGED <<managerVars, activeFallbackAccesses, accessVars, wakeVars, adminVars, memoryVars>>
  BY DEF ResetCache, Accepts
<1>2. Entries' = Entries /\ Live' = Live /\ Entries \subseteq Index
  BY <1>1 DEF Entries, Live, managerVars, accessVars, IInv, TypeOK, Index
<1>3. /\ AllEmpty(entryCount) \in Seq(Index)
      /\ IsInjective(AllEmpty(entryCount))
      /\ Range(AllEmpty(entryCount)) = Entries
  BY AllEmptyFacts DEF IInv, TypeOK, Entries
<1>4. \A a \in Live : accessStatus[a] \notin {"CacheHit", "CacheFill"}
  <2> SUFFICES ASSUME NEW a \in Live, accessStatus[a] \in {"CacheHit", "CacheFill"} PROVE FALSE
    OBVIOUS
  <2>1. entryIndex[a] \in Entries
    BY DEF IInv, AccessShape, Live
  <2>2. a \in Leases(entryIndex[a]) /\ activeAccesses[entryIndex[a]] = 0
    BY <1>1, <2>1 DEF Leases, CanReset
  <2> QED BY <1>2, <2>1, <2>2, LeasesOfEntry DEF IInv
<1>5. TypeOK'
  <2>1. metadata' \in [Index -> Frames \cup {DefaultFrame}]
    BY <1>1
  <2>2. evictable' \in Seq(Index) /\ filled' \in Seq(Index)
    BY <1>1
  <2> QED BY <1>1, <1>3, <2>1, <2>2
          DEF IInv, TypeOK, managerVars, accessVars, wakeVars, adminVars, memoryVars
<1>6. AccessShape' /\ Lifecycle' /\ UndrainedIsKnown'
  BY <1>1, <1>2 DEF IInv, AccessShape, Lifecycle, UndrainedIsKnown, managerVars, accessVars,
                    adminVars, memoryVars
<1>7. EntryShape'
  BY <1>1, <1>2 DEF IInv, EntryShape, managerVars, memoryVars
<1>8. LeaseShape'
  BY <1>1, <1>2, <1>4 DEF LeaseShape, accessVars
<1>9. LeaseAccounting'
  <2>1. (\A e : Leases(e)' = Leases(e)) /\ Fallbacks' = Fallbacks
    BY <1>1, <1>2, LeasesKept DEF accessVars
  <2>2. ASSUME NEW e \in Index PROVE activeAccesses[e] = 0
    <3>1. CASE e \in Entries
      BY <1>1, <3>1 DEF CanReset
    <3>2. CASE e \notin Entries
      BY <3>2 DEF IInv, EntryShape
    <3> QED BY <3>1, <3>2
  <2> QED BY <1>1, <2>1, <2>2 DEF IInv, LeaseAccounting
<1>10. ListsInjective'
  <2>1. IsInjective(<<>>)
    BY DEF IsInjective
  <2> QED BY <1>1, <1>3, <2>1 DEF ListsInjective
<1>11. ListsMatchEntries'
  <2>1. Range(<<>>) = {}
    BY DEF Range
  <2> QED BY <1>1, <1>2, <1>3, <1>10, <2>1 DEF ListsMatchEntries, ListsInjective
<1>12. ResidencyMatchesEntries'
  <2>1. NO_ENTRY \notin Index
    BY DEF NO_ENTRY, Index
  <2> QED BY <1>1, <2>1 DEF ResidencyMatchesEntries
<1> QED BY <1>5, <1>6, <1>7, <1>8, <1>9, <1>10, <1>11, <1>12 DEF IInv
-----------------------------------------------------------------------------
(* The invariant *)

\* A default-constructed manager satisfies the invariant.
LEMMA InitEstablishes ==
  ASSUME CacheAssumption, Init
  PROVE  IInv
<1>1. Live = {}
  BY DEF Init, Live, LivePc
<1>2. TypeOK
  <2>1. /\ DefaultConfig \in [count : 0 .. MaxEntryCount, wait : BOOLEAN, policy : {"LRU", "FIFO"}]
        /\ Idle \in Completion /\ DefaultConfig.wait \in BOOLEAN
        /\ DefaultConfig.policy \in {"LRU", "FIFO"} /\ 0 \in 0 .. MaxEntryCount
    BY DEF DefaultConfig, Idle, Completion, CacheAssumption
  <2>2. /\ residency \in [Keys -> Index \cup {NO_ENTRY}]
        /\ emptyEntries \in Seq(Index) /\ evictable \in Seq(Index) /\ filled \in Seq(Index)
        /\ cacheState \in [Index -> {"Empty", "Loading", "Valid"}]
        /\ activeAccesses \in [Index -> Nat]
        /\ metadata \in [Index -> Frames \cup {DefaultFrame}]
        /\ content \in [Index -> Frames \cup {DefaultFrame}]
    BY DEF Init
  <2>3. /\ discardWhenUnused \in [Index -> BOOLEAN]
        /\ replicaValid \in [Index -> BOOLEAN]
        /\ allocated \in [Index -> BOOLEAN]
    BY DEF Init
  <2>4. /\ pc \in [Accesses -> {"idle", "asleep"} \cup LivePc]
        /\ frame \in [Accesses -> Frames \cup {DefaultFrame}]
        /\ accessStatus \in [Accesses -> {"Invalid", "CacheHit", "CacheFill", "TaskFallback"}]
        /\ entryIndex \in [Accesses -> Index \cup {NO_ENTRY}]
        /\ completion \in [Accesses -> Completion]
    BY <2>1 DEF Init
  <2>5. /\ adminPc \in [Admins -> {"idle", "allocating", "freeing"}]
        /\ adminConfig \in [Admins -> [count : 0 .. MaxEntryCount, wait : BOOLEAN,
                                      policy : {"LRU", "FIFO"}]]
    BY <2>1 DEF Init
  <2> QED BY <2>1, <2>2, <2>3, <2>4, <2>5 DEF Init, TypeOK
<1>3. AccessShape /\ Lifecycle
  BY DEF Init, AccessShape, Lifecycle, LivePc
<1>4. EntryShape /\ LeaseShape /\ UndrainedIsKnown
  BY <1>1 DEF Init, EntryShape, LeaseShape, UndrainedIsKnown
<1>5. LeaseAccounting
  <2>1. (\A e : Leases(e) = {}) /\ Fallbacks = {}
    BY <1>1 DEF Leases, Fallbacks
  <2> QED BY <2>1, FS_EmptySet DEF Init, LeaseAccounting
<1>6. ListsInjective
  BY DEF Init, ListsInjective, IsInjective
<1>7. ListsMatchEntries /\ ResidencyMatchesEntries
  BY DEF Init, ListsMatchEntries, ResidencyMatchesEntries
<1> QED BY <1>2, <1>3, <1>4, <1>5, <1>6, <1>7 DEF IInv

\* Every step of the manager, of its leases and of its lifecycle preserves the
\* invariant.
LEMMA NextPreserves ==
  ASSUME CacheAssumption, IInv, [Next]_vars
  PROVE  IInv'
<1>1. CASE UNCHANGED vars
  <2>1. UNCHANGED <<managerVars, activeFallbackAccesses, listVars, entryVars, accessVars,
                    wakeVars, adminVars, memoryVars>>
    BY <1>1 DEF vars
  <2>2. Entries' = Entries /\ Live' = Live
    BY <2>1 DEF Entries, Live, managerVars, accessVars
  <2>3. TypeOK'
    BY <2>1 DEF IInv, TypeOK, managerVars, listVars, entryVars, accessVars, wakeVars, adminVars,
                memoryVars
  <2>4. AccessShape' /\ Lifecycle' /\ EntryShape' /\ LeaseShape' /\ UndrainedIsKnown'
    BY <2>1, <2>2 DEF IInv, AccessShape, Lifecycle, EntryShape, LeaseShape, UndrainedIsKnown,
                      managerVars, entryVars, accessVars, adminVars, memoryVars
  <2>5. LeaseAccounting'
    BY <2>1, <2>2, LeasesKept DEF IInv, LeaseAccounting, entryVars, accessVars
  <2>6. ListsInjective' /\ ListsMatchEntries' /\ ResidencyMatchesEntries'
    BY <2>1, <2>2 DEF IInv, ListsInjective, ListsMatchEntries, ResidencyMatchesEntries,
                      managerVars, listVars, entryVars
  <2> QED BY <2>3, <2>4, <2>5, <2>6 DEF IInv
<1>2. ASSUME NEW a \in Accesses, AccessNext(a) PROVE IInv'
  <2>1. CASE WakeUp(a) \/ \E f \in Frames, late \in BOOLEAN : GetCacheData(a, f, late)
    BY <2>1, GetCacheDataStep
  <2>2. CASE DeadlinePasses(a)
    BY <2>2, DeadlinePassesStep
  <2>3. ASSUME NEW submitted \in BOOLEAN, NEW ok \in BOOLEAN,
               NEW retention \in {"Keep", "Discard", "Unknown"},
               FreeCacheData(a, submitted, retention, ok)
        PROVE  IInv'
    <3> DEFINE how == [succeeded |-> submitted /\ retention # "Unknown" /\ ok,
                       retention |-> IF retention = "Unknown" THEN "Keep" ELSE retention,
                       abort |-> FALSE]
    <3>1. how \in Completion /\ (how.succeeded => submitted /\ ok)
      BY DEF Completion
    <3>2. Synchronize(a, submitted, ok, how)
      BY <2>3 DEF FreeCacheData
    <3> QED BY <3>1, <3>2, SynchronizeStep
  <2>4. ASSUME NEW submitted \in BOOLEAN, NEW ok \in BOOLEAN,
               AbortUnfinishedAccess(a, submitted, ok)
        PROVE  IInv'
    <3> DEFINE how == [Idle EXCEPT !.abort = TRUE]
    <3>1. how \in Completion /\ ~how.succeeded
      BY DEF Completion, Idle
    <3>2. Synchronize(a, submitted, ok, how)
      BY <2>4 DEF AbortUnfinishedAccess
    <3> QED BY <3>1, <3>2, SynchronizeStep
  <2>5. CASE NoteSyncFailure(a)
    BY <2>5, NoteSyncFailureStep
  <2>6. CASE EndHit(a) \/ EndFill(a) \/ EndFallback(a)
    BY <2>6, EndHitStep, EndFillStep, EndFallbackStep
  <2>7. CASE \E other \in Accesses : TakeAccess(a, other)
    BY <2>7, TakeAccessStep
  <2> QED BY <1>2, <2>1, <2>2, <2>3, <2>4, <2>5, <2>6, <2>7 DEF AccessNext
<1>3. ASSUME NEW m \in Admins, AdminNext(m) PROVE IInv'
  BY <1>3, InitializeBeginStep, InitializePublishStep, ReleaseBeginStep, ReleaseEndStep
     DEF AdminNext
<1>4. CASE ResetCache
  BY <1>4, ResetCacheStep
<1> QED BY <1>1, <1>2, <1>3, <1>4 DEF Next

\* IInv holds in every reachable state of the manager.
THEOREM Invariance == Spec => []IInv
<1>1. Init => IInv
  BY InitEstablishes, CacheAssumption
<1>2. IInv /\ [Next]_vars => IInv'
  BY NextPreserves, CacheAssumption
<1> QED BY <1>1, <1>2, PTL DEF Spec

\* What IInv says about a state, in the words of GpuDataCache.
LEMMA InvariantImplies ==
  ASSUME CacheAssumption, IInv
  PROVE  /\ FillIsExclusive /\ ReaderSeesItsFrame /\ NoFillOverUndrainedWork
         /\ UseImpliesRunning /\ DiscardIsPending
<1>1. FillIsExclusive
  <2> SUFFICES ASSUME NEW a \in Live, accessStatus[a] = "CacheFill"
               PROVE  cacheState[entryIndex[a]] = "Loading" /\ Leases(entryIndex[a]) = {a}
    BY DEF FillIsExclusive
  <2>1. cacheState[entryIndex[a]] = "Loading" /\ entryIndex[a] \in Entries /\ entryIndex[a] \in Index
    BY DEF IInv, TypeOK, LeaseShape, AccessShape, Live, Entries, Index
  <2>2. activeAccesses[entryIndex[a]] = 1
    BY <2>1 DEF IInv, EntryShape
  <2>3. a \in Leases(entryIndex[a]) /\ \A b, c \in Leases(entryIndex[a]) : b = c
    BY <2>1, <2>2, LeasesOfEntry DEF IInv, Leases
  <2> QED BY <2>1, <2>3
<1>2. ReaderSeesItsFrame
  BY DEF ReaderSeesItsFrame, IInv, TypeOK, LeaseShape, EntryShape, AccessShape, Lifecycle, Live,
         LivePc, Entries, Index
<1>3. NoFillOverUndrainedWork
  BY DEF NoFillOverUndrainedWork, IInv, LeaseShape
<1>4. UseImpliesRunning
  BY DEF UseImpliesRunning, IInv, Lifecycle, Live, LivePc, Sleepers
<1>5. DiscardIsPending
  <2> SUFFICES ASSUME NEW e \in Index, discardWhenUnused[e]
               PROVE  cacheState[e] = "Valid" /\ activeAccesses[e] > 0 /\ e \notin Range(evictable)
    BY DEF DiscardIsPending
  <2>1. cacheState[e] = "Valid" /\ activeAccesses[e] > 0
    BY DEF IInv, EntryShape
  <2>2. initialized
    BY <2>1, NobodyThere
  <2> QED BY <2>1, <2>2 DEF IInv, ListsMatchEntries
<1> QED BY <1>1, <1>2, <1>3, <1>4, <1>5

\* Every variable of the manager keeps its type.
THEOREM TypeCorrectness == Spec => []TypeOK
<1>1. IInv => TypeOK
  BY DEF IInv
<1> QED BY <1>1, Invariance, PTL

\* activeAccesses and activeFallbackAccesses count exactly the live leases.
THEOREM LeasesAreCounted == Spec => []LeaseAccounting
<1>1. IInv => LeaseAccounting
  BY DEF IInv
<1> QED BY <1>1, Invariance, PTL

\* The entry of a fill reservation belongs to its filler alone.
THEOREM FillsAreExclusive == Spec => []FillIsExclusive
<1>1. IInv => FillIsExclusive
  BY InvariantImplies, CacheAssumption
<1> QED BY <1>1, Invariance, PTL

\* A reader's buffer holds the frame it asked for, as long as its lease lives.
THEOREM ReadersSeeTheirFrames == Spec => []ReaderSeesItsFrame
<1>1. IInv => ReaderSeesItsFrame
  BY InvariantImplies, CacheAssumption
<1> QED BY <1>1, Invariance, PTL

\* No entry with undrained work is handed to a new filler.
THEOREM UndrainedWorkIsNotOvertaken == Spec => []NoFillOverUndrainedWork
<1>1. IInv => NoFillOverUndrainedWork
  BY InvariantImplies, CacheAssumption
<1> QED BY <1>1, Invariance, PTL

\* Lifecycle operations never pass a lease or a sleeper.
THEOREM LifecycleWaits == Spec => []UseImpliesRunning
<1>1. IInv => UseImpliesRunning
  BY InvariantImplies, CacheAssumption
<1> QED BY <1>1, Invariance, PTL

\* The checks of completeAccess and abortAccess always succeed.
THEOREM LeasesAlwaysEnd == Spec => []LeasesCanEnd
<1>1. IInv => LeasesCanEnd
  BY LeaseMayEnd, CacheAssumption
<1> QED BY <1>1, Invariance, PTL

\* The lists of a running manager hold exactly the entries they should.
THEOREM ListsAreExact == Spec => []ListsMatchEntries
<1>1. IInv => ListsMatchEntries
  BY DEF IInv
<1> QED BY <1>1, Invariance, PTL

\* The residency table of a running manager names exactly the entries in use.
THEOREM ResidencyIsExact == Spec => []ResidencyMatchesEntries
<1>1. IInv => ResidencyMatchesEntries
  BY DEF IInv
<1> QED BY <1>1, Invariance, PTL

\* Counts, lists, table and leases agree, in every reachable state of every
\* instance (completeAccess and abortAccess never refuse a lease).
THEOREM BookkeepingIsExact == Spec => []Bookkeeping
<1>1. LeaseAccounting /\ ListsMatchEntries /\ ResidencyMatchesEntries /\ LeasesCanEnd => Bookkeeping
  BY DEF Bookkeeping
<1> QED BY <1>1, LeasesAreCounted, ListsAreExact, ResidencyIsExact, LeasesAlwaysEnd, PTL

\* A discard that was asked for is pending until the last reader leaves.
THEOREM DiscardsStayPending == Spec => []DiscardIsPending
<1>1. IInv => DiscardIsPending
  BY InvariantImplies, CacheAssumption
<1> QED BY <1>1, Invariance, PTL
-----------------------------------------------------------------------------
(* What a step may never do *)

\* The steps that leave every entry's discard mark alone: all but the grant of
\* a fill, the end of a hit or a fill, release and reset.
LEMMA DiscardMarksKept ==
  ASSUME NEW a \in Accesses,
         \/ \E f \in Frames, late \in BOOLEAN :
              ServeHit(a, f) \/ ServeFallback(a, f, late) \/ ServeSleep(a, f, late)
                \/ ServeInvalid(a, f)
         \/ DeadlinePasses(a)
         \/ \E submitted, ok \in BOOLEAN : \E how : Synchronize(a, submitted, ok, how)
         \/ NoteSyncFailure(a)
         \/ EndFallback(a)
         \/ \E other \in Accesses : TakeAccess(a, other)
  PROVE  UNCHANGED discardWhenUnused
BY DEF ServeHit, ServeFallback, ServeSleep, ServeInvalid, DeadlinePasses, Synchronize,
       NoteSyncFailure, EndFallback, TakeAccess, entryVars

\* A discard mark disappears only when the entry is emptied.
LEMMA DiscardEndsEmpty ==
  ASSUME CacheAssumption, IInv, [Next]_vars,
         NEW e \in Index, discardWhenUnused[e], ~discardWhenUnused'[e]
  PROVE  cacheState'[e] = "Empty" /\ initialized'
<1>1. /\ cacheState[e] = "Valid" /\ activeAccesses[e] > 0 /\ activeAccesses[e] # 0
  BY DEF IInv, EntryShape, TypeOK
<1>2. initialized /\ e \in Entries
  <2>1. initialized
    BY <1>1, NobodyThere
  <2> QED BY <1>1, <2>1 DEF IInv, EntryShape
<1>3. ~CanReset
  BY <1>1, <1>2 DEF CanReset
<1>4. ~UNCHANGED discardWhenUnused
  OBVIOUS
<1>5. ~UNCHANGED vars
  BY <1>4 DEF vars, entryVars
<1>6. ASSUME NEW a \in Accesses, AccessNext(a)
      PROVE  cacheState'[e] = "Empty" /\ initialized'
  <2>1. ASSUME NEW f \in Frames, ServeFill(a, f) PROVE FALSE
    <3>1. PICK c \in Candidates : discardWhenUnused' = [discardWhenUnused EXCEPT ![c] = FALSE]
      BY <2>1 DEF ServeFill
    <3>2. c \in Index /\ activeAccesses[c] = 0
      BY <1>2, CandidateFacts
    <3>3. e # c
      BY <1>1, <3>2
    <3> QED BY <3>1, <3>3 DEF IInv, TypeOK
  <2>2. CASE EndHit(a) \/ EndFill(a)
    <3>1. /\ UNCHANGED managerVars
          /\ pc[a] = "drained" /\ accessStatus[a] \in {"CacheHit", "CacheFill"}
      BY <2>2 DEF EndHit, EndFill
    <3>2. a \in Live /\ entryIndex[a] \in Index
      BY <3>1 DEF Live, LivePc, IInv, TypeOK, AccessShape, Entries, Index
    <3>3. CASE ResetEntry(entryIndex[a])
      BY <1>2, <3>1, <3>2, <3>3 DEF ResetEntry, managerVars, IInv, TypeOK
    <3>4. CASE ~ResetEntry(entryIndex[a])
      <4>1. CASE EndHit(a)
        <5> DEFINE d == entryIndex[a]
                   mark == DiscardAsked(d, completion[a].retention = "Discard")
        <5>1. \/ discardWhenUnused' = [discardWhenUnused EXCEPT ![d] = mark]
              \/ UNCHANGED discardWhenUnused
          BY <3>4, <4>1 DEF EndHit, EndRead, LeaveEntriesAlone, entryVars
        <5>2. discardWhenUnused[d] => mark
          BY DEF DiscardAsked
        <5> HIDE DEF mark, d
        <5> QED BY <1>4, <5>1, <5>2 DEF IInv, TypeOK
      <4>2. CASE EndFill(a)
        BY <1>4, <3>4, <4>2 DEF EndFill, Publish, LeaveEntriesAlone, entryVars
      <4> QED BY <2>2, <4>1, <4>2
    <3> QED BY <3>3, <3>4
  <2>3. CASE WakeUp(a) \/ \E f \in Frames, late \in BOOLEAN : GetCacheData(a, f, late)
    <3>1. PICK f \in Frames, late \in BOOLEAN :
            ServeHit(a, f) \/ ServeFill(a, f) \/ ServeFallback(a, f, late)
              \/ ServeSleep(a, f, late) \/ ServeInvalid(a, f)
      <4>1. WakeUp(a) => frame[a] \in Frames
        BY DEF WakeUp, IInv, AccessShape
      <4>2. (a \in expired) \in BOOLEAN
        OBVIOUS
      <4> QED BY <2>3, <4>1, <4>2 DEF WakeUp, GetCacheData
    <3> QED BY <1>4, <2>1, <3>1, DiscardMarksKept
  <2> QED BY <1>4, <1>6, <2>2, <2>3, DiscardMarksKept
          DEF AccessNext, FreeCacheData, AbortUnfinishedAccess
<1>7. ASSUME NEW m \in Admins, AdminNext(m) PROVE FALSE
  <2>1. ~\E freed \in SUBSET {d \in Entries : allocated[d]} : ReleaseEnd(m, freed)
    BY <1>2 DEF ReleaseEnd, IInv, Lifecycle
  <2> QED BY <1>3, <1>4, <1>7, <2>1
          DEF AdminNext, InitializeBegin, InitializeFail, InitializePublish, ReleaseBegin, entryVars
<1>8. ~ResetCache
  BY <1>3 DEF ResetCache
<1> QED BY <1>5, <1>6, <1>7, <1>8 DEF Next

\* Only the end of a hit, a fill or a fallback takes an access from drained to
\* idle.
LEMMA EndIsEnd ==
  ASSUME IInv, [Next]_vars, NEW a \in Accesses, pc[a] = "drained", pc'[a] = "idle"
  PROVE  EndHit(a) \/ EndFill(a) \/ EndFallback(a)
<1>1. pc'[a] # pc[a]
  OBVIOUS
<1>2. ~UNCHANGED pc
  BY <1>1
<1>3. ~UNCHANGED vars
  BY <1>2 DEF vars, accessVars
<1>4. ASSUME NEW b \in Accesses, AccessNext(b)
      PROVE  EndHit(a) \/ EndFill(a) \/ EndFallback(a)
  <2>1. CASE EndHit(b) \/ EndFill(b) \/ EndFallback(b)
    <3>1. pc' = [pc EXCEPT ![b] = "idle"]
      BY <2>1 DEF EndHit, EndFill, EndFallback, ResetAccess
    <3>2. a = b
      BY <1>1, <3>1 DEF IInv, TypeOK
    <3> QED BY <2>1, <3>2
  <2>2. ASSUME NEW s, NEW ok, NEW how, Synchronize(b, s, ok, how) PROVE FALSE
    BY <2>2 DEF Synchronize, AfterSync, IInv, TypeOK
  <2>3. ~NoteSyncFailure(b)
    BY DEF NoteSyncFailure, IInv, TypeOK
  <2>4. ASSUME NEW other \in Accesses, TakeAccess(b, other) PROVE FALSE
    BY <2>4 DEF TakeAccess, Move, IInv, TypeOK
  <2>5. ~DeadlinePasses(b)
    BY <1>2 DEF DeadlinePasses, accessVars
  <2>6. ASSUME NEW f, NEW late,
               ServeHit(b, f) \/ ServeFill(b, f) \/ ServeFallback(b, f, late)
                 \/ ServeSleep(b, f, late) \/ ServeInvalid(b, f),
               pc[b] # "drained"
        PROVE  FALSE
    <3>1. \E p \in {"idle", "held", "asleep"} : pc' = [pc EXCEPT ![b] = p]
      BY <2>6 DEF ServeHit, ServeFill, ServeFallback, ServeSleep, ServeInvalid, Leaves
    <3> QED BY <1>1, <2>6, <3>1 DEF IInv, TypeOK
  <2>7. ~WakeUp(b)
    BY <2>6 DEF WakeUp
  <2>8. ASSUME NEW f \in Frames, NEW late \in BOOLEAN PROVE ~GetCacheData(b, f, late)
    BY <2>6 DEF GetCacheData
  <2> QED BY <1>4, <2>1, <2>2, <2>3, <2>4, <2>5, <2>7, <2>8
          DEF AccessNext, FreeCacheData, AbortUnfinishedAccess
<1>5. ASSUME NEW m \in Admins PROVE ~AdminNext(m)
  BY <1>2 DEF AdminNext, InitializeBegin, InitializeFail, InitializePublish, ReleaseBegin,
              ReleaseEnd, accessVars
<1>6. ~ResetCache
  BY <1>2 DEF ResetCache, accessVars
<1> QED BY <1>3, <1>4, <1>5, <1>6 DEF Next

\* A lease that ends with a discard leaves its entry marked or empty.
LEMMA DiscardIsHonoured ==
  ASSUME CacheAssumption, IInv, [Next]_vars, NEW a \in Accesses, EndsWithDiscard(a)
  PROVE  discardWhenUnused'[entryIndex[a]] \/ cacheState'[entryIndex[a]] = "Empty"
<1> DEFINE e == entryIndex[a]
<1>1. a \in Live /\ e \in Index
  BY DEF EndsWithDiscard, Live, LivePc, IInv, TypeOK, AccessShape, Entries, Index
<1>2. EndHit(a) \/ EndFill(a)
  BY EndIsEnd DEF EndsWithDiscard, EndFallback
<1>3. ResetEntry(e) => cacheState'[e] = "Empty"
  BY <1>1 DEF ResetEntry, IInv, TypeOK
<1>4. CASE EndHit(a)
  <2>1. ReaderMayEnd(a)
    BY <1>1, <1>4, LeaseMayEnd DEF EndHit, LeasesCanEnd
  <2>2. DiscardAsked(e, completion[a].retention = "Discard")
    BY DEF DiscardAsked, EndsWithDiscard
  <2>3. \/ ResetEntry(e)
        \/ discardWhenUnused' =
             [discardWhenUnused EXCEPT ![e] = DiscardAsked(e, completion[a].retention = "Discard")]
    BY <1>4, <2>1, <2>2 DEF EndHit, EndRead
  <2> QED BY <1>1, <1>3, <2>2, <2>3 DEF IInv, TypeOK
<1>5. CASE EndFill(a)
  <2>1. FillMayEnd(a)
    BY <1>1, <1>5, LeaseMayEnd DEF EndFill, LeasesCanEnd
  <2>2. ~KeepFill(a)
    BY DEF KeepFill, EndsWithDiscard
  <2> QED BY <1>3, <1>5, <2>1, <2>2 DEF EndFill
<1> QED BY <1>2, <1>4, <1>5

\* A discard that is asked for happens: a lease that ends with one leaves its
\* entry empty or marked, and the mark disappears only together with the entry's
\* payload and key.
THEOREM DiscardsAreFinal == Spec => DiscardIsFinal
<1>1. IInv /\ [Next]_vars =>
        [\A a \in Accesses : EndsWithDiscard(a) =>
            discardWhenUnused'[entryIndex[a]] \/ cacheState'[entryIndex[a]] = "Empty"]_vars
  BY DiscardIsHonoured, CacheAssumption
<1>2. IInv /\ [Next]_vars =>
        [\A e \in Index : discardWhenUnused[e] /\ ~discardWhenUnused'[e] =>
            cacheState'[e] = "Empty" /\ \A k \in Keys : residency'[k] # e]_vars
  <2> SUFFICES ASSUME IInv, [Next]_vars,
                      NEW e \in Index, discardWhenUnused[e], ~discardWhenUnused'[e]
               PROVE  cacheState'[e] = "Empty" /\ \A k \in Keys : residency'[k] # e
    OBVIOUS
  <2>1. cacheState'[e] = "Empty" /\ initialized'
    BY DiscardEndsEmpty, CacheAssumption
  <2>2. IInv'
    BY NextPreserves, CacheAssumption
  <2> QED BY <2>1, <2>2 DEF IInv, ResidencyMatchesEntries, Index
<1>3. IInv /\ [Next]_vars =>
        [/\ \A a \in Accesses : EndsWithDiscard(a) =>
              discardWhenUnused'[entryIndex[a]] \/ cacheState'[entryIndex[a]] = "Empty"
         /\ \A e \in Index : discardWhenUnused[e] /\ ~discardWhenUnused'[e] =>
              cacheState'[e] = "Empty" /\ \A k \in Keys : residency'[k] # e]_vars
  BY <1>1, <1>2
<1> QED BY <1>3, Invariance, PTL DEF Spec, DiscardIsFinal

\* A failed manager grants no lease.
LEMMA NoLeaseWhileFailed ==
  ASSUME CacheAssumption, IInv, [Next]_vars, failed
  PROVE  Cardinality(Live') <= Cardinality(Live)
<1>1. IsFiniteSet(Live) /\ Cardinality(Live) \in Nat
  <2>1. Live \subseteq Accesses /\ IsFiniteSet(Accesses)
    BY DEF Live, CacheAssumption
  <2> QED BY <2>1, FS_Subset, FS_CardinalityType
<1>2. ASSUME Live' \subseteq Live PROVE Cardinality(Live') <= Cardinality(Live)
  BY <1>1, <1>2, FS_Subset
<1>3. ASSUME pc' = pc PROVE Live' \subseteq Live
  BY <1>3 DEF Live
<1>4. ASSUME NEW a \in Accesses, NEW to, pc' = [pc EXCEPT ![a] = to], pc[a] \in LivePc \/ to \notin LivePc
      PROVE  Live' \subseteq Live
  BY <1>4 DEF Live, IInv, TypeOK
<1>5. ASSUME NEW a \in Accesses, AccessNext(a) PROVE Cardinality(Live') <= Cardinality(Live)
  <2>1. CASE WakeUp(a) \/ \E f \in Frames, late \in BOOLEAN : GetCacheData(a, f, late)
    <3>1. \E f : ServeInvalid(a, f)
      BY <2>1 DEF WakeUp, GetCacheData, Accepts, ServeHit, ServeFill, ServeFallback, ServeSleep
    <3>2. pc' = [pc EXCEPT ![a] = "idle"] /\ "idle" \notin LivePc
      BY <3>1 DEF ServeInvalid, Leaves, LivePc
    <3> QED BY <1>2, <1>4, <3>2
  <2>2. CASE DeadlinePasses(a)
    BY <1>2, <1>3, <2>2 DEF DeadlinePasses, accessVars
  <2>3. CASE \E submitted, ok, how : Synchronize(a, submitted, ok, how)
    <3>1. pc[a] \in LivePc /\ \E to : pc' = [pc EXCEPT ![a] = to]
      BY <2>3 DEF Synchronize, LivePc
    <3> QED BY <1>2, <1>4, <3>1
  <2>4. CASE NoteSyncFailure(a) \/ EndHit(a) \/ EndFill(a) \/ EndFallback(a)
    <3>1. pc[a] \in LivePc /\ \E to : pc' = [pc EXCEPT ![a] = to]
      BY <2>4 DEF NoteSyncFailure, EndHit, EndFill, EndFallback, ResetAccess, LivePc
    <3> QED BY <1>2, <1>4, <3>1
  <2>5. ASSUME NEW other \in Accesses, TakeAccess(a, other)
        PROVE  Cardinality(Live') <= Cardinality(Live)
    <3>1. /\ pc[a] = "idle" /\ pc[other] = "held"
          /\ pc' = [pc EXCEPT ![a] = "held", ![other] = "idle"]
      BY <2>5 DEF TakeAccess, Move
    <3>2. Live' = (Live \ {other}) \cup {a} /\ other \in Live /\ a \notin Live
      BY <3>1 DEF IInv, TypeOK, Live, LivePc
    <3>3. IsFiniteSet(Live \ {other}) /\ Cardinality(Live \ {other}) = Cardinality(Live) - 1
      BY <1>1, <3>2, FS_RemoveElement
    <3>4. Cardinality(Live') = Cardinality(Live \ {other}) + 1
      BY <3>2, <3>3, FS_AddElement
    <3> QED BY <1>1, <3>3, <3>4
  <2> QED BY <1>5, <2>1, <2>2, <2>3, <2>4, <2>5
          DEF AccessNext, FreeCacheData, AbortUnfinishedAccess
<1>6. ASSUME NEW m \in Admins, AdminNext(m) PROVE pc' = pc
  BY <1>6 DEF AdminNext, InitializeBegin, InitializeFail, InitializePublish, ReleaseBegin,
              ReleaseEnd, accessVars
<1>7. ResetCache => pc' = pc
  BY DEF ResetCache, accessVars
<1>8. UNCHANGED vars => pc' = pc
  BY DEF vars, accessVars
<1> QED BY <1>2, <1>3, <1>5, <1>6, <1>7, <1>8 DEF Next

\* Only a release that freed every allocation clears a failure.
LEMMA FailureEndsFreed ==
  ASSUME CacheAssumption, IInv, [Next]_vars, failed, ~failed'
  PROVE  \A e \in Index : ~allocated'[e]
<1>1. ~UNCHANGED failed
  OBVIOUS
<1>2. ASSUME NEW a \in Accesses, AccessNext(a) PROVE FALSE
  <2>1. CASE WakeUp(a) \/ \E f \in Frames, late \in BOOLEAN : GetCacheData(a, f, late)
    <3>1. \E f, late : ServeHit(a, f) \/ ServeFill(a, f) \/ ServeFallback(a, f, late)
                         \/ ServeSleep(a, f, late) \/ ServeInvalid(a, f)
      BY <2>1 DEF WakeUp, GetCacheData
    <3> QED BY <1>1, <3>1
            DEF ServeHit, ServeFill, ServeFallback, ServeSleep, ServeInvalid, managerVars
  <2>2. CASE ~(WakeUp(a) \/ \E f \in Frames, late \in BOOLEAN : GetCacheData(a, f, late))
    BY <1>1, <1>2, <2>2
       DEF AccessNext, DeadlinePasses, FreeCacheData, AbortUnfinishedAccess, Synchronize,
           NoteSyncFailure, EndHit, EndFill, EndFallback, TakeAccess, managerVars
  <2> QED BY <2>1, <2>2
<1>3. ASSUME NEW m \in Admins, AdminNext(m) PROVE \A e \in Index : ~allocated'[e]
  <2>1. ~ManagerEmpty
    BY DEF ManagerEmpty, IInv, Lifecycle
  <2>2. PICK freed \in SUBSET {e \in Entries : allocated[e]} : ReleaseEnd(m, freed)
    BY <1>1, <1>3, <2>1
       DEF AdminNext, InitializeBegin, InitializeFail, InitializePublish, ReleaseBegin, managerVars
  <2>3. AllReleased(freed)
    BY <1>1, <2>2 DEF ReleaseEnd
  <2>4. allocated' = [e \in Index |-> allocated[e] /\ e \notin freed]
    BY <2>2 DEF ReleaseEnd, FreeEntries
  <2> QED BY <2>3, <2>4 DEF AllReleased, IInv, EntryShape
<1>4. ~ResetCache /\ ~UNCHANGED vars
  BY <1>1 DEF ResetCache, vars, managerVars
<1> QED BY <1>2, <1>3, <1>4 DEF Next

\* A failed manager stays failed, and grants no lease, until release has freed
\* every allocation.
THEOREM FailuresAreSticky == Spec => FailureIsSticky
<1>1. IInv /\ [Next]_vars =>
        [failed => /\ ~failed' => \A e \in Index : ~allocated'[e]
                   /\ Cardinality(Live') <= Cardinality(Live)]_vars
  BY FailureEndsFreed, NoLeaseWhileFailed, CacheAssumption
<1> QED BY <1>1, Invariance, PTL DEF Spec, FailureIsSticky
-----------------------------------------------------------------------------
(* Requests *)

\* A non-empty set of positions has a first one.
LEMMA FirstPosition ==
  ASSUME NEW T, T \subseteq Nat, T # {}
  PROVE  \E x \in T : \A y \in T : x <= y
<1> DEFINE R == {p \in Nat \X Nat : p[1] < p[2]}
<1>1. PICK x \in T : \A y \in T : ~(<<y, x>> \in R)
  <2>1. IsWellFoundedOn(R, Nat)
    BY NatLessThanWellFounded DEF OpToRel
  <2> HIDE DEF R
  <2> QED BY <2>1, WFMin
<1>2. \A y \in T : ~(y < x)
  <2> TAKE y \in T
  <2>1. x \in Nat /\ y \in Nat
    OBVIOUS
  <2> QED BY <1>1, <2>1 DEF R
<1> QED BY <1>2

\* takeCandidate comes back with nothing exactly when no entry is empty or
\* idle: the walk along the fill order always finds an idle entry if there is
\* one.
LEMMA NoCandidate ==
  ASSUME CacheAssumption, IInv, initialized
  PROVE  Candidates = {} <=> NothingFree
<1>1. /\ Range(emptyEntries) = {e \in Entries : cacheState[e] = "Empty"}
      /\ Range(evictable) = {e \in Entries : cacheState[e] = "Valid" /\ activeAccesses[e] = 0}
      /\ Range(filled) = {e \in Entries : cacheState[e] = "Valid" /\ evictionPolicy = "FIFO"}
  BY DEF IInv, ListsMatchEntries
<1>2. emptyEntries \in Seq(Index) /\ evictable \in Seq(Index) /\ filled \in Seq(Index)
  BY DEF IInv, TypeOK
<1>3. NothingFree => Candidates = {}
  BY CandidateFacts DEF NothingFree, IInv, EntryShape
<1>4. ASSUME Candidates = {} PROVE NothingFree
  <2>1. emptyEntries = <<>> /\ Victims = {}
    BY <1>4 DEF Candidates
  <2>2. Range(emptyEntries) = {}
    BY <2>1 DEF Range
  <2>3. evictable = <<>>
    <3>1. SUFFICES ASSUME evictable # <<>> PROVE FALSE
      OBVIOUS
    <3>2. evictionPolicy = "FIFO" /\ FirstIdleFilled \cap Range(evictable) = {}
      BY <2>1, <3>1 DEF Victims
    <3> DEFINE T == {j \in DOMAIN filled : activeAccesses[filled[j]] = 0}
    <3>3. T \subseteq Nat
      BY <1>2
    <3>4. T # {}
      <4>1. evictable[1] \in Range(evictable)
        BY <1>2, <3>1 DEF Range
      <4>2. evictable[1] \in Range(filled) /\ activeAccesses[evictable[1]] = 0
        BY <1>1, <3>2, <4>1
      <4> QED BY <4>2 DEF Range
    <3>5. PICK j \in T : \A k \in T : j <= k
      <4> HIDE DEF T
      <4> QED BY <3>3, <3>4, FirstPosition
    <3>6. \A k \in 1 .. j - 1 : activeAccesses[filled[k]] # 0
      <4> TAKE k \in 1 .. j - 1
      <4>1. j \in 1 .. Len(filled) /\ Len(filled) \in Nat
        BY <1>2
      <4>2. k \in DOMAIN filled /\ ~(j <= k)
        BY <1>2, <4>1
      <4> QED BY <3>5, <4>2
    <3>7. filled[j] \in FirstIdleFilled
      BY <3>6 DEF FirstIdleFilled
    <3>8. filled[j] \in Range(filled) /\ activeAccesses[filled[j]] = 0
      BY DEF Range
    <3> QED BY <1>1, <3>2, <3>7, <3>8
  <2>4. Range(evictable) = {}
    BY <2>3 DEF Range
  <2> QED BY <1>1, <2>2, <2>4 DEF NothingFree
<1> QED BY <1>3, <1>4

\* Blocked in terms of the entries.
LEMMA BlockedMeans ==
  ASSUME CacheAssumption, IInv, initialized, NEW f
  PROVE  Blocked(f) <=> StillBlocked(f)
BY NoCandidate DEF Blocked, BlockedFull, StillBlocked

\* A step that neither publishes, empties nor frees an entry, and after which
\* the unnotified sleepers are old ones, leaves them blocked.
LEMMA StuckKept ==
  ASSUME SleepersStuck, failed' = failed, entryCount' = entryCount,
         \A b \in Sleepers' \ notified' : b \in Sleepers \ notified /\ frame'[b] = frame[b],
         UNCHANGED <<residency, metadata, cacheState>>,
         \A e \in Entries : activeAccesses'[e] = 0 => activeAccesses[e] = 0
  PROVE  SleepersStuck'
BY DEF SleepersStuck, StillBlocked, BlockedLoading, Matching, Resident, NothingFree, Entries

\* Nobody sleeps unnotified after a notify_all.
LEMMA StuckNotified ==
  ASSUME Sleepers' \subseteq Sleepers, NotifyAll
  PROVE  SleepersStuck'
BY DEF SleepersStuck, NotifyAll

\* Serving one request leaves the others blocked: a reservation finds nothing
\* to reserve while somebody waits for room, and never takes an entry that
\* another filler is loading.
LEMMA ServeKeepsStuck ==
  ASSUME CacheAssumption, IInv, SleepersStuck, initialized, NEW a \in Accesses, NEW f \in Frames,
         NEW late, pc[a] \in {"idle", "asleep"},
         \/ ServeHit(a, f)
         \/ ServeFill(a, f)
         \/ ServeFallback(a, f, late)
         \/ ServeSleep(a, f, late)
         \/ ServeInvalid(a, f)
  PROVE  SleepersStuck'
<1>1. pc \in [Accesses -> {"idle", "asleep"} \cup LivePc] /\ frame \in [Accesses -> Frames \cup {DefaultFrame}]
  BY DEF IInv, TypeOK
<1>2. ASSUME NEW status \in {"Invalid", "CacheHit", "CacheFill", "TaskFallback"}, NEW e,
             Leaves(a, f, status, e), notified \ {a} \subseteq notified'
      PROVE  \A b \in Sleepers' \ notified' : b \in Sleepers \ notified /\ frame'[b] = frame[b]
  BY <1>1, <1>2 DEF Leaves, Sleepers, LivePc
<1>3. CASE ServeHit(a, f)
  <2>1. \A e \in Entries : activeAccesses'[e] = 0 => activeAccesses[e] = 0
    BY <1>3 DEF ServeHit, IInv, TypeOK, Entries, Index
  <2>2. \A b \in Sleepers' \ notified' : b \in Sleepers \ notified /\ frame'[b] = frame[b]
    BY <1>2, <1>3 DEF ServeHit
  <2> QED BY <1>3, <2>1, <2>2, StuckKept DEF ServeHit, managerVars
<1>4. CASE ServeFill(a, f)
  <2>1. PICK c \in Candidates :
          /\ residency' = [k \in Keys |-> IF k = f.key THEN c
                                          ELSE IF k \in ErasedKeys(c) THEN NO_ENTRY
                                          ELSE residency[k]]
          /\ metadata' = [metadata EXCEPT ![c] = f]
          /\ cacheState' = [cacheState EXCEPT ![c] = "Loading"]
          /\ Leaves(a, f, "CacheFill", c)
    BY <1>4 DEF ServeFill
  <2>2. \A b \in Sleepers' \ notified' : b \in Sleepers \ notified /\ frame'[b] = frame[b]
    BY <1>2, <1>4, <2>1 DEF ServeFill
  <2>3. /\ c \in Index /\ c \in Entries
        /\ emptyEntries = <<>> => cacheState[c] = "Valid"
        /\ cacheState[c] # "Loading"
    BY CandidateFacts
  <2>4. failed' = failed /\ Entries' = Entries /\ ~Resident(f)
    BY <1>4 DEF ServeFill, managerVars, CanFill, Entries
  <2> SUFFICES ASSUME NEW b \in Sleepers' \ notified' PROVE ~failed' /\ StillBlocked(frame[b])'
    BY DEF SleepersStuck
  <2> DEFINE g == frame[b]
  <2>5. ~failed /\ StillBlocked(g) /\ g \in Frames
    BY <2>2 DEF SleepersStuck, Sleepers, IInv, AccessShape
  <2>6. BlockedLoading(g)
    BY <2>5, NoCandidate DEF StillBlocked
  <2>7. g.key \in Keys /\ f.key \in Keys
    BY <2>5 DEF Frames
  <2>8. residency[g.key] \in Index /\ residency[g.key] # c /\ g.key # f.key
    BY <2>3, <2>4, <2>6, <2>7 DEF BlockedLoading, Matching, Resident, Entries, IInv, TypeOK, NO_ENTRY
  <2>9. g.key \notin ErasedKeys(c)
    <3>1. SUFFICES ASSUME emptyEntries = <<>>, g.key = metadata[c].key PROVE FALSE
      BY DEF ErasedKeys
    <3> QED BY <2>3, <2>7, <2>8, <3>1 DEF IInv, ResidencyMatchesEntries
  <2>10. /\ residency'[g.key] = residency[g.key]
         /\ metadata'[residency[g.key]] = metadata[residency[g.key]]
         /\ cacheState'[residency[g.key]] = cacheState[residency[g.key]]
    BY <2>1, <2>7, <2>8, <2>9 DEF IInv, TypeOK
  <2>11. frame'[b] = g
    BY <2>2
  <2> HIDE DEF g
  <2> QED BY <2>4, <2>5, <2>6, <2>10, <2>11
          DEF StillBlocked, BlockedLoading, Matching, Resident
<1>5. CASE ServeFallback(a, f, late)
  <2>1. \A b \in Sleepers' \ notified' : b \in Sleepers \ notified /\ frame'[b] = frame[b]
    BY <1>2, <1>5 DEF ServeFallback
  <2> QED BY <1>5, <2>1, StuckKept DEF ServeFallback, managerVars, listVars, entryVars
<1>6. CASE ServeSleep(a, f, late)
  <2>1. /\ \A b \in Sleepers' \ notified' : frame'[b] = IF b = a THEN f ELSE frame[b]
        /\ \A b \in Sleepers' \ notified' : b # a => b \in Sleepers \ notified
    BY <1>1, <1>6 DEF ServeSleep, Sleepers
  <2>2. ~failed /\ StillBlocked(f)
    BY <1>6, BlockedMeans DEF ServeSleep
  <2>3. /\ failed' = failed
        /\ UNCHANGED <<residency, metadata, cacheState, activeAccesses>> /\ Entries' = Entries
    BY <1>6 DEF ServeSleep, managerVars, listVars, entryVars, Entries
  <2>4. \A g : StillBlocked(g) => StillBlocked(g)'
    BY <2>3 DEF StillBlocked, BlockedLoading, Matching, Resident, NothingFree
  <2> QED BY <2>1, <2>2, <2>3, <2>4 DEF SleepersStuck, StillBlocked, BlockedLoading, Matching, Resident, NothingFree
<1>7. CASE ServeInvalid(a, f)
  <2>1. notified \ {a} \subseteq notified'
    BY <1>7 DEF ServeInvalid, RestoreCandidate
  <2>2. \A b \in Sleepers' \ notified' : b \in Sleepers \ notified /\ frame'[b] = frame[b]
    BY <1>2, <1>7, <2>1 DEF ServeInvalid
  <2> QED BY <1>7, <2>2, StuckKept DEF ServeInvalid, managerVars, entryVars
<1> QED BY <1>3, <1>4, <1>5, <1>6, <1>7

\* The end of a lease: whatever could serve a sleeper comes with a notify_all.
LEMMA EndKeepsStuck ==
  ASSUME CacheAssumption, IInv, SleepersStuck, NEW a \in Accesses, EndHit(a) \/ EndFill(a) \/ EndFallback(a)
  PROVE  SleepersStuck'
<1> DEFINE e == entryIndex[a]
<1>1. pc[a] = "drained" /\ ResetAccess(a)
  BY DEF EndHit, EndFill, EndFallback
<1>2. Sleepers' = Sleepers /\ \A b \in Sleepers : frame'[b] = frame[b]
  BY <1>1 DEF ResetAccess, Sleepers, IInv, TypeOK
<1>3. a \in Live
  BY <1>1 DEF Live, LivePc
<1>4. CASE EndHit(a)
  <2>1. EndRead(e, completion[a].retention = "Discard")
    BY <1>3, <1>4, LeaseMayEnd DEF EndHit, LeasesCanEnd
  <2>2. CASE activeAccesses[e] > 1
    <3>1. activeAccesses' = [activeAccesses EXCEPT ![e] = @ - 1]
      BY <2>1, <2>2 DEF EndRead
    <3>2. UNCHANGED <<listVars, cacheState, metadata, notified>>
      BY <2>1, <2>2 DEF EndRead
    <3>3. \A d \in Entries : activeAccesses'[d] = 0 => activeAccesses[d] = 0
      BY <2>2, <3>1 DEF IInv, TypeOK, Entries, Index
    <3>4. failed' = failed /\ entryCount' = entryCount
      BY <1>4 DEF EndHit, managerVars
    <3> QED BY <1>2, <3>2, <3>3, <3>4, StuckKept DEF listVars
  <2>3. CASE ~(activeAccesses[e] > 1)
    <3>1. NotifyAll
      BY <2>1, <2>3 DEF EndRead, ResetEntry
    <3> QED BY <1>2, <3>1, StuckNotified
  <2> QED BY <2>2, <2>3
<1>5. CASE EndFill(a)
  <2>1. Publish(e) \/ ResetEntry(e)
    BY <1>3, <1>5, LeaseMayEnd DEF EndFill, LeasesCanEnd
  <2> QED BY <1>2, <2>1, StuckNotified DEF Publish, ResetEntry
<1>6. CASE EndFallback(a)
  <2>1. UNCHANGED <<residency, metadata, cacheState, activeAccesses, notified, failed, entryCount>>
    BY <1>6 DEF EndFallback, managerVars, listVars, entryVars, wakeVars
  <2> QED BY <1>2, <2>1, StuckKept
<1> QED BY <1>4, <1>5, <1>6

\* Lifecycle calls meet no sleeper.
LEMMA AdminKeepsStuck ==
  ASSUME CacheAssumption, IInv, SleepersStuck, ResetCache \/ \E m \in Admins : AdminNext(m)
  PROVE  SleepersStuck'
<1>1. ~initialized => Sleepers = {}
  BY DEF IInv, Lifecycle, Sleepers
<1>2. CASE ResetCache
  <2>1. Sleepers = {} /\ pc' = pc
    BY <1>2 DEF ResetCache, CanReset, accessVars
  <2> QED BY <2>1 DEF SleepersStuck, Sleepers
<1>3. ASSUME NEW m \in Admins, AdminNext(m) PROVE SleepersStuck'
  <2>1. pc' = pc /\ frame' = frame /\ notified' = notified
    BY <1>3 DEF AdminNext, InitializeBegin, InitializeFail, InitializePublish, ReleaseBegin, ReleaseEnd,
                accessVars, wakeVars
  <2>2. CASE Sleepers = {}
    BY <2>1, <2>2 DEF SleepersStuck, Sleepers
  <2>3. CASE Sleepers # {}
    <3>1. initialized /\ ~releasing /\ ~ManagerEmpty
      BY <1>1, <2>3 DEF ManagerEmpty, IInv, Lifecycle
    <3>2. ~\E freed : ReleaseEnd(m, freed)
      BY <3>1 DEF ReleaseEnd, IInv, Lifecycle
    <3>3. ~ReleaseBegin(m)
      BY <2>3 DEF ReleaseBegin, CanReset
    <3>4. UNCHANGED <<residency, metadata, cacheState, activeAccesses, failed, entryCount>>
      BY <1>3, <3>1, <3>2, <3>3
         DEF AdminNext, InitializeBegin, InitializeFail, InitializePublish, managerVars, listVars, entryVars
    <3>5. Sleepers' = Sleepers
      BY <2>1 DEF Sleepers
    <3> QED BY <2>1, <3>4, <3>5, StuckKept
  <2> QED BY <2>2, <2>3
<1> QED BY <1>2, <1>3

\* Every step leaves the sleepers that nobody notified blocked.
LEMMA NextKeepsStuck ==
  ASSUME CacheAssumption, IInv, SleepersStuck, [Next]_vars
  PROVE  SleepersStuck'
<1>1. CASE UNCHANGED vars
  <2>1. UNCHANGED <<residency, metadata, cacheState, activeAccesses, failed, entryCount, notified, pc, frame>>
    BY <1>1 DEF vars, managerVars, listVars, entryVars, accessVars, wakeVars
  <2>2. Sleepers' = Sleepers
    BY <2>1 DEF Sleepers
  <2> QED BY <2>1, <2>2, StuckKept
<1>2. ASSUME NEW a \in Accesses, AccessNext(a) PROVE SleepersStuck'
  <2>1. ASSUME NEW f \in Frames, NEW late \in BOOLEAN, GetCacheData(a, f, late) PROVE SleepersStuck'
    <3>1. pc[a] = "idle" /\ initialized
      BY <2>1 DEF GetCacheData, Accepts
    <3> QED BY <2>1, <3>1, ServeKeepsStuck DEF GetCacheData
  <2>2. CASE WakeUp(a)
    <3>1. pc[a] = "asleep" /\ initialized /\ frame[a] \in Frames
      BY <2>2 DEF WakeUp, IInv, Lifecycle, AccessShape
    <3> DEFINE late == a \in expired
    <3>2. \/ ServeHit(a, frame[a]) \/ ServeFill(a, frame[a]) \/ ServeFallback(a, frame[a], late)
          \/ ServeSleep(a, frame[a], late) \/ ServeInvalid(a, frame[a])
      BY <2>2 DEF WakeUp
    <3> HIDE DEF late
    <3> QED BY <3>1, <3>2, ServeKeepsStuck
  <2>3. CASE DeadlinePasses(a)
    <3>1. UNCHANGED <<residency, metadata, cacheState, activeAccesses, failed, entryCount, notified, pc, frame>>
      BY <2>3 DEF DeadlinePasses, managerVars, listVars, entryVars, accessVars
    <3>2. Sleepers' = Sleepers
      BY <3>1 DEF Sleepers
    <3> QED BY <3>1, <3>2, StuckKept
  <2>4. ASSUME NEW submitted, NEW ok, NEW how, Synchronize(a, submitted, ok, how)
        PROVE  SleepersStuck'
    <3>1. UNCHANGED <<residency, metadata, cacheState, activeAccesses, failed, entryCount, notified, frame>>
      BY <2>4 DEF Synchronize, managerVars, listVars, entryVars, wakeVars
    <3>2. pc' = [pc EXCEPT ![a] = AfterSync(ok)] /\ pc[a] = "held"
      BY <2>4 DEF Synchronize
    <3>3. AfterSync(ok) # "asleep"
      BY DEF AfterSync
    <3>4. Sleepers' = Sleepers
      BY <3>2, <3>3 DEF Sleepers, IInv, TypeOK
    <3> QED BY <3>1, <3>4, StuckKept
  <2>5. CASE NoteSyncFailure(a)
    <3>1. Sleepers' = Sleepers
      BY <2>5 DEF NoteSyncFailure, Sleepers, IInv, TypeOK
    <3> QED BY <2>5, <3>1, StuckNotified DEF NoteSyncFailure
  <2>6. CASE EndHit(a) \/ EndFill(a) \/ EndFallback(a)
    BY <2>6, EndKeepsStuck
  <2>7. ASSUME NEW other \in Accesses, TakeAccess(a, other) PROVE SleepersStuck'
    <3>1. UNCHANGED <<residency, metadata, cacheState, activeAccesses, failed, entryCount, notified>>
      BY <2>7 DEF TakeAccess, managerVars, listVars, entryVars, wakeVars
    <3>2. Sleepers' = Sleepers /\ \A b \in Sleepers : frame'[b] = frame[b]
      BY <2>7 DEF TakeAccess, Move, Sleepers, IInv, TypeOK
    <3> QED BY <3>1, <3>2, StuckKept
  <2> QED BY <1>2, <2>1, <2>2, <2>3, <2>4, <2>5, <2>6, <2>7
          DEF AccessNext, FreeCacheData, AbortUnfinishedAccess
<1>3. CASE ResetCache \/ \E m \in Admins : AdminNext(m)
  BY <1>3, AdminKeepsStuck
<1> QED BY <1>1, <1>2, <1>3 DEF Next

\* No change that could serve a sleeper goes by without a notify_all, for any
\* number of requests, keys and entries and either eviction policy.
THEOREM WakeupsAreNotLost == Spec => []NoLostWakeup
<1>1. Init => SleepersStuck
  BY DEF Init, SleepersStuck, Sleepers
<1>2. IInv /\ SleepersStuck /\ [Next]_vars => SleepersStuck'
  BY NextKeepsStuck, CacheAssumption
<1>3. IInv /\ SleepersStuck => NoLostWakeup
  <2> SUFFICES ASSUME IInv, SleepersStuck, NEW a \in Sleepers \ notified
               PROVE  initialized /\ ~failed /\ Blocked(frame[a])
    BY DEF NoLostWakeup
  <2>1. initialized
    BY DEF IInv, Lifecycle, Sleepers
  <2> QED BY <2>1, BlockedMeans, CacheAssumption DEF SleepersStuck
<1> QED BY <1>1, <1>2, <1>3, Invariance, PTL DEF Spec

\* Fewer keys are resident than there are entries when one entry is free or
\* gives its key up, so that the table has room for the new key.
LEMMA TableHasRoom ==
  ASSUME CacheAssumption, IInv, initialized, NEW c \in Candidates
  PROVE  Cardinality(ResidentKeys \ ErasedKeys(c)) < entryCount
<1> DEFINE S == ResidentKeys \ ErasedKeys(c)
           T == Entries \ {c}
           h == [k \in S |-> residency[k]]
<1>1. /\ c \in Index /\ c \in Entries
      /\ emptyEntries # <<>> => cacheState[c] = "Empty"
  BY CandidateFacts
<1>2. \A k \in Keys, e \in Index :
        residency[k] = e <=> e \in Entries /\ cacheState[e] # "Empty" /\ metadata[e].key = k
  BY DEF IInv, ResidencyMatchesEntries
<1>3. \A k \in S : /\ k \in Keys /\ residency[k] \in Index /\ residency[k] \in Entries
                   /\ metadata[residency[k]].key = k /\ cacheState[residency[k]] # "Empty"
  BY <1>2 DEF ResidentKeys, IInv, TypeOK
<1>4. \A k \in S : residency[k] # c
  BY <1>1, <1>3 DEF ErasedKeys
<1>5. h \in Injection(S, T)
  <2>1. h \in [S -> T]
    BY <1>3, <1>4
  <2>2. \A j, k \in S : h[j] = h[k] => j = k
    BY <1>3
  <2>3. IsInjective(h)
    BY <2>2 DEF IsInjective
  <2> HIDE DEF h, S, T
  <2> QED BY <2>1, <2>3 DEF Injection
<1>6. entryCount \in Nat /\ entryCount > 0
  BY <1>1 DEF Entries, IInv, TypeOK, CacheAssumption
<1>7. IsFiniteSet(Entries) /\ Cardinality(Entries) = entryCount
  BY <1>6, FS_Interval DEF Entries
<1>8. IsFiniteSet(T) /\ Cardinality(T) = entryCount - 1
  BY <1>1, <1>7, FS_RemoveElement
<1>9. Cardinality(S) <= Cardinality(T) /\ IsFiniteSet(S)
  <2> HIDE DEF h, S, T
  <2> QED BY <1>5, <1>8, FS_Injection
<1>10. Cardinality(S) \in Nat
  BY <1>9, FS_CardinalityType
<1> HIDE DEF S, T
<1>11. Cardinality(S) < entryCount
  BY <1>6, <1>8, <1>9, <1>10
<1> QED BY <1>11 DEF S

\* Whatever takeCandidate finds passes the checks that follow it.
LEMMA CandidatesAreUsable ==
  ASSUME CacheAssumption, IInv, initialized, NEW c \in Candidates
  PROVE  CandidateUsable(c)
<1>1. /\ c \in Index /\ c \in Entries
      /\ emptyEntries # <<>> => cacheState[c] = "Empty"
      /\ emptyEntries = <<>> => c \in Range(evictable) /\ cacheState[c] = "Valid"
      /\ activeAccesses[c] = 0
  BY CandidateFacts
<1>2. allocated[c] /\ (cacheState[c] = "Valid" => metadata[c] \in Frames)
  BY <1>1 DEF IInv, EntryShape
<1>3. emptyEntries # <<>> => c \notin Range(evictable)
  BY <1>1 DEF IInv, ListsMatchEntries
<1>4. cacheState[c] = "Valid" => residency[metadata[c].key] = c
  BY <1>1, <1>2 DEF IInv, ResidencyMatchesEntries, Frames
<1>5. cacheState[c] = "Valid" /\ evictionPolicy = "FIFO" => c \in Range(filled)
  BY <1>1 DEF IInv, ListsMatchEntries
<1>6. Cardinality(ResidentKeys \ ErasedKeys(c)) < entryCount
  BY TableHasRoom
<1> QED BY <1>1, <1>2, <1>3, <1>4, <1>5, <1>6 DEF CandidateUsable

\* A running manager rejects a well-formed request only for a metadata
\* mismatch: the other failure branches of getCacheData are dead.
THEOREM RequestsCanBeServed == Spec => []RequestsAreServable
<1>1. IInv => RequestsAreServable
  <2> SUFFICES ASSUME IInv, Accepts, NEW f \in Frames
               PROVE  /\ ~MissingReplica(f)
                      /\ CanHit(f) \/ CanFill(f) \/ Blocked(f)
                           \/ (Resident(f) /\ metadata[residency[f.key]].key = f.key
                                           /\ metadata[residency[f.key]] # f)
    BY DEF RequestsAreServable
  <2> DEFINE e == residency[f.key]
  <2>1. initialized /\ f.key \in Keys
    BY DEF Accepts, Frames
  <2>2. CASE ~Resident(f)
    <3>1. ~MissingReplica(f)
      BY <2>2 DEF MissingReplica, ReadableEntry, Matching
    <3>2. Candidates # {} => CanFill(f)
      BY <2>1, <2>2, CandidatesAreUsable, CacheAssumption DEF CanFill
    <3>3. Candidates = {} => Blocked(f)
      BY <2>2 DEF Blocked, BlockedFull
    <3> QED BY <3>1, <3>2, <3>3
  <2>3. CASE Resident(f)
    <3>1. /\ e \in Index /\ e \in Entries /\ cacheState[e] \in {"Loading", "Valid"}
          /\ metadata[e].key = f.key
      BY <2>1, <2>3 DEF Resident, IInv, TypeOK, ResidencyMatchesEntries
    <3>2. cacheState[e] = "Valid" => ReplicaReady(e)
      BY <2>1, <3>1 DEF ReplicaReady, IInv, EntryShape
    <3>3. cacheState[e] = "Valid" => ReaderLeaseOk(e)
      BY <2>1, <3>1 DEF ReaderLeaseOk, IInv, ListsMatchEntries
    <3>4. metadata[e] = f => Matching(f)
      BY <2>3, <3>1 DEF Matching
    <3> QED BY <2>3, <3>1, <3>2, <3>3, <3>4
            DEF MissingReplica, ReadableEntry, CanHit, Blocked, BlockedLoading
  <2> QED BY <2>2, <2>3
<1> QED BY <1>1, Invariance, PTL
-----------------------------------------------------------------------------
(* The refinement of LeaseStore *)

\* The lease an access holds, seen from outside.
LEMMA LeaseView ==
  ASSUME NEW a \in Accesses
  PROVE  /\ pc[a] \notin LivePc => lease[a] = Store!Nothing
         /\ pc[a] \in LivePc /\ accessStatus[a] = "CacheHit" => lease[a] = Store!Lease("read", frame[a])
         /\ pc[a] \in LivePc /\ accessStatus[a] = "CacheFill" => lease[a] = Store!Lease("fill", frame[a])
         /\ pc[a] \in LivePc /\ accessStatus[a] = "TaskFallback" => lease[a] = Store!Lease("private", frame[a])
BY DEF lease, Store!Nothing, Store!Lease

\* The same after a step.
LEMMA LeaseViewNext ==
  ASSUME NEW a \in Accesses
  PROVE  /\ pc'[a] \notin LivePc => lease'[a] = Store!Nothing
         /\ pc'[a] \in LivePc /\ accessStatus'[a] = "CacheHit" => lease'[a] = Store!Lease("read", frame'[a])
         /\ pc'[a] \in LivePc /\ accessStatus'[a] = "CacheFill" => lease'[a] = Store!Lease("fill", frame'[a])
         /\ pc'[a] \in LivePc /\ accessStatus'[a] = "TaskFallback" => lease'[a] = Store!Lease("private", frame'[a])
BY DEF lease, Store!Nothing, Store!Lease, LivePc

\* A step that leaves every lease alone.
LEMMA LeaseKept ==
  ASSUME \A b \in Accesses : /\ pc'[b] \in LivePc <=> pc[b] \in LivePc
                             /\ pc[b] \in LivePc => accessStatus'[b] = accessStatus[b] /\ frame'[b] = frame[b]
  PROVE  lease' = lease
BY DEF lease, LivePc

\* A step that changes the lease of one access.
LEMMA LeaseChanged ==
  ASSUME NEW a \in Accesses,
         \A b \in Accesses \ {a} : pc'[b] = pc[b] /\ accessStatus'[b] = accessStatus[b] /\ frame'[b] = frame[b]
  PROVE  \A x : lease'[a] = x => lease' = [lease EXCEPT ![a] = x]
<1>1. \A b \in Accesses \ {a} : lease'[b] = lease[b]
  BY DEF lease, LivePc
<1>2. lease = [b \in Accesses |-> lease[b]] /\ lease' = [b \in Accesses |-> lease'[b]]
  BY DEF lease
<1> QED BY <1>1, <1>2

\* Readers and fillers of the store are the hits and fills of the manager.
LEMMA HoldersView ==
  ASSUME IInv
  PROVE  /\ Store!Holders("read") = {a \in Live : accessStatus[a] = "CacheHit"}
         /\ Store!Holders("fill") = {a \in Live : accessStatus[a] = "CacheFill"}
         /\ \A a \in Live : lease[a].frame = frame[a] /\ frame[a] \in Frames
         /\ \A a \in Accesses : lease[a] = Store!Nothing <=> a \notin Live
<1>1. \A a \in Live : accessStatus[a] \in {"CacheHit", "CacheFill", "TaskFallback"} /\ frame[a] \in Frames
  BY DEF IInv, AccessShape, Live, LivePc
<1>2. ASSUME NEW a \in Accesses
      PROVE  /\ lease[a].kind = "read" <=> a \in Live /\ accessStatus[a] = "CacheHit"
             /\ lease[a].kind = "fill" <=> a \in Live /\ accessStatus[a] = "CacheFill"
             /\ a \in Live => lease[a].frame = frame[a]
             /\ lease[a] = Store!Nothing <=> a \notin Live
  <2>1. CASE a \notin Live
    BY <2>1, LeaseView DEF Live, Store!Nothing
  <2>2. CASE a \in Live
    <3>1. /\ accessStatus[a] = "CacheHit" => lease[a] = [kind |-> "read", frame |-> frame[a]]
          /\ accessStatus[a] = "CacheFill" => lease[a] = [kind |-> "fill", frame |-> frame[a]]
          /\ accessStatus[a] = "TaskFallback" => lease[a] = [kind |-> "private", frame |-> frame[a]]
      BY <2>2, LeaseView DEF Live, Store!Lease
    <3>2. lease[a].kind # "none" /\ lease[a].frame = frame[a]
      BY <1>1, <2>2, <3>1
    <3>3. lease[a] # Store!Nothing
      BY <3>2 DEF Store!Nothing
    <3> QED BY <1>1, <2>2, <3>1, <3>2, <3>3
  <2> QED BY <2>1, <2>2
<1> QED BY <1>1, <1>2 DEF Store!Holders, Live

\* A step after which the same entries are published with the same payload.
LEMMA PublishedKept ==
  ASSUME initialized' = initialized,
         \A e \in Index : /\ cacheState'[e] = "Valid" <=> cacheState[e] = "Valid"
                          /\ cacheState[e] = "Valid" => content'[e] = content[e]
  PROVE  published' = published
BY DEF published, Index

\* The manager's published frames are those of its valid entries, one per key.
LEMMA PublishedFacts ==
  ASSUME IInv, initialized
  PROVE  /\ published = {metadata[e] : e \in {d \in Index : cacheState[d] = "Valid"}}
         /\ \A e \in Index : cacheState[e] # "Empty" =>
              e \in Entries /\ metadata[e].key \in Keys /\ residency[metadata[e].key] = e
<1>1. \A e \in Index : /\ cacheState[e] = "Valid" => content[e] = metadata[e]
                       /\ cacheState[e] # "Empty" => metadata[e] \in Frames /\ e \in Entries
  BY DEF IInv, TypeOK, EntryShape
<1>2. published = {content[e] : e \in {d \in Index : cacheState[d] = "Valid"}}
  BY DEF published
<1>3. \A e \in Index : cacheState[e] # "Empty" =>
              e \in Entries /\ metadata[e].key \in Keys /\ residency[metadata[e].key] = e
  BY <1>1 DEF IInv, ResidencyMatchesEntries, Frames
<1> QED BY <1>1, <1>2, <1>3

\* A hit borrows a published frame.
LEMMA HitBorrows ==
  ASSUME CacheAssumption, IInv, initialized, NEW a \in Accesses, NEW f \in Frames,
         pc[a] \in {"idle", "asleep"}, ServeHit(a, f)
  PROVE  Store!Borrow(a, f)
<1> DEFINE e == residency[f.key]
<1>1. /\ e \in Index /\ metadata[e] = f /\ cacheState[e] = "Valid"
  BY DEF IInv, TypeOK, ServeHit, CanHit, ReadableEntry, Matching, Resident, Entries, Index, NO_ENTRY, Frames
<1>2. f \in published
  BY <1>1, PublishedFacts
<1>3. Leaves(a, f, "CacheHit", e) /\ UNCHANGED <<managerVars, cacheState, memoryVars>> /\ ~failed
  BY DEF ServeHit
<1>4. published' = published
  BY <1>3, PublishedKept DEF managerVars, memoryVars
<1>5. /\ pc'[a] \in LivePc /\ frame'[a] = f /\ accessStatus'[a] = "CacheHit"
      /\ \A b \in Accesses \ {a} : pc'[b] = pc[b] /\ accessStatus'[b] = accessStatus[b] /\ frame'[b] = frame[b]
  BY <1>3 DEF Leaves, LivePc, IInv, TypeOK
<1>6. lease' = [lease EXCEPT ![a] = Store!Lease("read", f)]
  BY <1>5, LeaseViewNext, LeaseChanged
<1>7. lease[a] = Store!Nothing
  BY LeaseView DEF LivePc
<1> QED BY <1>2, <1>3, <1>4, <1>6, <1>7 DEF Store!Borrow, Store!Grant, managerVars

\* A fallback is a private lease.
LEMMA FallbackIsPrivate ==
  ASSUME IInv, NEW a \in Accesses, NEW f \in Frames, NEW late,
         pc[a] \in {"idle", "asleep"}, ServeFallback(a, f, late)
  PROVE  Store!GoPrivate(a, f)
<1>1. Leaves(a, f, "TaskFallback", NO_ENTRY) /\ UNCHANGED <<managerVars, entryVars, memoryVars>> /\ ~failed
  BY DEF ServeFallback
<1>2. published' = published
  BY <1>1, PublishedKept DEF managerVars, entryVars, memoryVars
<1>3. /\ pc'[a] \in LivePc /\ frame'[a] = f /\ accessStatus'[a] = "TaskFallback"
      /\ \A b \in Accesses \ {a} : pc'[b] = pc[b] /\ accessStatus'[b] = accessStatus[b] /\ frame'[b] = frame[b]
  BY <1>1 DEF Leaves, LivePc, IInv, TypeOK
<1>4. lease' = [lease EXCEPT ![a] = Store!Lease("private", f)]
  BY <1>3, LeaseViewNext, LeaseChanged
<1>5. lease[a] = Store!Nothing
  BY LeaseView DEF LivePc
<1> QED BY <1>1, <1>2, <1>4, <1>5 DEF Store!GoPrivate, Store!Grant, managerVars

\* The frames published after a reservation and the fills already under way
\* fit into the entries other than the reserved one.
LEMMA RoomForFill ==
  ASSUME CacheAssumption, IInv, initialized, NEW c \in Entries, cacheState[c] # "Loading", NEW P,
         P = {metadata[e] : e \in {d \in Entries \ {c} : cacheState[d] = "Valid"}}
  PROVE  Cardinality(P) + Cardinality(Store!Holders("fill")) < entryCount
<1> DEFINE V == {d \in Entries \ {c} : cacheState[d] = "Valid"}
           L == {d \in Entries \ {c} : cacheState[d] = "Loading"}
           H == Store!Holders("fill")
           T == Entries \ {c}
           h == [a \in H |-> entryIndex[a]]
           g == [e \in V |-> metadata[e]]
<1>1. entryCount \in Nat /\ entryCount > 0 /\ Entries \subseteq Index
  BY DEF Entries, IInv, TypeOK, CacheAssumption, Index
<1>2. IsFiniteSet(Entries) /\ Cardinality(Entries) = entryCount
  BY <1>1, FS_Interval DEF Entries
<1>3. IsFiniteSet(T) /\ Cardinality(T) = entryCount - 1
  BY <1>2, FS_RemoveElement
<1>4. V \subseteq T /\ L \subseteq T /\ V \cap L = {} /\ V \cup L \subseteq T
  OBVIOUS
<1>5. /\ IsFiniteSet(V) /\ IsFiniteSet(L) /\ IsFiniteSet(V \cup L)
      /\ Cardinality(V \cup L) <= entryCount - 1
  <2> HIDE DEF V, L, T
  <2> QED BY <1>3, <1>4, FS_Subset
<1>6. Cardinality(V \cup L) = Cardinality(V) + Cardinality(L)
  <2>1. Cardinality(V \cup L) = Cardinality(V) + Cardinality(L) - Cardinality(V \cap L)
    <3> HIDE DEF V, L
    <3> QED BY <1>5, FS_Union
  <2>2. Cardinality(V \cap L) = 0
    BY <1>4, FS_EmptySet
  <2>3. Cardinality(V) \in Nat /\ Cardinality(L) \in Nat
    <3> HIDE DEF V, L
    <3> QED BY <1>5, FS_CardinalityType
  <2> HIDE DEF V, L
  <2> QED BY <2>1, <2>2, <2>3
<1>7. IsFiniteSet(P) /\ Cardinality(P) <= Cardinality(V)
  <2>1. g \in Surjection(V, P)
    <3>1. g \in [V -> P]
      OBVIOUS
    <3>2. \A p \in P : \E e \in V : g[e] = p
      OBVIOUS
    <3> HIDE DEF g, V
    <3> QED BY <3>1, <3>2 DEF Surjection
  <2> HIDE DEF g, V
  <2> QED BY <1>5, <2>1, FS_Surjection
<1>8. IsFiniteSet(H) /\ Cardinality(H) <= Cardinality(L)
  <2>1. \A a \in H : /\ a \in Live /\ accessStatus[a] = "CacheFill"
                     /\ entryIndex[a] \in Entries /\ cacheState[entryIndex[a]] = "Loading"
    BY HoldersView DEF IInv, LeaseShape, AccessShape, Live, LivePc
  <2>2. h \in [H -> L]
    BY <2>1
  <2>3. ASSUME NEW a \in H, NEW b \in H, entryIndex[a] = entryIndex[b] PROVE a = b
    <3>1. entryIndex[a] \in Index /\ activeAccesses[entryIndex[a]] = 1
      BY <1>1, <2>1 DEF IInv, EntryShape
    <3>2. a \in Leases(entryIndex[a]) /\ b \in Leases(entryIndex[a])
      BY <2>1, <2>3 DEF Leases
    <3> QED BY <3>1, <3>2, LeasesOfEntry DEF IInv
  <2>4. IsInjective(h)
    BY <2>3 DEF IsInjective
  <2>5. h \in Injection(H, L)
    <3> HIDE DEF h, H, L
    <3> QED BY <2>2, <2>4 DEF Injection
  <2> HIDE DEF h, H, L
  <2> QED BY <1>5, <2>5, FS_Injection
<1>9. Cardinality(P) \in Nat /\ Cardinality(H) \in Nat /\ Cardinality(V) \in Nat /\ Cardinality(L) \in Nat
  <2> HIDE DEF V, L, H
  <2> QED BY <1>5, <1>7, <1>8, FS_CardinalityType
<1>10. Cardinality(P) + Cardinality(H) < entryCount
  <2> HIDE DEF V, L, H
  <2> QED BY <1>1, <1>5, <1>6, <1>7, <1>8, <1>9
<1> QED BY <1>10 DEF H

\* The store counts as the manager does.
LEMMA StoreCounts == \A S : Store!Cardinality(S) = Cardinality(S)
BY DEF Store!Cardinality, Cardinality

\* A reservation is the store's: the key is nobody else's, at most one frame
\* that nobody reads makes room, and there is room.
LEMMA FillReserves ==
  ASSUME CacheAssumption, IInv, initialized, NEW a \in Accesses, NEW f \in Frames,
         pc[a] \in {"idle", "asleep"}, ServeFill(a, f)
  PROVE  Store!Reserve(a, f)
<1>1. PICK c \in Candidates :
        /\ metadata' = [metadata EXCEPT ![c] = f]
        /\ cacheState' = [cacheState EXCEPT ![c] = "Loading"]
        /\ content' = [content EXCEPT ![c] = DefaultFrame]
        /\ Leaves(a, f, "CacheFill", c)
  BY DEF ServeFill
<1>2. /\ c \in Index /\ c \in Entries /\ activeAccesses[c] = 0
      /\ cacheState[c] # "Loading"
  BY CandidateFacts
<1>3. UNCHANGED managerVars /\ ~failed /\ residency[f.key] = NO_ENTRY /\ f.key \in Keys
  BY DEF ServeFill, CanFill, Resident, Frames
<1>4. /\ published = {metadata[e] : e \in {d \in Index : cacheState[d] = "Valid"}}
      /\ \A e \in Index : cacheState[e] # "Empty" =>
           e \in Entries /\ metadata[e].key \in Keys /\ residency[metadata[e].key] = e
  BY PublishedFacts
<1>5. \A b \in Live : accessStatus[b] \in {"CacheHit", "CacheFill"} =>
        /\ entryIndex[b] \in Index /\ cacheState[entryIndex[b]] # "Empty"
        /\ metadata[entryIndex[b]] = frame[b] /\ entryIndex[b] # c
  <2>1. Leases(c) = {}
    BY <1>2, LeasesOfEntry DEF IInv
  <2>2. \A b \in Live : accessStatus[b] \in {"CacheHit", "CacheFill"} =>
          /\ entryIndex[b] \in Index /\ cacheState[entryIndex[b]] # "Empty"
          /\ metadata[entryIndex[b]] = frame[b]
    BY DEF IInv, TypeOK, LeaseShape, AccessShape, Live, LivePc, Entries, Index
  <2> QED BY <2>1, <2>2 DEF Leases
<1>6. f.key \notin Store!TakenKeys
  <2>1. NO_ENTRY \notin Index
    BY DEF NO_ENTRY, Index
  <2>2. \A g \in published : g.key # f.key
    BY <1>3, <1>4, <2>1
  <2>3. \A b \in Store!Holders("fill") : lease[b].frame.key # f.key
    <3> TAKE b \in Store!Holders("fill")
    <3>1. b \in Live /\ accessStatus[b] = "CacheFill" /\ lease[b].frame = frame[b]
      BY HoldersView
    <3> QED BY <1>3, <1>4, <1>5, <2>1, <3>1
  <2> QED BY <2>2, <2>3 DEF Store!TakenKeys
<1>7. published' = {metadata[e] : e \in {d \in Index \ {c} : cacheState[d] = "Valid"}}
  <2>1. \A e \in Index : cacheState[e] = "Valid" => content[e] = metadata[e]
    BY DEF IInv, EntryShape
  <2>2. initialized' /\ published' = {content'[e] : e \in {d \in Index : cacheState'[d] = "Valid"}}
    BY <1>3 DEF published, managerVars, Index
  <2>3. {d \in Index : cacheState'[d] = "Valid"} = {d \in Index \ {c} : cacheState[d] = "Valid"}
    BY <1>1, <1>2 DEF IInv, TypeOK
  <2>4. \A e \in Index \ {c} : content'[e] = content[e]
    BY <1>1, <1>2 DEF IInv, TypeOK
  <2> QED BY <2>1, <2>2, <2>3, <2>4
<1> DEFINE evicted == IF cacheState[c] = "Valid" THEN {metadata[c]} ELSE {}
<1>8. published' = published \ evicted
  <2>1. \A d \in Index \ {c} : cacheState[d] = "Valid" /\ cacheState[c] = "Valid" => metadata[d] # metadata[c]
    BY <1>2, <1>4
  <2> QED BY <1>2, <1>4, <1>7, <2>1
<1>9. evicted \in SUBSET {g \in published : Store!Unused(g)}
  <2>1. SUFFICES ASSUME cacheState[c] = "Valid", NEW b \in Store!Holders("read") PROVE lease[b].frame # metadata[c]
    BY <1>2, <1>4 DEF Store!Unused
  <2>2. b \in Live /\ accessStatus[b] = "CacheHit" /\ lease[b].frame = frame[b]
    BY HoldersView
  <2> QED BY <1>2, <1>4, <1>5, <2>1, <2>2
<1>10. Cardinality(evicted) <= 1
  <2>1. Cardinality({}) = 0
    BY FS_EmptySet
  <2>2. Cardinality({metadata[c]}) = 1
    BY FS_Singleton
  <2> QED BY <2>1, <2>2
<1>11. Cardinality(published') + Cardinality(Store!Holders("fill")) < entryCount
  <2>1. {d \in Index \ {c} : cacheState[d] = "Valid"} = {d \in Entries \ {c} : cacheState[d] = "Valid"}
    BY <1>4 DEF IInv, TypeOK, Entries, Index
  <2>2. published' = {metadata[e] : e \in {d \in Entries \ {c} : cacheState[d] = "Valid"}}
    BY <1>7, <2>1
  <2> QED BY <1>2, <2>2, RoomForFill
<1>12. /\ pc'[a] \in LivePc /\ frame'[a] = f /\ accessStatus'[a] = "CacheFill"
       /\ \A b \in Accesses \ {a} : pc'[b] = pc[b] /\ accessStatus'[b] = accessStatus[b] /\ frame'[b] = frame[b]
  BY <1>1 DEF Leaves, LivePc, IInv, TypeOK
<1>13. lease' = [lease EXCEPT ![a] = Store!Lease("fill", f)]
  BY <1>12, LeaseViewNext, LeaseChanged
<1>14. lease[a] = Store!Nothing
  BY LeaseView DEF LivePc
<1>15. Store!Grant(a, "fill", f)
  BY <1>3, <1>13, <1>14 DEF Store!Grant
<1> HIDE DEF evicted
<1>16. initialized' = initialized /\ entryCount' = entryCount /\ failed' = failed
  BY <1>3 DEF managerVars
<1>17. \E x \in SUBSET {g \in published : Store!Unused(g)} :
          Cardinality(x) <= 1 /\ published' = published \ x
  BY <1>8, <1>9, <1>10
<1>18. Cardinality(published') + Cardinality(Store!Holders("fill")) < IF initialized THEN entryCount ELSE 0
  BY <1>11
<1> QED BY <1>6, <1>15, <1>16, <1>17, <1>18, StoreCounts DEF Store!Reserve

\* The end of a hit gives the share back; only the last reader's discard takes
\* the frame out.
LEMMA EndHitReturns ==
  ASSUME CacheAssumption, IInv, NEW a \in Accesses, EndHit(a)
  PROVE  Store!Return(a)
<1> DEFINE e == entryIndex[a]
<1>1. /\ pc[a] = "drained" /\ accessStatus[a] = "CacheHit" /\ ResetAccess(a)
      /\ UNCHANGED <<managerVars, memoryVars>>
  BY DEF EndHit
<1>2. a \in Live /\ initialized /\ e \in Index /\ cacheState[e] = "Valid" /\ metadata[e] = frame[a]
  BY <1>1 DEF IInv, TypeOK, AccessShape, Lifecycle, LeaseShape, Live, LivePc, Entries, Index
<1>3. EndRead(e, completion[a].retention = "Discard") /\ activeAccesses[e] \in Nat \ {0}
  BY <1>1, <1>2, LeaseMayEnd DEF EndHit, LeasesCanEnd, ReaderMayEnd, IInv, TypeOK
<1>4. lease[a].kind = "read" /\ lease[a].frame = frame[a]
  <2>1. lease[a] = [kind |-> "read", frame |-> frame[a]]
    BY <1>1, <1>2, LeaseView DEF Live, Store!Lease
  <2> QED BY <2>1
<1>5. lease' = [lease EXCEPT ![a] = Store!Nothing]
  <2>1. /\ pc'[a] \notin LivePc
        /\ \A b \in Accesses \ {a} : pc'[b] = pc[b] /\ accessStatus'[b] = accessStatus[b] /\ frame'[b] = frame[b]
    BY <1>1 DEF ResetAccess, LivePc, IInv, TypeOK
  <2> QED BY <2>1, LeaseViewNext, LeaseChanged
<1>6. initialized' = initialized /\ entryCount' = entryCount /\ failed' = failed /\ content' = content
  BY <1>1 DEF managerVars, memoryVars
<1>7. CASE ResetEntry(e) /\ activeAccesses[e] = 1
  <2>1. cacheState' = [cacheState EXCEPT ![e] = "Empty"]
    BY <1>7 DEF ResetEntry
  <2>2. /\ published = {metadata[d] : d \in {i \in Index : cacheState[i] = "Valid"}}
        /\ \A d \in Index : cacheState[d] # "Empty" => residency[metadata[d].key] = d
    BY <1>2, PublishedFacts
  <2>3. published' = {metadata[d] : d \in {i \in Index \ {e} : cacheState[i] = "Valid"}}
    <3>1. \A d \in Index : cacheState[d] = "Valid" => content[d] = metadata[d]
      BY DEF IInv, EntryShape
    <3>2. published' = {content'[d] : d \in {i \in Index : cacheState'[i] = "Valid"}}
      BY <1>2, <1>6 DEF published, Index
    <3>3. {i \in Index : cacheState'[i] = "Valid"} = {i \in Index \ {e} : cacheState[i] = "Valid"}
      BY <1>2, <2>1 DEF IInv, TypeOK
    <3> QED BY <1>6, <3>1, <3>2, <3>3
  <2>4. \A d \in Index \ {e} : cacheState[d] = "Valid" => metadata[d] # metadata[e]
    BY <1>2, <2>2
  <2>5. published' = published \ {lease[a].frame}
    BY <1>2, <1>4, <2>2, <2>3, <2>4
  <2>6. \A b \in Store!Holders("read") \ {a} : lease[b].frame # lease[a].frame
    <3> SUFFICES ASSUME NEW b \in Store!Holders("read"), b # a, lease[b].frame = lease[a].frame PROVE FALSE
      OBVIOUS
    <3>1. b \in Live /\ accessStatus[b] = "CacheHit" /\ frame[b] = frame[a]
      BY <1>4, HoldersView
    <3>2. entryIndex[b] \in Index /\ cacheState[entryIndex[b]] = "Valid" /\ metadata[entryIndex[b]] = frame[a]
      BY <3>1 DEF IInv, TypeOK, AccessShape, LeaseShape, Live, LivePc, Entries, Index
    <3>3. entryIndex[b] = e
      BY <1>2, <2>2, <3>2
    <3>4. a \in Leases(e) /\ b \in Leases(e)
      BY <1>2, <3>1, <3>3 DEF Leases
    <3> QED BY <1>2, <1>7, <3>4, LeasesOfEntry DEF IInv
  <2> QED BY <1>4, <1>5, <1>6, <2>5, <2>6 DEF Store!Return, Store!Finish
<1>8. CASE cacheState' = cacheState
  <2>1. published' = published
    BY <1>6, <1>8, PublishedKept
  <2> QED BY <1>4, <1>5, <1>6, <2>1 DEF Store!Return, Store!Finish
<1>9. (ResetEntry(e) /\ activeAccesses[e] = 1) \/ cacheState' = cacheState
  BY <1>3 DEF EndRead
<1> QED BY <1>7, <1>8, <1>9

\* The end of a fill publishes the frame or gives it up.
LEMMA EndFillSettles ==
  ASSUME CacheAssumption, IInv, NEW a \in Accesses, EndFill(a)
  PROVE  Store!Settle(a)
<1> DEFINE e == entryIndex[a]
<1>1. /\ pc[a] = "drained" /\ accessStatus[a] = "CacheFill" /\ ResetAccess(a)
      /\ UNCHANGED <<managerVars, memoryVars>>
  BY DEF EndFill
<1>2. a \in Live /\ initialized /\ e \in Index /\ cacheState[e] = "Loading"
  BY <1>1 DEF IInv, TypeOK, AccessShape, Lifecycle, LeaseShape, Live, LivePc, Entries, Index
<1>3. lease[a].kind = "fill" /\ lease[a].frame = frame[a]
  <2>1. lease[a] = [kind |-> "fill", frame |-> frame[a]]
    BY <1>1, <1>2, LeaseView DEF Live, Store!Lease
  <2> QED BY <2>1
<1>4. lease' = [lease EXCEPT ![a] = Store!Nothing]
  <2>1. /\ pc'[a] \notin LivePc
        /\ \A b \in Accesses \ {a} : pc'[b] = pc[b] /\ accessStatus'[b] = accessStatus[b] /\ frame'[b] = frame[b]
    BY <1>1 DEF ResetAccess, LivePc, IInv, TypeOK
  <2> QED BY <2>1, LeaseViewNext, LeaseChanged
<1>5. initialized' = initialized /\ entryCount' = entryCount /\ failed' = failed /\ content' = content
  BY <1>1 DEF managerVars, memoryVars
<1>6. CASE KeepFill(a)
  <2>1. cacheState' = [cacheState EXCEPT ![e] = "Valid"]
    BY <1>1, <1>2, <1>6, LeaseMayEnd DEF EndFill, LeasesCanEnd, Publish
  <2>2. content[e] = frame[a]
    BY <1>1, <1>2, <1>6 DEF KeepFill, IInv, LeaseShape
  <2>3. {i \in Index : cacheState'[i] = "Valid"} = {i \in Index : cacheState[i] = "Valid"} \cup {e}
    BY <1>2, <2>1 DEF IInv, TypeOK
  <2>4. /\ published = {content[d] : d \in {i \in Index : cacheState[i] = "Valid"}}
        /\ published' = {content'[d] : d \in {i \in Index : cacheState'[i] = "Valid"}}
    BY <1>2, <1>5 DEF published, Index
  <2>5. published' = published \cup {lease[a].frame}
    BY <1>3, <1>5, <2>2, <2>3, <2>4
  <2> QED BY <1>3, <1>4, <1>5, <2>5 DEF Store!Settle, Store!Finish
<1>7. CASE ~KeepFill(a)
  <2>1. cacheState' = [cacheState EXCEPT ![e] = "Empty"]
    BY <1>1, <1>2, <1>7, LeaseMayEnd DEF EndFill, LeasesCanEnd, ResetEntry
  <2>2. \A d \in Index : cacheState'[d] = "Valid" <=> cacheState[d] = "Valid"
    BY <1>2, <2>1 DEF IInv, TypeOK
  <2>3. published' = published
    BY <1>5, <2>2, PublishedKept
  <2> QED BY <1>3, <1>4, <1>5, <2>3 DEF Store!Settle, Store!Finish
<1> QED BY <1>6, <1>7

\* The end of a fallback.
LEMMA EndFallbackEnds ==
  ASSUME IInv, NEW a \in Accesses, EndFallback(a)
  PROVE  Store!EndPrivate(a)
<1>1. /\ pc[a] = "drained" /\ accessStatus[a] = "TaskFallback" /\ ResetAccess(a)
      /\ UNCHANGED <<managerVars, entryVars, memoryVars>>
  BY DEF EndFallback
<1>2. lease[a].kind = "private"
  <2>1. lease[a] = [kind |-> "private", frame |-> frame[a]]
    BY <1>1, LeaseView DEF LivePc, Store!Lease
  <2> QED BY <2>1
<1>3. /\ pc'[a] \notin LivePc
      /\ \A b \in Accesses \ {a} : pc'[b] = pc[b] /\ accessStatus'[b] = accessStatus[b] /\ frame'[b] = frame[b]
  BY <1>1 DEF ResetAccess, LivePc, IInv, TypeOK
<1>4. lease' = [lease EXCEPT ![a] = Store!Nothing]
  BY <1>3, LeaseViewNext, LeaseChanged
<1>5. initialized' = initialized /\ entryCount' = entryCount /\ failed' = failed
  BY <1>1 DEF managerVars
<1>6. published' = published
  BY <1>1, <1>5, PublishedKept DEF entryVars, memoryVars
<1> QED BY <1>2, <1>4, <1>5, <1>6 DEF Store!EndPrivate, Store!Finish

\* A move hands the lease over.
LEMMA TakeAccessHands ==
  ASSUME IInv, NEW a \in Accesses, NEW other \in Accesses, TakeAccess(a, other)
  PROVE  Store!Hand(a, other)
<1>1. /\ pc[a] = "idle" /\ pc[other] = "held" /\ UNCHANGED <<managerVars, entryVars, memoryVars>>
      /\ pc' = Move(pc, a, other, "idle") /\ frame' = Move(frame, a, other, DefaultFrame)
      /\ accessStatus' = Move(accessStatus, a, other, "Invalid")
  BY DEF TakeAccess
<1>2. a # other
  BY <1>1
<1>3. /\ pc'[a] = "held" /\ frame'[a] = frame[other] /\ accessStatus'[a] = accessStatus[other]
      /\ pc'[other] = "idle"
      /\ \A b \in Accesses \ {a, other} :
           pc'[b] = pc[b] /\ accessStatus'[b] = accessStatus[b] /\ frame'[b] = frame[b]
  BY <1>1, <1>2 DEF Move, IInv, TypeOK
<1>4. lease[a] = Store!Nothing /\ lease'[other] = Store!Nothing
  BY <1>1, <1>3, LeaseView, LeaseViewNext DEF LivePc
<1>5. lease'[a] = lease[other] /\ \A b \in Accesses \ {a, other} : lease'[b] = lease[b]
  BY <1>1, <1>3 DEF lease, LivePc
<1>6. lease = [b \in Accesses |-> lease[b]] /\ lease' = [b \in Accesses |-> lease'[b]]
  BY DEF lease
<1>7. lease' = [lease EXCEPT ![a] = lease[other], ![other] = Store!Nothing]
  BY <1>2, <1>4, <1>5, <1>6
<1>8. lease[other] # Store!Nothing
  BY <1>1, HoldersView DEF Live, LivePc
<1>9. initialized' = initialized /\ entryCount' = entryCount /\ failed' = failed
  BY <1>1 DEF managerVars
<1>10. published' = published
  BY <1>1, <1>9, PublishedKept DEF entryVars, memoryVars
<1> QED BY <1>4, <1>7, <1>8, <1>9, <1>10 DEF Store!Hand

\* Lifecycle calls open, empty and close the store.
LEMMA AdminMaps ==
  ASSUME CacheAssumption, IInv, ResetCache \/ \E m \in Admins : AdminNext(m)
  PROVE  [Store!Next]_(Store!storeVars)
<1> DEFINE cap == IF initialized THEN entryCount ELSE 0
<1>1. ~initialized => published = {} /\ cap = 0 /\ Live = {}
  BY DEF published, IInv, Lifecycle, Live, LivePc
<1>2. pc' = pc /\ accessStatus' = accessStatus /\ frame' = frame
  BY DEF AdminNext, InitializeBegin, InitializeFail, InitializePublish, ReleaseBegin, ReleaseEnd, ResetCache,
         accessVars
<1>3. lease' = lease
  BY <1>2, LeaseKept
<1>4. Live = {} => Store!AllReturned
  <2>1. lease = [b \in Accesses |-> lease[b]]
    BY DEF lease
  <2> QED BY <2>1, HoldersView DEF Store!AllReturned
<1>5. CanReset /\ initialized => Live = {}
  <2> SUFFICES ASSUME CanReset, initialized, NEW a \in Live PROVE FALSE
    OBVIOUS
  <2>1. entryIndex[a] \in Entries \/ accessStatus[a] = "TaskFallback"
    BY DEF IInv, AccessShape, Live
  <2>2. CASE accessStatus[a] = "TaskFallback"
    <3>1. Fallbacks = {}
      BY LeasesFinite, FS_EmptySet DEF CanReset, IInv, LeaseAccounting
    <3> QED BY <2>2, <3>1 DEF Fallbacks
  <2>3. CASE entryIndex[a] \in Entries
    <3>1. entryIndex[a] \in Index /\ activeAccesses[entryIndex[a]] = 0
      BY <2>3 DEF CanReset, IInv, TypeOK, Entries, Index
    <3>2. Leases(entryIndex[a]) = {}
      BY <3>1, LeasesOfEntry DEF IInv
    <3> QED BY <3>2 DEF Leases
  <2> QED BY <2>1, <2>2, <2>3
<1>6. CASE ResetCache
  <2>1. initialized /\ ~failed /\ CanReset /\ UNCHANGED managerVars
    BY <1>6 DEF ResetCache, Accepts
  <2>2. published' = {}
    BY <1>6, <2>1 DEF ResetCache, published, managerVars, Index
  <2> QED BY <1>3, <1>4, <1>5, <2>1, <2>2 DEF Store!Next, Store!Empty, managerVars
<1>7. ASSUME NEW m \in Admins, AdminNext(m) PROVE [Store!Next]_(Store!storeVars)
  <2>1. CASE \/ \E conf \in Config : InitializeBegin(m, conf)
             \/ InitializeFail(m)
             \/ InitializePublish(m) /\ ~ManagerEmpty
    <3>1. UNCHANGED managerVars /\ UNCHANGED <<cacheState, content>>
      BY <2>1 DEF InitializeBegin, InitializeFail, InitializePublish, entryVars, memoryVars
    <3>2. initialized' = initialized /\ entryCount' = entryCount /\ failed' = failed
      BY <3>1 DEF managerVars
    <3>3. published' = published
      BY <3>1, <3>2, PublishedKept
    <3> QED BY <1>3, <3>2, <3>3 DEF Store!storeVars
  <2>2. CASE InitializePublish(m) /\ ManagerEmpty
    <3>1. /\ ~initialized /\ initialized' = TRUE /\ entryCount' = adminConfig[m].count
          /\ failed' = FALSE /\ UNCHANGED entryVars
      BY <2>2 DEF InitializePublish, ManagerEmpty
    <3>2. failed = FALSE
      BY <2>2 DEF ManagerEmpty, IInv, TypeOK, Lifecycle
    <3>3. adminConfig[m].count \in 0 .. MaxEntryCount
      BY DEF IInv, TypeOK
    <3>4. \A e \in Index : cacheState[e] = "Empty"
      BY <2>2 DEF ManagerEmpty, IInv, EntryShape, Entries
    <3>5. published' = {}
      BY <3>1, <3>4 DEF published, entryVars
    <3>6. Store!Open(adminConfig[m].count)
      BY <1>1, <1>3, <1>4, <3>1, <3>2, <3>5 DEF Store!Open
    <3> QED BY <3>3, <3>6 DEF Store!Next
  <2>3. CASE ReleaseBegin(m)
    <3>1. initialized' = FALSE /\ failed' = failed /\ CanReset
      BY <2>3 DEF ReleaseBegin
    <3>2. published' = {}
      BY <3>1 DEF published
    <3>3. Store!Close
      BY <1>1, <1>3, <1>4, <1>5, <3>1, <3>2 DEF Store!Close
    <3> QED BY <3>3 DEF Store!Next
  <2>4. ASSUME NEW freed, ReleaseEnd(m, freed) PROVE [Store!Next]_(Store!storeVars)
    <3>1. ~initialized
      BY <2>4 DEF ReleaseEnd, IInv, Lifecycle
    <3>2. ~initialized' /\ failed' \in {failed, FALSE}
      BY <2>4, <3>1 DEF ReleaseEnd
    <3>3. published' = {}
      BY <3>2 DEF published
    <3>4. Store!Close
      BY <1>1, <1>3, <1>4, <3>1, <3>2, <3>3 DEF Store!Close
    <3> QED BY <3>4 DEF Store!Next
  <2> QED BY <1>7, <2>1, <2>2, <2>3, <2>4 DEF AdminNext
<1> QED BY <1>6, <1>7

\* Serving a request is a step of the store, or none.
LEMMA ServeMaps ==
  ASSUME CacheAssumption, IInv, initialized, NEW a \in Accesses, NEW f \in Frames, NEW late,
         pc[a] \in {"idle", "asleep"},
         \/ ServeHit(a, f)
         \/ ServeFill(a, f)
         \/ ServeFallback(a, f, late)
         \/ ServeSleep(a, f, late)
         \/ ServeInvalid(a, f)
  PROVE  [Store!Next]_(Store!storeVars)
<1>1. Store!Frames = Frames
  BY DEF Store!Frames, Frames
<1>2. CASE ServeHit(a, f) \/ ServeFill(a, f) \/ ServeFallback(a, f, late)
  <2>1. Store!Borrow(a, f) \/ Store!Reserve(a, f) \/ Store!GoPrivate(a, f)
    BY <1>2, HitBorrows, FillReserves, FallbackIsPrivate
  <2> QED BY <1>1, <2>1 DEF Store!Next
<1>3. CASE ServeSleep(a, f, late) \/ ServeInvalid(a, f)
  <2>1. UNCHANGED <<managerVars, entryVars, memoryVars>>
    BY <1>3 DEF ServeSleep, ServeInvalid
  <2>2. \A b \in Accesses : /\ pc'[b] \in LivePc <=> pc[b] \in LivePc
                            /\ pc[b] \in LivePc => accessStatus'[b] = accessStatus[b] /\ frame'[b] = frame[b]
    BY <1>3 DEF ServeSleep, ServeInvalid, Leaves, LivePc, IInv, TypeOK
  <2>3. lease' = lease
    BY <2>2, LeaseKept
  <2>4. initialized' = initialized /\ entryCount' = entryCount /\ failed' = failed
    BY <2>1 DEF managerVars
  <2>5. published' = published
    BY <2>1, <2>4, PublishedKept DEF entryVars, memoryVars
  <2> QED BY <2>3, <2>4, <2>5 DEF Store!storeVars
<1> QED BY <1>2, <1>3

\* The manager implements the store of its contract, for any number of
\* callers, keys, shapes and entries and either eviction policy.
THEOREM CacheImplementsStore == Spec => ImplementsStore
<1>1. Init => Store!Init
  <2> SUFFICES ASSUME Init PROVE Store!Init
    OBVIOUS
  <2>1. lease = [a \in Accesses |-> Store!Nothing]
    BY DEF Init, lease, LivePc, Store!Nothing
  <2>2. published = {} /\ ~initialized /\ failed = FALSE
    BY DEF Init, published
  <2> QED BY <2>1, <2>2 DEF Store!Init
<1>2. IInv /\ [Next]_vars => [Store!Next]_(Store!storeVars)
  <2> SUFFICES ASSUME IInv, [Next]_vars PROVE [Store!Next]_(Store!storeVars)
    OBVIOUS
  <2>1. CASE UNCHANGED vars
    <3>1. /\ UNCHANGED <<initialized, entryCount, failed, cacheState, content>>
          /\ UNCHANGED <<pc, accessStatus, frame>>
      BY <2>1 DEF vars, managerVars, entryVars, memoryVars, accessVars
    <3>2. lease' = lease /\ published' = published
      BY <3>1, LeaseKept, PublishedKept
    <3> QED BY <3>1, <3>2 DEF Store!storeVars
  <2>2. ASSUME NEW a \in Accesses, AccessNext(a) PROVE [Store!Next]_(Store!storeVars)
    <3>1. ASSUME NEW f \in Frames, NEW late \in BOOLEAN, GetCacheData(a, f, late)
          PROVE  [Store!Next]_(Store!storeVars)
      <4>1. pc[a] = "idle" /\ initialized
        BY <3>1 DEF GetCacheData, Accepts
      <4> QED BY <3>1, <4>1, ServeMaps, CacheAssumption DEF GetCacheData
    <3>2. CASE WakeUp(a)
      <4>1. pc[a] = "asleep" /\ initialized /\ frame[a] \in Frames
        BY <3>2 DEF WakeUp, IInv, Lifecycle, AccessShape
      <4> DEFINE late == a \in expired
      <4>2. \/ ServeHit(a, frame[a]) \/ ServeFill(a, frame[a]) \/ ServeFallback(a, frame[a], late)
            \/ ServeSleep(a, frame[a], late) \/ ServeInvalid(a, frame[a])
        BY <3>2 DEF WakeUp
      <4> HIDE DEF late
      <4> QED BY <4>1, <4>2, ServeMaps, CacheAssumption
    <3>3. CASE DeadlinePasses(a)
      <4>1. /\ UNCHANGED <<initialized, entryCount, failed, cacheState, content>>
            /\ UNCHANGED <<pc, accessStatus, frame>>
        BY <3>3 DEF DeadlinePasses, managerVars, entryVars, memoryVars, accessVars
      <4>2. lease' = lease /\ published' = published
        BY <4>1, LeaseKept, PublishedKept
      <4> QED BY <4>1, <4>2 DEF Store!storeVars
    <3>4. ASSUME NEW submitted, NEW ok, NEW how, Synchronize(a, submitted, ok, how)
          PROVE  [Store!Next]_(Store!storeVars)
      <4>1. /\ UNCHANGED <<initialized, entryCount, failed, cacheState>> /\ UNCHANGED <<accessStatus, frame>>
        BY <3>4 DEF Synchronize, managerVars, entryVars
      <4>2. pc[a] = "held" /\ pc' = [pc EXCEPT ![a] = AfterSync(ok)] /\ AfterSync(ok) \in LivePc
        BY <3>4 DEF Synchronize, AfterSync, LivePc
      <4>3. lease' = lease
        BY <4>1, <4>2, LeaseKept DEF IInv, TypeOK, LivePc
      <4>4. \A e \in Index : cacheState[e] = "Valid" => content'[e] = content[e]
        <5>1. a \in Live
          BY <4>2 DEF Live, LivePc
        <5>2. accessStatus[a] = "CacheFill" => cacheState[entryIndex[a]] = "Loading"
          BY <5>1 DEF IInv, LeaseShape
        <5>3. content' = content \/ (accessStatus[a] = "CacheFill"
                                     /\ content' = [content EXCEPT ![entryIndex[a]] = frame[a]])
          BY <3>4 DEF Synchronize
        <5> QED BY <5>2, <5>3 DEF IInv, TypeOK
      <4>5. published' = published
        BY <4>1, <4>4, PublishedKept
      <4> QED BY <4>1, <4>3, <4>5 DEF Store!storeVars
    <3>5. CASE NoteSyncFailure(a)
      <4>1. /\ UNCHANGED <<initialized, entryCount, cacheState, content>> /\ UNCHANGED <<accessStatus, frame>>
            /\ pc[a] = "syncFailed" /\ pc' = [pc EXCEPT ![a] = "drained"] /\ failed' = TRUE
        BY <3>5 DEF NoteSyncFailure, entryVars, memoryVars
      <4>2. lease' = lease /\ published' = published
        <5>1. lease' = lease
          BY <4>1, LeaseKept DEF IInv, TypeOK, LivePc
        <5> QED BY <4>1, <5>1, PublishedKept
      <4>3. ~Store!AllReturned
        <5>1. lease[a] # Store!Nothing
          BY <4>1, HoldersView DEF Live, LivePc
        <5> QED BY <5>1 DEF Store!AllReturned
      <4> QED BY <4>1, <4>2, <4>3 DEF Store!Next, Store!Break
    <3>6. CASE EndHit(a) \/ EndFill(a) \/ EndFallback(a)
      <4>1. Store!Return(a) \/ Store!Settle(a) \/ Store!EndPrivate(a)
        BY <3>6, EndHitReturns, EndFillSettles, EndFallbackEnds, CacheAssumption
      <4> QED BY <4>1 DEF Store!Next
    <3>7. ASSUME NEW other \in Accesses, TakeAccess(a, other) PROVE [Store!Next]_(Store!storeVars)
      <4>1. Store!Hand(a, other)
        BY <3>7, TakeAccessHands
      <4> QED BY <4>1 DEF Store!Next
    <3> QED BY <2>2, <3>1, <3>2, <3>3, <3>4, <3>5, <3>6, <3>7
            DEF AccessNext, FreeCacheData, AbortUnfinishedAccess
  <2>3. CASE ResetCache \/ \E m \in Admins : AdminNext(m)
    BY <2>3, AdminMaps, CacheAssumption
  <2> QED BY <2>1, <2>2, <2>3 DEF Next
<1> QED BY <1>1, <1>2, Invariance, PTL DEF Spec, ImplementsStore, Store!Spec

-----------------------------------------------------------------------------
(* StaticData *)

\* Sizes are natural numbers up to the largest std::size_t.
LEMMA SizeFacts ==
  ASSUME SizeAssumption
  PROVE  /\ MaxSize \in Nat
         /\ \A n \in Sizes : n \in Nat /\ n <= MaxSize
         /\ \A n \in Nat : n <= MaxSize => Wrap(n) = n
         /\ 0 \in Sizes
<1>1. MaxSize \in Nat
  BY DEF MaxSize, SizeAssumption
<1> HIDE DEF MaxSize
<1>2. ASSUME NEW n \in Nat, n <= MaxSize PROVE Wrap(n) = n
  BY <1>1, <1>2 DEF Wrap
<1> QED BY <1>1, <1>2 DEF Sizes

\* A product that the division lets through does not overflow.
LEMMA ProductFits ==
  ASSUME NEW M \in Nat, NEW c \in Nat, NEW x \in Nat, c # 0 => x <= M \div c
  PROVE  c * x \in Nat /\ c * x <= M
<1>1. c * x \in Nat
  OBVIOUS
<1>2. CASE c = 0
  BY <1>2
<1>3. CASE c # 0
  BY <1>3
<1> QED BY <1>1, <1>2, <1>3

\* What init accepts is there: the checks in front of the sum keep it exact.
LEMMA FitsIsExact ==
  ASSUME SizeAssumption, NEW count \in Nat, NEW inBytes \in Sizes,
         NEW bytes \in [StaticGpuDataType -> Sizes], NEW free \in Sizes,
         Fits(count, inBytes, bytes, free)
  PROVE  count * inBytes + bytes["DetectionZones"] + bytes["DistortionTables"] <= free
<1> DEFINE b == bytes["DetectionZones"]
           c == bytes["DistortionTables"]
           p == count * inBytes
<1>1. /\ MaxSize \in Nat /\ inBytes \in Nat /\ b \in Nat /\ c \in Nat /\ free \in Nat
      /\ \A n \in Nat : n <= MaxSize => Wrap(n) = n
  BY SizeFacts DEF StaticGpuDataType
<1>2. p \in Nat /\ p <= MaxSize
  BY <1>1, ProductFits DEF Fits
<1>3. /\ Wrap(p) = p
      /\ b <= MaxSize - p /\ c <= MaxSize - p - b
      /\ Wrap(p + b + c) <= free
  BY <1>1, <1>2 DEF Fits
<1> HIDE DEF b, c, p
<1>4. p + b + c \in Nat /\ p + b + c <= MaxSize
  BY <1>1, <1>2, <1>3
<1>5. p + b + c <= free
  BY <1>1, <1>3, <1>4
<1> QED BY <1>5 DEF b, c, p

\* Every step of StaticData is a step of the cache, or leaves the cache alone.
LEMMA DataStepIsCacheStep ==
  ASSUME [DataNext]_dataVars
  PROVE  [Next]_vars
<1>1. CASE UNCHANGED dataVars
  BY <1>1 DEF dataVars
<1>2. ASSUME NEW m \in Admins, ColdPath(m) PROVE [Next]_vars
  <2>1. UNCHANGED vars \/ AdminNext(m)
    BY <1>2 DEF ColdPath, AdminNext, InitBegin, InitCacheFails, InitCacheDone, ReleaseBegins,
                ReleaseCacheEnds
  <2> QED BY <2>1 DEF Next
<1>3. CASE InitStaticDone
  BY <1>3 DEF InitStaticDone
<1>4. ASSUME NEW kept, NEW streamKept, InitStaticFails(kept, streamKept) \/ ReleaseStatic(kept, streamKept)
      PROVE  [Next]_vars
  BY <1>4 DEF InitStaticFails, ReleaseStatic
<1>5. ASSUME NEW type, NEW offset, NEW count, NEW ok, UploadStaticData(type, offset, count, ok)
      PROVE  [Next]_vars
  BY <1>5 DEF UploadStaticData
<1>6. ASSUME NEW ok, FinalizeStaticData(ok) PROVE [Next]_vars
  BY <1>6 DEF FinalizeStaticData
<1>7. CASE StaticResetCache
  BY <1>7 DEF StaticResetCache, Next
<1>8. ASSUME NEW a \in Accesses,
             (\E f \in Frames, late \in BOOLEAN : StaticGetCacheData(a, f, late)) \/ LeaseStep(a)
      PROVE  [Next]_vars
  <2>1. AccessNext(a)
    BY <1>8 DEF StaticGetCacheData, LeaseStep, AccessNext
  <2> QED BY <2>1 DEF Next
<1> QED BY <1>1, <1>2, <1>3, <1>4, <1>5, <1>6, <1>7, <1>8 DEF DataNext

-----------------------------------------------------------------------------
(* The cache's part of a step *)

\* Nobody uses a cache that is not initialized.
LEMMA NobodyUses ==
  ASSUME IInv, ~initialized
  PROVE  Live = {} /\ Sleepers = {} /\ \A a \in Accesses : pc[a] = "idle"
BY DEF IInv, Lifecycle, Live, LivePc, Sleepers

\* A manager without entries owns no memory.
LEMMA EmptyOwnsNothing ==
  ASSUME IInv, ManagerEmpty
  PROVE  \A e \in Index : ~allocated[e]
BY DEF IInv, EntryShape, ManagerEmpty, Entries

\* A user of the cache is there only after a step if one was there before, or
\* if the step was a request through the gate.
LEMMA UsersAfterLeaseStep ==
  ASSUME IInv, NEW a \in Accesses, LeaseStep(a)
  PROVE  (Live # {} \/ Sleepers # {}) /\ initialized
<1>1. pc[a] \in LivePc \cup {"asleep"}
  BY DEF LeaseStep, DeadlinePasses, WakeUp, FreeCacheData, AbortUnfinishedAccess, Synchronize,
         NoteSyncFailure, EndHit, EndFill, EndFallback, Sleepers, LivePc
<1> QED BY <1>1 DEF Live, Sleepers, LivePc, IInv, Lifecycle

-----------------------------------------------------------------------------
(* The cold path *)

\* init's checks and the start of the cache's initialization.
LEMMA InitBeginStep ==
  ASSUME SizeAssumption, DataInv, IInv', NEW m \in Admins, NEW c \in Config, NEW shape \in Shapes,
         NEW inBytes \in Sizes, NEW free \in Sizes, NEW bytes \in [StaticGpuDataType -> Sizes],
         InitBegin(m, c, shape, inBytes, bytes, free)
  PROVE  DataInv'
<1>1. /\ step = "idle" /\ step' = "initCache" /\ ~owned /\ ~initialized
      /\ config' = [shape |-> shape, bytes |-> bytes]
      /\ UNCHANGED <<ownerVars, staticVars, undrainedZeros, poisoned, overrun>>
      /\ Fits(c.count, inBytes, bytes, free)
  BY DEF InitBegin, InitAllowed
<1>2. UNCHANGED managerVars /\ UNCHANGED listVars /\ pc' = pc
  BY DEF InitBegin, InitializeBegin, accessVars
<1>3. Live' = {} /\ Sleepers' = {}
  BY <1>1, <1>2, NobodyUses DEF DataInv, Live, Sleepers
<1>4. c.count \in Nat
  BY DEF Config
<1>5. c.count * inBytes + bytes["DetectionZones"] + bytes["DistortionTables"] <= free
  BY <1>1, <1>4, FitsIsExact
<1>6. /\ c.count * inBytes \in Int /\ bytes["DetectionZones"] \in Int /\ bytes["DistortionTables"] \in Int
      /\ free \in Int
  BY <1>4, SizeFacts DEF StaticGpuDataType
<1>7. ~(c.count * inBytes + bytes["DetectionZones"] + bytes["DistortionTables"] > free)
  BY <1>5, <1>6
<1>8. overcommitted' = overcommitted
  BY <1>7 DEF InitBegin, DataInv, DataTypeOK
<1>9. DataTypeOK'
  BY <1>1, <1>8 DEF DataInv, DataTypeOK, ownerVars, staticVars
<1>10. UsersPassedTheGate' /\ OwnedIsAllocated'
  BY <1>1, <1>3 DEF UsersPassedTheGate, DataInv, OwnedIsAllocated, ownerVars, staticVars
<1>11. ManagerEmpty' <=> ManagerEmpty
  BY <1>2 DEF ManagerEmpty, managerVars, listVars
<1>12. EmptyIsEmpty' /\ NothingPoisoned' /\ SizesAreExact'
  BY <1>1, <1>8, <1>11 DEF DataInv, EmptyIsEmpty, NothingPoisoned, SizesAreExact, staticVars
<1> QED BY <1>9, <1>10, <1>12 DEF DataInv

\* The end of the cache's initialization, failed or not.
LEMMA InitCacheStep ==
  ASSUME DataInv, IInv', NEW m \in Admins, InitCacheFails(m) \/ InitCacheDone(m)
  PROVE  DataInv'
<1>1. /\ step = "initCache" /\ ~owned
      /\ UNCHANGED <<ownerVars, staticVars, ghostVars>>
      /\ \/ step' = "idle" /\ config' = NoConfig
         \/ step' = "initStatic" /\ config' = config
  BY DEF InitCacheFails, InitCacheDone, DataInv, OwnedIsAllocated
<1>2. step' = "idle" => UNCHANGED managerVars /\ UNCHANGED listVars
  BY <1>1 DEF InitCacheFails, InitCacheDone, InitializeFail
<1>3. pc' = pc /\ Live = {} /\ Sleepers = {}
  BY <1>1 DEF InitCacheFails, InitCacheDone, InitializeFail, InitializePublish, accessVars, DataInv,
              UsersPassedTheGate, execute
<1>4. Live' = {} /\ Sleepers' = {}
  BY <1>3 DEF Live, Sleepers
<1>5. step' = "idle" => (ManagerEmpty' <=> ManagerEmpty)
  BY <1>2 DEF ManagerEmpty, managerVars, listVars
<1>6. NoConfig.bytes \in [StaticGpuDataType -> Sizes]
  BY SizeFacts, SizeAssumption DEF NoConfig, NoBuffers
<1>7. DataTypeOK'
  BY <1>1, <1>6 DEF DataInv, DataTypeOK, ownerVars, staticVars, ghostVars
<1>8. UsersPassedTheGate' /\ OwnedIsAllocated'
  BY <1>1, <1>4 DEF UsersPassedTheGate, DataInv, OwnedIsAllocated, ownerVars, staticVars
<1>9. EmptyIsEmpty' /\ NothingPoisoned' /\ SizesAreExact'
  BY <1>1, <1>5 DEF DataInv, EmptyIsEmpty, NothingPoisoned, SizesAreExact, staticVars, ghostVars
<1> QED BY <1>7, <1>8, <1>9 DEF DataInv

\* The two critical sections of the cache's release inside StaticData::release.
LEMMA ReleaseCacheStep ==
  ASSUME DataInv, IInv', NEW m \in Admins,
         \/ ReleaseBegins(m)
         \/ \E freed \in SUBSET {e \in Entries : allocated[e]} : ReleaseCacheEnds(m, freed)
  PROVE  DataInv'
<1>1. UNCHANGED <<ownerVars, staticVars, config, ghostVars>> /\ pc' = pc
  BY DEF ReleaseBegins, ReleaseCacheEnds, ReleaseBegin, ReleaseEnd, accessVars, vars
<1>2. /\ step' \in {"idle", "freeCache", "freeStatic"}
      /\ step \in {"idle", "undo", "freeCache"}
  BY DEF ReleaseBegins, ReleaseCacheEnds, AfterCacheRelease
<1>3. Live' = Live /\ Sleepers' = Sleepers
  BY <1>1 DEF Live, Sleepers
<1>4. DataTypeOK'
  BY <1>1, <1>2 DEF DataInv, DataTypeOK, ownerVars, staticVars, ghostVars
<1>5. UsersPassedTheGate' /\ OwnedIsAllocated'
  BY <1>1, <1>2, <1>3 DEF UsersPassedTheGate, DataInv, OwnedIsAllocated, ownerVars, staticVars, execute
<1>6. NothingPoisoned' /\ SizesAreExact'
  BY <1>1 DEF DataInv, NothingPoisoned, SizesAreExact, staticVars, ghostVars
<1>7. (currentState = "Empty" \/ step' = "freeStatic") => ManagerEmpty'
  <2>1. CASE ReleaseBegins(m) /\ UNCHANGED vars
    <3>1. UNCHANGED managerVars /\ UNCHANGED listVars
      BY <2>1 DEF vars
    <3>2. ManagerEmpty' <=> ManagerEmpty
      BY <3>1 DEF ManagerEmpty, managerVars, listVars
    <3>3. step' = "freeStatic" => ManagerEmpty
      BY <2>1 DEF ReleaseBegins, AfterCacheRelease, ReleaseBegin
    <3>4. currentState = "Empty" => ManagerEmpty
      BY <1>2 DEF DataInv, EmptyIsEmpty
    <3> QED BY <3>2, <3>3, <3>4
  <2>2. CASE ReleaseBegin(m) /\ step' = "freeCache" /\ step # "freeCache"
    BY <1>2, <2>2 DEF ReleaseBegin, DataInv, EmptyIsEmpty
  <2>3. ASSUME NEW freed, ReleaseCacheEnds(m, freed)
        PROVE  (currentState = "Empty" \/ step' = "freeStatic") => ManagerEmpty'
    <3>1. releasing
      BY <2>3 DEF ReleaseCacheEnds, ReleaseEnd, DataInv, IInv, Lifecycle
    <3>2. currentState # "Empty"
      BY <1>2, <3>1 DEF DataInv, EmptyIsEmpty, ManagerEmpty
    <3>3. step' = "freeStatic" => AllReleased(freed)
      BY <2>3 DEF ReleaseCacheEnds, AfterCacheRelease
    <3>4. AllReleased(freed) => ManagerEmpty'
      BY <2>3 DEF ReleaseCacheEnds, ReleaseEnd, ManagerEmpty
    <3> QED BY <3>2, <3>3, <3>4
  <2> QED BY <2>1, <2>2, <2>3 DEF ReleaseBegins
<1>8. EmptyIsEmpty'
  BY <1>1, <1>2, <1>7 DEF DataInv, EmptyIsEmpty, staticVars
<1> QED BY <1>4, <1>5, <1>6, <1>8 DEF DataInv

-----------------------------------------------------------------------------
(* The static data *)

\* gpuStaticData.initialize, failed or not.  Nobody uses the cache yet.
LEMMA InitStaticStep ==
  ASSUME SizeAssumption, DataInv, IInv',
         \/ InitStaticDone
         \/ \E kept \in SUBSET StaticGpuDataType, streamKept \in BOOLEAN : InitStaticFails(kept, streamKept)
  PROVE  DataInv'
<1>1. step = "initStatic" /\ ~owned /\ UNCHANGED vars /\ UNCHANGED <<overrun, overcommitted>>
  BY DEF InitStaticDone, InitStaticFails, DataInv, OwnedIsAllocated
<1>2. Live' = {} /\ Sleepers' = {}
  BY <1>1 DEF Live, Sleepers, vars, accessVars, DataInv, UsersPassedTheGate, execute
<1>3. NoConfig.bytes \in [StaticGpuDataType -> Sizes] /\ NoBuffers \in [StaticGpuDataType -> Sizes]
  BY SizeFacts DEF NoConfig, NoBuffers
<1>4. config.bytes \in [StaticGpuDataType -> Sizes] /\ Enabled(config.bytes) \subseteq StaticGpuDataType
  BY DEF DataInv, DataTypeOK, Enabled
<1>5. CASE InitStaticDone
  <2>1. /\ currentState' = IF Enabled(config.bytes) = {} THEN "Ready" ELSE "Uploading"
        /\ capacity' = config.bytes /\ d_data' = Enabled(config.bytes)
        /\ uploadStream' = (Enabled(config.bytes) # {})
        /\ undrainedZeros' = (Enabled(config.bytes) # {})
        /\ poisoned' = FALSE /\ owned' = TRUE /\ step' = "idle" /\ config' = NoConfig
    BY <1>5 DEF InitStaticDone
  <2>2. DataTypeOK'
    BY <1>1, <1>3, <1>4, <2>1 DEF DataInv, DataTypeOK
  <2>3. UsersPassedTheGate' /\ SizesAreExact'
    BY <1>1, <1>2 DEF UsersPassedTheGate, DataInv, SizesAreExact
  <2>4. OwnedIsAllocated'
    BY <2>1 DEF OwnedIsAllocated
  <2>5. EmptyIsEmpty'
    BY <2>1 DEF EmptyIsEmpty
  <2>6. NothingPoisoned'
    BY <2>1 DEF NothingPoisoned
  <2> QED BY <2>2, <2>3, <2>4, <2>5, <2>6 DEF DataInv
<1>6. ASSUME NEW kept \in SUBSET StaticGpuDataType, NEW streamKept \in BOOLEAN,
             InitStaticFails(kept, streamKept)
      PROVE  DataInv'
  <2>1. /\ currentState' = "Failed" /\ d_data' = kept /\ uploadStream' = streamKept
        /\ capacity' \in {NoBuffers, config.bytes}
        /\ undrainedZeros' = (kept # {}) /\ poisoned' = poisoned /\ owned' = owned
        /\ step' = "undo" /\ config' = NoConfig
    BY <1>6 DEF InitStaticFails, ownerVars
  <2>2. DataTypeOK'
    BY <1>1, <1>3, <1>4, <2>1 DEF DataInv, DataTypeOK
  <2>3. UsersPassedTheGate' /\ SizesAreExact'
    BY <1>1, <1>2 DEF UsersPassedTheGate, DataInv, SizesAreExact
  <2>4. OwnedIsAllocated' /\ EmptyIsEmpty' /\ NothingPoisoned'
    BY <1>1, <2>1 DEF OwnedIsAllocated, EmptyIsEmpty, NothingPoisoned
  <2> QED BY <2>2, <2>3, <2>4 DEF DataInv
<1> QED BY <1>5, <1>6

\* gpuStaticData.release, after the cache has given everything back.
LEMMA ReleaseStaticStep ==
  ASSUME SizeAssumption, DataInv, IInv', NEW kept \in SUBSET StaticGpuDataType, NEW streamKept \in BOOLEAN,
         ReleaseStatic(kept, streamKept)
  PROVE  DataInv'
<1>1. /\ step = "freeStatic" /\ UNCHANGED vars
      /\ UNCHANGED <<config, poisoned, overrun, overcommitted>>
      /\ d_data' = kept /\ uploadStream' = streamKept /\ owned' = FALSE /\ step' = "idle"
      /\ undrainedZeros' = (undrainedZeros /\ kept # {})
  BY DEF ReleaseStatic
<1>2. \/ /\ kept = {} /\ ~streamKept
         /\ currentState' = "Empty" /\ capacity' = NoBuffers
      \/ currentState' = "Failed" /\ capacity' = capacity
  BY DEF ReleaseStatic, NothingKept
<1>3. ManagerEmpty /\ ManagerEmpty'
  <2>1. ManagerEmpty
    BY <1>1 DEF DataInv, EmptyIsEmpty
  <2>2. UNCHANGED managerVars /\ UNCHANGED listVars
    BY <1>1 DEF vars
  <2> QED BY <2>1, <2>2 DEF ManagerEmpty, managerVars, listVars
<1>4. Live' = {} /\ Sleepers' = {}
  <2>1. Live = {} /\ Sleepers = {}
    BY <1>3, NobodyUses DEF DataInv, ManagerEmpty
  <2> QED BY <1>1, <2>1 DEF Live, Sleepers, vars, accessVars
<1>5. NoBuffers \in [StaticGpuDataType -> Sizes]
  BY SizeFacts DEF NoBuffers
<1>6. DataTypeOK'
  BY <1>1, <1>2, <1>5 DEF DataInv, DataTypeOK
<1>7. UsersPassedTheGate' /\ SizesAreExact'
  BY <1>1, <1>4 DEF UsersPassedTheGate, DataInv, SizesAreExact
<1>8. OwnedIsAllocated' /\ NothingPoisoned'
  BY <1>1, <1>2 DEF OwnedIsAllocated, NothingPoisoned
<1>9. EmptyIsEmpty'
  BY <1>1, <1>2, <1>3 DEF EmptyIsEmpty
<1> QED BY <1>6, <1>7, <1>8, <1>9 DEF DataInv

\* An upload or the finalization.  Nobody uses the cache before Ready.
LEMMA UploadStep ==
  ASSUME DataInv, IInv',
         \/ \E type \in StaticGpuDataType, offset, count \in Sizes, ok \in BOOLEAN :
               UploadStaticData(type, offset, count, ok)
         \/ \E ok \in BOOLEAN : FinalizeStaticData(ok)
  PROVE  DataInv'
<1>1. /\ step = "idle" /\ owned /\ currentState = "Uploading"
      /\ UNCHANGED vars /\ UNCHANGED <<ownerVars, capacity, d_data, uploadStream, step, config, overcommitted>>
  BY DEF UploadStaticData, FinalizeStaticData
<1>2. Live' = {} /\ Sleepers' = {}
  BY <1>1 DEF Live, Sleepers, vars, accessVars, DataInv, UsersPassedTheGate, execute
<1>3. UsersPassedTheGate' /\ OwnedIsAllocated'
  BY <1>1, <1>2 DEF UsersPassedTheGate, DataInv, OwnedIsAllocated, ownerVars
<1> DEFINE Consistent == /\ currentState' \in {"Uploading", "Ready", "Failed"}
                         /\ poisoned' \in BOOLEAN /\ undrainedZeros' \in BOOLEAN
                         /\ poisoned' => currentState' = "Failed"
                         /\ currentState' = "Ready" => ~undrainedZeros'
                         /\ overrun' = FALSE
<1>4. Consistent
  <2>1. ~poisoned /\ poisoned \in BOOLEAN /\ undrainedZeros \in BOOLEAN /\ ~overrun /\ overrun \in BOOLEAN
    BY <1>1 DEF DataInv, DataTypeOK, NothingPoisoned, SizesAreExact
  <2>2. ASSUME NEW type \in StaticGpuDataType, NEW offset \in Sizes, NEW count \in Sizes, NEW ok \in BOOLEAN,
               UploadStaticData(type, offset, count, ok)
        PROVE  Consistent
    <3> DEFINE size == capacity[type]
               writes == size # 0 /\ count # 0 /\ InBounds(offset, count, size) /\ ok
    <3>1. /\ currentState' = StateAfterUpload(writes)
          /\ undrainedZeros' = (undrainedZeros /\ ~writes)
          /\ poisoned' = (poisoned \/ ~writes)
          /\ overrun' = (overrun \/ (writes /\ offset + count > size))
      BY <2>2 DEF UploadStaticData
    <3>2. size \in Int /\ offset \in Int /\ count \in Int
      BY DEF DataInv, DataTypeOK, Sizes
    <3>3. InBounds(offset, count, size) => ~(offset + count > size)
      <4> HIDE DEF size
      <4> QED BY <3>2 DEF InBounds
    <3>4. ~(writes /\ offset + count > size)
      BY <3>3
    <3> HIDE DEF size, writes
    <3>5. overrun' = FALSE
      BY <2>1, <3>1, <3>4
    <3> QED BY <2>1, <3>1, <3>5 DEF StateAfterUpload
  <2>3. ASSUME NEW ok \in BOOLEAN, FinalizeStaticData(ok) PROVE Consistent
    BY <2>1, <2>3 DEF FinalizeStaticData, DrainedBy
  <2> QED BY <2>2, <2>3
<1>5. DataTypeOK'
  BY <1>1, <1>4 DEF DataInv, DataTypeOK, ownerVars
<1>6. EmptyIsEmpty'
  BY <1>1, <1>4 DEF EmptyIsEmpty
<1>7. NothingPoisoned' /\ SizesAreExact'
  BY <1>1, <1>4 DEF NothingPoisoned, SizesAreExact, DataInv
<1> QED BY <1>3, <1>5, <1>6, <1>7 DEF DataInv

\* Requests, resets and the ends of leases: the gate is open and stays open.
LEMMA UseStep ==
  ASSUME DataInv, IInv',
         \/ StaticResetCache
         \/ \E a \in Accesses, f \in Frames, late \in BOOLEAN : StaticGetCacheData(a, f, late)
         \/ (\E a \in Accesses : LeaseStep(a)) /\ UNCHANGED <<ownerVars, staticVars, step, config, ghostVars>>
  PROVE  DataInv'
<1>1. UNCHANGED <<ownerVars, staticVars, step, config, ghostVars>>
  BY DEF StaticResetCache, StaticGetCacheData
<1>2. initialized
  BY UsersAfterLeaseStep DEF DataInv, StaticResetCache, StaticGetCacheData, ResetCache, GetCacheData, Accepts
<1>3. currentState # "Empty" \/ step = "initStatic"
  BY <1>2 DEF DataInv, EmptyIsEmpty, ManagerEmpty
<1>4. step # "freeStatic"
  BY <1>2 DEF DataInv, EmptyIsEmpty, ManagerEmpty
<1>5. UsersPassedTheGate'
  <2>1. CASE StaticResetCache
    <3>1. pc' = pc
      BY <2>1 DEF StaticResetCache, ResetCache, accessVars
    <3> QED BY <1>1, <3>1 DEF DataInv, UsersPassedTheGate, Live, Sleepers, execute, ownerVars, staticVars
  <2>2. CASE \E a \in Accesses, f \in Frames, late \in BOOLEAN : StaticGetCacheData(a, f, late)
    <3>1. execute
      BY <2>2 DEF StaticGetCacheData, validateFrame
    <3> QED BY <1>1, <3>1 DEF UsersPassedTheGate, execute, ownerVars, staticVars
  <2>3. CASE \E a \in Accesses : LeaseStep(a)
    <3>1. execute
      BY <2>3, UsersAfterLeaseStep DEF DataInv, UsersPassedTheGate
    <3> QED BY <1>1, <3>1 DEF UsersPassedTheGate, execute, ownerVars, staticVars
  <2> QED BY <2>1, <2>2, <2>3
<1>6. DataTypeOK' /\ OwnedIsAllocated' /\ NothingPoisoned' /\ SizesAreExact'
  BY <1>1 DEF DataInv, DataTypeOK, OwnedIsAllocated, NothingPoisoned, SizesAreExact, ownerVars, staticVars, ghostVars
<1>7. EmptyIsEmpty'
  BY <1>1, <1>3, <1>4 DEF DataInv, EmptyIsEmpty, staticVars
<1> QED BY <1>5, <1>6, <1>7 DEF DataInv

-----------------------------------------------------------------------------
(* The theorems *)

\* The cache inside StaticData behaves as GpuDataCache says: StaticData calls
\* it only the way its contract allows, and every theorem about the cache
\* holds of it.
THEOREM CacheIsUsedAsSpecified == DataSpec => Spec
<1>1. DataInit => Init
  BY DEF DataInit
<1>2. [DataNext]_dataVars => [Next]_vars
  BY DataStepIsCacheStep
<1> QED BY <1>1, <1>2, PTL DEF DataSpec, Spec

\* DataInv holds in every reachable state of StaticData.
THEOREM DataInvariance == DataSpec => []DataInv
<1>1. DataInit => DataInv
  <2> SUFFICES ASSUME DataInit PROVE DataInv
    OBVIOUS
  <2>1. IInv
    BY InitEstablishes, CacheAssumption DEF DataInit
  <2>2. NoBuffers \in [StaticGpuDataType -> Sizes] /\ Enabled(NoBuffers) = {}
    BY SizeFacts, SizeAssumption DEF NoBuffers, Enabled
  <2>3. DataTypeOK
    BY <2>2 DEF DataInit, DataTypeOK, NoConfig
  <2>4. Live = {} /\ Sleepers = {}
    BY DEF DataInit, Init, Live, LivePc, Sleepers
  <2>5. ManagerEmpty
    BY DEF DataInit, Init, ManagerEmpty
  <2> QED BY <2>1, <2>2, <2>3, <2>4, <2>5
          DEF DataInv, UsersPassedTheGate, OwnedIsAllocated, EmptyIsEmpty, NothingPoisoned, SizesAreExact,
              DataInit
<1>2. DataInv /\ [DataNext]_dataVars => DataInv'
  <2> SUFFICES ASSUME DataInv, [DataNext]_dataVars PROVE DataInv'
    OBVIOUS
  <2>1. IInv'
    <3>1. IInv /\ [Next]_vars
      BY DataStepIsCacheStep DEF DataInv
    <3> QED BY <3>1, NextPreserves, CacheAssumption
  <2>2. CASE UNCHANGED dataVars
    <3>1. UNCHANGED <<ownerVars, staticVars, step, config, ghostVars>>
      BY <2>2 DEF dataVars
    <3>2. UNCHANGED managerVars /\ UNCHANGED listVars /\ pc' = pc
      BY <2>2 DEF dataVars, vars, accessVars
    <3>3. Live' = Live /\ Sleepers' = Sleepers /\ (ManagerEmpty' <=> ManagerEmpty)
      BY <3>2 DEF Live, Sleepers, ManagerEmpty, managerVars, listVars
    <3>4. DataTypeOK' /\ OwnedIsAllocated' /\ NothingPoisoned' /\ SizesAreExact'
      BY <3>1 DEF DataInv, DataTypeOK, OwnedIsAllocated, NothingPoisoned, SizesAreExact, ownerVars, staticVars, ghostVars
    <3>5. UsersPassedTheGate' /\ EmptyIsEmpty'
      BY <3>1, <3>3 DEF DataInv, UsersPassedTheGate, EmptyIsEmpty, execute, ownerVars, staticVars
    <3> QED BY <2>1, <3>4, <3>5 DEF DataInv
  <2>3. ASSUME NEW m \in Admins, ColdPath(m) PROVE DataInv'
    BY <2>1, <2>3, InitBeginStep, InitCacheStep, ReleaseCacheStep, SizeAssumption DEF ColdPath
  <2>4. CASE InitStaticDone
    BY <2>1, <2>4, InitStaticStep, SizeAssumption
  <2>5. ASSUME NEW kept \in SUBSET StaticGpuDataType, NEW streamKept \in BOOLEAN,
               InitStaticFails(kept, streamKept) \/ ReleaseStatic(kept, streamKept)
        PROVE  DataInv'
    BY <2>1, <2>5, InitStaticStep, ReleaseStaticStep, SizeAssumption
  <2>6. CASE \/ \E type \in StaticGpuDataType, offset, count \in Sizes, ok \in BOOLEAN :
                   UploadStaticData(type, offset, count, ok)
             \/ \E ok \in BOOLEAN : FinalizeStaticData(ok)
    BY <2>1, <2>6, UploadStep
  <2>7. ASSUME NEW a \in Accesses,
               \/ \E f \in Frames, late \in BOOLEAN : StaticGetCacheData(a, f, late)
               \/ LeaseStep(a) /\ UNCHANGED <<ownerVars, staticVars, step, config, ghostVars>>
        PROVE  DataInv'
    BY <2>1, <2>7, UseStep
  <2>8. CASE StaticResetCache
    BY <2>1, <2>8, UseStep
  <2> QED BY <2>2, <2>3, <2>4, <2>5, <2>6, <2>7, <2>8 DEF DataNext
<1> QED BY <1>1, <1>2, PTL DEF DataSpec

\* The static buffers outlive every lease and every sleeping request, because
\* release asks the cache first.
THEOREM BuffersOutliveLeases == DataSpec => []StaticBuffersOutliveLeases
<1>1. DataInv => StaticBuffersOutliveLeases
  BY DEF DataInv, UsersPassedTheGate, OwnedIsAllocated, StaticBuffersOutliveLeases, execute
<1> QED BY <1>1, DataInvariance, PTL

\* Pointers are exposed only after everything behind them is written.
THEOREM ReadyMeansComplete == DataSpec => []ReadyIsComplete
<1>1. DataInv => ReadyIsComplete
  BY DEF DataInv, NothingPoisoned, ReadyIsComplete
<1> QED BY <1>1, DataInvariance, PTL

\* A new init never leaks what an earlier attempt left behind.
THEOREM StartsAreFresh == DataSpec => []FreshStart
<1>1. DataInv => FreshStart
  BY EmptyOwnsNothing DEF DataInv, EmptyIsEmpty, FreshStart, InitAllowed
<1> QED BY <1>1, DataInvariance, PTL

\* Size arithmetic never wraps, whatever the width of std::size_t.
THEOREM SizesStayExact == DataSpec => []SizesAreExact
<1>1. DataInv => SizesAreExact
  BY DEF DataInv
<1> QED BY <1>1, DataInvariance, PTL

\* Under StaticData the cache keeps its books and its contract, a live hit
\* reads its own frame, and no wakeup is lost.
THEOREM ReadersAreBacked ==
  DataSpec => [](ReaderSeesItsFrame /\ Bookkeeping /\ NoLostWakeup) /\ ImplementsStore
<1> QED BY CacheIsUsedAsSpecified, ReadersSeeTheirFrames, BookkeepingIsExact, WakeupsAreNotLost,
           CacheImplementsStore, PTL

-----------------------------------------------------------------------------
(* GpuDataCacheStatistics *)

\* The inductive invariant: the cache's own, the counters' types, the local
\* flags of the calls in progress, and the reconciliation itself.
StatInv ==
    /\ IInv
    /\ statistics \in [Counters -> Nat] /\ returned \in Nat
    /\ blocked = Sleepers /\ waited = Sleepers
    /\ CountersReconcile

\* Count adds one to each counter of the set.
LEMMA CountFacts ==
  ASSUME statistics \in [Counters -> Nat], NEW C, Count(C)
  PROVE  /\ statistics' \in [Counters -> Nat]
         /\ \A c \in Counters : statistics'[c] = IF c \in C THEN statistics[c] + 1 ELSE statistics[c]
<1> DEFINE inc(c) == IF c \in C THEN 1 ELSE 0
<1>1. statistics' = [c \in Counters |-> statistics[c] + inc(c)]
  BY DEF Count
<1>2. \A c \in Counters : statistics[c] \in Nat /\ inc(c) \in Nat
  OBVIOUS
<1>3. \A c \in Counters : statistics'[c] = statistics[c] + inc(c)
  BY <1>1
<1> HIDE DEF inc
<1>4. \A c \in Counters : statistics[c] + inc(c) \in Nat
  BY <1>2
<1>5. statistics' \in [Counters -> Nat]
  BY <1>1, <1>4
<1>6. \A c \in Counters : statistics'[c] = IF c \in C THEN statistics[c] + 1 ELSE statistics[c]
  BY <1>2, <1>3 DEF inc
<1> QED BY <1>5, <1>6

\* There are finitely many entries in each state.
LEMMA EntriesFinite ==
  ASSUME CacheAssumption
  PROVE  /\ IsFiniteSet(Index)
         /\ \A s : EntriesIn(s) \in Nat
         /\ \A s : EntriesIn(s)' \in Nat
<1>1. IsFiniteSet(Index)
  BY FS_Interval DEF CacheAssumption, Index
<1>2. ASSUME NEW s PROVE EntriesIn(s) \in Nat
  <2>1. IsFiniteSet({e \in Index : cacheState[e] = s})
    BY <1>1, FS_Subset
  <2> QED BY <2>1, FS_CardinalityType DEF EntriesIn
<1>3. ASSUME NEW s PROVE EntriesIn(s)' \in Nat
  <2>1. IsFiniteSet({e \in Index : cacheState'[e] = s})
    BY <1>1, FS_Subset
  <2> QED BY <2>1, FS_CardinalityType DEF EntriesIn
<1> QED BY <1>1, <1>2, <1>3

\* A step that moves one entry to another state moves one from count to count.
LEMMA EntryMoves ==
  ASSUME CacheAssumption, cacheState \in [Index -> {"Empty", "Loading", "Valid"}],
         NEW e \in Index, NEW old, NEW new, cacheState[e] = old, old # new,
         cacheState' = [cacheState EXCEPT ![e] = new]
  PROVE  /\ EntriesIn(new)' = EntriesIn(new) + 1
         /\ EntriesIn(old)' = EntriesIn(old) - 1
<1> DEFINE S(s) == {d \in Index : cacheState[d] = s}
           T(s) == {d \in Index : cacheState'[d] = s}
<1>1. /\ cacheState'[e] = new
      /\ \A d \in Index : d # e => cacheState'[d] = cacheState[d]
  OBVIOUS
<1>2. \A s : IsFiniteSet(S(s)) /\ IsFiniteSet(T(s))
  BY EntriesFinite, FS_Subset
<1>3. \A s : EntriesIn(s) = Cardinality(S(s)) /\ EntriesIn(s)' = Cardinality(T(s))
  BY DEF EntriesIn
<1>4. T(new) = S(new) \cup {e} /\ e \notin S(new)
  BY <1>1
<1>5. T(old) = S(old) \ {e} /\ e \in S(old)
  BY <1>1
<1> HIDE DEF S, T
<1>7. EntriesIn(new)' = EntriesIn(new) + 1
  BY <1>2, <1>3, <1>4, FS_AddElement
<1>8. EntriesIn(old)' = EntriesIn(old) - 1
  BY <1>2, <1>3, <1>5, FS_RemoveElement
<1> QED BY <1>7, <1>8

\* The entries in a third state stay as they are.
LEMMA OthersStay ==
  ASSUME cacheState \in [Index -> {"Empty", "Loading", "Valid"}],
         NEW e \in Index, NEW new, NEW third, third # new, cacheState[e] # third,
         cacheState' = [cacheState EXCEPT ![e] = new]
  PROVE  EntriesIn(third)' = EntriesIn(third)
<1>1. {d \in Index : cacheState'[d] = third} = {d \in Index : cacheState[d] = third}
  OBVIOUS
<1> QED BY <1>1 DEF EntriesIn

\* A step that leaves every entry in its state leaves the counts alone.
LEMMA EntriesStay ==
  ASSUME cacheState' = cacheState
  PROVE  \A s : EntriesIn(s)' = EntriesIn(s)
BY DEF EntriesIn

\* The sleepers after one access fell asleep, stayed asleep or left.
LEMMA SleepersMove ==
  ASSUME CacheAssumption, NEW a \in Accesses, pc \in [Accesses -> {"idle", "asleep"} \cup LivePc],
         NEW where, pc' = [pc EXCEPT ![a] = where]
  PROVE  /\ where = "asleep" => Sleepers' = Sleepers \cup {a}
         /\ where # "asleep" => Sleepers' = Sleepers \ {a}
         /\ Cardinality(Sleepers) \in Nat /\ Cardinality(Sleepers') \in Nat
         /\ where = "asleep" =>
              Cardinality(Sleepers') = IF a \in Sleepers THEN Cardinality(Sleepers)
                                       ELSE Cardinality(Sleepers) + 1
         /\ where # "asleep" =>
              Cardinality(Sleepers') = IF a \in Sleepers THEN Cardinality(Sleepers) - 1
                                       ELSE Cardinality(Sleepers)
<1>1. IsFiniteSet(Sleepers) /\ IsFiniteSet(Sleepers')
  BY FS_Subset DEF Sleepers, CacheAssumption
<1>2. where = "asleep" => Sleepers' = Sleepers \cup {a}
  BY DEF Sleepers
<1>3. where # "asleep" => Sleepers' = Sleepers \ {a}
  BY DEF Sleepers
<1>4. Cardinality(Sleepers) \in Nat /\ Cardinality(Sleepers') \in Nat
  BY <1>1, FS_CardinalityType
<1>5. where = "asleep" => Cardinality(Sleepers') = IF a \in Sleepers THEN Cardinality(Sleepers)
                                                   ELSE Cardinality(Sleepers) + 1
  BY <1>1, <1>2, FS_AddElement
<1>6. where # "asleep" => Cardinality(Sleepers') = IF a \in Sleepers THEN Cardinality(Sleepers) - 1
                                                   ELSE Cardinality(Sleepers)
  <2>1. a \notin Sleepers => Sleepers \ {a} = Sleepers
    OBVIOUS
  <2> QED BY <1>1, <1>3, <2>1, FS_RemoveElement
<1> QED BY <1>2, <1>3, <1>4, <1>5, <1>6

-----------------------------------------------------------------------------
(* One pass of getCacheData *)

\* A fallback has exactly one reason.
LEMMA ReasonFacts ==
  ASSUME NEW f, waitTimeout \in BOOLEAN
  PROVE  Reason(f) \in Reasons
<1>1. ~(BlockedLoading(f) /\ MissingReplica(f))
  BY DEF BlockedLoading, MissingReplica, ReadableEntry
<1>2. entryCount = 0 => ~BlockedLoading(f) /\ ~MissingReplica(f)
  BY DEF BlockedLoading, MissingReplica, ReadableEntry, Matching, Entries
<1>3. CASE entryCount = 0
  BY <1>2, <1>3 DEF Reason, Reasons
<1>4. CASE entryCount # 0 /\ MissingReplica(f)
  BY <1>1, <1>4 DEF Reason, Reasons
<1>5. CASE entryCount # 0 /\ BlockedLoading(f)
  BY <1>1, <1>5 DEF Reason, Reasons
<1>6. CASE entryCount # 0 /\ ~MissingReplica(f) /\ ~BlockedLoading(f)
  BY <1>6 DEF Reason, Reasons
<1> QED BY <1>3, <1>4, <1>5, <1>6

\* The situations a pass distinguishes exclude one another.
LEMMA SituationsExclusive ==
  ASSUME NEW f
  PROVE  /\ CanHit(f) => ~CanFill(f) /\ ~Blocked(f) /\ ~MissingReplica(f)
         /\ CanFill(f) => ~Blocked(f) /\ ~MissingReplica(f)
         /\ Blocked(f) => ~MissingReplica(f)
BY DEF CanHit, CanFill, Blocked, BlockedLoading, BlockedFull, MissingReplica, ReadableEntry, Matching

\* Each branch of the loop body counts its own outcome.
LEMMA OutcomeFacts ==
  ASSUME NEW a, NEW f, NEW late
  PROVE  /\ ServeHit(a, f) => Outcome(f, late) = {"hit"} /\ ~Sleeps(f, late) /\ ~Blocked(f)
         /\ ServeFill(a, f) => Outcome(f, late) = FillCounters(f) /\ ~Sleeps(f, late) /\ ~Blocked(f)
         /\ ServeFallback(a, f, late) => Outcome(f, late) = {"fallback", Reason(f)} /\ ~Sleeps(f, late)
         /\ ServeSleep(a, f, late) => Outcome(f, late) = {} /\ Sleeps(f, late)
         /\ ServeInvalid(a, f) => Outcome(f, late) = {"invalid"} /\ ~Sleeps(f, late)
<1>1. ASSUME ServeHit(a, f)
      PROVE  Outcome(f, late) = {"hit"} /\ ~Sleeps(f, late) /\ ~Blocked(f)
  <2>1. ~failed /\ CanHit(f)
    BY <1>1 DEF ServeHit
  <2>2. ~CanFill(f) /\ ~Blocked(f) /\ ~MissingReplica(f) /\ ~Sleeps(f, late)
    BY <2>1, SituationsExclusive DEF Sleeps
  <2> QED BY <2>1, <2>2 DEF Outcome
<1>2. ASSUME ServeFill(a, f)
      PROVE  Outcome(f, late) = FillCounters(f) /\ ~Sleeps(f, late) /\ ~Blocked(f)
  <2>1. ~failed /\ CanFill(f)
    BY <1>2 DEF ServeFill
  <2>2. ~CanHit(f) /\ ~Blocked(f) /\ ~MissingReplica(f) /\ ~Sleeps(f, late)
    BY <2>1, SituationsExclusive DEF Sleeps
  <2> QED BY <2>1, <2>2 DEF Outcome
<1>3. ASSUME ServeFallback(a, f, late)
      PROVE  Outcome(f, late) = {"fallback", Reason(f)} /\ ~Sleeps(f, late)
  <2>1. ~failed /\ ((Blocked(f) /\ ~MayWait(late)) \/ MissingReplica(f))
    BY <1>3 DEF ServeFallback
  <2>2. ~CanHit(f) /\ ~CanFill(f) /\ ~Sleeps(f, late)
    BY <2>1, SituationsExclusive DEF Sleeps
  <2> QED BY <2>1, <2>2 DEF Outcome
<1>4. ASSUME ServeSleep(a, f, late)
      PROVE  Outcome(f, late) = {} /\ Sleeps(f, late)
  <2>1. ~failed /\ Blocked(f) /\ MayWait(late)
    BY <1>4 DEF ServeSleep
  <2>2. ~CanHit(f) /\ ~CanFill(f) /\ ~MissingReplica(f) /\ Sleeps(f, late)
    BY <2>1, SituationsExclusive DEF Sleeps
  <2> QED BY <2>1, <2>2 DEF Outcome
<1>5. ASSUME ServeInvalid(a, f)
      PROVE  Outcome(f, late) = {"invalid"} /\ ~Sleeps(f, late)
  <2>1. failed \/ ~(CanHit(f) \/ CanFill(f) \/ Blocked(f) \/ MissingReplica(f))
    BY <1>5 DEF ServeInvalid
  <2>2. CASE failed
    BY <2>2 DEF Outcome, Sleeps
  <2>3. CASE ~failed
    BY <2>1, <2>3 DEF Outcome, Sleeps
  <2> QED BY <2>2, <2>3
<1> QED BY <1>1, <1>2, <1>3, <1>4, <1>5

\* Each request returns once, with one outcome, and a fallback has one reason.
LEMMA OutcomesAdd ==
  ASSUME statistics \in [Counters -> Nat], returned \in Nat, OneOutcomePerRequest, NEW C, Count(C),
         \/ /\ returned' = returned + 1
            /\ \E o \in Outcomes : C \cap (Outcomes \cup Reasons) = {o} /\ o # "fallback"
         \/ /\ returned' = returned + 1
            /\ \E r \in Reasons : C \cap (Outcomes \cup Reasons) = {"fallback", r}
         \/ returned' = returned /\ C \cap (Outcomes \cup Reasons) = {}
  PROVE  returned' \in Nat /\ OneOutcomePerRequest'
<1>1. \A c \in Outcomes \cup Reasons :
        /\ statistics[c] \in Nat
        /\ statistics'[c] = IF c \in C \cap (Outcomes \cup Reasons) THEN statistics[c] + 1
                            ELSE statistics[c]
  BY CountFacts DEF Counters
<1>2. returned' \in Nat
  OBVIOUS
<1>3. CASE returned' = returned /\ C \cap (Outcomes \cup Reasons) = {}
  BY <1>1, <1>3 DEF OneOutcomePerRequest, Outcomes, Reasons
<1>4. ASSUME returned' = returned + 1, NEW o \in Outcomes, o # "fallback",
             C \cap (Outcomes \cup Reasons) = {o}
      PROVE  OneOutcomePerRequest'
  <2>1. \A r \in Reasons : statistics'[r] = statistics[r]
    BY <1>1, <1>4 DEF Outcomes, Reasons
  <2>2. \A c \in Outcomes : statistics'[c] = IF c = o THEN statistics[c] + 1 ELSE statistics[c]
    BY <1>1, <1>4
  <2>3. \A c \in Outcomes \cup Reasons : statistics[c] \in Nat
    BY <1>1
  <2>4. o = "hit" \/ o = "fill" \/ o = "invalid"
    BY <1>4 DEF Outcomes
  <2>5. /\ statistics'["hit"] + statistics'["fill"] + statistics'["invalid"]
             = statistics["hit"] + statistics["fill"] + statistics["invalid"] + 1
        /\ statistics'["fallback"] = statistics["fallback"]
    <3>1. statistics["hit"] \in Nat /\ statistics["fill"] \in Nat /\ statistics["invalid"] \in Nat
      BY <2>3 DEF Outcomes
    <3>2. CASE o = "hit"
      BY <2>2, <3>1, <3>2 DEF Outcomes
    <3>3. CASE o = "fill"
      BY <2>2, <3>1, <3>3 DEF Outcomes
    <3>4. CASE o = "invalid"
      BY <2>2, <3>1, <3>4 DEF Outcomes
    <3> QED BY <2>4, <3>2, <3>3, <3>4
  <2>6. \A c \in Outcomes : statistics'[c] \in Nat
    BY <2>2, <2>3
  <2>7. /\ statistics["hit"] + statistics["fill"] + statistics["fallback"]
             + statistics["invalid"] = returned
        /\ statistics["capacityZero"] + statistics["loadingTimeout"] + statistics["fullTimeout"]
             + statistics["loadingNoWait"] + statistics["fullNoWait"]
             + statistics["replicaUnavailable"] = statistics["fallback"]
    BY DEF OneOutcomePerRequest
  <2>8. statistics'["hit"] + statistics'["fill"] + statistics'["fallback"]
          + statistics'["invalid"] = returned'
    BY <1>4, <2>3, <2>5, <2>6, <2>7 DEF Outcomes
  <2> QED BY <2>1, <2>5, <2>7, <2>8 DEF OneOutcomePerRequest, Reasons
<1>5. ASSUME returned' = returned + 1, NEW r \in Reasons,
             C \cap (Outcomes \cup Reasons) = {"fallback", r}
      PROVE  OneOutcomePerRequest'
  <2>1. \A c \in Outcomes : statistics'[c] = IF c = "fallback" THEN statistics[c] + 1 ELSE statistics[c]
    BY <1>1, <1>5 DEF Outcomes, Reasons
  <2>2. \A c \in Reasons : statistics'[c] = IF c = r THEN statistics[c] + 1 ELSE statistics[c]
    BY <1>1, <1>5 DEF Outcomes, Reasons
  <2>3. \A c \in Outcomes \cup Reasons : statistics[c] \in Nat
    BY <1>1
  <2>4. \/ r = "capacityZero" \/ r = "loadingTimeout" \/ r = "fullTimeout"
        \/ r = "loadingNoWait" \/ r = "fullNoWait" \/ r = "replicaUnavailable"
    BY DEF Reasons
  <2> DEFINE a1 == statistics["capacityZero"]    b1 == statistics'["capacityZero"]
             a2 == statistics["loadingTimeout"]  b2 == statistics'["loadingTimeout"]
             a3 == statistics["fullTimeout"]     b3 == statistics'["fullTimeout"]
             a4 == statistics["loadingNoWait"]   b4 == statistics'["loadingNoWait"]
             a5 == statistics["fullNoWait"]      b5 == statistics'["fullNoWait"]
             a6 == statistics["replicaUnavailable"]  b6 == statistics'["replicaUnavailable"]
  <2>5. /\ a1 \in Nat /\ a2 \in Nat /\ a3 \in Nat /\ a4 \in Nat /\ a5 \in Nat /\ a6 \in Nat
        /\ statistics["fallback"] \in Nat /\ statistics["hit"] \in Nat /\ statistics["fill"] \in Nat
        /\ statistics["invalid"] \in Nat
    BY <2>3 DEF Outcomes, Reasons
  <2>6. /\ b1 = IF r = "capacityZero" THEN a1 + 1 ELSE a1
        /\ b2 = IF r = "loadingTimeout" THEN a2 + 1 ELSE a2
        /\ b3 = IF r = "fullTimeout" THEN a3 + 1 ELSE a3
        /\ b4 = IF r = "loadingNoWait" THEN a4 + 1 ELSE a4
        /\ b5 = IF r = "fullNoWait" THEN a5 + 1 ELSE a5
        /\ b6 = IF r = "replicaUnavailable" THEN a6 + 1 ELSE a6
    BY <2>2 DEF Reasons
  <2>7. /\ statistics'["fallback"] = statistics["fallback"] + 1
        /\ statistics'["hit"] = statistics["hit"] /\ statistics'["fill"] = statistics["fill"]
        /\ statistics'["invalid"] = statistics["invalid"]
    BY <2>1 DEF Outcomes
  <2>8. /\ statistics["hit"] + statistics["fill"] + statistics["fallback"]
             + statistics["invalid"] = returned
        /\ a1 + a2 + a3 + a4 + a5 + a6 = statistics["fallback"]
    BY DEF OneOutcomePerRequest
  <2> HIDE DEF a1, a2, a3, a4, a5, a6, b1, b2, b3, b4, b5, b6
  <2>9. b1 + b2 + b3 + b4 + b5 + b6 = a1 + a2 + a3 + a4 + a5 + a6 + 1
    BY <2>4, <2>5, <2>6
  <2>10. b1 + b2 + b3 + b4 + b5 + b6 = statistics'["fallback"]
    BY <2>7, <2>8, <2>9
  <2>11. statistics'["hit"] + statistics'["fill"] + statistics'["fallback"]
           + statistics'["invalid"] = returned'
    <3> DEFINE h == statistics["hit"]  g == statistics["fill"]  b == statistics["fallback"]
               i == statistics["invalid"]
    <3>1. h \in Nat /\ g \in Nat /\ b \in Nat /\ i \in Nat /\ h + g + b + i = returned
      BY <2>5, <2>8
    <3>2. /\ statistics'["hit"] = h /\ statistics'["fill"] = g /\ statistics'["fallback"] = b + 1
          /\ statistics'["invalid"] = i
      BY <2>7
    <3> HIDE DEF h, g, b, i
    <3>3. h + g + (b + 1) + i = returned + 1
      BY <3>1
    <3> QED BY <1>5, <3>2, <3>3
  <2> QED BY <2>10, <2>11 DEF OneOutcomePerRequest, b1, b2, b3, b4, b5, b6
<1> QED BY <1>2, <1>3, <1>4, <1>5

\* The counters that a pass adds beside its outcome.
Extras(a, f, late) ==
    FirstObstruction(a, f) \cup IF Sleeps(f, late) /\ a \notin waited THEN {"waitedRequests"} ELSE {}

\* They count a request once: it is obstructed for the first time and, if it
\* sleeps, it waits for the first time.
LEMMA ObstructionsAdd ==
  ASSUME StatInv, CacheAssumption, NEW a \in Accesses, NEW f, NEW late, NEW C, Count(C),
         C \cap {"firstBlockedLoading", "firstBlockedFull", "waitedRequests"} = Extras(a, f, late),
         \/ /\ returned' = returned + 1 /\ ~Sleeps(f, late)
            /\ \E where : where # "asleep" /\ pc' = [pc EXCEPT ![a] = where]
         \/ returned' = returned /\ Sleeps(f, late) /\ pc' = [pc EXCEPT ![a] = "asleep"]
  PROVE  OneObstructionPerRequest'
<1> DEFINE L == "firstBlockedLoading"  F == "firstBlockedFull"  W == "waitedRequests"
           n == Cardinality(Sleepers)
           m == Cardinality(Sleepers')
           first == FirstObstruction(a, f)
<1>1. \A c \in {L, F, W} :
        /\ statistics[c] \in Nat
        /\ statistics'[c] = IF c \in Extras(a, f, late) THEN statistics[c] + 1 ELSE statistics[c]
  <2>1. \A c \in {L, F, W} : c \in Counters /\ (c \in C <=> c \in Extras(a, f, late))
    BY DEF Counters
  <2> QED BY <2>1, CountFacts DEF StatInv
<1>2. first = {} \/ first = {L} \/ first = {F}
  BY DEF FirstObstruction
<1>3. a \in Sleepers => first = {}
  BY DEF FirstObstruction, StatInv
<1>4. Sleeps(f, late) /\ a \notin Sleepers => first = {L} \/ first = {F}
  BY DEF FirstObstruction, StatInv, Sleeps, MayWait
<1>5. /\ L \in Extras(a, f, late) <=> first = {L}
      /\ F \in Extras(a, f, late) <=> first = {F}
      /\ W \in Extras(a, f, late) <=> Sleeps(f, late) /\ a \notin Sleepers
  BY <1>2 DEF Extras, StatInv
<1>6. /\ n \in Nat /\ m \in Nat /\ returned \in Nat
      /\ Sleeps(f, late) => m = IF a \in Sleepers THEN n ELSE n + 1
      /\ ~Sleeps(f, late) => m = IF a \in Sleepers THEN n - 1 ELSE n
  BY SleepersMove DEF StatInv, IInv, TypeOK
<1>7. /\ statistics[L] + statistics[F] <= returned + n
      /\ statistics[W] <= statistics[L] + statistics[F]
  BY DEF StatInv, CountersReconcile, OneObstructionPerRequest
<1> HIDE DEF n, m, first
<1>8. /\ statistics'[L] + statistics'[F] <= returned' + m
      /\ statistics'[W] <= statistics'[L] + statistics'[F]
  <2>1. CASE Sleeps(f, late) /\ a \in Sleepers
    BY <2>1, <1>1, <1>3, <1>5, <1>6, <1>7
  <2>2. CASE Sleeps(f, late) /\ a \notin Sleepers
    BY <2>2, <1>1, <1>4, <1>5, <1>6, <1>7
  <2>3. CASE ~Sleeps(f, late) /\ a \in Sleepers
    BY <2>3, <1>1, <1>3, <1>5, <1>6, <1>7
  <2>4. CASE ~Sleeps(f, late) /\ a \notin Sleepers
    BY <2>4, <1>1, <1>2, <1>5, <1>6, <1>7
  <2> QED BY <2>1, <2>2, <2>3, <2>4
<1> QED BY <1>8 DEF OneObstructionPerRequest, m

\* A step that counts C and moves entries between the states accordingly.
LEMMA FillsAdd ==
  ASSUME CacheAssumption, statistics \in [Counters -> Nat], initialized,
         FillsReconcile, PublishedPayloadsAccountedFor, NEW C, Count(C),
         NEW dl \in Int, NEW dv \in Int,
         EntriesIn("Loading")' = EntriesIn("Loading") + dl,
         EntriesIn("Valid")' = EntriesIn("Valid") + dv,
         (IF "fill" \in C THEN 1 ELSE 0) =
           (IF "fillSucceeded" \in C THEN 1 ELSE 0) + (IF "fillFailed" \in C THEN 1 ELSE 0) + dl,
         (IF "fillSucceeded" \in C THEN 1 ELSE 0) =
           (IF "eviction" \in C THEN 1 ELSE 0) + (IF "discard" \in C THEN 1 ELSE 0) + dv
  PROVE  FillsReconcile' /\ PublishedPayloadsAccountedFor'
<1> DEFINE one(c) == IF c \in C THEN 1 ELSE 0
<1>1. \A c \in Counters : statistics[c] \in Nat /\ one(c) \in Nat /\ statistics'[c] = statistics[c] + one(c)
  BY CountFacts
<1> DEFINE F == statistics["fill"]  S == statistics["fillSucceeded"]  X == statistics["fillFailed"]
           E == statistics["eviction"]  D == statistics["discard"]
           l == EntriesIn("Loading")  v == EntriesIn("Valid")
           f1 == one("fill")  s1 == one("fillSucceeded")  x1 == one("fillFailed")
           e1 == one("eviction")  d1 == one("discard")
<1>2. /\ F \in Nat /\ S \in Nat /\ X \in Nat /\ E \in Nat /\ D \in Nat
      /\ f1 \in Nat /\ s1 \in Nat /\ x1 \in Nat /\ e1 \in Nat /\ d1 \in Nat
      /\ statistics'["fill"] = F + f1 /\ statistics'["fillSucceeded"] = S + s1
      /\ statistics'["fillFailed"] = X + x1 /\ statistics'["eviction"] = E + e1
      /\ statistics'["discard"] = D + d1
  <2>1. \A c \in {"fill", "fillSucceeded", "fillFailed", "eviction", "discard"} : c \in Counters
    BY DEF Counters, Outcomes
  <2> HIDE DEF one
  <2> QED BY <1>1, <2>1
<1>3. l \in Nat /\ v \in Nat
  BY EntriesFinite
<1>4. F = S + X + l /\ S = E + D + v
  BY DEF FillsReconcile, PublishedPayloadsAccountedFor
<1>5. f1 = s1 + x1 + dl /\ s1 = e1 + d1 + dv
  OBVIOUS
<1>6. EntriesIn("Loading")' = l + dl /\ EntriesIn("Valid")' = v + dv
  OBVIOUS
<1> HIDE DEF F, S, X, E, D, l, v, f1, s1, x1, e1, d1, one
<1>7. F + f1 = (S + s1) + (X + x1) + (l + dl)
  BY <1>2, <1>3, <1>4, <1>5
<1>8. S + s1 = (E + e1) + (D + d1) + (v + dv)
  BY <1>2, <1>3, <1>4, <1>5
<1> QED BY <1>2, <1>6, <1>7, <1>8 DEF FillsReconcile, PublishedPayloadsAccountedFor

\* The entries that a reservation moves: an empty one, or a published one whose
\* eviction is counted.
LEMMA FillMoves ==
  ASSUME CacheAssumption, IInv, initialized, NEW a, NEW f, ServeFill(a, f)
  PROVE  /\ EntriesIn("Loading")' = EntriesIn("Loading") + 1
         /\ emptyEntries # <<>> => EntriesIn("Valid")' = EntriesIn("Valid")
         /\ emptyEntries = <<>> => EntriesIn("Valid")' = EntriesIn("Valid") - 1
<1>1. PICK c \in Candidates : cacheState' = [cacheState EXCEPT ![c] = "Loading"]
  BY DEF ServeFill
<1>2. /\ c \in Index
      /\ emptyEntries # <<>> => cacheState[c] = "Empty"
      /\ emptyEntries = <<>> => cacheState[c] = "Valid"
  BY CandidateFacts
<1>3. cacheState \in [Index -> {"Empty", "Loading", "Valid"}]
  BY DEF IInv, TypeOK
<1>4. CASE emptyEntries # <<>>
  <2>1. cacheState[c] = "Empty"
    BY <1>2, <1>4
  <2>2. EntriesIn("Loading")' = EntriesIn("Loading") + 1
    BY <1>1, <1>2, <1>3, <2>1, EntryMoves
  <2>3. EntriesIn("Valid")' = EntriesIn("Valid")
    BY <1>1, <1>2, <1>3, <2>1, OthersStay
  <2> QED BY <1>4, <2>2, <2>3
<1>5. CASE emptyEntries = <<>>
  BY <1>1, <1>2, <1>3, <1>5, EntryMoves
<1> QED BY <1>4, <1>5

\* One pass of getCacheData: what it does to the cache it also counts.
LEMMA PassReconciles ==
  ASSUME CacheAssumption, StatInv, IInv', initialized, NEW a \in Accesses, NEW f \in Frames,
         NEW late \in BOOLEAN, CountPass(a, f, late),
         \/ ServeHit(a, f) \/ ServeFill(a, f) \/ ServeFallback(a, f, late)
         \/ ServeSleep(a, f, late) \/ ServeInvalid(a, f)
  PROVE  StatInv'
<1> DEFINE C == FirstObstruction(a, f) \cup Outcome(f, late)
                \cup IF Sleeps(f, late) /\ a \notin waited THEN {"waitedRequests"} ELSE {}
           O == Outcome(f, late)
           B == {"firstBlockedLoading", "firstBlockedFull", "waitedRequests"}
<1>1. /\ Count(C)
      /\ blocked' = IF Sleeps(f, late) THEN blocked \cup {a} ELSE blocked \ {a}
      /\ waited' = IF Sleeps(f, late) THEN waited \cup {a} ELSE waited \ {a}
      /\ returned' = IF Sleeps(f, late) THEN returned ELSE returned + 1
  BY DEF CountPass
<1>2. /\ statistics \in [Counters -> Nat] /\ returned \in Nat /\ waitTimeout \in BOOLEAN
      /\ IInv /\ FillsReconcile /\ PublishedPayloadsAccountedFor /\ OneOutcomePerRequest
  BY DEF StatInv, CountersReconcile, IInv, TypeOK
<1>3. Reason(f) \in Reasons
  BY <1>2, ReasonFacts
<1>4. /\ Extras(a, f, late) \subseteq B
      /\ C = O \cup Extras(a, f, late)
  BY DEF Extras, FirstObstruction
<1>5. initialized' /\ (~ServeFill(a, f) => cacheState' = cacheState)
  BY DEF ServeHit, ServeFill, ServeFallback, ServeSleep, ServeInvalid, managerVars, entryVars
<1>6. /\ Sleeps(f, late) => pc' = [pc EXCEPT ![a] = "asleep"]
      /\ ~Sleeps(f, late) => \E where : where # "asleep" /\ pc' = [pc EXCEPT ![a] = where]
  <2>1. CASE ServeSleep(a, f, late)
    BY <2>1, OutcomeFacts DEF ServeSleep
  <2>2. CASE ServeHit(a, f) \/ ServeFill(a, f) \/ ServeFallback(a, f, late) \/ ServeInvalid(a, f)
    <3>1. ~Sleeps(f, late)
      BY <2>2, OutcomeFacts
    <3>2. \E status, e : Leaves(a, f, status, e)
      BY <2>2 DEF ServeHit, ServeFill, ServeFallback, ServeInvalid
    <3>3. PICK status : pc' = [pc EXCEPT ![a] = IF status = "Invalid" THEN "idle" ELSE "held"]
      BY <3>2 DEF Leaves
    <3>4. pc' = [pc EXCEPT ![a] = "idle"] \/ pc' = [pc EXCEPT ![a] = "held"]
      BY <3>3
    <3>5. "idle" # "asleep" /\ "held" # "asleep"
      OBVIOUS
    <3> QED BY <3>1, <3>4, <3>5, Zenon
  <2> QED BY <2>1, <2>2
<1>7. blocked' = Sleepers' /\ waited' = Sleepers'
  BY <1>1, <1>6, SleepersMove DEF StatInv, IInv, TypeOK
<1>8. \/ O = {"hit"} /\ ~Sleeps(f, late) /\ ServeHit(a, f)
      \/ O = FillCounters(f) /\ ~Sleeps(f, late) /\ ServeFill(a, f)
      \/ O = {"fallback", Reason(f)} /\ ~Sleeps(f, late) /\ ServeFallback(a, f, late)
      \/ O = {} /\ Sleeps(f, late) /\ ServeSleep(a, f, late)
      \/ O = {"invalid"} /\ ~Sleeps(f, late) /\ ServeInvalid(a, f)
  BY OutcomeFacts
<1>9. O \cap B = {}
  BY <1>3, <1>8 DEF FillCounters, Reasons
<1>10. OneObstructionPerRequest'
  <2>1. C \cap B = Extras(a, f, late)
    BY <1>4, <1>9
  <2> HIDE DEF C, O
  <2> QED BY <1>1, <1>6, <2>1, ObstructionsAdd
<1>11. C \cap (Outcomes \cup Reasons) = O \cap (Outcomes \cup Reasons)
  BY <1>4 DEF Outcomes, Reasons
<1>12. statistics' \in [Counters -> Nat]
  <2> HIDE DEF C
  <2> QED BY <1>1, <1>2, CountFacts
<1>13. returned' \in Nat /\ OneOutcomePerRequest'
  <2>1. \/ /\ returned' = returned + 1
           /\ \E o \in Outcomes : C \cap (Outcomes \cup Reasons) = {o} /\ o # "fallback"
        \/ /\ returned' = returned + 1
           /\ \E r \in Reasons : C \cap (Outcomes \cup Reasons) = {"fallback", r}
        \/ returned' = returned /\ C \cap (Outcomes \cup Reasons) = {}
    <3>1. CASE O = {"hit"} /\ ~Sleeps(f, late)
      <4>1. C \cap (Outcomes \cup Reasons) = {"hit"}
        BY <1>11, <3>1 DEF Outcomes
      <4> QED BY <1>1, <3>1, <4>1 DEF Outcomes
    <3>2. CASE O = FillCounters(f) /\ ~Sleeps(f, late)
      <4>1. C \cap (Outcomes \cup Reasons) = {"fill"}
        BY <1>11, <3>2 DEF Outcomes, Reasons, FillCounters
      <4> QED BY <1>1, <3>2, <4>1 DEF Outcomes
    <3>3. CASE O = {"fallback", Reason(f)} /\ ~Sleeps(f, late)
      <4>1. C \cap (Outcomes \cup Reasons) = {"fallback", Reason(f)}
        BY <1>3, <1>11, <3>3 DEF Outcomes
      <4> QED BY <1>1, <1>3, <3>3, <4>1
    <3>4. CASE O = {} /\ Sleeps(f, late)
      BY <1>1, <1>11, <3>4
    <3>5. CASE O = {"invalid"} /\ ~Sleeps(f, late)
      <4>1. C \cap (Outcomes \cup Reasons) = {"invalid"}
        BY <1>11, <3>5 DEF Outcomes
      <4> QED BY <1>1, <3>5, <4>1 DEF Outcomes
    <3> QED BY <1>8, <3>1, <3>2, <3>3, <3>4, <3>5
  <2> HIDE DEF C
  <2> QED BY <1>1, <1>2, <2>1, OutcomesAdd
<1>14. FillsReconcile' /\ PublishedPayloadsAccountedFor'
  <2>1. /\ "fillSucceeded" \notin C /\ "fillFailed" \notin C /\ "discard" \notin C
        /\ "fill" \in C <=> "fill" \in O
        /\ "eviction" \in C <=> "eviction" \in O
    BY <1>3, <1>4, <1>8 DEF FillCounters, Reasons
  <2>2. CASE ServeFill(a, f)
    <3>1. /\ "fill" \in C
          /\ "eviction" \in C <=> emptyEntries = <<>>
      <4>1. O = FillCounters(f)
        BY <2>2, OutcomeFacts
      <4>2. "fill" \in FillCounters(f) /\ ("eviction" \in FillCounters(f) <=> emptyEntries = <<>>)
        BY DEF FillCounters
      <4> HIDE DEF C, O
      <4> QED BY <2>1, <4>1, <4>2
    <3>2. /\ EntriesIn("Loading")' = EntriesIn("Loading") + 1
          /\ emptyEntries # <<>> => EntriesIn("Valid")' = EntriesIn("Valid")
          /\ emptyEntries = <<>> => EntriesIn("Valid")' = EntriesIn("Valid") - 1
      BY <1>2, <2>2, FillMoves
    <3>3. EntriesIn("Valid") \in Nat
      BY EntriesFinite
    <3> HIDE DEF C
    <3>4. CASE emptyEntries # <<>>
      <4>1. EntriesIn("Valid")' = EntriesIn("Valid") + 0
        BY <3>2, <3>3, <3>4
      <4> QED BY <1>1, <1>2, <2>1, <3>1, <3>2, <3>4, <4>1, FillsAdd
    <3>5. CASE emptyEntries = <<>>
      <4>1. EntriesIn("Valid")' = EntriesIn("Valid") + (-1)
        BY <3>2, <3>3, <3>5
      <4> QED BY <1>1, <1>2, <2>1, <3>1, <3>2, <3>5, <4>1, FillsAdd
    <3> QED BY <3>4, <3>5
  <2>3. CASE ~ServeFill(a, f)
    <3>1. "fill" \notin C /\ "eviction" \notin C
      BY <1>3, <1>8, <2>1, <2>3 DEF Reasons
    <3>2. EntriesIn("Loading") \in Nat /\ EntriesIn("Valid") \in Nat
      BY EntriesFinite
    <3>3. /\ EntriesIn("Loading")' = EntriesIn("Loading") + 0
          /\ EntriesIn("Valid")' = EntriesIn("Valid") + 0
      BY <1>5, <2>3, <3>2, EntriesStay
    <3> HIDE DEF C
    <3> QED BY <1>1, <1>2, <2>1, <3>1, <3>3, FillsAdd
  <2> QED BY <2>2, <2>3
<1> QED BY <1>7, <1>10, <1>12, <1>13, <1>14 DEF StatInv, CountersReconcile

-----------------------------------------------------------------------------
(* The other steps *)

\* A step of an access that neither was asleep nor falls asleep.
LEMMA SleepersSleepOn ==
  ASSUME NEW a \in Accesses, pc \in [Accesses -> {"idle", "asleep"} \cup LivePc], pc[a] # "asleep",
         NEW where, where # "asleep", pc' = [pc EXCEPT ![a] = where]
  PROVE  Sleepers' = Sleepers
BY DEF Sleepers

\* The end of a lease counts neither outcomes nor obstructions.
LEMMA EndReconciles ==
  ASSUME CacheAssumption, StatInv, IInv', Sleepers' = Sleepers, UNCHANGED <<blocked, waited, returned>>,
         NEW C, Count(C), C \subseteq {"fillSucceeded", "fillFailed", "discard", "syncFailures"},
         FillsReconcile', PublishedPayloadsAccountedFor'
  PROVE  StatInv'
<1> DEFINE K == Outcomes \cup Reasons \cup {"firstBlockedLoading", "firstBlockedFull", "waitedRequests"}
<1>1. statistics' \in [Counters -> Nat]
  BY CountFacts DEF StatInv
<1>2. \A c \in K : c \in Counters /\ c \notin C
  BY DEF Counters, Outcomes, Reasons
<1>3. \A c \in K : statistics'[c] = statistics[c]
  BY <1>2, CountFacts DEF StatInv
<1> HIDE DEF K
<1>4. OneOutcomePerRequest'
  <2>1. \A c \in Outcomes \cup Reasons : statistics'[c] = statistics[c]
    BY <1>3 DEF K
  <2> QED BY <2>1 DEF StatInv, CountersReconcile, OneOutcomePerRequest, Outcomes, Reasons
<1>5. OneObstructionPerRequest'
  <2>1. \A c \in {"firstBlockedLoading", "firstBlockedFull", "waitedRequests"} :
          statistics'[c] = statistics[c]
    BY <1>3 DEF K
  <2>2. Cardinality(Sleepers') = Cardinality(Sleepers)
    OBVIOUS
  <2> QED BY <2>1, <2>2 DEF StatInv, CountersReconcile, OneObstructionPerRequest
<1> QED BY <1>1, <1>4, <1>5 DEF StatInv, CountersReconcile

\* A discard empties a published entry and is counted then; the other readers
\* leave it as it is.
LEMMA EndHitReconciles ==
  ASSUME CacheAssumption, StatInv, IInv', NEW a \in Accesses, CountedEndHit(a)
  PROVE  StatInv'
<1> DEFINE C == IF DiscardsNow(a) THEN {"discard"} ELSE {}
           e == entryIndex[a]
<1>1. /\ EndHit(a) /\ Count(C) /\ UNCHANGED <<blocked, waited, returned>>
      /\ IInv /\ statistics \in [Counters -> Nat] /\ FillsReconcile /\ PublishedPayloadsAccountedFor
  BY DEF CountedEndHit, StatInv, CountersReconcile
<1>2. /\ pc[a] = "drained" /\ pc' = [pc EXCEPT ![a] = "idle"]
      /\ accessStatus[a] = "CacheHit" /\ a \in Live /\ UNCHANGED managerVars
  BY <1>1 DEF EndHit, ResetAccess, Live, LivePc
<1>3. initialized /\ initialized' /\ ReaderMayEnd(a)
  <2>1. initialized
    BY <1>1, <1>2 DEF IInv, Lifecycle
  <2>2. ReaderMayEnd(a)
    BY <1>1, <1>2, LeaseMayEnd DEF LeasesCanEnd
  <2> QED BY <1>2, <2>1, <2>2 DEF managerVars
<1>4. /\ e \in Index /\ cacheState[e] = "Valid" /\ activeAccesses[e] \in Nat /\ activeAccesses[e] > 0
      /\ cacheState \in [Index -> {"Empty", "Loading", "Valid"}]
  BY <1>1, <1>3 DEF ReaderMayEnd, SameEntry, Entries, Index, IInv, TypeOK
<1>5. EndRead(e, completion[a].retention = "Discard")
  BY <1>1, <1>3 DEF EndHit
<1>6. Sleepers' = Sleepers
  BY <1>1, <1>2, SleepersSleepOn DEF IInv, TypeOK
<1>7. EntriesIn("Loading") \in Nat /\ EntriesIn("Valid") \in Nat
  BY EntriesFinite
<1>8. FillsReconcile' /\ PublishedPayloadsAccountedFor'
  <2>1. CASE DiscardsNow(a)
    <3>1. cacheState' = [cacheState EXCEPT ![e] = "Empty"]
      BY <1>4, <1>5, <2>1 DEF EndRead, DiscardsNow, ResetEntry
    <3>2. EntriesIn("Valid")' = EntriesIn("Valid") + (-1)
      BY <1>4, <1>7, <3>1, EntryMoves
    <3>3. EntriesIn("Loading")' = EntriesIn("Loading") + 0
      <4>1. cacheState[e] # "Loading" /\ "Loading" # "Empty"
        BY <1>4
      <4>2. EntriesIn("Loading")' = EntriesIn("Loading")
        BY <1>4, <3>1, <4>1, OthersStay
      <4> QED BY <1>7, <4>2
    <3>4. /\ "discard" \in C
          /\ "fill" \notin C /\ "fillSucceeded" \notin C /\ "fillFailed" \notin C /\ "eviction" \notin C
      BY <2>1
    <3> HIDE DEF C
    <3> QED BY <1>1, <1>3, <3>2, <3>3, <3>4, FillsAdd
  <2>2. CASE ~DiscardsNow(a)
    <3>1. activeAccesses[e] > 1 \/ ~DiscardAsked(e, completion[a].retention = "Discard")
      BY <1>3, <1>4, <2>2 DEF DiscardsNow
    <3>2. cacheState' = cacheState
      BY <1>5, <3>1 DEF EndRead
    <3>3. /\ EntriesIn("Valid")' = EntriesIn("Valid") + 0
          /\ EntriesIn("Loading")' = EntriesIn("Loading") + 0
      BY <1>7, <3>2, EntriesStay
    <3>4. C = {}
      BY <2>2
    <3> HIDE DEF C
    <3> QED BY <1>1, <1>3, <3>3, <3>4, FillsAdd
  <2> QED BY <2>1, <2>2
<1>9. C \subseteq {"fillSucceeded", "fillFailed", "discard", "syncFailures"}
  OBVIOUS
<1> HIDE DEF C
<1> QED BY <1>1, <1>6, <1>8, <1>9, EndReconciles

\* A fill ends once: published, discarded or failed.
LEMMA EndFillReconciles ==
  ASSUME CacheAssumption, StatInv, IInv', NEW a \in Accesses, CountedEndFill(a)
  PROVE  StatInv'
<1> DEFINE C == EndFillCounters(a)
           e == entryIndex[a]
<1>1. /\ EndFill(a) /\ Count(C) /\ UNCHANGED <<blocked, waited, returned>>
      /\ IInv /\ statistics \in [Counters -> Nat] /\ FillsReconcile /\ PublishedPayloadsAccountedFor
  BY DEF CountedEndFill, StatInv, CountersReconcile
<1>2. /\ pc[a] = "drained" /\ pc' = [pc EXCEPT ![a] = "idle"]
      /\ accessStatus[a] = "CacheFill" /\ a \in Live /\ UNCHANGED managerVars
  BY <1>1 DEF EndFill, ResetAccess, Live, LivePc
<1>3. initialized /\ initialized' /\ FillMayEnd(a)
  <2>1. initialized
    BY <1>1, <1>2 DEF IInv, Lifecycle
  <2>2. FillMayEnd(a)
    BY <1>1, <1>2, LeaseMayEnd DEF LeasesCanEnd
  <2> QED BY <1>2, <2>1, <2>2 DEF managerVars
<1>4. /\ e \in Index /\ cacheState[e] = "Loading"
      /\ cacheState \in [Index -> {"Empty", "Loading", "Valid"}]
  BY <1>1, <1>3 DEF FillMayEnd, SameEntry, Entries, Index, IInv, TypeOK
<1>5. Sleepers' = Sleepers
  BY <1>1, <1>2, SleepersSleepOn DEF IInv, TypeOK
<1>6. EntriesIn("Loading") \in Nat /\ EntriesIn("Valid") \in Nat
  BY EntriesFinite
<1>7. FillsReconcile' /\ PublishedPayloadsAccountedFor'
  <2>1. CASE KeepFill(a)
    <3>1. cacheState' = [cacheState EXCEPT ![e] = "Valid"]
      BY <1>1, <1>3, <2>1 DEF EndFill, Publish
    <3>2. /\ EntriesIn("Loading")' = EntriesIn("Loading") + (-1)
          /\ EntriesIn("Valid")' = EntriesIn("Valid") + 1
      BY <1>4, <1>6, <3>1, EntryMoves
    <3>3. C = {"fillSucceeded"}
      BY <1>3, <2>1 DEF EndFillCounters, KeepFill
    <3>4. /\ "fillSucceeded" \in C
          /\ "fill" \notin C /\ "discard" \notin C /\ "fillFailed" \notin C /\ "eviction" \notin C
      BY <3>3
    <3> HIDE DEF C
    <3> QED BY <1>1, <1>3, <3>2, <3>4, FillsAdd
  <2>2. CASE ~KeepFill(a)
    <3>1. cacheState' = [cacheState EXCEPT ![e] = "Empty"]
      BY <1>1, <1>3, <2>2 DEF EndFill, ResetEntry
    <3>2. EntriesIn("Loading")' = EntriesIn("Loading") + (-1)
      BY <1>4, <1>6, <3>1, EntryMoves
    <3>3. EntriesIn("Valid")' = EntriesIn("Valid") + 0
      <4>1. cacheState[e] # "Valid" /\ "Valid" # "Empty"
        BY <1>4
      <4>2. EntriesIn("Valid")' = EntriesIn("Valid")
        BY <1>4, <3>1, <4>1, OthersStay
      <4> QED BY <1>6, <4>2
    <3>4. CASE completion[a].succeeded /\ completion[a].retention = "Discard"
      <4>1. C = {"fillSucceeded", "discard"}
        BY <1>3, <3>4 DEF EndFillCounters
      <4>2. /\ "fillSucceeded" \in C /\ "discard" \in C
            /\ "fill" \notin C /\ "fillFailed" \notin C /\ "eviction" \notin C
        BY <4>1
      <4> HIDE DEF C
      <4> QED BY <1>1, <1>3, <3>2, <3>3, <4>2, FillsAdd
    <3>5. CASE ~(completion[a].succeeded /\ completion[a].retention = "Discard")
      <4>1. C = {"fillFailed"}
        BY <2>2, <3>5 DEF EndFillCounters
      <4>2. /\ "fillFailed" \in C
            /\ "fill" \notin C /\ "fillSucceeded" \notin C /\ "discard" \notin C /\ "eviction" \notin C
        BY <4>1
      <4> HIDE DEF C
      <4> QED BY <1>1, <1>3, <3>2, <3>3, <4>2, FillsAdd
    <3> QED BY <3>4, <3>5
  <2> QED BY <2>1, <2>2
<1>8. C \subseteq {"fillSucceeded", "fillFailed", "discard", "syncFailures"}
  BY DEF EndFillCounters
<1> HIDE DEF C
<1> QED BY <1>1, <1>5, <1>7, <1>8, EndReconciles

\* A failed synchronization is counted and moves no entry.
LEMMA SyncFailureReconciles ==
  ASSUME CacheAssumption, StatInv, IInv', NEW a \in Accesses, CountedNoteSyncFailure(a)
  PROVE  StatInv'
<1>1. /\ Count({"syncFailures"}) /\ UNCHANGED <<blocked, waited, returned>>
      /\ pc[a] = "syncFailed" /\ pc' = [pc EXCEPT ![a] = "drained"]
      /\ initialized' = initialized /\ cacheState' = cacheState
  BY DEF CountedNoteSyncFailure, NoteSyncFailure, entryVars
<1>2. /\ IInv /\ statistics \in [Counters -> Nat]
      /\ FillsReconcile /\ PublishedPayloadsAccountedFor
  BY DEF StatInv, CountersReconcile
<1>3. Sleepers' = Sleepers
  BY <1>1, <1>2, SleepersSleepOn DEF IInv, TypeOK
<1>4. initialized
  BY <1>1, <1>2 DEF IInv, Lifecycle
<1>5. EntriesIn("Loading") \in Nat /\ EntriesIn("Valid") \in Nat
  BY EntriesFinite
<1>6. /\ EntriesIn("Loading")' = EntriesIn("Loading") + 0
      /\ EntriesIn("Valid")' = EntriesIn("Valid") + 0
  BY <1>1, <1>5, EntriesStay
<1>7. FillsReconcile' /\ PublishedPayloadsAccountedFor'
  BY <1>1, <1>2, <1>4, <1>6, FillsAdd
<1> QED BY <1>1, <1>3, <1>7, EndReconciles

\* A rejected request is one more outcome and touches nothing else.
LEMMA RejectionReconciles ==
  ASSUME CacheAssumption, StatInv, IInv', NEW a \in Accesses, CountedRejection(a)
  PROVE  StatInv'
<1>1. /\ Count({"invalid"}) /\ UNCHANGED <<blocked, waited>> /\ returned' = returned + 1
      /\ initialized' = initialized /\ cacheState' = cacheState /\ pc' = pc
  BY DEF CountedRejection, vars, managerVars, entryVars, accessVars
<1>2. /\ IInv /\ statistics \in [Counters -> Nat] /\ returned \in Nat
      /\ FillsReconcile /\ PublishedPayloadsAccountedFor /\ OneOutcomePerRequest
      /\ OneObstructionPerRequest
  BY DEF StatInv, CountersReconcile
<1>3. Sleepers' = Sleepers
  BY <1>1 DEF Sleepers
<1>4. EntriesIn("Loading") \in Nat /\ EntriesIn("Valid") \in Nat
  BY EntriesFinite
<1>5. /\ EntriesIn("Loading")' = EntriesIn("Loading") + 0
      /\ EntriesIn("Valid")' = EntriesIn("Valid") + 0
  BY <1>1, <1>4, EntriesStay
<1>6. FillsReconcile' /\ PublishedPayloadsAccountedFor'
  <2>1. CASE initialized
    BY <1>1, <1>2, <1>5, <2>1, FillsAdd
  <2>2. CASE ~initialized
    BY <1>1, <2>2 DEF FillsReconcile, PublishedPayloadsAccountedFor
  <2> QED BY <2>1, <2>2
<1>7. statistics' \in [Counters -> Nat]
  BY <1>1, <1>2, CountFacts
<1>8. returned' \in Nat /\ OneOutcomePerRequest'
  <2>1. {"invalid"} \cap (Outcomes \cup Reasons) = {"invalid"} /\ "invalid" \in Outcomes
    BY DEF Outcomes
  <2> QED BY <1>1, <1>2, <2>1, OutcomesAdd
<1>9. OneObstructionPerRequest'
  <2>1. \A c \in {"firstBlockedLoading", "firstBlockedFull", "waitedRequests"} :
          c \in Counters /\ c \notin {"invalid"}
    BY DEF Counters
  <2>2. \A c \in {"firstBlockedLoading", "firstBlockedFull", "waitedRequests"} :
          statistics'[c] = statistics[c] /\ statistics[c] \in Nat
    BY <1>1, <1>2, <2>1, CountFacts
  <2>3. Cardinality(Sleepers') = Cardinality(Sleepers) /\ Cardinality(Sleepers) \in Nat
    <3>1. IsFiniteSet(Sleepers)
      BY FS_Subset DEF Sleepers, CacheAssumption
    <3> QED BY <1>3, <3>1, FS_CardinalityType
  <2> DEFINE n == Cardinality(Sleepers)
             l == statistics["firstBlockedLoading"]
             f == statistics["firstBlockedFull"]
  <2>4. l \in Nat /\ f \in Nat /\ n \in Nat /\ l + f <= returned + n
    BY <1>2, <2>2, <2>3 DEF OneObstructionPerRequest
  <2>5. statistics["waitedRequests"] <= l + f
    BY <1>2 DEF OneObstructionPerRequest
  <2>6. /\ statistics'["firstBlockedLoading"] = l /\ statistics'["firstBlockedFull"] = f
        /\ statistics'["waitedRequests"] = statistics["waitedRequests"]
        /\ Cardinality(Sleepers') = n
    BY <2>2, <2>3
  <2> HIDE DEF n, l, f
  <2>7. l + f <= (returned + 1) + n
    BY <1>2, <2>4
  <2> QED BY <1>1, <2>5, <2>6, <2>7 DEF OneObstructionPerRequest
<1> QED BY <1>1, <1>3, <1>6, <1>7, <1>8, <1>9 DEF StatInv, CountersReconcile

\* A step that counts nothing moves no entry of a running manager.
LEMMA QuietReconciles ==
  ASSUME CacheAssumption, StatInv, IInv', UNCHANGED statVars, Sleepers' = Sleepers,
         initialized' => initialized /\ cacheState' = cacheState
  PROVE  StatInv'
<1>1. UNCHANGED <<statistics, blocked, waited, returned>>
  BY DEF statVars
<1>2. FillsReconcile' /\ PublishedPayloadsAccountedFor'
  <2>1. CASE initialized'
    <3>1. EntriesIn("Loading")' = EntriesIn("Loading") /\ EntriesIn("Valid")' = EntriesIn("Valid")
      BY <2>1, EntriesStay
    <3> QED BY <1>1, <2>1, <3>1
            DEF StatInv, CountersReconcile, FillsReconcile, PublishedPayloadsAccountedFor
  <2>2. CASE ~initialized'
    BY <2>2 DEF FillsReconcile, PublishedPayloadsAccountedFor
  <2> QED BY <2>1, <2>2
<1>3. OneOutcomePerRequest'
  BY <1>1 DEF StatInv, CountersReconcile, OneOutcomePerRequest
<1>4. OneObstructionPerRequest'
  <2>1. Cardinality(Sleepers') = Cardinality(Sleepers)
    OBVIOUS
  <2> QED BY <1>1, <2>1 DEF StatInv, CountersReconcile, OneObstructionPerRequest
<1> QED BY <1>1, <1>2, <1>3, <1>4 DEF StatInv, CountersReconcile

\* A new interval starts with an empty cache and nobody inside.
LEMMA FreshReconciles ==
  ASSUME CacheAssumption, StatInv, IInv', FreshInterval, Sleepers = {}, Sleepers' = {},
         \A e \in Index : cacheState'[e] = "Empty"
  PROVE  StatInv'
<1>1. statistics' = Zero /\ returned' = 0 /\ blocked' = {} /\ waited' = {}
  BY DEF FreshInterval, StatInv
<1>2. statistics' \in [Counters -> Nat] /\ \A c \in Counters : statistics'[c] = 0
  BY <1>1 DEF Zero
<1>3. {e \in Index : cacheState'[e] = "Loading"} = {} /\ {e \in Index : cacheState'[e] = "Valid"} = {}
  OBVIOUS
<1>4. EntriesIn("Loading")' = 0 /\ EntriesIn("Valid")' = 0
  BY <1>3, FS_EmptySet DEF EntriesIn
<1>5. FillsReconcile' /\ PublishedPayloadsAccountedFor'
  BY <1>2, <1>4 DEF FillsReconcile, PublishedPayloadsAccountedFor, Counters, Outcomes
<1>6. OneOutcomePerRequest'
  BY <1>1, <1>2 DEF OneOutcomePerRequest, Counters, Outcomes, Reasons
<1>7. OneObstructionPerRequest'
  <2>1. Cardinality(Sleepers') = 0
    BY FS_EmptySet
  <2> QED BY <1>1, <1>2, <2>1 DEF OneObstructionPerRequest, Counters
<1> QED BY <1>1, <1>2, <1>5, <1>6, <1>7 DEF StatInv, CountersReconcile

\* A step of the statistics is a step of the cache.
LEMMA StatStepIsCacheStep ==
  ASSUME [StatNext]_allVars
  PROVE  [Next]_vars
<1>1. CASE UNCHANGED allVars
  BY <1>1 DEF allVars
<1>2. ASSUME NEW a \in Accesses,
             \/ \E f \in Frames, late \in BOOLEAN : CountedGetCacheData(a, f, late)
             \/ CountedWakeUp(a) \/ CountedNoteSyncFailure(a) \/ CountedEndHit(a) \/ CountedEndFill(a)
             \/ UncountedAccess(a)
      PROVE  [Next]_vars
  <2>1. AccessNext(a)
    BY <1>2 DEF CountedGetCacheData, CountedWakeUp, CountedNoteSyncFailure, CountedEndHit,
                CountedEndFill, UncountedAccess, AccessNext
  <2> QED BY <2>1 DEF Next
<1>3. ASSUME NEW a \in Accesses, CountedRejection(a) PROVE [Next]_vars
  BY <1>3 DEF CountedRejection
<1>4. ASSUME NEW m \in Admins, CountedInitializePublish(m) \/ UncountedAdmin(m) PROVE [Next]_vars
  <2>1. AdminNext(m)
    BY <1>4 DEF CountedInitializePublish, UncountedAdmin, AdminNext
  <2> QED BY <2>1 DEF Next
<1>5. CASE CountedResetCache
  BY <1>5 DEF CountedResetCache, Next
<1> QED BY <1>1, <1>2, <1>3, <1>4, <1>5 DEF StatNext

\* A step of an access that counts nothing.
LEMMA UncountedAccessReconciles ==
  ASSUME CacheAssumption, StatInv, IInv', NEW a \in Accesses, UncountedAccess(a), UNCHANGED statVars
  PROVE  StatInv'
<1>1. IInv /\ pc \in [Accesses -> {"idle", "asleep"} \cup LivePc]
  BY DEF StatInv, IInv, TypeOK
<1>2. initialized' = initialized /\ cacheState' = cacheState
  BY DEF UncountedAccess, DeadlinePasses, FreeCacheData, AbortUnfinishedAccess, Synchronize,
         EndFallback, TakeAccess, managerVars, entryVars
<1>3. Sleepers' = Sleepers
  <2>1. CASE DeadlinePasses(a)
    BY <2>1 DEF DeadlinePasses, Sleepers, accessVars
  <2>2. ASSUME NEW submitted, NEW ok, NEW how, Synchronize(a, submitted, ok, how)
        PROVE  Sleepers' = Sleepers
    <3>1. pc[a] = "held" /\ pc' = [pc EXCEPT ![a] = AfterSync(ok)] /\ AfterSync(ok) # "asleep"
      BY <2>2 DEF Synchronize, AfterSync
    <3> HIDE DEF AfterSync
    <3> QED BY <1>1, <3>1, SleepersSleepOn
  <2>3. CASE EndFallback(a)
    BY <1>1, <2>3, SleepersSleepOn DEF EndFallback, ResetAccess
  <2>4. ASSUME NEW other \in Accesses, TakeAccess(a, other) PROVE Sleepers' = Sleepers
    BY <1>1, <2>4 DEF TakeAccess, Move, Sleepers
  <2> QED BY <2>1, <2>2, <2>3, <2>4 DEF UncountedAccess, FreeCacheData, AbortUnfinishedAccess
<1> QED BY <1>2, <1>3, QuietReconciles

\* The lifecycle operations that count nothing.
LEMMA UncountedAdminReconciles ==
  ASSUME CacheAssumption, StatInv, IInv', NEW m \in Admins, UncountedAdmin(m), UNCHANGED statVars
  PROVE  StatInv'
<1>1. pc' = pc
  BY DEF UncountedAdmin, InitializeBegin, InitializeFail, ReleaseBegin, ReleaseEnd, accessVars
<1>2. initialized' => initialized /\ cacheState' = cacheState
  <2>1. CASE (\E conf \in Config : InitializeBegin(m, conf)) \/ InitializeFail(m)
    BY <2>1 DEF InitializeBegin, InitializeFail, managerVars, entryVars
  <2>2. CASE ReleaseBegin(m)
    BY <2>2 DEF ReleaseBegin
  <2>3. ASSUME NEW freed, ReleaseEnd(m, freed) PROVE ~initialized'
    <3>1. ~initialized
      BY <2>3 DEF ReleaseEnd, StatInv, IInv, Lifecycle
    <3> QED BY <2>3, <3>1 DEF ReleaseEnd
  <2> QED BY <2>1, <2>2, <2>3 DEF UncountedAdmin
<1>3. Sleepers' = Sleepers
  BY <1>1 DEF Sleepers
<1> QED BY <1>2, <1>3, QuietReconciles

\* initialize publishes an empty cache, and the counters start again.
LEMMA PublishReconciles ==
  ASSUME CacheAssumption, StatInv, IInv', NEW m \in Admins, CountedInitializePublish(m)
  PROVE  StatInv'
<1>1. InitializePublish(m) /\ IInv
  BY DEF CountedInitializePublish, StatInv
<1>2. cacheState' = cacheState /\ pc' = pc
  BY <1>1 DEF InitializePublish, entryVars, accessVars
<1>3. Sleepers' = Sleepers
  BY <1>2 DEF Sleepers
<1>4. CASE ManagerEmpty
  <2>1. FreshInterval
    BY <1>4 DEF CountedInitializePublish
  <2>2. Sleepers = {}
    BY <1>1, <1>4, NobodyThere DEF ManagerEmpty
  <2>3. \A e \in Index : cacheState[e] = "Empty"
    BY <1>1, <1>4 DEF IInv, EntryShape, ManagerEmpty, Entries
  <2> QED BY <1>2, <1>3, <2>1, <2>2, <2>3, FreshReconciles
<1>5. CASE ~ManagerEmpty
  <2>1. UNCHANGED statVars
    BY <1>5 DEF CountedInitializePublish
  <2>2. initialized' = initialized
    BY <1>1, <1>5 DEF InitializePublish, managerVars
  <2> QED BY <1>2, <1>3, <2>1, <2>2, QuietReconciles
<1> QED BY <1>4, <1>5

\* resetCache empties every entry, and the counters start again.
LEMMA ResetReconciles ==
  ASSUME CacheAssumption, StatInv, IInv', CountedResetCache
  PROVE  StatInv'
<1>1. /\ FreshInterval /\ Sleepers = {} /\ pc' = pc
      /\ cacheState' = [e \in Index |-> "Empty"]
  BY DEF CountedResetCache, ResetCache, CanReset, accessVars
<1>2. Sleepers' = {}
  BY <1>1 DEF Sleepers
<1> QED BY <1>1, <1>2, FreshReconciles

\* Every step keeps counters, cache and requests in agreement.
LEMMA StatNextPreserves ==
  ASSUME CacheAssumption, StatInv, [StatNext]_allVars
  PROVE  StatInv'
<1>1. IInv'
  BY StatStepIsCacheStep, NextPreserves DEF StatInv
<1>2. CASE UNCHANGED allVars
  <2>1. /\ UNCHANGED statVars /\ pc' = pc /\ initialized' = initialized
        /\ cacheState' = cacheState
    BY <1>2 DEF allVars, vars, managerVars, entryVars, accessVars
  <2>2. Sleepers' = Sleepers
    BY <2>1 DEF Sleepers
  <2> QED BY <1>1, <2>1, <2>2, QuietReconciles
<1>3. ASSUME NEW a \in Accesses, NEW f \in Frames, NEW late \in BOOLEAN,
             CountedGetCacheData(a, f, late)
      PROVE  StatInv'
  BY <1>1, <1>3, PassReconciles DEF CountedGetCacheData, GetCacheData, Accepts
<1>4. ASSUME NEW a \in Accesses, CountedWakeUp(a) PROVE StatInv'
  <2>1. frame[a] \in Frames /\ initialized /\ (a \in expired) \in BOOLEAN
    BY <1>4 DEF CountedWakeUp, WakeUp, StatInv, IInv, AccessShape, Lifecycle
  <2> QED BY <1>1, <1>4, <2>1, PassReconciles DEF CountedWakeUp, WakeUp
<1> QED BY <1>1, <1>2, <1>3, <1>4, RejectionReconciles, SyncFailureReconciles, EndHitReconciles,
           EndFillReconciles, UncountedAccessReconciles, PublishReconciles,
           UncountedAdminReconciles, ResetReconciles DEF StatNext

\* StatInv holds in every reachable state of the cache with its counters.
THEOREM StatisticsInvariant == StatSpec => []StatInv
<1>1. StatInit => StatInv
  <2> SUFFICES ASSUME StatInit PROVE StatInv
    OBVIOUS
  <2>1. IInv
    BY InitEstablishes, CacheAssumption DEF StatInit
  <2>2. /\ statistics = Zero /\ blocked = {} /\ waited = {} /\ returned = 0 /\ ~initialized
        /\ pc = [a \in Accesses |-> "idle"]
    BY DEF StatInit, Init
  <2>3. Sleepers = {}
    BY <2>2 DEF Sleepers
  <2>4. statistics \in [Counters -> Nat] /\ \A c \in Counters : statistics[c] = 0
    BY <2>2 DEF Zero
  <2>5. FillsReconcile /\ PublishedPayloadsAccountedFor
    BY <2>2 DEF FillsReconcile, PublishedPayloadsAccountedFor
  <2>6. OneOutcomePerRequest
    BY <2>2, <2>4 DEF OneOutcomePerRequest, Counters, Outcomes, Reasons
  <2>7. OneObstructionPerRequest
    <3>1. Cardinality(Sleepers) = 0
      BY <2>3, FS_EmptySet
    <3> QED BY <2>2, <2>4, <3>1 DEF OneObstructionPerRequest, Counters
  <2> QED BY <2>1, <2>2, <2>3, <2>4, <2>5, <2>6, <2>7 DEF StatInv, CountersReconcile
<1>2. StatInv /\ [StatNext]_allVars => StatInv'
  BY StatNextPreserves, CacheAssumption
<1> QED BY <1>1, <1>2, PTL DEF StatSpec

\* For any number of requests, keys and entries: every fill ends as one success
\* or one failure, every published payload is resident, evicted or discarded,
\* and every getCacheData call counts one outcome and at most one obstruction.
THEOREM StatisticsReconcile == StatSpec => []CountersReconcile
<1>1. StatInv => CountersReconcile
  BY DEF StatInv
<1> QED BY <1>1, StatisticsInvariant, PTL
=============================================================================
