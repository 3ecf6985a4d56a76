---------------------- MODULE GpuDataCacheStatistics ----------------------
(***************************************************************************)
(* GpuDataCache together with its CacheStatistics.  The counters never     *)
(* steer the cache, so this module adds them to the steps of GpuDataCache: *)
(* each step names the set of counters its critical section increments.    *)
(* Durations (totalWaitTime, maxWaitTime) are left out.                    *)
(***************************************************************************)
EXTENDS GpuDataCache

CONSTANT MaxRequests   \* bound: getCacheData calls per interval

ASSUME StatisticsAssumption == MaxRequests \in Nat

VARIABLES
    statistics,   \* counter name -> value
    blocked,      \* getCacheData's locals blocked and waited: the calls in
    waited,       \* progress for which they are true
    returned      \* getCacheData calls returned in this interval

statVars == <<statistics, blocked, waited, returned>>
allVars  == <<vars, statVars>>

Outcomes == {"hit", "fill", "fallback", "invalid"}
Reasons  == {"capacityZero", "loadingTimeout", "fullTimeout", "loadingNoWait",
             "fullNoWait", "replicaUnavailable"}
Counters == Outcomes \cup Reasons \cup
            {"fillSucceeded", "fillFailed", "eviction", "discard", "syncFailures",
             "firstBlockedLoading", "firstBlockedFull", "waitedRequests"}

Zero == [c \in Counters |-> 0]

\* Increment every counter of C.
Count(C) == statistics' = [c \in Counters |-> statistics[c] + IF c \in C THEN 1 ELSE 0]
-----------------------------------------------------------------------------
\* getCacheData

\* makeFallbackAccess's reason.
Reason(f) ==
    CASE entryCount = 0    -> "capacityZero"
      [] MissingReplica(f) -> "replicaUnavailable"
      [] BlockedLoading(f) -> IF waitTimeout THEN "loadingTimeout" ELSE "loadingNoWait"
      [] OTHER             -> IF waitTimeout THEN "fullTimeout" ELSE "fullNoWait"

\* Only the first obstruction of a request counts; zero capacity is none.
FirstObstruction(a, f) ==
    IF ~failed /\ Blocked(f) /\ entryCount > 0 /\ a \notin blocked
    THEN {IF BlockedLoading(f) THEN "firstBlockedLoading" ELSE "firstBlockedFull"}
    ELSE {}

\* The pass ends in a wait, the first one of the request or a later one.
Sleeps(f, late) == ~failed /\ Blocked(f) /\ MayWait(late)

\* A reservation, and the eviction it took.
FillCounters(f) == {"fill"} \cup IF emptyEntries = <<>> THEN {"eviction"} ELSE {}

\* The final outcome, if the pass has one.
Outcome(f, late) ==
    IF failed THEN {"invalid"}
    ELSE CASE CanHit(f)       -> {"hit"}
           [] CanFill(f)      -> FillCounters(f)
           [] Sleeps(f, late) -> {}
           [] (Blocked(f) /\ ~MayWait(late)) \/ MissingReplica(f) -> {"fallback", Reason(f)}
           [] OTHER           -> {"invalid"}

\* The counters of one pass through the loop, and the call's local flags.
CountPass(a, f, late) ==
    LET sleeps == Sleeps(f, late) IN
    /\ Count(FirstObstruction(a, f) \cup Outcome(f, late)
             \cup IF sleeps /\ a \notin waited THEN {"waitedRequests"} ELSE {})
    /\ blocked' = IF sleeps THEN blocked \cup {a} ELSE blocked \ {a}
    /\ waited' = IF sleeps THEN waited \cup {a} ELSE waited \ {a}
    /\ returned' = IF sleeps THEN returned ELSE returned + 1

CountedGetCacheData(a, f, late) ==
    /\ returned + Cardinality(Sleepers) < MaxRequests
    /\ GetCacheData(a, f, late)
    /\ CountPass(a, f, late)

\* An ill-formed request, or a manager that is not running or has failed.
CountedRejection(a) ==
    /\ returned + Cardinality(Sleepers) < MaxRequests
    /\ pc[a] = "idle"
    /\ Count({"invalid"})
    /\ returned' = returned + 1
    /\ UNCHANGED <<vars, blocked, waited>>

CountedWakeUp(a) ==
    /\ WakeUp(a)
    /\ CountPass(a, frame[a], a \in expired)
-----------------------------------------------------------------------------
\* The end of a lease

CountedNoteSyncFailure(a) ==
    /\ NoteSyncFailure(a)
    /\ Count({"syncFailures"})
    /\ UNCHANGED <<blocked, waited, returned>>

\* Mutant: a discard is counted when a reader asks for it.
DiscardAskedFor(a) == completion[a].retention = "Discard"

\* releaseReaderEntry counts a discard when the last reader leaves.
DiscardsNow(a) ==
    /\ ReaderMayEnd(a)
    /\ activeAccesses[entryIndex[a]] = 1
    /\ DiscardAsked(entryIndex[a], completion[a].retention = "Discard")

CountedEndHit(a) ==
    /\ EndHit(a)
    /\ Count(IF DiscardsNow(a) THEN {"discard"} ELSE {})
    /\ UNCHANGED <<blocked, waited, returned>>

\* Each fill ends as succeeded or failed, the abandoned ones included.
EndFillCounters(a) ==
    IF FillMayEnd(a) /\ completion[a].succeeded
         /\ (completion[a].retention = "Discard" \/ KeepFill(a))
    THEN {"fillSucceeded"} \cup IF completion[a].retention = "Discard" THEN {"discard"} ELSE {}
    ELSE {"fillFailed"}

CountedEndFill(a) ==
    /\ EndFill(a)
    /\ Count(EndFillCounters(a))
    /\ UNCHANGED <<blocked, waited, returned>>
-----------------------------------------------------------------------------
\* initialize and resetCache start a new interval; release keeps the counters.
FreshInterval == statistics' = Zero /\ returned' = 0 /\ UNCHANGED <<blocked, waited>>

CountedInitializePublish(m) ==
    /\ InitializePublish(m)
    /\ IF ManagerEmpty THEN FreshInterval ELSE UNCHANGED statVars

CountedResetCache == ResetCache /\ FreshInterval

UncountedAccess(a) ==
    \/ DeadlinePasses(a)
    \/ \E submitted, ok \in BOOLEAN, retention \in {"Keep", "Discard", "Unknown"} :
          FreeCacheData(a, submitted, retention, ok)
    \/ \E submitted, ok \in BOOLEAN : AbortUnfinishedAccess(a, submitted, ok)
    \/ EndFallback(a)
    \/ \E other \in Accesses : TakeAccess(a, other)

UncountedAdmin(m) ==
    \/ \E config \in Config : InitializeBegin(m, config)
    \/ InitializeFail(m)
    \/ ReleaseBegin(m)
    \/ \E freed \in SUBSET {e \in Entries : allocated[e]} : ReleaseEnd(m, freed)

StatInit ==
    /\ Init
    /\ statistics = Zero /\ blocked = {} /\ waited = {} /\ returned = 0

StatNext ==
    \/ \E a \in Accesses :
        \/ \E f \in Frames, late \in BOOLEAN : CountedGetCacheData(a, f, late)
        \/ CountedRejection(a)
        \/ CountedWakeUp(a)
        \/ CountedNoteSyncFailure(a)
        \/ CountedEndHit(a)
        \/ CountedEndFill(a)
        \/ UncountedAccess(a) /\ UNCHANGED statVars
    \/ \E m \in Admins :
        \/ CountedInitializePublish(m)
        \/ UncountedAdmin(m) /\ UNCHANGED statVars
    \/ CountedResetCache

StatSpec == StatInit /\ [][StatNext]_allVars
-----------------------------------------------------------------------------
EntriesIn(state) == Cardinality({e \in Index : cacheState[e] = state})

\* "They reconcile after normal completion/RAII cleanup": at every moment the
\* fills that are neither succeeded nor failed are the entries being loaded.
FillsReconcile ==
    initialized =>
        statistics["fill"] = statistics["fillSucceeded"] + statistics["fillFailed"]
                             + EntriesIn("Loading")

\* Every published payload is still resident, was evicted, or was discarded;
\* a failed replacement does not undo its eviction, and a discard counts once,
\* when the entry returns to Empty.
PublishedPayloadsAccountedFor ==
    initialized =>
        statistics["fillSucceeded"] = statistics["eviction"] + statistics["discard"]
                                      + EntriesIn("Valid")

\* "A normal getCacheData() return adds exactly one final outcome", and a
\* fallback exactly one reason.
OneOutcomePerRequest ==
    /\ statistics["hit"] + statistics["fill"] + statistics["fallback"]
         + statistics["invalid"] = returned
    /\ statistics["capacityZero"] + statistics["loadingTimeout"] + statistics["fullTimeout"]
         + statistics["loadingNoWait"] + statistics["fullNoWait"]
         + statistics["replicaUnavailable"] = statistics["fallback"]

\* "Retries and spurious wakeups do not ... repeat first-obstruction counts":
\* no request, finished or asleep, is counted as obstructed twice, and only
\* obstructed requests wait.
OneObstructionPerRequest ==
    LET obstructed == statistics["firstBlockedLoading"] + statistics["firstBlockedFull"] IN
    /\ obstructed <= returned + Cardinality(Sleepers)
    /\ statistics["waitedRequests"] <= obstructed

\* The counters agree with each other, with the requests and with the entries
\* at every moment, although one request updates them in several branches of
\* a loop it may repeat.
CountersReconcile ==
    FillsReconcile /\ PublishedPayloadsAccountedFor /\ OneOutcomePerRequest /\ OneObstructionPerRequest
=============================================================================
