----------------------- MODULE CacheStructureProofs -----------------------
(***************************************************************************)
(* Proofs about the two data structures the cache is built on, for every   *)
(* number of entries, keys and slots and every hash function.              *)
(*                                                                         *)
(* GpuResidencyTable: TableInv is inductive, through every intermediate    *)
(* state of eraseSlot's backward shift.  Its heart is PathsUnbroken (no    *)
(* free slot lies on the probe path of a resident key) together with       *)
(* HoleIsAhead, which says what remains true while the erasure has left a  *)
(* hole.  find is exact then, and the table implements ResidencyMap.       *)
(*                                                                         *)
(* IntrusiveList: the links of a list are the sequence GpuDataCache uses.  *)
(***************************************************************************)
EXTENDS GpuResidencyTable, IntrusiveList, ListLemmas, FiniteSetTheorems, WellFoundedInduction

-----------------------------------------------------------------------------
(* The residency table: its inductive invariant *)

Residents == [key : Keys, entryIndex : EntryIndices]

TableTypes ==
    /\ hash \in [Keys -> Nat] /\ initialized \in BOOLEAN
    /\ residentLimit \in Nat /\ residentCount \in Nat /\ slotCount \in Nat
    /\ slots \in [Slots -> Residents \cup {Vacant}]
    /\ \/ emptyIndex = NO_SLOT
       \/ emptyIndex \in Slots /\ scanIndex \in Slots

\* The table is twice as large as the limit, which the residents keep.
TableSizes ==
    /\ 2 * residentLimit <= slotCount
    /\ residentCount = Cardinality(Counted) /\ residentCount <= residentLimit
    /\ ~initialized => slotCount = 0

\* Slot j comes before slot i on the probe path of a key.
Before(key, j, i) == probeDistance(homeSlot(key), j) < probeDistance(homeSlot(key), i)

\* A search for a resident key meets no free slot before it finds the key.
PathsUnbroken == \A i \in Counted, j \in Slots : Before(slots[i].key, j, i) => occupied(j)

\* No key is in two slots.
KeysOnce == \A i, j \in Counted : slots[i].key = slots[j].key => i = j

\* A key whose path leads over the hole of eraseSlot has yet to be scanned.
HoleIsAhead ==
    Erasing => \A i \in Counted :
        Before(slots[i].key, emptyIndex, i) =>
            probeDistance(emptyIndex, scanIndex) <= probeDistance(emptyIndex, i)

\* What was scanned since the hole moved is occupied, and the scan ends before
\* it is around.
ScanFits ==
    Erasing =>
        /\ scanIndex # emptyIndex
        /\ \E v \in Slots : ~occupied(v)
        /\ \A j \in Slots :
            probeDistance(emptyIndex, j) < probeDistance(emptyIndex, scanIndex) => occupied(j)

TableInv == TableTypes /\ TableSizes /\ PathsUnbroken /\ KeysOnce /\ HoleIsAhead /\ ScanFits

-----------------------------------------------------------------------------
(* The ring of slots.                                                      *)

\* A remainder by n, for numbers below 2n without division.
LEMMA RemainderFacts ==
  ASSUME NEW n \in Nat, n > 0, NEW x \in Nat
  PROVE  /\ x % n \in 0..(n - 1)
         /\ x < n => x % n = x
         /\ n <= x /\ x < n + n => x % n = x - n
OBVIOUS

\* A non-empty set of naturals has a least element, and Min is it.
LEMMA LeastFacts ==
  ASSUME NEW T \in SUBSET Nat, T # {}
  PROVE  Min(T) \in T /\ \A y \in T : Min(T) <= y
<1>1. PICK R : IsWellFoundedOn(R, Nat) /\ \A x, y \in Nat : y < x => <<y, x>> \in R
  <2>1. IsWellFoundedOn(OpToRel(<, Nat), Nat)
    BY NatLessThanWellFounded, Zenon
  <2>2. \A x, y \in Nat : y < x => <<y, x>> \in OpToRel(<, Nat)
    BY Zenon DEF OpToRel
  <2> QED BY <2>1, <2>2, Zenon
<1>2. PICK x \in T : \A y \in T : ~ (<<y, x>> \in R)
  BY <1>1, WFMin, Zenon
<1>3. \A y \in T : ~(y < x)
  BY <1>1, <1>2, Zenon
<1>4. \A y \in T : x <= y
  BY <1>3
<1> QED BY <1>4, Zenon DEF Min

\* The slot after a slot.
LEMMA NextFacts ==
  ASSUME slotCount \in Nat, NEW i \in Slots
  PROVE  /\ nextSlot(i) = IF i + 1 < slotCount THEN i + 1 ELSE 0
         /\ nextSlot(i) \in Slots
<1>1. i \in Nat /\ i < slotCount /\ i + 1 \in Nat /\ slotCount > 0
  BY DEF Slots
<1>2. /\ i + 1 < slotCount => (i + 1) % slotCount = i + 1
      /\ slotCount <= i + 1 /\ i + 1 < slotCount + slotCount => (i + 1) % slotCount = (i + 1) - slotCount
  BY <1>1, RemainderFacts
<1>3. nextSlot(i) = IF i + 1 < slotCount THEN i + 1 ELSE 0
  BY <1>1, <1>2 DEF nextSlot
<1> QED BY <1>1, <1>3 DEF Slots

\* Distances from a slot tell the slots apart.
LEMMA DistanceFacts ==
  ASSUME slotCount \in Nat, NEW h \in Slots, NEW i \in Slots
  PROVE  /\ probeDistance(h, i) \in 0..(slotCount - 1)
         /\ probeDistance(h, i) = 0 <=> i = h
         /\ \A j \in Slots : probeDistance(h, i) = probeDistance(h, j) <=> i = j
BY DEF Slots, probeDistance

\* What lies between the hole and a slot behind it lies on every path over the
\* hole to that slot.
LEMMA RingFacts ==
  ASSUME slotCount \in Nat, NEW h \in Slots, NEW e \in Slots, NEW s \in Slots, NEW i \in Slots,
         probeDistance(h, e) < probeDistance(h, i), probeDistance(e, s) < probeDistance(e, i)
  PROVE  probeDistance(h, s) < probeDistance(h, i)
BY DEF Slots, probeDistance

\* The scan moves on by one until it is around.
LEMMA ScanFacts ==
  ASSUME slotCount \in Nat, NEW e \in Slots, NEW s \in Slots
  PROVE  /\ nextSlot(s) # e => probeDistance(e, nextSlot(s)) = probeDistance(e, s) + 1
         /\ nextSlot(s) = e => \A j \in Slots : probeDistance(e, j) <= probeDistance(e, s)
         /\ slotCount >= 2 => nextSlot(s) # s /\ probeDistance(s, nextSlot(s)) = 1
<1>1. PICK n \in Slots : n = nextSlot(s) /\ n = IF s + 1 < slotCount THEN s + 1 ELSE 0
  BY NextFacts
<1>2. n # e => probeDistance(e, n) = probeDistance(e, s) + 1
  BY <1>1 DEF Slots, probeDistance
<1>3. n = e => \A j \in Slots : probeDistance(e, j) <= probeDistance(e, s)
  BY <1>1 DEF Slots, probeDistance
<1>4. slotCount >= 2 => n # s /\ probeDistance(s, n) = 1
  BY <1>1 DEF Slots, probeDistance
<1> QED BY <1>1, <1>2, <1>3, <1>4

\* Home slots are slots.
LEMMA HomeFacts ==
  ASSUME TableTypes, slotCount > 0, NEW key \in Keys
  PROVE  homeSlot(key) \in Slots
<1>1. hash[key] \in Nat /\ slotCount \in Nat
  BY DEF TableTypes
<1> QED BY <1>1, RemainderFacts DEF homeSlot, Slots

\* The probe at distance d is at distance d.
LEMMA ProbeFacts ==
  ASSUME TableTypes, NEW key \in Keys, NEW d \in 0..(slotCount - 1)
  PROVE  Probe(key, d) \in Slots /\ probeDistance(homeSlot(key), Probe(key, d)) = d
<1>1. slotCount \in Nat /\ slotCount > 0 /\ d \in Nat /\ d < slotCount
  BY DEF TableTypes
<1>2. PICK h \in Slots : h = homeSlot(key)
  BY <1>1, HomeFacts
<1>3. PICK x \in Nat : x = h + d /\ x < slotCount + slotCount /\ h \in Nat /\ h < slotCount
  BY <1>1, <1>2 DEF Slots
<1>4. PICK p : p = x % slotCount /\ (p = IF x < slotCount THEN x ELSE x - slotCount)
  BY <1>1, <1>3, RemainderFacts
<1>5. Probe(key, d) = p
  BY <1>2, <1>3, <1>4 DEF Probe
<1>6. p \in Slots /\ probeDistance(h, p) = d
  BY <1>1, <1>3, <1>4 DEF Slots, probeDistance
<1> QED BY <1>2, <1>5, <1>6

\* A slot is the probe at its distance.
LEMMA SlotIsProbe ==
  ASSUME TableTypes, NEW key \in Keys, NEW i \in Slots
  PROVE  /\ probeDistance(homeSlot(key), i) \in 0..(slotCount - 1)
         /\ Probe(key, probeDistance(homeSlot(key), i)) = i
<1>1. slotCount \in Nat /\ slotCount > 0
  BY DEF TableTypes, Slots
<1>2. homeSlot(key) \in Slots
  BY <1>1, HomeFacts
<1>3. PICK d \in 0..(slotCount - 1) : d = probeDistance(homeSlot(key), i)
  BY <1>1, <1>2, DistanceFacts
<1>4. Probe(key, d) \in Slots /\ probeDistance(homeSlot(key), Probe(key, d)) = d
  BY ProbeFacts
<1> QED BY <1>1, <1>2, <1>3, <1>4, DistanceFacts

\* A slot holds a resident or is free.
LEMMA SlotFacts ==
  ASSUME TableAssumption, TableTypes, NEW i \in Slots
  PROVE  /\ occupied(i) <=> slots[i] \in Residents
         /\ slots[i] \in Residents => slots[i].key \in Keys /\ slots[i].entryIndex \in EntryIndices
         /\ i \in Counted => slots[i] \in Residents
<1>1. slots[i] \in Residents \cup {Vacant}
  BY DEF TableTypes
<1>2. Vacant \notin Residents
  BY DEF TableAssumption, Vacant, Residents
<1> QED BY <1>1, <1>2 DEF occupied, Counted, Residents

\* The stop of a search: everything before it is occupied by other keys.
LEMMA StopFacts ==
  ASSUME TableTypes, NEW key \in Keys, Stops(key) # {}
  PROVE  \E i \in Slots :
           /\ i = Probe(key, Min(Stops(key)))
           /\ ~occupied(i) \/ slots[i].key = key
           /\ \A j \in Slots : Before(key, j, i) => occupied(j) /\ slots[j].key # key
<1>1. slotCount \in Nat
  BY DEF TableTypes
<1>2. Stops(key) \subseteq 0..(slotCount - 1) /\ Stops(key) \subseteq Nat
  BY <1>1 DEF Stops
<1>3. PICK m \in Stops(key) : m = Min(Stops(key)) /\ \A d \in Stops(key) : m <= d
  BY <1>2, LeastFacts
<1>4. m \in 0..(slotCount - 1)
  BY <1>2
<1>5. PICK i \in Slots : i = Probe(key, m) /\ probeDistance(homeSlot(key), i) = m
  BY <1>4, ProbeFacts
<1>6. ~occupied(i) \/ slots[i].key = key
  BY <1>5 DEF Stops
<1>7. ASSUME NEW j \in Slots, Before(key, j, i) PROVE occupied(j) /\ slots[j].key # key
  <2>1. PICK d \in 0..(slotCount - 1) : d = probeDistance(homeSlot(key), j) /\ Probe(key, d) = j
    BY SlotIsProbe
  <2>2. d < m
    BY <1>5, <1>7, <2>1 DEF Before
  <2>3. d \notin Stops(key)
    BY <1>3, <1>4, <2>2
  <2> QED BY <2>1, <2>3 DEF Stops
<1> QED BY <1>3, <1>5, <1>6, <1>7

\* Every slot of the key, and every free slot, stops its search.
LEMMA StopExists ==
  ASSUME TableTypes, NEW key \in Keys, NEW i \in Slots, ~occupied(i) \/ slots[i].key = key
  PROVE  Stops(key) # {}
<1>1. PICK d \in 0..(slotCount - 1) : Probe(key, d) = i
  BY SlotIsProbe
<1> QED BY <1>1 DEF Stops

\* A search finds a resident key, and nothing else.
LEMMA FindFacts ==
  ASSUME TableAssumption, TableInv, ~Erasing, NEW key \in Keys
  PROVE  /\ \A i \in Counted : slots[i].key = key => findSlot(key) = i
         /\ findSlot(key) # NO_SLOT => findSlot(key) \in Counted /\ slots[findSlot(key)].key = key
<1>1. TableTypes /\ slotCount \in Nat /\ Counted = {i \in Slots : occupied(i)}
  BY DEF TableInv, TableTypes, Counted, Erasing, Slots, NO_SLOT
<1>2. ASSUME NEW i \in Counted, slots[i].key = key PROVE findSlot(key) = i
  <2>1. i \in Slots /\ occupied(i)
    BY <1>1
  <2>2. Stops(key) # {}
    BY <1>1, <1>2, <2>1, StopExists
  <2>3. PICK m \in Slots : /\ m = Probe(key, Min(Stops(key)))
                           /\ ~occupied(m) \/ slots[m].key = key
                           /\ \A j \in Slots : Before(key, j, m) => occupied(j) /\ slots[j].key # key
    BY <1>1, <2>2, StopFacts, Zenon
  <2>4. ~Before(key, i, m)
    BY <1>2, <2>1, <2>3
  <2>5. m = i
    <3>1. CASE Before(key, m, i)
      <4>1. occupied(m)
        BY <1>2, <3>1 DEF TableInv, PathsUnbroken
      <4> QED BY <1>1, <1>2, <2>3, <4>1 DEF TableInv, KeysOnce
    <3>2. CASE ~Before(key, m, i)
      <4>1. homeSlot(key) \in Slots
        BY <1>1, <2>1, HomeFacts DEF Slots
      <4>2. /\ probeDistance(homeSlot(key), i) \in Int /\ probeDistance(homeSlot(key), m) \in Int
            /\ probeDistance(homeSlot(key), i) = probeDistance(homeSlot(key), m) => i = m
        BY <1>1, <2>1, <2>3, <4>1, DistanceFacts
      <4> QED BY <2>4, <3>2, <4>2 DEF Before
    <3> QED BY <3>1, <3>2
  <2> QED BY <2>1, <2>2, <2>3, <2>5 DEF findSlot
<1>3. ASSUME findSlot(key) # NO_SLOT PROVE findSlot(key) \in Counted /\ slots[findSlot(key)].key = key
  <2>1. Stops(key) # {}
    BY <1>3 DEF findSlot
  <2>2. PICK m \in Slots : m = Probe(key, Min(Stops(key))) /\ (~occupied(m) \/ slots[m].key = key)
    BY <1>1, <2>1, StopFacts, Zenon
  <2>3. occupied(m) /\ findSlot(key) = m
    BY <1>3, <2>1, <2>2 DEF findSlot
  <2> QED BY <1>1, <2>2, <2>3
<1> QED BY <1>2, <1>3

-----------------------------------------------------------------------------
(* The operations.                                                         *)

\* Distances depend on the size of the table and on the hash only.
LEMMA SameRing ==
  ASSUME slotCount' = slotCount, hash' = hash
  PROVE  /\ Slots' = Slots
         /\ \A h, i : probeDistance(h, i)' = probeDistance(h, i)
         /\ \A key : homeSlot(key)' = homeSlot(key)
         /\ \A key, j, i : Before(key, j, i)' <=> Before(key, j, i)
BY DEF Slots, probeDistance, homeSlot, Before

\* The slots that count are finitely many.
LEMMA CountedFacts ==
  ASSUME TableTypes
  PROVE  IsFiniteSet(Counted) /\ Cardinality(Counted) \in Nat /\ Cardinality(Slots) = slotCount /\ IsFiniteSet(Slots)
<1>1. slotCount \in Nat /\ 0 \in Int /\ slotCount - 1 \in Int
  BY DEF TableTypes
<1>2. IsFiniteSet(Slots) /\ Cardinality(Slots) = slotCount
  BY <1>1, FS_Interval DEF Slots
<1>3. Counted \in SUBSET Slots
  BY DEF Counted
<1> QED BY <1>2, <1>3, FS_Subset, FS_CardinalityType

\* Initialize, clear and release leave an empty table.
LEMMA EmptyTable ==
  ASSUME hash' \in [Keys -> Nat], initialized' \in BOOLEAN, slotCount' \in Nat, residentLimit' \in Nat,
         residentCount' = 0, slots' = [i \in 0..(slotCount' - 1) |-> Vacant], emptyIndex' = NO_SLOT,
         2 * residentLimit' <= slotCount', ~initialized' => slotCount' = 0
  PROVE  TableInv'
<1>1. Slots' = 0..(slotCount' - 1)
  BY DEF Slots
<1>2. Counted' = {}
  BY <1>1 DEF Counted, occupied, Vacant
<1>3. TableTypes'
  BY <1>1 DEF TableTypes, Vacant, Residents
<1>4. TableSizes'
  <2>1. residentCount' = Cardinality(Counted') /\ residentCount' <= residentLimit'
    BY <1>2, FS_EmptySet
  <2> QED BY <2>1 DEF TableSizes
<1>5. PathsUnbroken' /\ KeysOnce' /\ HoleIsAhead' /\ ScanFits'
  BY <1>2 DEF PathsUnbroken, KeysOnce, HoleIsAhead, ScanFits, Erasing, NO_SLOT
<1> QED BY <1>3, <1>4, <1>5 DEF TableInv

\* The size of the table is at least twice the limit.
LEMMA SizeFor ==
  ASSUME NEW n \in Nat, n # 0 => BigEnough(n) # {}
  PROVE  SlotCountFor(n) \in Nat /\ 2 * n <= SlotCountFor(n)
<1>1. CASE n = 0
  BY <1>1 DEF SlotCountFor
<1>2. CASE n # 0
  <2>1. \A p \in BigEnough(n) : p \in Int /\ p >= 2 * n
    <3>1. \A p \in PowersOfTwo : p \in Int
      BY TableAssumption DEF PowersOfTwo, TableAssumption
    <3> QED BY <3>1 DEF BigEnough
  <2>2. BigEnough(n) \in SUBSET Nat
    BY <2>1
  <2>3. Min(BigEnough(n)) \in BigEnough(n)
    BY <1>2, <2>2, LeastFacts
  <2> QED BY <1>2, <2>1, <2>2, <2>3 DEF SlotCountFor
<1> QED BY <1>1, <1>2

\* The whole-table operations.
LEMMA WholeTable ==
  ASSUME TableInv, (\E n \in Limits : Initialize(n)) \/ Clear \/ Release
  PROVE  TableInv'
<1>1. TableTypes /\ TableSizes
  BY DEF TableInv
<1>2. ASSUME NEW n \in Limits, Initialize(n) PROVE TableInv'
  <2>1. n \in Nat /\ (n # 0 => BigEnough(n) # {})
    BY <1>2, TableAssumption DEF Initialize, TableAssumption
  <2>2. SlotCountFor(n) \in Nat /\ 2 * n <= SlotCountFor(n)
    BY <2>1, SizeFor
  <2>3. /\ hash' = hash /\ initialized' = TRUE /\ slotCount' = SlotCountFor(n) /\ residentLimit' = n
        /\ residentCount' = 0 /\ slots' = [i \in 0..(slotCount' - 1) |-> Vacant] /\ emptyIndex' = NO_SLOT
    BY <1>2 DEF Initialize, Empties, Erasing
  <2>4. initialized' \in BOOLEAN /\ (~initialized' => slotCount' = 0)
    BY <2>3
  <2> QED BY <1>1, <2>1, <2>2, <2>3, <2>4, EmptyTable DEF TableTypes
<1>3. ASSUME Clear PROVE TableInv'
  <2>1. /\ hash' = hash /\ initialized' = initialized /\ slotCount' = slotCount /\ residentLimit' = residentLimit
        /\ residentCount' = 0 /\ slots' = [i \in 0..(slotCount' - 1) |-> Vacant] /\ emptyIndex' = NO_SLOT
    BY <1>3 DEF Clear, Empties, Erasing
  <2>2. initialized' \in BOOLEAN /\ (~initialized' => slotCount' = 0)
    BY <1>1, <2>1 DEF TableTypes, TableSizes
  <2> QED BY <1>1, <2>1, <2>2, EmptyTable DEF TableTypes, TableSizes
<1>4. ASSUME Release PROVE TableInv'
  <2>1. /\ hash' = hash /\ initialized' = FALSE /\ slotCount' = 0 /\ residentLimit' = 0
        /\ residentCount' = 0 /\ slots' = [i \in 0..(slotCount' - 1) |-> Vacant] /\ emptyIndex' = NO_SLOT
    BY <1>4 DEF Release, Empties, Erasing
  <2>2. initialized' \in BOOLEAN /\ (~initialized' => slotCount' = 0)
    BY <2>1
  <2> QED BY <1>1, <2>1, <2>2, EmptyTable DEF TableTypes
<1> QED BY <1>2, <1>3, <1>4

\* What insert does: the slot was free, the key was absent.
LEMMA InsertFacts ==
  ASSUME TableInv, NEW key \in Keys, NEW e \in EntryIndices, Insert(key, e)
  PROVE  \E i \in Slots :
           /\ ~occupied(i) /\ slots' = [slots EXCEPT ![i] = [key |-> key, entryIndex |-> e]]
           /\ \A j \in Slots : Before(key, j, i) => occupied(j)
           /\ \A j \in Counted : slots[j].key # key
           /\ slots' \in [Slots -> Residents \cup {Vacant}]
           /\ Counted' = Counted \cup {i} /\ i \notin Counted
           /\ \A j \in Slots \ {i} : slots'[j] = slots[j]
           /\ slots'[i].key = key /\ slots'[i].entryIndex = e
<1>1. TableTypes /\ ~Erasing /\ Stops(key) # {} /\ slotCount' = slotCount /\ emptyIndex' = emptyIndex
  BY DEF TableInv, Insert
<1>2. PICK i \in Slots : /\ i = Probe(key, Min(Stops(key)))
                         /\ ~occupied(i) \/ slots[i].key = key
                         /\ \A j \in Slots : Before(key, j, i) => occupied(j) /\ slots[j].key # key
  BY <1>1, StopFacts, Zenon
<1>3. ~occupied(i) /\ slots' = [slots EXCEPT ![i] = [key |-> key, entryIndex |-> e]]
  BY <1>2 DEF Insert
<1>4. \A j \in Counted : slots[j].key # key
  <2>1. findSlot(key) = NO_SLOT
    BY <1>1, <1>2, <1>3 DEF findSlot
  <2>2. NO_SLOT \notin Slots
    BY <1>1 DEF NO_SLOT, Slots, TableTypes
  <2> QED BY <1>1, <2>1, <2>2, TableAssumption, FindFacts DEF Counted
<1>5. PICK new : new = [key |-> key, entryIndex |-> e]
  OBVIOUS
<1>6. new \in Residents /\ new.key = key /\ new.entryIndex = e
  BY <1>5 DEF Residents
<1>7. slots' = [slots EXCEPT ![i] = new] /\ slots \in [Slots -> Residents \cup {Vacant}]
  BY <1>1, <1>3, <1>5 DEF TableTypes
<1>8. slots' \in [Slots -> Residents \cup {Vacant}] /\ slots'[i] = new /\ \A j \in Slots \ {i} : slots'[j] = slots[j]
  BY <1>6, <1>7
<1>9. new # Vacant
  BY <1>6, TableAssumption DEF TableAssumption, Vacant
<1>10. Counted' = Counted \cup {i} /\ i \notin Counted
  <2>1. emptyIndex = NO_SLOT /\ NO_SLOT \notin Slots
    BY <1>1 DEF NO_SLOT, Slots, TableTypes, Erasing
  <2>2. Slots' = Slots
    BY <1>1 DEF Slots
  <2>3. \A j \in Slots : occupied(j)' <=> occupied(j) \/ j = i
    BY <1>8, <1>9 DEF occupied, Vacant
  <2> QED BY <1>1, <1>3, <2>1, <2>2, <2>3 DEF Counted
<1> QED BY <1>2, <1>3, <1>4, <1>6, <1>8, <1>10

\* insert.
LEMMA InsertKeeps ==
  ASSUME TableInv, NEW key \in Keys, NEW e \in EntryIndices, Insert(key, e)
  PROVE  TableInv'
<1>1. PICK i \in Slots :
           /\ ~occupied(i) /\ slots' = [slots EXCEPT ![i] = [key |-> key, entryIndex |-> e]]
           /\ \A j \in Slots : Before(key, j, i) => occupied(j)
           /\ \A j \in Counted : slots[j].key # key
           /\ slots' \in [Slots -> Residents \cup {Vacant}]
           /\ Counted' = Counted \cup {i} /\ i \notin Counted
           /\ \A j \in Slots \ {i} : slots'[j] = slots[j]
           /\ slots'[i].key = key /\ slots'[i].entryIndex = e
  BY InsertFacts
<1>2. /\ TableTypes /\ TableSizes /\ PathsUnbroken /\ KeysOnce /\ ~Erasing
      /\ residentCount < residentLimit /\ residentCount' = residentCount + 1
      /\ UNCHANGED <<hash, initialized, residentLimit, slotCount, emptyIndex, scanIndex>>
  BY DEF TableInv, Insert, InsertAllowed
<1>3. /\ Slots' = Slots /\ \A k, j, r : Before(k, j, r)' <=> Before(k, j, r)
  BY <1>2, SameRing
<1>4. \A j \in Slots : occupied(j) => occupied(j)'
  BY <1>1 DEF occupied, Vacant
<1>5. TableTypes'
  BY <1>1, <1>2, <1>3 DEF TableTypes
<1>6. TableSizes'
  <2>1. Cardinality(Counted') = Cardinality(Counted) + 1
    BY <1>1, <1>2, CountedFacts, FS_AddElement
  <2> QED BY <1>2, <2>1 DEF TableSizes, TableTypes
<1>7. PathsUnbroken'
  <2>1. ASSUME NEW r \in Counted', NEW j \in Slots, Before(slots'[r].key, j, r) PROVE occupied(j)'
    <3>1. CASE r = i
      BY <1>1, <1>4, <2>1, <3>1
    <3>2. CASE r # i
      <4>1. r \in Counted /\ r \in Slots /\ slots'[r] = slots[r]
        BY <1>1, <3>2 DEF Counted
      <4> QED BY <1>2, <1>4, <2>1, <4>1 DEF PathsUnbroken
    <3> QED BY <3>1, <3>2
  <2> QED BY <1>3, <2>1 DEF PathsUnbroken
<1>8. KeysOnce'
  <2>1. \A r \in Counted' : (r = i /\ slots'[r].key = key)
                            \/ (r \in Counted /\ slots'[r] = slots[r] /\ slots[r].key # key)
    BY <1>1 DEF Counted
  <2> QED BY <1>2, <2>1 DEF KeysOnce
<1>9. HoleIsAhead' /\ ScanFits'
  BY <1>2 DEF HoleIsAhead, ScanFits, Erasing, NO_SLOT
<1> QED BY <1>5, <1>6, <1>7, <1>8, <1>9 DEF TableInv

\* erase starts: every key behind the hole is ahead of the scan.
LEMMA EraseBeginKeeps ==
  ASSUME TableInv, NEW key \in Keys, NEW e \in EntryIndices, EraseBegin(key, e)
  PROVE  TableInv' /\ emptyIndex' \in Counted /\ Counted' = Counted \ {emptyIndex'}
         /\ slots[emptyIndex'].key = key /\ slots[emptyIndex'].entryIndex = e
<1>1. PICK h : h = emptyIndex'
  OBVIOUS
<1>2. /\ TableTypes /\ TableSizes /\ PathsUnbroken /\ KeysOnce /\ ~Erasing /\ slotCount \in Nat
      /\ h = findSlot(key) /\ h # NO_SLOT /\ scanIndex' = nextSlot(h) /\ slots[h].entryIndex = e
      /\ residentCount' = residentCount - 1
      /\ UNCHANGED <<hash, initialized, residentLimit, slotCount, slots>>
  BY <1>1 DEF TableInv, EraseBegin, TableTypes
<1>3. h \in Counted /\ slots[h].key = key
  BY <1>2, TableAssumption, FindFacts
<1>4. h \in Slots /\ occupied(h) /\ Counted = {i \in Slots : occupied(i)}
  BY <1>2, <1>3 DEF Counted, Slots, TableTypes, Erasing, NO_SLOT
<1>5. /\ Slots' = Slots /\ \A k, j, r : Before(k, j, r)' <=> Before(k, j, r)
      /\ \A x, y : probeDistance(x, y)' = probeDistance(x, y)
      /\ \A i \in Slots : occupied(i)' <=> occupied(i)
  BY <1>2, SameRing DEF occupied, Vacant
<1>6. Counted' = Counted \ {h}
  BY <1>1, <1>4, <1>5 DEF Counted
<1>7. /\ Cardinality(Counted) = residentCount /\ Cardinality(Counted') = residentCount - 1
      /\ residentCount >= 1 /\ residentCount <= residentLimit /\ 2 * residentLimit <= slotCount
      /\ residentCount < slotCount /\ slotCount >= 2
  <2>1. Cardinality(Counted) = residentCount /\ residentCount \in Nat /\ residentLimit \in Nat
        /\ residentCount <= residentLimit /\ 2 * residentLimit <= slotCount
    BY <1>2 DEF TableSizes, TableTypes
  <2>2. Cardinality(Counted) # 0 /\ Cardinality(Counted') = Cardinality(Counted) - 1
    BY <1>2, <1>3, <1>6, CountedFacts, FS_EmptySet, FS_RemoveElement
  <2> QED BY <1>2, <2>1, <2>2
<1>8. nextSlot(h) \in Slots /\ nextSlot(h) # h /\ probeDistance(h, nextSlot(h)) = 1
  BY <1>2, <1>4, <1>7, NextFacts, ScanFacts
<1>9. PICK v \in Slots : ~occupied(v)
  <2>1. Counted # Slots
    BY <1>2, <1>7, CountedFacts
  <2> QED BY <1>4, <2>1
<1>10. TableTypes'
  BY <1>1, <1>2, <1>4, <1>5, <1>7, <1>8 DEF TableTypes
<1>11. TableSizes'
  BY <1>2, <1>7 DEF TableSizes, TableTypes
<1>12. PathsUnbroken' /\ KeysOnce'
  BY <1>2, <1>5, <1>6 DEF PathsUnbroken, KeysOnce
<1>13. HoleIsAhead'
  <2>1. ASSUME NEW i \in Counted' PROVE probeDistance(h, nextSlot(h)) <= probeDistance(h, i)
    <3>1. i \in Slots /\ i # h
      BY <1>4, <1>6, <2>1
    <3> QED BY <1>2, <1>4, <1>8, <3>1, DistanceFacts
  <2> QED BY <1>1, <1>2, <1>5, <2>1 DEF HoleIsAhead
<1>14. ScanFits'
  <2>1. ASSUME NEW j \in Slots, probeDistance(h, j) < 1 PROVE occupied(j)
    <3>1. j = h
      BY <1>2, <1>4, <2>1, DistanceFacts
    <3> QED BY <1>4, <3>1
  <2> QED BY <1>1, <1>2, <1>5, <1>8, <1>9, <2>1 DEF ScanFits
<1> QED BY <1>1, <1>2, <1>3, <1>6, <1>10, <1>11, <1>12, <1>13, <1>14 DEF TableInv

\* The state of a running erase.
LEMMA ErasingFacts ==
  ASSUME TableInv, Erasing
  PROVE  /\ TableTypes /\ slotCount \in Nat /\ emptyIndex \in Slots /\ scanIndex \in Slots
         /\ scanIndex # emptyIndex /\ occupied(emptyIndex) /\ emptyIndex \notin Counted
         /\ Counted = {i \in Slots : occupied(i)} \ {emptyIndex}
         /\ slotCount >= 2
         /\ occupied(scanIndex) => nextSlot(scanIndex) # emptyIndex
<1>1. /\ TableTypes /\ slotCount \in Nat /\ emptyIndex \in Slots /\ scanIndex \in Slots
      /\ scanIndex # emptyIndex
  BY DEF TableInv, TableTypes, Erasing, ScanFits
<1>2. \A j \in Slots : probeDistance(emptyIndex, j) < probeDistance(emptyIndex, scanIndex) => occupied(j)
  BY DEF TableInv, ScanFits
<1>3. occupied(emptyIndex)
  <2>1. probeDistance(emptyIndex, emptyIndex) < probeDistance(emptyIndex, scanIndex)
    BY <1>1, DistanceFacts
  <2> QED BY <1>1, <1>2, <2>1
<1>4. slotCount >= 2
  BY <1>1 DEF Slots
<1>5. ASSUME occupied(scanIndex), nextSlot(scanIndex) = emptyIndex PROVE FALSE
  <2>1. PICK v \in Slots : ~occupied(v)
    BY DEF TableInv, ScanFits
  <2>2. probeDistance(emptyIndex, v) <= probeDistance(emptyIndex, scanIndex)
    BY <1>1, <1>5, ScanFacts
  <2>3. v # scanIndex
    BY <1>5, <2>1
  <2>4. probeDistance(emptyIndex, v) < probeDistance(emptyIndex, scanIndex)
    BY <1>1, <2>2, <2>3, DistanceFacts
  <2> QED BY <1>2, <2>1, <2>4
<1> QED BY <1>1, <1>3, <1>4, <1>5 DEF Counted

\* The scanned key fills the hole: its path ends earlier now, and nothing
\* behind the new hole has been scanned.
LEMMA ShiftKeeps ==
  ASSUME TableInv, EraseScan, Shifts(scanIndex)
  PROVE  /\ TableInv' /\ Counted' = (Counted \ {scanIndex}) \cup {emptyIndex}
         /\ scanIndex \in Counted /\ emptyIndex \notin Counted
         /\ slots'[emptyIndex] = slots[scanIndex] /\ \A i \in Slots \ {emptyIndex} : slots'[i] = slots[i]
<1>1. PICK e, s : e = emptyIndex /\ s = scanIndex
  OBVIOUS
<1>2. /\ Erasing /\ occupied(s) /\ slots' = [slots EXCEPT ![e] = slots[s]] /\ emptyIndex' = s
      /\ scanIndex' = nextSlot(s)
      /\ UNCHANGED <<hash, initialized, residentLimit, residentCount, slotCount>>
  BY <1>1 DEF EraseScan
<1>3. /\ TableTypes /\ slotCount \in Nat /\ e \in Slots /\ s \in Slots /\ s # e /\ occupied(e) /\ e \notin Counted
      /\ Counted = {i \in Slots : occupied(i)} \ {e} /\ slotCount >= 2 /\ s \in Counted
      /\ \E v \in Slots : ~occupied(v)
  BY <1>1, <1>2, ErasingFacts DEF TableInv, ScanFits
<1>4. slots'[e] = slots[s] /\ (\A i \in Slots \ {e} : slots'[i] = slots[i])
      /\ slots' \in [Slots -> Residents \cup {Vacant}]
  BY <1>2, <1>3 DEF TableTypes
<1>5. /\ Slots' = Slots /\ (\A k, j, r : Before(k, j, r)' <=> Before(k, j, r))
      /\ \A x, y : probeDistance(x, y)' = probeDistance(x, y)
  BY <1>2, SameRing
<1>6. \A i \in Slots : occupied(i)' <=> occupied(i)
  <2>1. occupied(e)'
    BY <1>2, <1>4 DEF occupied, Vacant
  <2>2. \A i \in Slots \ {e} : occupied(i)' <=> occupied(i)
    BY <1>4 DEF occupied, Vacant
  <2> QED BY <1>3, <2>1, <2>2
<1>7. Counted' = (Counted \ {s}) \cup {e}
  BY <1>2, <1>3, <1>5, <1>6 DEF Counted
<1>8. nextSlot(s) \in Slots /\ nextSlot(s) # s /\ probeDistance(s, nextSlot(s)) = 1
  BY <1>3, NextFacts, ScanFacts
<1>9. PICK k \in Keys : k = slots[s].key
  BY <1>3, TableAssumption, SlotFacts
<1>10. Before(k, e, s)
  BY <1>1, <1>9 DEF Shifts, Before
<1>11. homeSlot(k) \in Slots
  BY <1>3, HomeFacts
<1>12. TableTypes'
  BY <1>2, <1>3, <1>4, <1>5, <1>8 DEF TableTypes
<1>13. TableSizes'
  <2>1. Cardinality(Counted') = Cardinality(Counted)
    <3>1. IsFiniteSet(Counted) /\ Cardinality(Counted) \in Nat
      BY <1>3, CountedFacts
    <3>2. IsFiniteSet(Counted \ {s}) /\ Cardinality(Counted \ {s}) = Cardinality(Counted) - 1
      BY <1>3, <3>1, FS_RemoveElement
    <3>3. Cardinality((Counted \ {s}) \cup {e}) = Cardinality(Counted \ {s}) + 1
      BY <1>3, <3>2, FS_AddElement
    <3> QED BY <1>7, <3>1, <3>2, <3>3
  <2> QED BY <1>2, <2>1 DEF TableInv, TableSizes
<1>14. PathsUnbroken'
  <2>1. ASSUME NEW i \in Counted', NEW j \in Slots, Before(slots'[i].key, j, i) PROVE occupied(j)
    <3>1. CASE i = e
      <4>1. Before(k, j, e)
        BY <1>4, <1>9, <2>1, <3>1
      <4>2. Before(k, j, s)
        <5>1. /\ probeDistance(homeSlot(k), j) \in Int /\ probeDistance(homeSlot(k), e) \in Int
              /\ probeDistance(homeSlot(k), s) \in Int
          BY <1>3, <1>11, DistanceFacts
        <5> QED BY <1>10, <4>1, <5>1 DEF Before
      <4> QED BY <1>3, <1>9, <4>2 DEF TableInv, PathsUnbroken
    <3>2. CASE i # e
      <4>1. i \in Counted /\ i \in Slots /\ slots'[i] = slots[i]
        BY <1>3, <1>4, <1>7, <3>2
      <4> QED BY <2>1, <4>1 DEF TableInv, PathsUnbroken
    <3> QED BY <3>1, <3>2
  <2> QED BY <1>5, <1>6, <2>1 DEF PathsUnbroken
<1>15. KeysOnce'
  <2>1. \A i \in Counted' : \/ i = e /\ slots'[i].key = slots[s].key
                            \/ i # e /\ i # s /\ i \in Counted /\ slots'[i].key = slots[i].key
    BY <1>3, <1>4, <1>7
  <2> QED BY <1>3, <2>1 DEF TableInv, KeysOnce
<1>16. HoleIsAhead'
  <2>1. ASSUME NEW i \in Counted', Before(slots'[i].key, s, i)
        PROVE  probeDistance(s, nextSlot(s)) <= probeDistance(s, i)
    <3>1. i \in Slots /\ i # s
      BY <1>3, <1>7
    <3> QED BY <1>3, <1>8, <3>1, DistanceFacts
  <2> QED BY <1>2, <1>5, <2>1 DEF HoleIsAhead
<1>17. ScanFits'
  <2>1. ASSUME NEW j \in Slots, probeDistance(s, j) < 1 PROVE occupied(j)
    <3>1. j = s
      BY <1>3, <2>1, DistanceFacts
    <3> QED BY <1>2, <3>1
  <2> QED BY <1>2, <1>3, <1>5, <1>6, <1>8, <2>1 DEF ScanFits
<1> QED BY <1>1, <1>3, <1>4, <1>7, <1>12, <1>13, <1>14, <1>15, <1>16, <1>17 DEF TableInv

\* The scanned key stays: the hole is not on its path.
LEMMA StayKeeps ==
  ASSUME TableInv, EraseScan, ~Shifts(scanIndex)
  PROVE  TableInv' /\ Counted' = Counted /\ slots' = slots
<1>1. PICK e, s : e = emptyIndex /\ s = scanIndex
  OBVIOUS
<1>2. /\ Erasing /\ occupied(s) /\ slots' = slots /\ emptyIndex' = e /\ scanIndex' = nextSlot(s)
      /\ UNCHANGED <<hash, initialized, residentLimit, residentCount, slotCount>>
  BY <1>1 DEF EraseScan
<1>3. /\ TableTypes /\ slotCount \in Nat /\ e \in Slots /\ s \in Slots /\ s # e
      /\ Counted = {i \in Slots : occupied(i)} \ {e} /\ s \in Counted
      /\ \E v \in Slots : ~occupied(v)
      /\ nextSlot(s) # e
  BY <1>1, <1>2, ErasingFacts DEF TableInv, ScanFits
<1>4. /\ Slots' = Slots /\ (\A k, j, r : Before(k, j, r)' <=> Before(k, j, r))
      /\ (\A x, y : probeDistance(x, y)' = probeDistance(x, y))
      /\ \A i \in Slots : occupied(i)' <=> occupied(i)
  BY <1>2, SameRing DEF occupied, Vacant
<1>5. Counted' = Counted
  BY <1>1, <1>2, <1>4 DEF Counted
<1>6. nextSlot(s) \in Slots /\ probeDistance(e, nextSlot(s)) = probeDistance(e, s) + 1
  BY <1>3, NextFacts, ScanFacts
<1>7. ~Before(slots[s].key, e, s)
  BY <1>1 DEF Shifts, Before
<1>8. TableTypes' /\ TableSizes' /\ PathsUnbroken' /\ KeysOnce'
  <2>1. TableTypes'
    BY <1>2, <1>3, <1>4, <1>6 DEF TableTypes
  <2>2. TableSizes' /\ PathsUnbroken' /\ KeysOnce'
    BY <1>2, <1>4, <1>5 DEF TableInv, TableSizes, PathsUnbroken, KeysOnce
  <2> QED BY <2>1, <2>2
<1>9. HoleIsAhead'
  <2>1. ASSUME NEW i \in Counted, Before(slots[i].key, e, i)
        PROVE  probeDistance(e, nextSlot(s)) <= probeDistance(e, i)
    <3>1. i # s /\ i \in Slots
      BY <1>3, <1>7, <2>1
    <3>2. probeDistance(e, s) <= probeDistance(e, i)
      BY <1>1, <1>2, <2>1 DEF TableInv, HoleIsAhead
    <3> QED BY <1>3, <1>6, <3>1, <3>2, DistanceFacts
  <2> QED BY <1>2, <1>4, <1>5, <2>1 DEF HoleIsAhead
<1>10. ScanFits'
  <2>1. ASSUME NEW j \in Slots, probeDistance(e, j) < probeDistance(e, nextSlot(s)) PROVE occupied(j)
    <3>1. CASE j = s
      BY <1>2, <3>1
    <3>2. CASE j # s
      <4>1. probeDistance(e, j) < probeDistance(e, s)
        BY <1>3, <1>6, <2>1, <3>2, DistanceFacts
      <4> QED BY <1>1, <1>2, <4>1 DEF TableInv, ScanFits
    <3> QED BY <3>1, <3>2
  <2> QED BY <1>2, <1>3, <1>4, <2>1 DEF ScanFits
<1> QED BY <1>2, <1>5, <1>8, <1>9, <1>10 DEF TableInv

\* The scan meets a free slot: no path leads over the hole.
LEMMA EraseEndKeeps ==
  ASSUME TableInv, EraseEnd
  PROVE  TableInv' /\ Counted' = Counted /\ \A i \in Counted : slots'[i] = slots[i]
<1>1. PICK e, s : e = emptyIndex /\ s = scanIndex
  OBVIOUS
<1>2. /\ Erasing /\ ~occupied(s) /\ slots' = [slots EXCEPT ![e] = Vacant] /\ emptyIndex' = NO_SLOT
      /\ UNCHANGED <<hash, initialized, residentLimit, residentCount, slotCount>>
  BY <1>1 DEF EraseEnd
<1>3. /\ TableTypes /\ slotCount \in Nat /\ e \in Slots /\ s \in Slots /\ s # e
      /\ Counted = {i \in Slots : occupied(i)} \ {e} /\ slotCount > 0
  BY <1>1, <1>2, ErasingFacts
<1>4. slots'[e] = Vacant /\ (\A i \in Slots \ {e} : slots'[i] = slots[i])
      /\ slots' \in [Slots -> Residents \cup {Vacant}]
  BY <1>2, <1>3 DEF TableTypes
<1>5. /\ Slots' = Slots /\ \A k, j, r : Before(k, j, r)' <=> Before(k, j, r)
  BY <1>2, SameRing
<1>6. (\A i \in Slots \ {e} : occupied(i)' <=> occupied(i)) /\ ~occupied(e)'
  BY <1>4 DEF occupied, Vacant
<1>7. Counted' = Counted /\ \A i \in Counted : i # e /\ i \in Slots /\ slots'[i] = slots[i]
  <2>1. NO_SLOT \notin Slots
    BY <1>3 DEF NO_SLOT, Slots
  <2> QED BY <1>2, <1>3, <1>4, <1>5, <1>6, <2>1 DEF Counted
<1>8. ASSUME NEW i \in Counted PROVE ~Before(slots[i].key, e, i)
  <2>1. SUFFICES ASSUME Before(slots[i].key, e, i) PROVE FALSE
    OBVIOUS
  <2>2. probeDistance(e, s) <= probeDistance(e, i)
    BY <1>1, <1>2, <2>1 DEF TableInv, HoleIsAhead
  <2>3. i \in Slots /\ occupied(i) /\ i # s
    BY <1>2, <1>3
  <2>4. probeDistance(e, s) < probeDistance(e, i)
    BY <1>3, <2>2, <2>3, DistanceFacts
  <2>5. slots[i].key \in Keys
    BY <1>3, <2>3, TableAssumption, SlotFacts
  <2>6. homeSlot(slots[i].key) \in Slots
    BY <1>3, <2>5, HomeFacts
  <2>7. Before(slots[i].key, s, i)
    BY <1>3, <2>1, <2>3, <2>4, <2>6, RingFacts DEF Before
  <2> QED BY <1>2, <1>3, <2>7 DEF TableInv, PathsUnbroken
<1>9. PathsUnbroken'
  <2>1. ASSUME NEW i \in Counted, NEW j \in Slots, Before(slots[i].key, j, i) PROVE occupied(j)'
    <3>1. j # e /\ occupied(j)
      BY <1>8, <2>1 DEF TableInv, PathsUnbroken
    <3> QED BY <1>6, <3>1
  <2> QED BY <1>5, <1>7, <2>1 DEF PathsUnbroken
<1>10. TableTypes' /\ TableSizes' /\ KeysOnce'
  <2>1. TableTypes'
    BY <1>2, <1>3, <1>4, <1>5 DEF TableTypes
  <2>2. TableSizes' /\ KeysOnce'
    BY <1>2, <1>7 DEF TableInv, TableSizes, KeysOnce
  <2> QED BY <2>1, <2>2
<1>11. HoleIsAhead' /\ ScanFits'
  BY <1>2 DEF HoleIsAhead, ScanFits, Erasing
<1> QED BY <1>7, <1>9, <1>10, <1>11 DEF TableInv

\* Every step keeps the table in order.
LEMMA TableInductive == TableInv /\ [Next]_vars => TableInv'
<1> SUFFICES ASSUME TableInv, [Next]_vars PROVE TableInv'
  OBVIOUS
<1>1. CASE UNCHANGED vars
  <2>1. /\ Slots' = Slots /\ (\A k, j, r : Before(k, j, r)' <=> Before(k, j, r))
        /\ (\A x, y : probeDistance(x, y)' = probeDistance(x, y))
        /\ (\A i \in Slots : occupied(i)' <=> occupied(i))
        /\ Counted' = Counted /\ Erasing' = Erasing
    BY <1>1, SameRing DEF vars, occupied, Vacant, Counted, Erasing, NO_SLOT, Slots
  <2>2. TableTypes' /\ TableSizes'
    BY <1>1, <2>1 DEF TableInv, TableTypes, TableSizes, vars
  <2>3. PathsUnbroken' /\ KeysOnce' /\ HoleIsAhead' /\ ScanFits'
    BY <1>1, <2>1 DEF TableInv, PathsUnbroken, KeysOnce, HoleIsAhead, ScanFits, vars
  <2> QED BY <2>2, <2>3 DEF TableInv
<1>2. CASE (\E n \in Limits : Initialize(n)) \/ Clear \/ Release
  BY <1>2, WholeTable
<1>3. ASSUME NEW key \in Keys, NEW e \in EntryIndices, Insert(key, e) \/ EraseBegin(key, e) PROVE TableInv'
  BY <1>3, InsertKeeps, EraseBeginKeeps
<1>4. CASE EraseScan
  BY <1>4, ShiftKeeps, StayKeeps
<1>5. CASE EraseEnd
  BY <1>5, EraseEndKeeps
<1> QED BY <1>1, <1>2, <1>3, <1>4, <1>5 DEF Next

\* The table before initialize.
LEMMA TableInitially == Init => TableInv
<1> SUFFICES ASSUME Init PROVE TableInv
  OBVIOUS
<1>1. Slots = {} /\ Counted = {}
  BY DEF Init, Slots, Counted
<1>2. TableTypes
  BY <1>1, TableAssumption DEF Init, TableTypes, TableAssumption, Empties, Slots
<1>3. TableSizes
  <2>1. residentCount = Cardinality(Counted)
    BY <1>1, FS_EmptySet DEF Init
  <2> QED BY <2>1 DEF Init, TableSizes
<1>4. PathsUnbroken /\ KeysOnce /\ HoleIsAhead /\ ScanFits
  BY <1>1 DEF PathsUnbroken, KeysOnce, HoleIsAhead, ScanFits, Erasing, Init
<1> QED BY <1>2, <1>3, <1>4 DEF TableInv

\* In every reachable state, eraseSlot running or not, no search path to a
\* resident key is broken but for the hole.
THEOREM TableInvariant == Spec => []TableInv
<1> QED BY TableInitially, TableInductive, PTL DEF Spec

\* The map a table stands for.
LEMMA MapFacts ==
  ASSUME KeysOnce, NEW key \in Keys
  PROVE  /\ \A i \in Counted : slots[i].key = key => residencyMap[key] = slots[i].entryIndex
         /\ (\A i \in Counted : slots[i].key # key) => residencyMap[key] = NoEntry
<1>1. residencyMap[key] = IF \E i \in Counted : slots[i].key = key
                          THEN slots[CHOOSE i \in Counted : slots[i].key = key].entryIndex ELSE NoEntry
  BY DEF residencyMap
<1>2. ASSUME NEW i \in Counted, slots[i].key = key PROVE (CHOOSE j \in Counted : slots[j].key = key) = i
  BY <1>2 DEF KeysOnce
<1> QED BY <1>1, <1>2

\* find answers what the map says, whatever the hash function and however the
\* keys collide (GpuResidencyTable::find).
THEOREM FindExact == Spec => []FindIsExact
<1>1. TableInv => FindIsExact
  <2> SUFFICES ASSUME TableInv, ~Erasing, NEW k \in Keys PROVE find(k) = residencyMap[k]
    BY DEF FindIsExact
  <2>1. KeysOnce /\ TableTypes /\ TableSizes
    BY DEF TableInv
  <2>2. CASE ~initialized
    <3>1. Counted = {}
      BY <2>1, <2>2 DEF TableSizes, Counted, Slots
    <3> QED BY <2>1, <2>2, <3>1, MapFacts DEF find
  <2>3. CASE initialized /\ findSlot(k) # NO_SLOT
    BY <2>1, <2>3, TableAssumption, FindFacts, MapFacts DEF find
  <2>4. CASE initialized /\ findSlot(k) = NO_SLOT
    <3>1. NO_SLOT \notin Counted
      BY <2>1 DEF Counted, Slots, NO_SLOT, TableTypes
    <3>2. \A i \in Counted : slots[i].key # k
      BY <2>4, <3>1, TableAssumption, FindFacts
    <3> QED BY <2>1, <2>4, <3>2, MapFacts DEF find
  <2> QED BY <2>2, <2>3, <2>4
<1> QED BY <1>1, TableInvariant, PTL

-----------------------------------------------------------------------------
(* The refinement.                                                         *)

\* The abstract map counts the same way.
LEMMA MapCounts == \A S : Map!Cardinality(S) = Cardinality(S)
BY DEF Map!Cardinality, Cardinality

\* The keys in the map are as many as the slots that count.
LEMMA MapSize ==
  ASSUME TableInv
  PROVE  Map!Size = residentCount
<1> DEFINE T == {k \in Keys : residencyMap[k] # NoEntry}
           f == [i \in Counted |-> slots[i].key]
<1>1. TableTypes /\ KeysOnce /\ residentCount = Cardinality(Counted)
  BY DEF TableInv, TableSizes
<1>2. ASSUME NEW i \in Counted PROVE f[i] \in T
  <2>1. i \in Slots /\ slots[i].key \in Keys /\ slots[i].entryIndex \in EntryIndices
    BY <1>1, TableAssumption, SlotFacts DEF Counted
  <2>2. residencyMap[slots[i].key] = slots[i].entryIndex
    BY <1>1, <2>1, MapFacts
  <2> QED BY <2>1, <2>2, TableAssumption DEF TableAssumption
<1>3. ASSUME NEW k \in T PROVE \E i \in Counted : f[i] = k
  BY <1>1, <1>3, MapFacts
<1>4. \A i, j \in Counted : f[i] = f[j] => i = j
  BY <1>1 DEF KeysOnce
<1>5. f \in [Counted -> T]
  BY <1>2
<1> HIDE DEF f, T
<1>6. f \in Bijection(Counted, T)
  BY <1>3, <1>4, <1>5 DEF Bijection, Injection, Surjection, IsInjective
<1>7. Cardinality(T) = Cardinality(Counted)
  <2>1. ExistsBijection(Counted, T)
    BY <1>6 DEF ExistsBijection
  <2> QED BY <1>1, <2>1, CountedFacts, FS_Bijection
<1> QED BY <1>1, <1>7, MapCounts DEF T, Map!Size

\* The map after a step.
LEMMA MapFactsNext ==
  ASSUME KeysOnce', NEW key \in Keys
  PROVE  /\ \A i \in Counted' : slots'[i].key = key => residencyMap'[key] = slots'[i].entryIndex
         /\ (\A i \in Counted' : slots'[i].key # key) => residencyMap'[key] = NoEntry
<1>1. residencyMap'[key] = IF \E i \in Counted' : slots'[i].key = key
                           THEN slots'[CHOOSE i \in Counted' : slots'[i].key = key].entryIndex ELSE NoEntry
  BY DEF residencyMap
<1>2. ASSUME NEW i \in Counted', slots'[i].key = key PROVE (CHOOSE j \in Counted' : slots'[j].key = key) = i
  BY <1>2 DEF KeysOnce
<1> QED BY <1>1, <1>2

\* A table without residents is the empty map.
LEMMA EmptyMap ==
  ASSUME Counted' = {}
  PROVE  residencyMap' = Map!Absent
BY DEF residencyMap, Map!Absent

\* insert, as the map has it.
LEMMA InsertMaps ==
  ASSUME TableInv, NEW key \in Keys, NEW e \in EntryIndices, Insert(key, e)
  PROVE  Map!Insert(key, e)
<1>1. PICK i \in Slots :
           /\ \A j \in Counted : slots[j].key # key
           /\ Counted' = Counted \cup {i} /\ i \notin Counted
           /\ \A j \in Slots \ {i} : slots'[j] = slots[j]
           /\ slots'[i].key = key /\ slots'[i].entryIndex = e
  BY InsertFacts
<1>2. KeysOnce /\ KeysOnce'
  BY InsertKeeps DEF TableInv
<1>3. initialized /\ residentCount < residentLimit /\ UNCHANGED <<residentLimit, initialized>>
  BY DEF Insert, InsertAllowed
<1>4. residencyMap[key] = NoEntry
  BY <1>1, <1>2, MapFacts
<1>5. Map!Size < residentLimit
  BY <1>3, MapSize
<1>6. \A j \in Counted : j \in Slots /\ j # i /\ slots'[j] = slots[j]
  BY <1>1 DEF Counted
<1>7. ASSUME NEW k \in Keys PROVE residencyMap'[k] = IF k = key THEN e ELSE residencyMap[k]
  <2>1. /\ \A j \in Counted' : slots'[j].key = k => residencyMap'[k] = slots'[j].entryIndex
        /\ (\A j \in Counted' : slots'[j].key # k) => residencyMap'[k] = NoEntry
    BY <1>2, MapFactsNext
  <2>2. CASE k = key
    BY <1>1, <2>1, <2>2
  <2>3. CASE k # key
    BY <1>1, <1>2, <1>6, <2>1, <2>3, MapFacts
  <2> QED BY <2>2, <2>3
<1>8. residencyMap' = [residencyMap EXCEPT ![key] = e]
  BY <1>7 DEF residencyMap
<1> QED BY <1>3, <1>4, <1>5, <1>8 DEF Map!Insert

\* The start of erase is the erasure; the shifts that follow are not seen.
LEMMA EraseMaps ==
  ASSUME TableInv, NEW key \in Keys, NEW e \in EntryIndices, EraseBegin(key, e)
  PROVE  Map!Erase(key, e)
<1>1. PICK h : h = emptyIndex'
  OBVIOUS
<1>2. /\ KeysOnce /\ KeysOnce' /\ h \in Counted /\ Counted' = Counted \ {h} /\ slots' = slots
      /\ slots[h].key = key /\ slots[h].entryIndex = e /\ initialized /\ UNCHANGED <<residentLimit, initialized>>
  BY <1>1, EraseBeginKeeps DEF TableInv, EraseBegin
<1>3. residencyMap[key] = e
  BY <1>2, MapFacts
<1>4. ASSUME NEW k \in Keys PROVE residencyMap'[k] = IF k = key THEN NoEntry ELSE residencyMap[k]
  <2>1. /\ \A j \in Counted' : slots[j].key = k => residencyMap'[k] = slots[j].entryIndex
        /\ (\A j \in Counted' : slots[j].key # k) => residencyMap'[k] = NoEntry
    BY <1>2, MapFactsNext
  <2>2. CASE k = key
    BY <1>2, <2>1, <2>2 DEF KeysOnce
  <2>3. CASE k # key
    BY <1>2, <2>1, <2>3, MapFacts
  <2> QED BY <2>2, <2>3
<1>5. residencyMap' = [residencyMap EXCEPT ![key] = NoEntry]
  BY <1>4 DEF residencyMap
<1> QED BY <1>2, <1>3, <1>5 DEF Map!Erase

\* The same residents in other slots are the same map.
LEMMA MovedMap ==
  ASSUME KeysOnce, KeysOnce',
         \A i \in Counted : \E j \in Counted' : slots'[j] = slots[i],
         \A j \in Counted' : \E i \in Counted : slots'[j] = slots[i]
  PROVE  residencyMap' = residencyMap
<1>1. ASSUME NEW k \in Keys PROVE residencyMap'[k] = residencyMap[k]
  <2>1. CASE \E i \in Counted : slots[i].key = k
    <3>1. PICK i \in Counted : slots[i].key = k
      BY <2>1
    <3>2. PICK j \in Counted' : slots'[j] = slots[i]
      OBVIOUS
    <3> QED BY <3>1, <3>2, MapFacts, MapFactsNext
  <2>2. CASE \A i \in Counted : slots[i].key # k
    <3>1. \A j \in Counted' : slots'[j].key # k
      BY <2>2
    <3> QED BY <2>2, <3>1, MapFacts, MapFactsNext
  <2> QED BY <2>1, <2>2
<1> QED BY <1>1 DEF residencyMap

\* A turn of the loop, and its end, leave the map alone.
LEMMA ScanMaps ==
  ASSUME TableInv, EraseScan \/ EraseEnd
  PROVE  UNCHANGED <<residencyMap, residentLimit, initialized>>
<1>1. KeysOnce /\ KeysOnce'
  BY ShiftKeeps, StayKeeps, EraseEndKeeps DEF TableInv
<1>2. /\ \A i \in Counted : \E j \in Counted' : slots'[j] = slots[i]
      /\ \A j \in Counted' : \E i \in Counted : slots'[j] = slots[i]
  <2>1. CASE EraseScan /\ Shifts(scanIndex)
    <3>1. /\ Counted' = (Counted \ {scanIndex}) \cup {emptyIndex}
          /\ scanIndex \in Counted /\ emptyIndex \notin Counted
          /\ slots'[emptyIndex] = slots[scanIndex] /\ \A i \in Slots \ {emptyIndex} : slots'[i] = slots[i]
      BY <2>1, ShiftKeeps
    <3>2. \A i \in Counted : i \in Slots
      BY DEF Counted
    <3>3. ASSUME NEW i \in Counted PROVE \E j \in Counted' : slots'[j] = slots[i]
      <4>1. CASE i = scanIndex
        BY <3>1, <4>1
      <4>2. CASE i # scanIndex
        <5>1. i \in Counted' /\ slots'[i] = slots[i]
          BY <3>1, <3>2, <4>2
        <5> QED BY <5>1
      <4> QED BY <4>1, <4>2
    <3>4. ASSUME NEW j \in Counted' PROVE \E i \in Counted : slots'[j] = slots[i]
      <4>1. CASE j = emptyIndex
        BY <3>1, <4>1
      <4>2. CASE j # emptyIndex
        <5>1. j \in Counted /\ slots'[j] = slots[j]
          BY <3>1, <3>2, <4>2
        <5> QED BY <5>1
      <4> QED BY <4>1, <4>2
    <3> QED BY <3>3, <3>4
  <2>2. CASE EraseScan /\ ~Shifts(scanIndex)
    BY <2>2, StayKeeps
  <2>3. CASE EraseEnd
    BY <2>3, EraseEndKeeps
  <2> QED BY <2>1, <2>2, <2>3
<1>3. residencyMap' = residencyMap
  BY <1>1, <1>2, MovedMap
<1> QED BY <1>3 DEF EraseScan, EraseEnd

\* The table implements the partial map, for every hash function and size: the
\* limit is kept, insert and erase change one key, and eraseSlot's shifts move
\* residents without changing the map.
THEOREM TableImplementsMap == Spec => ImplementsMap
<1>1. Init => Map!Init
  <2> SUFFICES ASSUME Init PROVE Map!Init
    OBVIOUS
  <2>1. Counted = {}
    BY DEF Init, Counted, Slots
  <2>2. residencyMap = Map!Absent
    BY <2>1 DEF residencyMap, Map!Absent
  <2> QED BY <2>2 DEF Init, Map!Init
<1>2. TableInv /\ [Next]_vars => [Map!Next]_(Map!mapVars)
  <2> SUFFICES ASSUME TableInv, [Next]_vars PROVE [Map!Next]_(Map!mapVars)
    OBVIOUS
  <2>1. CASE UNCHANGED vars
    <3>1. Counted' = Counted /\ slots' = slots
      BY <2>1 DEF vars, Counted, Slots, occupied, Vacant
    <3>2. residencyMap' = residencyMap
      BY <3>1 DEF residencyMap
    <3> QED BY <2>1, <3>2 DEF vars, Map!mapVars
  <2>2. ASSUME NEW n \in Limits, Initialize(n) PROVE Map!Next
    <3>1. Counted' = {}
      BY <2>2 DEF Initialize, Counted, Slots, occupied, Empties, Vacant
    <3>2. Map!Initialize(n)
      BY <2>2, <3>1, EmptyMap DEF Initialize, Map!Initialize
    <3> QED BY <3>2 DEF Map!Next
  <2>3. CASE Clear
    <3>1. Counted' = {}
      BY <2>3 DEF Clear, Counted, Slots, occupied, Empties, Vacant
    <3>2. Map!Clear
      BY <2>3, <3>1, EmptyMap DEF Clear, Map!Clear
    <3> QED BY <3>2 DEF Map!Next
  <2>4. CASE Release
    <3>1. Counted' = {}
      BY <2>4 DEF Release, Counted, Slots
    <3>2. Map!Release
      BY <2>4, <3>1, EmptyMap DEF Release, Map!Release
    <3> QED BY <3>2 DEF Map!Next
  <2>5. ASSUME NEW key \in Keys, NEW e \in EntryIndices, Insert(key, e) \/ EraseBegin(key, e) PROVE Map!Next
    BY <2>5, InsertMaps, EraseMaps DEF Map!Next
  <2>6. CASE EraseScan \/ EraseEnd
    BY <2>6, ScanMaps DEF Map!mapVars
  <2> QED BY <2>1, <2>2, <2>3, <2>4, <2>5, <2>6 DEF Next
<1> QED BY <1>1, <1>2, TableInvariant, PTL DEF Spec, ImplementsMap, Map!Spec

-----------------------------------------------------------------------------
(* The doubly linked lists through the entries *)

\* The invariant is inductive together with the types.
LinksInv == TypeOK /\ LinksMatchOrder

(* Linking an unlinked entry behind the last one (addEvictableEntry) keeps the *)
(* links equal to the sequence.                                                *)
LEMMA AddKeepsLinks ==
  ASSUME LinksInv, NEW e \in Index, AddEntry(e)
  PROVE  LinksInv'
<1>1. e \notin Range(order) /\ order \in Seq(Index)
  BY DEF LinksInv, TypeOK, LinksMatchOrder, AddEntry
<1>2. /\ order' \in Seq(Index)
      /\ Range(order') = Range(order) \cup {e}
      /\ IsInjective(order')
  BY <1>1, AppendFacts DEF LinksInv, LinksMatchOrder, AddEntry
<1>3. /\ Len(order) \in Nat
      /\ Len(order') = Len(order) + 1
      /\ \A i \in 1 .. Len(order) : order'[i] = order[i] /\ order[i] \in Index /\ order[i] # e
      /\ order'[Len(order) + 1] = e
  BY <1>1 DEF AddEntry, Range
<1>4. TypeOK'
  BY <1>2 DEF LinksInv, TypeOK, AddEntry
<1>5. order = <<>> <=> Len(order) = 0
  BY <1>1
<1>6. e # NO_ENTRY /\ \A i \in Index : i # NO_ENTRY
  BY EntryCountAssumption DEF Index, NO_ENTRY
<1>7. first' = order'[1] /\ last' = order'[Len(order')]
  BY <1>3, <1>5, <1>6 DEF LinksInv, LinksMatchOrder, AddEntry
<1>8. ASSUME NEW i \in 1 .. Len(order')
      PROVE  /\ next'[order'[i]] = IF i = Len(order') THEN NO_ENTRY ELSE order'[i + 1]
             /\ previous'[order'[i]] = IF i = 1 THEN NO_ENTRY ELSE order'[i - 1]
  <2>1. CASE i = Len(order) + 1
    BY <1>3, <1>5, <1>6, <2>1 DEF LinksInv, TypeOK, LinksMatchOrder, AddEntry
  <2>2. CASE i \in 1 .. Len(order)
    <3>1. order'[i] = order[i] /\ order[i] \in Index /\ order[i] # e
      BY <1>3, <2>2
    <3>2. last = order[Len(order)]
      BY <1>5, <2>2, <1>3 DEF LinksInv, LinksMatchOrder
    <3>3. order[i] = last <=> i = Len(order)
      BY <1>3, <2>2, <3>2 DEF LinksInv, LinksMatchOrder, IsInjective
    <3>4. next'[order[i]] = IF i = Len(order) THEN e ELSE next[order[i]]
      BY <3>1, <3>3 DEF AddEntry
    <3>5. previous'[order[i]] = previous[order[i]]
      BY <3>1 DEF AddEntry, LinksInv, TypeOK
    <3>6. /\ next[order[i]] = IF i = Len(order) THEN NO_ENTRY ELSE order[i + 1]
          /\ previous[order[i]] = IF i = 1 THEN NO_ENTRY ELSE order[i - 1]
      BY <2>2 DEF LinksInv, LinksMatchOrder
    <3> QED BY <1>3, <2>2, <3>1, <3>4, <3>5, <3>6
  <2> QED BY <1>3, <2>1, <2>2
<1>9. ASSUME NEW d \in Index PROVE inList'[d] <=> d \in Range(order')
  BY <1>2 DEF LinksInv, TypeOK, LinksMatchOrder, AddEntry
<1>10. ASSUME NEW d \in Index, ~inList'[d] PROVE next'[d] = NO_ENTRY /\ previous'[d] = NO_ENTRY
  <2>1. d # e /\ ~inList[d]
    BY <1>10 DEF LinksInv, TypeOK, AddEntry
  <2>2. d # last
    <3>1. CASE order = <<>>
      BY <3>1, <1>6 DEF LinksInv, LinksMatchOrder
    <3>2. CASE order # <<>>
      <4>1. last = order[Len(order)] /\ Len(order) \in 1 .. Len(order)
        BY <3>2, <1>5, <1>3 DEF LinksInv, LinksMatchOrder
      <4>2. last \in Range(order)
        BY <4>1, <1>1 DEF Range
      <4> QED BY <4>2, <2>1 DEF LinksInv, LinksMatchOrder
    <3> QED BY <3>1, <3>2
  <2> QED BY <2>1, <2>2 DEF LinksInv, TypeOK, LinksMatchOrder, AddEntry
<1>11. order' # <<>>
  BY <1>2, <1>3
<1> QED BY <1>2, <1>4, <1>7, <1>8, <1>9, <1>10, <1>11 DEF LinksInv, LinksMatchOrder

(* Unlinking an entry (removeEvictableEntry) joins its neighbours and leaves   *)
(* the rest of the sequence as it was.                                         *)
LEMMA RemoveKeepsLinks ==
  ASSUME LinksInv, NEW e \in Index, RemoveEntry(e)
  PROVE  LinksInv'
<1>1. order \in Seq(Index) /\ IsInjective(order) /\ e \in Range(order) /\ Len(order) \in Nat
  BY DEF LinksInv, TypeOK, LinksMatchOrder, RemoveEntry
<1>2. PICK k \in 1 .. Len(order) : order[k] = e
  BY <1>1 DEF Range
<1>3. /\ order' \in Seq(Index)
      /\ IsInjective(order')
      /\ Range(order') = Range(order) \ {e}
  BY <1>1, RemoveFirstFacts DEF RemoveEntry
<1>4. order' = RemoveAt(order, k)
  BY <1>1, <1>2, RemoveFirstIsRemoveAt DEF RemoveEntry
<1>5. /\ Len(order') = Len(order) - 1
      /\ \A j \in 1 .. (Len(order) - 1) : order'[j] = IF j < k THEN order[j] ELSE order[j + 1]
  BY <1>1, <1>2, <1>4, RemoveAtFacts
<1>6. \A i, j \in 1 .. Len(order) : order[i] \in Index /\ (order[i] = order[j] => i = j)
  BY <1>1 DEF IsInjective
<1>7. \A i \in Index : i # NO_ENTRY
  BY EntryCountAssumption DEF Index, NO_ENTRY
<1>8. \A i \in 1 .. Len(order) :
        /\ next[order[i]] = IF i = Len(order) THEN NO_ENTRY ELSE order[i + 1]
        /\ previous[order[i]] = IF i = 1 THEN NO_ENTRY ELSE order[i - 1]
  BY DEF LinksInv, LinksMatchOrder
<1>9. /\ next[e] = IF k = Len(order) THEN NO_ENTRY ELSE order[k + 1]
      /\ previous[e] = IF k = 1 THEN NO_ENTRY ELSE order[k - 1]
  BY <1>2, <1>8
<1>10. first = order[1] /\ last = order[Len(order)]
  BY <1>1, <1>2 DEF LinksInv, LinksMatchOrder
<1>11. TypeOK'
  <2>1. next[e] \in Index \cup {NO_ENTRY} /\ previous[e] \in Index \cup {NO_ENTRY}
    BY DEF LinksInv, TypeOK
  <2> QED BY <1>3, <2>1 DEF LinksInv, TypeOK, RemoveEntry, PreviousWithout
<1>12. order' = <<>> <=> Len(order) = 1
  BY <1>1, <1>3, <1>5
<1>13. previous[e] = NO_ENTRY <=> k = 1
  BY <1>1, <1>2, <1>6, <1>7, <1>9
<1>14. next[e] = NO_ENTRY <=> k = Len(order)
  BY <1>1, <1>2, <1>6, <1>7, <1>9
<1>15. first' = IF order' = <<>> THEN NO_ENTRY ELSE order'[1]
  BY <1>1, <1>2, <1>5, <1>9, <1>10, <1>12, <1>13 DEF RemoveEntry
<1>16. last' = IF order' = <<>> THEN NO_ENTRY ELSE order'[Len(order')]
  BY <1>1, <1>2, <1>5, <1>9, <1>10, <1>12, <1>14 DEF RemoveEntry
<1>17. ASSUME NEW j \in 1 .. Len(order')
       PROVE  /\ next'[order'[j]] = IF j = Len(order') THEN NO_ENTRY ELSE order'[j + 1]
              /\ previous'[order'[j]] = IF j = 1 THEN NO_ENTRY ELSE order'[j - 1]
  <2> DEFINE i == IF j < k THEN j ELSE j + 1
  <2>1. i \in 1 .. Len(order) /\ i # k /\ order'[j] = order[i]
    BY <1>1, <1>2, <1>5
  <2>2. order[i] \in Index /\ order[i] # e
    BY <1>2, <1>6, <2>1
  <2>3. order[i] = previous[e] <=> i = k - 1
    BY <1>1, <1>2, <1>6, <1>7, <1>9, <2>1
  <2>4. order[i] = next[e] <=> i = k + 1
    BY <1>1, <1>2, <1>6, <1>7, <1>9, <2>1
  <2>5. next'[order[i]] = IF i = k - 1 THEN next[e] ELSE next[order[i]]
    BY <2>2, <2>3 DEF RemoveEntry
  <2>6. previous'[order[i]] = IF i = k + 1 THEN previous[e] ELSE previous[order[i]]
    BY <2>2, <2>4 DEF RemoveEntry, PreviousWithout
  <2>7. /\ next[order[i]] = IF i = Len(order) THEN NO_ENTRY ELSE order[i + 1]
        /\ previous[order[i]] = IF i = 1 THEN NO_ENTRY ELSE order[i - 1]
    BY <1>8, <2>1
  <2>8. next'[order'[j]] = IF j = Len(order') THEN NO_ENTRY ELSE order'[j + 1]
    <3>1. j \in 1 .. (Len(order) - 1) /\ j + 1 \in 1 .. Len(order)
      BY <1>1, <1>5
    <3>2. CASE i = k - 1
      <4>1. j = k - 1 /\ next'[order'[j]] = next[e]
        BY <1>1, <2>1, <2>5, <3>1, <3>2
      <4>2. CASE k = Len(order)
        BY <1>5, <1>9, <4>1, <4>2
      <4>3. CASE k < Len(order)
        <5>1. order'[j + 1] = order[k + 1]
          BY <1>1, <1>2, <1>5, <3>1, <4>1, <4>3
        <5> QED BY <1>1, <1>2, <1>5, <1>9, <4>1, <4>3, <5>1
      <4> QED BY <1>1, <1>2, <4>2, <4>3
    <3>3. CASE i # k - 1
      <4>1. next'[order'[j]] = IF i = Len(order) THEN NO_ENTRY ELSE order[i + 1]
        BY <2>1, <2>5, <2>7, <3>3
      <4>2. i = Len(order) <=> j = Len(order')
        BY <1>1, <1>2, <1>5, <2>1, <3>1, <3>3
      <4>3. ASSUME i # Len(order) PROVE order'[j + 1] = order[i + 1]
        BY <1>1, <1>2, <1>5, <2>1, <3>1, <3>3, <4>3
      <4> QED BY <4>1, <4>2, <4>3
    <3> QED BY <3>2, <3>3
  <2>9. previous'[order'[j]] = IF j = 1 THEN NO_ENTRY ELSE order'[j - 1]
    BY <1>1, <1>2, <1>5, <1>9, <2>1, <2>6, <2>7
  <2> QED BY <2>8, <2>9
<1>18. ASSUME NEW d \in Index PROVE inList'[d] <=> d \in Range(order')
  BY <1>3 DEF LinksInv, TypeOK, LinksMatchOrder, RemoveEntry
<1>19. ASSUME NEW d \in Index, ~inList'[d] PROVE next'[d] = NO_ENTRY /\ previous'[d] = NO_ENTRY
  <2>1. CASE d = e
    BY <2>1 DEF RemoveEntry, PreviousWithout
  <2>2. CASE d # e
    <3>1. ~inList[d]
      BY <1>19, <2>2 DEF LinksInv, TypeOK, RemoveEntry
    <3>2. d \notin Range(order) /\ next[d] = NO_ENTRY /\ previous[d] = NO_ENTRY
      BY <3>1 DEF LinksInv, LinksMatchOrder
    <3>3. \A i \in 1 .. Len(order) : d # order[i]
      BY <1>1, <3>2 DEF Range
    <3>4. d # previous[e] /\ d # next[e]
      BY <1>1, <1>2, <1>7, <1>9, <3>3
    <3> QED BY <2>2, <3>2, <3>4 DEF RemoveEntry, PreviousWithout
  <2> QED BY <2>1, <2>2
<1> QED BY <1>3, <1>11, <1>15, <1>16, <1>17, <1>18, <1>19 DEF LinksInv, LinksMatchOrder

(* Every operation on the list keeps its links and the sequence equal.        *)
THEOREM LinksInvariant == ListSpec => []LinksInv
<1>1. ListInit => LinksInv
  <2> SUFFICES ASSUME ListInit PROVE LinksInv
    OBVIOUS
  <2>1. TypeOK
    BY DEF ListInit, TypeOK, Unlinked
  <2>2. Range(<<>>) = {} /\ IsInjective(<<>>) /\ Len(<<>>) = 0
    BY DEF Range, IsInjective
  <2> QED BY <2>1, <2>2 DEF ListInit, LinksInv, LinksMatchOrder, Unlinked
<1>2. LinksInv /\ [ListNext]_listVars => LinksInv'
  <2> SUFFICES ASSUME LinksInv, [ListNext]_listVars PROVE LinksInv'
    OBVIOUS
  <2>1. ASSUME NEW e \in Index, AddEntry(e) PROVE LinksInv'
    BY <2>1, AddKeepsLinks
  <2>2. ASSUME NEW e \in Index, RemoveEntry(e) PROVE LinksInv'
    BY <2>2, RemoveKeepsLinks
  <2>3. CASE ClearList
    <3>1. TypeOK'
      BY <2>3 DEF ClearList, TypeOK, Unlinked
    <3>2. Range(<<>>) = {} /\ IsInjective(<<>>) /\ Len(<<>>) = 0
      BY DEF Range, IsInjective
    <3> QED BY <2>3, <3>1, <3>2 DEF ClearList, LinksInv, LinksMatchOrder, Unlinked
  <2>4. CASE UNCHANGED listVars
    BY <2>4 DEF listVars, LinksInv, TypeOK, LinksMatchOrder
  <2> QED BY <2>1, <2>2, <2>3, <2>4 DEF ListNext
<1> QED BY <1>1, <1>2, PTL DEF ListSpec

(* For every number of entries: the links of the list, read from either end,  *)
(* are the sequence that GpuDataCache appends to and removes from.            *)
THEOREM LinksAreTheOrder == ListSpec => []LinksMatchOrder
<1>1. LinksInv => LinksMatchOrder
  BY DEF LinksInv
<1> QED BY <1>1, LinksInvariant, PTL
=============================================================================
