------------------------- MODULE GpuResidencyTable -------------------------
(***************************************************************************)
(* src/DataCache/GpuResidencyTable: linear probing in a table of fixed     *)
(* size, with backward-shift deletion.  The manager's mutex is held around *)
(* every operation; the steps of eraseSlot are separate steps here so that *)
(* its loop has an invariant.  hash is any function: GpuDataKeyHash is not *)
(* trusted to spread the keys.                                             *)
(*                                                                         *)
(* The table size is a power of two, so that "& (slots.size() - 1)" is the *)
(* remainder by the size.                                                  *)
(***************************************************************************)
EXTENDS Integers, FiniteSets, FiniteSetsExt

CONSTANTS
    Keys,
    EntryIndices,   \* values of entryIndex
    NoEntry,        \* find's answer for an absent key
    HashValues,     \* values of GpuDataKeyHash
    Limits,         \* values of maxResidentEntries
    Width           \* bits of std::size_t

ASSUME TableAssumption ==
    /\ NoEntry \notin EntryIndices
    /\ HashValues \subseteq Nat
    /\ Limits \subseteq Nat
    /\ Width \in Nat \ {0}

VARIABLES
    hash,                                   \* fixed by the program
    initialized, residentLimit, residentCount,
    slotCount, slots,                       \* slots.size() and the slots
    emptyIndex, scanIndex                   \* eraseSlot's locals, or NO_SLOT

vars == <<hash, initialized, residentLimit, residentCount, slotCount, slots,
          emptyIndex, scanIndex>>

NO_SLOT  == -1
Slots    == 0 .. slotCount - 1
Vacant   == [key |-> NoEntry, entryIndex |-> NoEntry]
Empties(n) == [i \in 0 .. n - 1 |-> Vacant]

occupied(i) == slots[i] # Vacant
Erasing     == emptyIndex # NO_SLOT
-----------------------------------------------------------------------------
homeSlot(key) == hash[key] % slotCount

nextSlot(i) == (i + 1) % slotCount

probeDistance(home, i) == IF i >= home THEN i - home ELSE slotCount - (home - i)

\* The slot at the given probe of a key, and the probe that stops a search:
\* the first slot that is unoccupied or holds the key.
Probe(key, d) == (homeSlot(key) + d) % slotCount

Stops(key) == {d \in 0 .. slotCount - 1 :
                 ~occupied(Probe(key, d)) \/ slots[Probe(key, d)].key = key}

findSlot(key) ==
    IF Stops(key) = {} THEN NO_SLOT
    ELSE LET i == Probe(key, Min(Stops(key))) IN IF occupied(i) THEN i ELSE NO_SLOT

find(key) ==
    IF ~initialized \/ findSlot(key) = NO_SLOT THEN NoEntry
    ELSE slots[findSlot(key)].entryIndex
-----------------------------------------------------------------------------
\* The size is the least power of two that is at least twice the limit; a
\* limit whose table size does not fit in a std::size_t is refused.
PowersOfTwo == {2 ^ n : n \in 0 .. Width - 1}
BigEnough(n) == {p \in PowersOfTwo : p >= 2 * n}

\* Mutant: room for the limit only.
ExactSlotCount(n) == IF n = 0 THEN 0 ELSE Min({p \in PowersOfTwo : p >= n})

SlotCountFor(n) == IF n = 0 THEN 0 ELSE Min(BigEnough(n))

Initialize(n) ==
    /\ ~initialized /\ slotCount = 0 /\ residentLimit = 0 /\ residentCount = 0
    /\ ~Erasing
    /\ n <= (2 ^ Width - 1) \div 2
    /\ n # 0 => BigEnough(n) # {}
    /\ slotCount' = SlotCountFor(n)
    /\ slots' = Empties(SlotCountFor(n))
    /\ residentLimit' = n
    /\ residentCount' = 0
    /\ initialized' = TRUE
    /\ UNCHANGED <<hash, emptyIndex, scanIndex>>

Clear ==
    /\ ~Erasing
    /\ slots' = Empties(slotCount)
    /\ residentCount' = 0
    /\ UNCHANGED <<hash, initialized, residentLimit, slotCount, emptyIndex, scanIndex>>

Release ==
    /\ ~Erasing
    /\ slotCount' = 0
    /\ slots' = Empties(0)
    /\ residentLimit' = 0
    /\ residentCount' = 0
    /\ initialized' = FALSE
    /\ UNCHANGED <<hash, emptyIndex, scanIndex>>

\* Mutant: the fixed limit is not enforced.
InsertBeyondLimit == initialized /\ slotCount # 0

InsertAllowed == initialized /\ residentCount < residentLimit /\ slotCount # 0

\* The first slot on the key's probe path that is free takes the key, unless
\* the key comes first.
Insert(key, e) ==
    /\ ~Erasing
    /\ InsertAllowed
    /\ Stops(key) # {}
    /\ LET i == Probe(key, Min(Stops(key))) IN
        /\ ~occupied(i)
        /\ slots' = [slots EXCEPT ![i] = [key |-> key, entryIndex |-> e]]
    /\ residentCount' = residentCount + 1
    /\ UNCHANGED <<hash, initialized, residentLimit, slotCount, emptyIndex, scanIndex>>

\* erase finds the slot and starts eraseSlot on it.
EraseBegin(key, e) ==
    /\ ~Erasing
    /\ initialized
    /\ findSlot(key) # NO_SLOT
    /\ slots[findSlot(key)].entryIndex = e
    /\ emptyIndex' = findSlot(key)
    /\ scanIndex' = nextSlot(findSlot(key))
    /\ residentCount' = residentCount - 1
    /\ UNCHANGED <<hash, initialized, residentLimit, slotCount, slots>>

\* Mutant: only a key at its own home stays behind the hole.
ShiftsIfDisplaced(i) == homeSlot(slots[i].key) # i

\* The key in slot i is nearer its home if it moves into the hole.
Shifts(i) ==
    LET home == homeSlot(slots[i].key) IN
    probeDistance(home, emptyIndex) < probeDistance(home, i)

\* One turn of the loop: the scanned slot fills the hole and becomes the hole,
\* or stays.
EraseScan ==
    /\ Erasing
    /\ occupied(scanIndex)
    /\ IF Shifts(scanIndex)
       THEN slots' = [slots EXCEPT ![emptyIndex] = slots[scanIndex]] /\ emptyIndex' = scanIndex
       ELSE UNCHANGED <<slots, emptyIndex>>
    /\ scanIndex' = nextSlot(scanIndex)
    /\ UNCHANGED <<hash, initialized, residentLimit, residentCount, slotCount>>

EraseEnd ==
    /\ Erasing
    /\ ~occupied(scanIndex)
    /\ slots' = [slots EXCEPT ![emptyIndex] = Vacant]
    /\ emptyIndex' = NO_SLOT
    /\ scanIndex' = NO_SLOT
    /\ UNCHANGED <<hash, initialized, residentLimit, residentCount, slotCount>>
-----------------------------------------------------------------------------
Init ==
    /\ hash \in [Keys -> HashValues]
    /\ initialized = FALSE /\ residentLimit = 0 /\ residentCount = 0
    /\ slotCount = 0 /\ slots = Empties(0)
    /\ emptyIndex = NO_SLOT /\ scanIndex = NO_SLOT

Next ==
    \/ \E n \in Limits : Initialize(n)
    \/ Clear
    \/ Release
    \/ \E key \in Keys, e \in EntryIndices : Insert(key, e) \/ EraseBegin(key, e)
    \/ EraseScan
    \/ EraseEnd

Spec == Init /\ [][Next]_vars
FairSpec == Spec /\ WF_vars(EraseScan \/ EraseEnd)
-----------------------------------------------------------------------------
\* The slots that count: during eraseSlot the hole holds a stale copy.
Counted == {i \in Slots : occupied(i) /\ i # emptyIndex}

\* The map the table stands for.
residencyMap ==
    [k \in Keys |-> IF \E i \in Counted : slots[i].key = k
                    THEN slots[CHOOSE i \in Counted : slots[i].key = k].entryIndex
                    ELSE NoEntry]

\* find answers exactly the map, for resident keys and for absent ones.
FindIsExact == ~Erasing => \A k \in Keys : find(k) = residencyMap[k]

\* The table implements the partial map the manager relies on; the shifts of
\* eraseSlot are invisible.
Map == INSTANCE ResidencyMap WITH map <- residencyMap, limit <- residentLimit, open <- initialized
ImplementsMap == Map!Spec

\* eraseSlot terminates.
EraseTerminates == Erasing ~> ~Erasing
=============================================================================
