--------------------------- MODULE ResidencyMap ---------------------------
(***************************************************************************)
(* What the cache manager relies on of its residency table: a partial map  *)
(* from keys to entry indices with a fixed limit on its size.  insert and  *)
(* erase that change nothing return false and are stuttering steps.        *)
(***************************************************************************)
EXTENDS Integers, FiniteSets

CONSTANTS Keys, EntryIndices, NoEntry, Limits

VARIABLES map, limit, open

mapVars == <<map, limit, open>>

Absent == [k \in Keys |-> NoEntry]
Size   == Cardinality({k \in Keys : map[k] # NoEntry})

Init == map = Absent /\ limit = 0 /\ open = FALSE

Initialize(n) == ~open /\ map' = Absent /\ limit' = n /\ open' = TRUE
Clear         == map' = Absent /\ UNCHANGED <<limit, open>>
Release       == map' = Absent /\ limit' = 0 /\ open' = FALSE

Insert(k, e) ==
    /\ open /\ map[k] = NoEntry /\ Size < limit
    /\ map' = [map EXCEPT ![k] = e]
    /\ UNCHANGED <<limit, open>>

Erase(k, e) ==
    /\ open /\ map[k] = e
    /\ map' = [map EXCEPT ![k] = NoEntry]
    /\ UNCHANGED <<limit, open>>

Next ==
    \/ \E n \in Limits : Initialize(n)
    \/ Clear \/ Release
    \/ \E k \in Keys, e \in EntryIndices : Insert(k, e) \/ Erase(k, e)

Spec == Init /\ [][Next]_mapVars
=============================================================================
