-------------------------- MODULE MCGpuDataCache --------------------------
(* Small instances of GpuDataCache for TLC. *)
EXTENDS GpuDataCacheInvariant

CONSTANTS k0, k1, k2, s1, s2

OneKey    == {k0}
TwoKeys   == {k0, k1}
ThreeKeys == {k0, k1, k2}
OneShape  == {s1}
TwoShapes == {s1, s2}
Waiting   == {TRUE}
AnyWait   == BOOLEAN
LRU       == {"LRU"}
FIFO      == {"FIFO"}
AnyPolicy == {"LRU", "FIFO"}

AccessSymmetry == Permutations(Accesses)
=============================================================================
