--------------------- MODULE MCGpuDataCacheStatistics ---------------------
(* Small instances of GpuDataCacheStatistics for TLC. *)
EXTENDS GpuDataCacheStatistics

CONSTANTS k0, k1, s1

TwoKeys   == {k0, k1}
OneShape  == {s1}
AnyWait   == BOOLEAN
LRU       == {"LRU"}

AccessSymmetry == Permutations(Accesses)
=============================================================================
