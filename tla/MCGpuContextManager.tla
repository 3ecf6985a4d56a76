------------------------- MODULE MCGpuContextManager -------------------------
(* Every host topology of two devices and two nodes, and three tasks.      *)
EXTENDS GpuContextManager, TLC

MCNodes == {0, 1}
ResourceSymmetry == Permutations(Resources)
==============================================================================
