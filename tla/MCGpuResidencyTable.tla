------------------------ MODULE MCGpuResidencyTable ------------------------
(* Small instances of GpuResidencyTable for TLC: every hash function of the
   keys into the slots, so that all clusters and wrap-arounds happen. *)
EXTENDS GpuResidencyTable

SmallHashes == 0 .. 3
=============================================================================
