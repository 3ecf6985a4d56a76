----------------------------- MODULE MCDummyTask -----------------------------
(* Instances of DummyTask for TLC.                                          *)
EXTENDS DummyTask, TLC

TaskSymmetry == Permutations(Tasks) \cup Permutations(Names) \cup Permutations(Blobs)
=============================================================================
