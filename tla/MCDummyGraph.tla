----------------------------- MODULE MCDummyGraph -----------------------------
(* Two or three workers over the frames of both phases.                    *)
EXTENDS DummyGraph, TLC

WorkerSymmetry == Permutations(Workers)
===============================================================================
