--------------------------- MODULE MCStaticData ---------------------------
(* A small instance of StaticData for TLC. *)
EXTENDS StaticData

CONSTANTS k0, s1, s2

OneKey    == {k0}
TwoShapes == {s1, s2}
AnyWait   == BOOLEAN
LRU       == {"LRU"}

AccessSymmetry == Permutations(Accesses)
=============================================================================
