-------------------------- MODULE MCExtendedTraps --------------------------
(* Small instances of ExtendedTraps.                                       *)
EXTENDS ExtendedTraps, TLC

Symmetry == Permutations(Contexts)
=============================================================================
