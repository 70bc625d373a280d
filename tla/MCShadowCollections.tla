------------------------ MODULE MCShadowCollections ------------------------
(* ShadowCollections on two or three symbols and a history of two or three *)
(* collections.  Symbols are interchangeable.                              *)
EXTENDS ShadowCollections, TLC

Symmetry == Permutations(Symbols)
=============================================================================
