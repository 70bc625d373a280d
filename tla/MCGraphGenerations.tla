------------------------- MODULE MCGraphGenerations -------------------------
(* GraphGenerations on small instances: two threads, two or three symbols, *)
(* three or four generations.  Workers are interchangeable, and so are the *)
(* symbols other than Root.                                                *)
EXTENDS GraphGenerations, TLC

Symmetry == Permutations(Workers) \cup Permutations(Symbols \ {Root})
=============================================================================
