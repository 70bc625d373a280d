--------------------------- MODULE MCGraphQueries ---------------------------
(* Instance of GraphQueries for TLC: four symbols.                             *)
EXTENDS GraphQueries

CONSTANTS a, b, c, d

MCDepths == {1, 2, 3}
=============================================================================
