-------------------------- MODULE ResolutionScope --------------------------
(***************************************************************************)
(* How far a name reaches (_resolve_candidates of indexing_service.py,     *)
(* after its import map): which of the symbols of one name a mention of    *)
(* that name in a file stands for.                                         *)
(***************************************************************************)
EXTENDS Naturals, FiniteSets

CONSTANTS
    DirOf,      \* file -> directory
    HubLimit    \* 3: a name with more entries than this is no evidence

\* same file > same directory > few > none; entries are pairs <<file, symbol>>
Nearest(entries, file) ==
    LET here == {e \in entries : e[1] = file}
        near == {e \in entries : DirOf[e[1]] = DirOf[file]}
        few  == IF Cardinality(entries) <= HubLimit THEN entries ELSE {}
    IN  {e[2] : e \in IF here # {} THEN here ELSE IF near # {} THEN near ELSE few}
=============================================================================
