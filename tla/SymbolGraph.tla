---------------------------- MODULE SymbolGraph ----------------------------
(***************************************************************************)
(* The symbol graph the read tools answer from: the state is the graph, as *)
(* upserts and removals leave it, one upsert at a time.  What the tools    *)
(* say of it are operators, in the modules that extend this one.           *)
(***************************************************************************)
EXTENDS Naturals, FiniteSets

CONSTANTS
    Nodes,      \* symbols
    TestNodes,  \* symbols flagged is_test
    GodAt,      \* USES fan-in above which a type is a god type: 50
    MaxEdges, MaxUses  \* bounds on the graph

VARIABLES calls, uses   \* edges <<source, target>>

queryVars == <<calls, uses>>

QueryInit == calls = {} /\ uses = {}

From(E, n) == {e \in E : e[1] = n}

\* upsert_symbol replaces the outgoing edges of the symbol.
Upsert(n) ==
    \E C, U \in SUBSET (Nodes \ {n}) :
        /\ calls' = (calls \ From(calls, n)) \cup ({n} \X C)
        /\ uses' = (uses \ From(uses, n)) \cup ({n} \X U)
        /\ Cardinality(uses') <= MaxUses
        /\ Cardinality(calls') + Cardinality(uses') <= MaxEdges

QueryNext == \E n \in Nodes : Upsert(n)

QuerySpec == QueryInit /\ [][QueryNext]_queryVars

Back(E) == {<<e[2], e[1]>> : e \in E}
\* get_neighbors at depth 1: downstream and uses, upstream and used_by
Ahead(n, dir) ==
    LET E == IF dir = "down" THEN calls \cup uses ELSE Back(calls \cup uses)
    IN  {e[2] : e \in From(E, n)}
Around(n) == Ahead(n, "up") \cup Ahead(n, "down")
=============================================================================
