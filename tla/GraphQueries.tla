---------------------------- MODULE GraphQueries ----------------------------
(***************************************************************************)
(* The read tools over the symbol graph (graph_read_tools.py, traverse of  *)
(* graph.py and neo4j_graph.py).  A client asks at some depth while no     *)
(* symbol is being upserted; what the tools answer are operators over the  *)
(* graph, their loops functions of the number of turns taken.              *)
(***************************************************************************)
EXTENDS SymbolGraph, Sequences, SequencesExt

CONSTANTS
    Root,       \* the symbol a query starts from
    Goal,       \* the symbol a path query looks for
    Shared,     \* symbols whose name marks them as shared state (GlobalState, AppState)
    Hoods,      \* max_neighborhoods
    Depths      \* depths asked for

\* Paths are looked for between different symbols, and the tools clamp depths to 1 and more.
QueryWorld ==
    /\ IsFiniteSet(Nodes) /\ Root \in Nodes /\ Goal \in Nodes \ {Root}
    /\ Hoods \in Nat /\ Depths \subseteq Nat \ {0}

VARIABLE asked  \* the depth a client asks at, 0 when none does

toolVars == <<queryVars, asked>>

ToolInit == QueryInit /\ asked = 0
Query(d) == asked = 0 /\ asked' = d /\ UNCHANGED queryVars
Reply == asked # 0 /\ asked' = 0 /\ UNCHANGED queryVars
ToolNext ==
    \/ asked = 0 /\ QueryNext /\ UNCHANGED asked
    \/ \E d \in Depths : Query(d)
    \/ Reply

ToolSpec == ToolInit /\ [][ToolNext]_toolVars

(***************************************************************************)
(* Distances                                                               *)
(***************************************************************************)
Step(E, S, through) == {e[2] : e \in {f \in E : f[1] \in S /\ f[2] \in through}}
\* Reference: what n reaches along E in at most d steps, entering nodes of "through" only
Reach(E, n, through, d) ==
    LET R[k \in Nat] == IF k = 0 THEN {n} ELSE LET r == R[k - 1] IN r \cup Step(E, r, through)
    IN  R[d]
\* The length of a shortest path, of the lengths up to d
Distance(E, n, m, d) ==
    CHOOSE k \in 0 .. d :
        m \in Reach(E, n, Nodes, k) /\ \A j \in 0 .. k - 1 : m \notin Reach(E, n, Nodes, j)

\* _god_type_blocklist
GodTypes == {n \in Nodes : Cardinality(From(Back(uses), n)) > GodAt}

(***************************************************************************)
(* traverse and traverse_graph                                             *)
(***************************************************************************)
\* One turn of the loop.  "held" is the symbol whose neighborhood the local variable
\* neighborhood holds: it is fetched for a symbol not yet emitted and otherwise kept.
Hop(t, blocked, d) ==
    LET cur   == Head(t.queue)
        held  == IF cur.node \in ToSet(t.emitted) THEN t.held ELSE cur.node
        fresh == IF cur.at < d
                 THEN {n \in Ahead(held, cur.dir) : <<n, cur.dir>> \notin t.visited} ELSE {}
    IN  IF cur.node \in blocked /\ cur.node # Root
        THEN [t EXCEPT !.queue = Tail(@)]
        ELSE [queue |-> Tail(t.queue)
                           \o SetToSeq({[node |-> n, at |-> cur.at + 1, dir |-> cur.dir] : n \in fresh}),
              visited |-> t.visited \cup (fresh \X {cur.dir}),
              emitted |-> IF cur.node \in ToSet(t.emitted) THEN t.emitted
                          ELSE Append(t.emitted, cur.node),
              held |-> held]

AtRoot == [queue |-> <<[node |-> Root, at |-> 0, dir |-> "up"],
                       [node |-> Root, at |-> 0, dir |-> "down"]>>,
           visited |-> {Root} \X {"up", "down"}, emitted |-> <<>>, held |-> Root]

\* A symbol enters the queue once in each direction: that many turns end the loop.
Walk(blocked, d) ==
    LET T[k \in Nat] ==
            IF k = 0 THEN AtRoot
            ELSE LET t == T[k - 1]
                 IN  IF t.queue = <<>> \/ Len(t.emitted) >= Hoods THEN t ELSE Hop(t, blocked, d)
    IN  T[2 * Cardinality(Nodes)]
TraverseAll(blocked, d) == Walk({}, d).emitted
Traverse(blocked, d) == Walk(blocked, d).emitted

\* The counts of summary_only: hops from the root along any edge of an emitted neighborhood.
SummaryOneWay(emitted, d) ==
    Reach({e \in calls \cup uses : e[1] \in ToSet(emitted)}, Root, Nodes, d) \ {Root}
Summary(emitted, d) ==
    Reach({e \in ToSet(emitted) \X Nodes : e[2] \in Around(e[1])}, Root, Nodes, d) \ {Root}

\* Reference: the cones of the root
Cone(blocked, dir, d) ==
    Reach({e \in Nodes \X Nodes : e[2] \in Ahead(e[1], dir)}, Root, Nodes \ blocked, d)

(***************************************************************************)
(* Tests                                                                   *)
(***************************************************************************)
\* get_tests_for, direct callers only: the type references are reported apart.
TestsOf(n) == {t \in TestNodes : <<t, n>> \in calls}
CallersOf(frontier, seen) == {e[2] : e \in {f \in Back(calls) : f[1] \in frontier}} \ seen
\* get_tests_for_symbol: the tests found when the frontier has moved "hops" times
TestsWithin(hops) ==
    LET T[k \in Nat] ==
            IF k = 0
            THEN [tests |-> TestsOf(Root), seen |-> {Root}, frontier |-> CallersOf({Root}, {})]
            ELSE LET t == T[k - 1]
                     seen == t.seen \cup t.frontier
                 IN  [tests |-> t.tests \cup UNION {TestsOf(n) : n \in t.frontier},
                      seen |-> seen, frontier |-> CallersOf(t.frontier, seen)]
    IN  T[hops].tests
TestsHopShort(d) == TestsWithin(IF d = 1 THEN 0 ELSE d - 2)
TestsForSymbol(d) == TestsWithin(d - 1)

(***************************************************************************)
(* Properties                                                              *)
(***************************************************************************)
InBothCones(d) == (Cone({}, "up", d) \cap Cone({}, "down", d)) # {Root}

\* "A shared helper reachable up-then-down (a sibling) is not a member of either cone"
\* (neo4j_graph.py:279): a traversal emits members of the two cones only.
ConesOnly ==
    asked # 0 =>
        ToSet(Traverse({}, asked)) \subseteq Cone({}, "up", asked) \cup Cone({}, "down", asked)

\* When no symbol both reaches the root and is reached by it, the traversal emits its two
\* cones, god types and what lies behind them left out; all of them unless it reports
\* itself truncated.
TraverseExact ==
    asked # 0 =>
        LET emitted == Traverse(GodTypes \ {Root}, asked)
            cones   == Cone(GodTypes, "up", asked) \cup Cone(GodTypes, "down", asked)
        IN  ~InBothCones(asked) =>
                /\ ToSet(emitted) \subseteq cones
                /\ Len(emitted) < Hoods => ToSet(emitted) = cones

\* A test is reported exactly when it calls the symbol or one of its callers, fewer than
\* "depth" hops up, also around recursion.
TestsExact ==
    asked # 0 =>
        TestsForSymbol(asked) =
            {t \in TestNodes :
                \E n \in Reach(Back(calls), Root, Nodes, asked - 1) : <<t, n>> \in calls}
=============================================================================
