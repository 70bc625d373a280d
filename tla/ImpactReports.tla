--------------------------- MODULE ImpactReports ---------------------------
(***************************************************************************)
(* The reports on the surroundings of a symbol (graph_read_tools.py): the  *)
(* symbols scanned for warnings, and the paths to another symbol.          *)
(***************************************************************************)
EXTENDS GraphQueries

\* find_warnings_in_blast_radius: "seen" when the frontier has advanced d times
Scan(d) ==
    LET S[k \in Nat] ==
            IF k = 0 THEN [seen |-> {Root}, frontier |-> {Root}]
            ELSE LET s == S[k - 1]
                     new == (UNION {Around(n) : n \in s.frontier}) \ s.seen
                 IN  [seen |-> s.seen \cup new, frontier |-> new]
    IN  S[d].seen

\* _find_path_bfs: a queue of paths; a neighbor is compared with the goal when it is met.
Extend(t, d) ==
    LET path  == Head(t.queue)
        near  == Around(Last(path))
        fresh == near \ t.visited
    IN  IF Len(path) - 1 >= d THEN [t EXCEPT !.queue = Tail(@)]
        ELSE IF Goal \in near THEN [t EXCEPT !.found = Append(path, Goal)]
        ELSE [t EXCEPT !.queue = Tail(@) \o SetToSeq({Append(path, n) : n \in fresh}),
                       !.visited = @ \cup fresh]

\* A symbol ends one path in the queue at most: that many turns end the loop.
FindPathBfs(d) ==
    LET P[k \in Nat] ==
            IF k = 0 THEN [queue |-> << <<Root>> >>, visited |-> {Root}, found |-> <<>>]
            ELSE LET t == P[k - 1]
                 IN  IF t.queue = <<>> \/ t.found # <<>> THEN t ELSE Extend(t, d)
    IN  P[Cardinality(Nodes)].found

\* find_dependency_path on Neo4j: calls forward, calls backward, then calls and uses that
\* avoid shared state; the length of the path, 0 when there is none.
DependencyPath(d) ==
    LET forward  == Goal \in Reach(calls, Root, Nodes, d)
        backward == Root \in Reach(calls, Goal, Nodes, d)
        plain    == {e \in calls \cup uses : {e[1], e[2]} \cap Shared = {}}
    IN  CASE forward -> Distance(calls, Root, Goal, d)
          [] ~forward /\ backward -> Distance(calls, Goal, Root, d)
          [] ~forward /\ ~backward /\ Goal \in Reach(plain, Root, Nodes, d)
               -> Distance(plain, Root, Goal, d)
          [] OTHER -> 0

(***************************************************************************)
(* Properties                                                              *)
(***************************************************************************)
\* The tools agree on distances, also on cyclic graphs and when a traversal was cut: what it
\* visits its summary counts, and what the summary counts a scan for warnings of the same
\* depth reads, which is exactly the ball around the symbol; a path is found to the symbols
\* in the ball, follows edges, is a shortest one, and is as short as those of Neo4j.
ReachesNested ==
    asked # 0 =>
        LET emitted == Traverse({}, asked)
            path == FindPathBfs(asked)
            E == calls \cup uses \cup Back(calls \cup uses)
        IN  /\ ToSet(emitted) \ {Root} \subseteq Summary(emitted, asked)
            /\ Summary(emitted, asked) \subseteq Scan(asked)
            /\ Scan(asked) = Reach(E, Root, Nodes, asked)
            /\ path # <<>> <=> Goal \in Scan(asked)
            /\ path # <<>> =>
                  /\ Head(path) = Root /\ Last(path) = Goal
                  /\ Len(path) - 1 = Distance(E, Root, Goal, asked)
                  /\ \A i \in 1 .. Len(path) - 1 : <<path[i], path[i + 1]>> \in E
            /\ DependencyPath(asked) # 0 => path # <<>> /\ Len(path) - 1 <= DependencyPath(asked)
=============================================================================
