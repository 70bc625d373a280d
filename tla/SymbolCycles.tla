---------------------------- MODULE SymbolCycles ----------------------------
(***************************************************************************)
(* The dependency cycles (graph_read_tools.py, find_cycles): the iterative *)
(* strongly connected components of _sccs, over the graph of SymbolGraph.  *)
(***************************************************************************)
EXTENDS GraphQueries

Succs(n) == {e[2] : e \in From(calls \cup uses, n)}
Heads == {e[1] : e \in calls \cup uses}     \* the keys of "graph"
Lower(k, l) == IF k < l THEN k ELSE l

\* A node is put on "work", and entered at the next turn of the loop: the next index, on the
\* stack.  "known" are the keys of index and lowlink.
Discover(t, n) ==
    [t EXCEPT !.work = Append(@, [node |-> n, todo |-> Succs(n)]),
              !.known = @ \cup {n}, !.count = @ + 1,
              !.index[n] = t.count, !.low[n] = t.count,
              !.stack = Append(@, n)]
LowlinkKept(t, n) == t
\* When a node is done its parent inherits its lowlink.
Inherit(t, n) ==
    IF t.work = <<>> THEN t
    ELSE [t EXCEPT !.low[Last(t.work).node] = Lower(@, t.low[n])]
\* A root of a component takes it off the stack.
Emit(t, n) ==
    IF t.low[n] # t.index[n] THEN t
    ELSE LET at == CHOOSE i \in 1 .. Len(t.stack) : t.stack[i] = n
             component == ToSet(SubSeq(t.stack, at, Len(t.stack)))
         IN  [t EXCEPT !.stack = SubSeq(@, 1, at - 1),
                       !.comps = IF Cardinality(component) >= 2 THEN @ \cup {component} ELSE @]

\* The next successor of the node on top of "work"
Follow(t) ==
    LET top == Last(t.work)
        m   == CHOOSE m \in top.todo : TRUE
        s   == [t EXCEPT !.work[Len(t.work)].todo = @ \ {m}]
    IN  IF m \notin Heads THEN s
        ELSE IF m \notin t.known THEN Discover(s, m)
        ELSE IF m \in ToSet(t.stack) THEN [s EXCEPT !.low[top.node] = Lower(@, t.index[m])]
        ELSE s

\* One turn: a root is entered, a node is done, or a successor is followed.
Visit(t) ==
    IF t.work = <<>> THEN Discover(t, CHOOSE n \in Heads \ t.known : TRUE)
    ELSE IF Last(t.work).todo = {}
         THEN LET n == Last(t.work).node IN Emit(Inherit([t EXCEPT !.work = Front(@)], n), n)
    ELSE Follow(t)

\* A turn follows an edge, or is the first or the last of a node: that many end the loop.
Sccs ==
    LET none == [work |-> <<>>, known |-> {}, count |-> 0, stack |-> <<>>, comps |-> {},
                 index |-> [n \in Nodes |-> 0], low |-> [n \in Nodes |-> 0]]
        T[k \in Nat] ==
            IF k = 0 THEN none
            ELSE LET t == T[k - 1]
                 IN  IF t.work = <<>> /\ Heads \subseteq t.known THEN t ELSE Visit(t)
    IN  T[Cardinality(Nodes) * (Cardinality(Nodes) + 2)].comps

(***************************************************************************)
(* Properties                                                              *)
(***************************************************************************)
\* Reference: m lies in every set that n lies in and that no edge leaves.
Leads(n, m) ==
    \A C \in SUBSET Nodes :
        n \in C /\ (\A e \in calls \cup uses : e[1] \in C => e[2] \in C) => m \in C

\* _sccs returns the classes of mutually reachable symbols with two members or more.
SccsExact ==
    asked # 0 =>
        Sccs = {c \in {{m \in Nodes : Leads(n, m) /\ Leads(m, n)} : n \in Nodes} :
                    Cardinality(c) >= 2}
=============================================================================
