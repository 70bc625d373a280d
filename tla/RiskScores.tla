----------------------------- MODULE RiskScores -----------------------------
(***************************************************************************)
(* The risk of a change (graph_read_tools.py, get_blast_radius), from the  *)
(* edges at a symbol.  It takes the edges as parameters, to compare it     *)
(* with and without some of them.                                          *)
(***************************************************************************)
EXTENDS SymbolGraph, Sequences, FiniteSetsExt

CONSTANTS
    Factors,    \* of the visibilities, in tenths: private 4, pub_crate 7, pub 10
    Above       \* risk level -> [total, callers] it starts above: 10 3, 40 10, 100 20

\* The levels of risk are a sequence of bounds.
RiskWorld ==
    /\ IsFiniteSet(Nodes) /\ GodAt \in Nat /\ Factors \subseteq Nat
    /\ Above \in Seq([total : Nat, callers : Nat])

Sources(E, n) == {e[1] : e \in {f \in E : f[2] = n}}
Targets(E, n) == {e[2] : e \in From(E, n)}

\* _compute_risk_score: 0 is low, then medium, high, critical
Risk(upstream, downstream, usedBy, used) ==
    LET callers == upstream + usedBy
        total   == callers + downstream + used
    IN  Max({0} \cup {l \in DOMAIN Above : total > Above[l].total \/ callers > Above[l].callers})

\* Python's round(count * factor): halves go to the even neighbor.
Effective(count, factor) ==
    LET q == (count * factor) \div 10
        r == (count * factor) % 10
    IN  IF r > 5 \/ (r = 5 /\ q % 2 = 1) THEN q + 1 ELSE q

Gods(U) == {n \in Nodes : Cardinality(Sources(U, n)) > GodAt}

ProductionCallersOnly(C, U, n) ==
    [upstream |-> Sources(C, n) \ TestNodes, usedBy |-> Sources(U, n) \ Gods(U)]
\* Test callers and god types do not count as callers.
Production(C, U, n) ==
    [upstream |-> Sources(C, n) \ TestNodes, usedBy |-> (Sources(U, n) \ Gods(U)) \ TestNodes]

\* get_blast_radius(...).risk_score
RiskOf(C, U, n, factor) ==
    LET p == Production(C, U, n)
    IN  Risk(Effective(Cardinality(p.upstream), factor), Cardinality(Targets(C, n)),
             Effective(Cardinality(p.usedBy), factor), Cardinality(Targets(U, n) \ Gods(U)))

(***************************************************************************)
(* Properties                                                              *)
(***************************************************************************)
FromTests == TestNodes \X Nodes

\* "test callers must not inflate production risk scores" (graph_read_tools.py:353): taking
\* every edge from a test away never lowers the risk of a production symbol.  It may raise it: the
\* references of tests make a type a god type, which then is not counted.
RiskIgnoresTests ==
    \A n \in Nodes \ TestNodes, factor \in Factors :
        RiskOf(calls, uses, n, factor) <= RiskOf(calls \ FromTests, uses \ FromTests, n, factor)
=============================================================================
