----------------------------- MODULE QueryProofs ----------------------------
(***************************************************************************)
(* The read tools over any finite graph and at any depth: what their loops *)
(* compute, and that they end.  A loop is a function of the number of      *)
(* turns taken; Iterates says that such a function exists, Induct that an  *)
(* invariant of a turn holds after any number of them, and a count that    *)
(* each turn raises bounds how many there are.  The invariants of the      *)
(* loops, which carry the theorems:                                        *)
(*   Traced    what a traversal emits, and its queue holds, lies on a path *)
(*             through what it emitted, no longer than its depth;          *)
(*   Walked    each direction of a traversal is a search of its own cone;  *)
(*   Searched  the paths queued are shortest ones, by growing length;      *)
(*   Cycled    the stack, the lowlinks and the components of _sccs.        *)
(***************************************************************************)
EXTENDS ImpactReports, SymbolCycles, FiniteSetTheorems, SequenceTheorems,
        NaturalsInduction, WellFoundedInduction, TLAPS

(***************************************************************************)
(* Loops                                                                   *)
(***************************************************************************)
Below == OpToRel(<, Nat)

LEMMA Least == ASSUME NEW T \in SUBSET Nat, T # {} PROVE \E x \in T : \A y \in T : x <= y
<1>1. IsWellFoundedOn(Below, Nat)
    BY NatLessThanWellFounded DEF OpToRel, Below
<1>2. PICK x \in T : \A y \in T : ~(<<y, x>> \in Below)
    BY <1>1, WFMin
<1>3. ASSUME NEW y \in T PROVE x <= y
  <2>1. x \in Nat /\ y \in Nat /\ <<y, x>> \in Nat \X Nat
      OBVIOUS
  <2>2. ~(<<y, x>>[1] < <<y, x>>[2])
      BY <1>2, <2>1 DEF Below, OpToRel
  <2>3. QED BY <2>1, <2>2
<1>4. QED BY <1>3

\* Induction: a set of numbers that holds 0 and goes on holds all.
LEMMA Induct ==
    ASSUME NEW T, 0 \in T, \A k \in Nat : k \in T => k + 1 \in T
    PROVE  Nat \subseteq T
<1>1. SUFFICES ASSUME Nat \ T # {} PROVE FALSE
    OBVIOUS
<1>2. PICK x \in Nat \ T : \A y \in Nat \ T : x <= y
    BY <1>1, Least
<1>3. x - 1 \in Nat /\ x - 1 \in T
    BY <1>2
<1>4. QED BY <1>2, <1>3

\* The states of a loop: there are as many as turns.
LEMMA Iterates ==
    ASSUME NEW S, NEW s \in S, NEW f \in [S -> S]
    PROVE  \E g \in [Nat -> S] : g[0] = s /\ \A k \in Nat : g[k + 1] = f[g[k]]
<1> DEFINE Upto(n) == {h \in [0 .. n -> S] : h[0] = s /\ \A k \in 0 .. n - 1 : h[k + 1] = f[h[k]]}
<1>1. \A n \in Nat : Upto(n) # {}
  <2> DEFINE T == {n \in Nat : Upto(n) # {}}
  <2>1. 0 \in T
    <3>1. [i \in 0 .. 0 |-> s] \in Upto(0)
        OBVIOUS
    <3>2. QED BY <3>1
  <2>2. ASSUME NEW n \in Nat, n \in T PROVE n + 1 \in T
    <3>1. PICK h \in Upto(n) : TRUE
        BY <2>2
    <3> DEFINE h2 == [i \in 0 .. n + 1 |-> IF i = n + 1 THEN f[h[n]] ELSE h[i]]
    <3>2. h2 \in [0 .. n + 1 -> S]
        BY <3>1
    <3>3. h2[0] = s /\ \A k \in 0 .. n : h2[k + 1] = f[h2[k]]
        BY <3>1
    <3>4. 0 .. (n + 1) - 1 = 0 .. n
        OBVIOUS
    <3> HIDE DEF h2
    <3>5. h2 \in Upto(n + 1)
        BY <3>2, <3>3, <3>4
    <3>6. QED BY <3>5
  <2>3. Nat \subseteq T
    <3> HIDE DEF T
    <3>1. QED BY <2>1, <2>2, Induct
  <2>4. QED BY <2>3
<1>2. ASSUME NEW m \in Nat, NEW n \in Nat, NEW h \in Upto(m), NEW j \in Upto(n)
      PROVE  \A k \in Nat : k <= m /\ k <= n => h[k] = j[k]
  <2> DEFINE T == {k \in Nat : k <= m /\ k <= n => h[k] = j[k]}
  <2>1. 0 \in T
      BY <1>2
  <2>2. ASSUME NEW k \in Nat, k \in T PROVE k + 1 \in T
    <3>1. SUFFICES ASSUME k + 1 <= m, k + 1 <= n PROVE h[k + 1] = j[k + 1]
        OBVIOUS
    <3>2. k \in 0 .. m - 1 /\ k \in 0 .. n - 1 /\ h[k] = j[k]
        BY <2>2, <3>1
    <3>3. QED BY <1>2, <3>2
  <2>3. Nat \subseteq T
    <3> HIDE DEF T
    <3>1. QED BY <2>1, <2>2, Induct
  <2>4. QED BY <2>3
<1> DEFINE pick[n \in Nat] == CHOOSE h \in Upto(n) : TRUE
           g == [n \in Nat |-> pick[n][n]]
<1>3. \A n \in Nat : pick[n] \in Upto(n)
    BY <1>1
<1> HIDE DEF pick
<1>4. g \in [Nat -> S] /\ g[0] = s
    BY <1>3
<1>5. ASSUME NEW k \in Nat PROVE g[k + 1] = f[g[k]]
  <2>1. k + 1 \in Nat /\ pick[k] \in Upto(k) /\ pick[k + 1] \in Upto(k + 1)
      BY <1>3
  <2>2. pick[k + 1][k] = pick[k][k]
    <3> HIDE DEF Upto
    <3>1. \A i \in Nat : i <= k + 1 /\ i <= k => pick[k + 1][i] = pick[k][i]
        BY <1>2, <2>1
    <3>2. QED BY <3>1
  <2>3. pick[k + 1][k + 1] = f[pick[k + 1][k]]
    <3>1. k \in 0 .. (k + 1) - 1
        OBVIOUS
    <3>2. \A i \in 0 .. (k + 1) - 1 : pick[k + 1][i + 1] = f[pick[k + 1][i]]
        BY <2>1
    <3>3. QED BY <3>1, <3>2
  <2>4. QED BY <2>2, <2>3
<1>6. QED BY <1>4, <1>5

(***************************************************************************)
(* Reach                                                                   *)
(***************************************************************************)
LEMMA ReachSteps ==
    ASSUME NEW E, NEW n, NEW through
    PROVE  \A d \in Nat : Reach(E, n, through, d) =
               IF d = 0 THEN {n}
               ELSE Reach(E, n, through, d - 1) \cup Step(E, Reach(E, n, through, d - 1), through)
<1> DEFINE S == SUBSET ({n} \cup {e[2] : e \in E})
           f == [r \in S |-> r \cup Step(E, r, through)]
           Body(R) == [k \in Nat |-> IF k = 0 THEN {n} ELSE R[k - 1] \cup Step(E, R[k - 1], through)]
           R == CHOOSE R : R = Body(R)
<1>1. f \in [S -> S] /\ {n} \in S
    BY DEF Step
<1>2. PICK g \in [Nat -> S] : g[0] = {n} /\ \A k \in Nat : g[k + 1] = f[g[k]]
  <2> HIDE DEF f, S
  <2>1. QED BY <1>1, Iterates
<1>3. g = Body(g)
  <2>1. ASSUME NEW k \in Nat, k # 0 PROVE g[k] = g[k - 1] \cup Step(E, g[k - 1], through)
    <3>1. k - 1 \in Nat /\ g[k - 1] \in S
        BY <1>2, <2>1
    <3>2. g[k - 1 + 1] = f[g[k - 1]]
        BY <1>2, <3>1
    <3>3. QED BY <3>1, <3>2
  <2>2. QED BY <1>2, <2>1
<1>4. R = Body(R)
    BY <1>3
<1>5. \A d \in Nat : Reach(E, n, through, d) = R[d]
    BY DEF Reach
<1> HIDE DEF R
<1>6. \A d \in Nat : R[d] = IF d = 0 THEN {n} ELSE R[d - 1] \cup Step(E, R[d - 1], through)
    BY <1>4
<1>7. ASSUME NEW d \in Nat
      PROVE  Reach(E, n, through, d) =
               IF d = 0 THEN {n}
               ELSE Reach(E, n, through, d - 1) \cup Step(E, Reach(E, n, through, d - 1), through)
  <2>1. CASE d = 0
      BY <1>5, <1>6, <2>1
  <2>2. CASE d # 0
    <3>1. d - 1 \in Nat
        BY <2>2
    <3>2. QED BY <1>5, <1>6, <2>2, <3>1
  <2>3. QED BY <2>1, <2>2
<1>8. QED BY <1>7

LEMMA ReachZero == ASSUME NEW E, NEW n, NEW through PROVE Reach(E, n, through, 0) = {n}
    BY ReachSteps

LEMMA ReachNext ==
    ASSUME NEW E, NEW n, NEW through, NEW d \in Nat
    PROVE  Reach(E, n, through, d + 1) =
               Reach(E, n, through, d) \cup Step(E, Reach(E, n, through, d), through)
<1>1. d + 1 \in Nat /\ d + 1 # 0 /\ (d + 1) - 1 = d
    OBVIOUS
<1>2. QED BY <1>1, ReachSteps

\* A ball grows with the distance, with the edges and with what may be entered.
LEMMA ReachGrows ==
    ASSUME NEW E, NEW n, NEW through, NEW d \in Nat, NEW e \in Nat, d <= e
    PROVE  Reach(E, n, through, d) \subseteq Reach(E, n, through, e)
<1> DEFINE K == {k \in Nat : Reach(E, n, through, d) \subseteq Reach(E, n, through, d + k)}
<1>1. 0 \in K
    OBVIOUS
<1>2. ASSUME NEW k \in Nat, k \in K PROVE k + 1 \in K
  <2>1. d + k \in Nat /\ d + (k + 1) = (d + k) + 1
      OBVIOUS
  <2>2. Reach(E, n, through, d + k) \subseteq Reach(E, n, through, (d + k) + 1)
      BY <2>1, ReachNext
  <2>3. QED BY <1>2, <2>1, <2>2
<1>3. Nat \subseteq K
  <2> HIDE DEF K
  <2>1. QED BY <1>1, <1>2, Induct
<1>4. e - d \in Nat /\ d + (e - d) = e
    OBVIOUS
<1>5. QED BY <1>3, <1>4

LEMMA ReachWider ==
    ASSUME NEW E, NEW F, NEW n, NEW through, NEW more, E \subseteq F, through \subseteq more,
           NEW d \in Nat
    PROVE  Reach(E, n, through, d) \subseteq Reach(F, n, more, d)
<1> DEFINE K == {k \in Nat : Reach(E, n, through, k) \subseteq Reach(F, n, more, k)}
<1>1. 0 \in K
    BY ReachZero
<1>2. ASSUME NEW k \in Nat, k \in K PROVE k + 1 \in K
  <2>1. Reach(E, n, through, k + 1) =
          Reach(E, n, through, k) \cup Step(E, Reach(E, n, through, k), through)
      BY ReachNext
  <2>2. Reach(F, n, more, k + 1) =
          Reach(F, n, more, k) \cup Step(F, Reach(F, n, more, k), more)
      BY ReachNext
  <2>3. Step(E, Reach(E, n, through, k), through) \subseteq Step(F, Reach(F, n, more, k), more)
      BY <1>2 DEF Step
  <2>4. QED BY <1>2, <2>1, <2>2, <2>3
<1>3. Nat \subseteq K
  <2> HIDE DEF K
  <2>1. QED BY <1>1, <1>2, Induct
<1>4. QED BY <1>3

\* One more step along an edge
LEMMA ReachStep ==
    ASSUME NEW E, NEW n, NEW through, NEW d \in Nat,
           NEW a \in Reach(E, n, through, d), NEW b \in through, <<a, b>> \in E
    PROVE  b \in Reach(E, n, through, d + 1)
<1>1. b \in Step(E, Reach(E, n, through, d), through)
  <2>1. <<a, b>>[1] = a /\ <<a, b>>[2] = b
      OBVIOUS
  <2>2. QED BY <2>1 DEF Step
<1>2. QED BY <1>1, ReachNext

\* The last step, when there is one
LEMMA ReachLast ==
    ASSUME NEW X, NEW E \in SUBSET (X \X X), NEW n, NEW through, NEW d \in Nat,
           NEW b \in Reach(E, n, through, d + 1), b \notin Reach(E, n, through, d)
    PROVE  b \in through /\ \E a \in Reach(E, n, through, d) : <<a, b>> \in E
<1>1. b \in Step(E, Reach(E, n, through, d), through)
    BY ReachNext
<1>2. PICK e \in E : e[1] \in Reach(E, n, through, d) /\ e[2] \in through /\ e[2] = b
    BY <1>1 DEF Step
<1>3. e = <<e[1], e[2]>>
    OBVIOUS
<1>4. QED BY <1>2, <1>3

(***************************************************************************)
(* Queues                                                                  *)
(***************************************************************************)
\* SetToSeq lists each member of a finite set once.
LEMMA Listing ==
    ASSUME NEW S, IsFiniteSet(S)
    PROVE  /\ SetToSeq(S) \in Seq(S) /\ Len(SetToSeq(S)) = Cardinality(S)
           /\ Cardinality(S) \in Nat
           /\ \A i, j \in 1 .. Len(SetToSeq(S)) : SetToSeq(S)[i] = SetToSeq(S)[j] => i = j
           /\ \A x \in S : \E i \in 1 .. Len(SetToSeq(S)) : SetToSeq(S)[i] = x
<1>1. Cardinality(S) \in Nat /\ ExistsBijection(1 .. Cardinality(S), S)
    BY FS_CardinalityType
<1>2. PICK f \in Bijection(1 .. Cardinality(S), S) : TRUE
    BY <1>1 DEF ExistsBijection
<1>3. f \in [1 .. Cardinality(S) -> S] /\ IsInjective(f)
    BY <1>2 DEF Bijection, Injection, IsInjective
<1> DEFINE g == SetToSeq(S)
<1>4. g \in [1 .. Cardinality(S) -> S] /\ IsInjective(g)
    BY <1>3 DEF SetToSeq
<1>5. g \in Injection(1 .. Cardinality(S), S)
    BY <1>4 DEF Injection, IsInjective
<1>6. IsFiniteSet(1 .. Cardinality(S)) /\ Cardinality(1 .. Cardinality(S)) = Cardinality(S)
    BY <1>1, FS_Interval
<1>7. g \in Surjection(1 .. Cardinality(S), S)
    BY <1>5, <1>6, FS_Injection
<1>8. g \in Seq(S) /\ Len(g) = Cardinality(S)
    BY <1>1, <1>4
<1>9. \A i, j \in 1 .. Cardinality(S) : g[i] = g[j] => i = j
    BY <1>4 DEF IsInjective
<1>10. \A x \in S : \E i \in 1 .. Cardinality(S) : g[i] = x
    BY <1>7 DEF Surjection
<1> HIDE DEF g
<1>11. QED BY <1>1, <1>8, <1>9, <1>10 DEF g

\* A queue that drops its head and is given the members of a set
Rotated(X, q, S, r) ==
    /\ r \in Seq(X) /\ Len(r) = Len(q) - 1 + Cardinality(S)
    /\ Cardinality(S) \in Nat /\ Len(q) \in Nat \ {0}
    /\ \A i \in 1 .. Len(q) - 1 : r[i] = q[i + 1]
    /\ \A i \in Len(q) .. Len(r) : r[i] \in S
    /\ \A i, j \in Len(q) .. Len(r) : r[i] = r[j] => i = j
    /\ \A x \in S : \E i \in Len(q) .. Len(r) : r[i] = x

LEMMA Requeue ==
    ASSUME NEW X, NEW q \in Seq(X), q # <<>>, NEW S \in SUBSET X, IsFiniteSet(S)
    PROVE  Rotated(X, q, S, Tail(q) \o SetToSeq(S))
<1> DEFINE s == SetToSeq(S)
           r == Tail(q) \o s
<1>1. /\ s \in Seq(S) /\ Len(s) = Cardinality(S) /\ Cardinality(S) \in Nat
      /\ \A i, j \in 1 .. Len(s) : s[i] = s[j] => i = j
      /\ \A x \in S : \E i \in 1 .. Len(s) : s[i] = x
    BY Listing
<1> HIDE DEF s
<1>2. s \in Seq(X)
    BY <1>1, SeqMonotonic
<1>3. /\ Tail(q) \in Seq(X) /\ Len(Tail(q)) = Len(q) - 1 /\ Len(q) \in Nat \ {0}
      /\ \A i \in 1 .. Len(q) - 1 : Tail(q)[i] = q[i + 1]
    BY HeadTailProperties, LenProperties, EmptySeq
<1>4. /\ r \in Seq(X) /\ Len(r) = Len(q) - 1 + Len(s)
      /\ \A i \in 1 .. Len(q) - 1 + Len(s) :
            r[i] = IF i <= Len(q) - 1 THEN Tail(q)[i] ELSE s[i - (Len(q) - 1)]
    BY <1>2, <1>3, ConcatProperties
<1> HIDE DEF r
<1>5. \A i \in 1 .. Len(q) - 1 : r[i] = q[i + 1]
    BY <1>1, <1>3, <1>4
<1>6. \A i \in Len(q) .. Len(r) : i - (Len(q) - 1) \in 1 .. Len(s) /\ r[i] = s[i - (Len(q) - 1)]
    BY <1>1, <1>3, <1>4
<1>7. \A i \in Len(q) .. Len(r) : r[i] \in S
    BY <1>1, <1>6
<1>8. \A i, j \in Len(q) .. Len(r) : r[i] = r[j] => i = j
    BY <1>1, <1>3, <1>6
<1>9. ASSUME NEW x \in S PROVE \E i \in Len(q) .. Len(r) : r[i] = x
  <2>1. PICK j \in 1 .. Len(s) : s[j] = x
      BY <1>1
  <2>2. j + Len(q) - 1 \in Len(q) .. Len(r) /\ (j + Len(q) - 1) - (Len(q) - 1) = j
      BY <1>1, <1>3, <1>4
  <2>3. QED BY <1>6, <2>1, <2>2
<1>10. Rotated(X, q, S, r)
    BY <1>1, <1>3, <1>4, <1>5, <1>7, <1>8, <1>9 DEF Rotated
<1>11. QED BY <1>10 DEF r, s

LEMMA AppendedSet ==
    ASSUME NEW X, NEW q \in Seq(X), NEW x \in X PROVE ToSet(Append(q, x)) = ToSet(q) \cup {x}
<1>1. /\ Append(q, x) \in Seq(X) /\ Len(Append(q, x)) = Len(q) + 1 /\ Len(q) \in Nat
      /\ \A i \in 1 .. Len(q) : Append(q, x)[i] = q[i]
      /\ Append(q, x)[Len(q) + 1] = x
    BY AppendProperties, LenProperties
<1> DEFINE r == Append(q, x)
<1> HIDE DEF r
<1>2. \A i \in 1 .. Len(r) : i \in 1 .. Len(q) \/ i = Len(q) + 1
    BY <1>1 DEF r
<1>3. \A i \in 1 .. Len(q) : i \in 1 .. Len(r)
    BY <1>1 DEF r
<1>4. Len(q) + 1 \in 1 .. Len(r) /\ r[Len(q) + 1] = x /\ \A i \in 1 .. Len(q) : r[i] = q[i]
    BY <1>1 DEF r
<1>5. DOMAIN r = 1 .. Len(r) /\ DOMAIN q = 1 .. Len(q)
    BY <1>1 DEF r
<1>6. ToSet(r) = ToSet(q) \cup {x}
    BY <1>2, <1>3, <1>4, <1>5 DEF ToSet
<1>7. QED BY <1>6 DEF r

\* What the graph and the question always are.
ToolInv ==
    /\ QueryWorld
    /\ calls \in SUBSET (Nodes \X Nodes) /\ uses \in SUBSET (Nodes \X Nodes)
    /\ asked \in {0} \cup Depths

LEMMA ToolInvStep == ToolInv /\ [ToolNext]_toolVars => ToolInv'
<1> SUFFICES ASSUME ToolInv, [ToolNext]_toolVars PROVE ToolInv'
    OBVIOUS
<1>1. CASE UNCHANGED toolVars
    BY <1>1 DEF ToolInv, QueryWorld, toolVars, queryVars
<1>2. ASSUME asked = 0, NEW n \in Nodes, Upsert(n), UNCHANGED asked PROVE ToolInv'
  <2>1. PICK C \in SUBSET (Nodes \ {n}), U \in SUBSET (Nodes \ {n}) :
            /\ calls' = (calls \ From(calls, n)) \cup ({n} \X C)
            /\ uses' = (uses \ From(uses, n)) \cup ({n} \X U)
      BY <1>2 DEF Upsert
  <2>2. calls' \in SUBSET (Nodes \X Nodes) /\ uses' \in SUBSET (Nodes \X Nodes)
      BY <2>1 DEF ToolInv
  <2>3. QED BY <1>2, <2>2 DEF ToolInv, QueryWorld
<1>3. ASSUME NEW d \in Depths, Query(d) PROVE ToolInv'
    BY <1>3 DEF Query, ToolInv, QueryWorld, queryVars
<1>4. CASE Reply
    BY <1>4 DEF Reply, ToolInv, QueryWorld, queryVars
<1>5. QED BY <1>1, <1>2, <1>3, <1>4 DEF ToolNext, QueryNext

(***************************************************************************)
(* The tests of a symbol                                                   *)
(***************************************************************************)
\* After k turns the loop of get_tests_for_symbol has seen the callers k hops up.
LEMMA TestsLoop ==
    ASSUME ToolInv
    PROVE  \A k \in Nat : TestsWithin(k) =
               {t \in TestNodes : \E n \in Reach(Back(calls), Root, Nodes, k) : <<t, n>> \in calls}
<1> DEFINE S == [tests : SUBSET TestNodes, seen : SUBSET Nodes, frontier : SUBSET Nodes]
           t0 == [tests |-> TestsOf(Root), seen |-> {Root}, frontier |-> CallersOf({Root}, {})]
           Turn(t) == [tests |-> t.tests \cup UNION {TestsOf(n) : n \in t.frontier},
                       seen |-> t.seen \cup t.frontier,
                       frontier |-> CallersOf(t.frontier, t.seen \cup t.frontier)]
           f == [t \in S |-> Turn(t)]
           Body(T) == [k \in Nat |-> IF k = 0 THEN t0 ELSE Turn(T[k - 1])]
           T == CHOOSE T : T = Body(T)
           B(k) == Reach(Back(calls), Root, Nodes, k)
<1>1. calls \in SUBSET (Nodes \X Nodes) /\ Root \in Nodes
    BY DEF ToolInv, QueryWorld
<1>2. \A F, G : CallersOf(F, G) \subseteq Nodes
    BY <1>1 DEF CallersOf, Back
<1>3. f \in [S -> S] /\ t0 \in S
    BY <1>1, <1>2 DEF TestsOf
<1>4. PICK g \in [Nat -> S] : g[0] = t0 /\ \A k \in Nat : g[k + 1] = f[g[k]]
  <2> HIDE DEF f, S, t0
  <2>1. QED BY <1>3, Iterates
<1>5. g = Body(g)
  <2> HIDE DEF t0, Turn, S
  <2>1. ASSUME NEW k \in Nat, k # 0 PROVE g[k] = Turn(g[k - 1])
    <3>1. k - 1 \in Nat /\ g[k - 1] \in S
        BY <1>4, <2>1
    <3>2. g[k - 1 + 1] = f[g[k - 1]]
        BY <1>4, <3>1
    <3>3. QED BY <3>1, <3>2
  <2>2. QED BY <1>4, <2>1
<1>6. T = Body(T)
    BY <1>5
<1>7. \A k \in Nat : TestsWithin(k) = T[k].tests
    BY DEF TestsWithin
<1> HIDE DEF T
<1>8. T[0] = t0 /\ \A k \in Nat : T[k + 1] = Turn(T[k])
  <2> HIDE DEF t0, Turn
  <2>1. T[0] = t0
      BY <1>6
  <2>2. ASSUME NEW k \in Nat PROVE T[k + 1] = Turn(T[k])
    <3>1. k + 1 \in Nat /\ k + 1 # 0 /\ (k + 1) - 1 = k
        OBVIOUS
    <3>2. \A j \in Nat : j # 0 => T[j] = Turn(T[j - 1])
        BY <1>6
    <3>3. QED BY <3>1, <3>2
  <2>3. QED BY <2>1, <2>2

\* the callers of the frontier, which the next turn sees, are those one hop further up
<1> DEFINE Good(k) ==
        /\ T[k].seen = B(k) /\ T[k].seen \cup T[k].frontier = B(k + 1)
        /\ T[k].tests = {t \in TestNodes : \E n \in B(k) : <<t, n>> \in calls}
<1>9. ASSUME NEW k \in Nat PROVE B(k + 1) = B(k) \cup Step(Back(calls), B(k), Nodes)
    BY ReachNext
<1>10. \A F, G : CallersOf(F, G) = Step(Back(calls), F, Nodes) \ G
    BY <1>1 DEF CallersOf, Step, Back
<1>11. Good(0)
  <2>1. B(0) = {Root} /\ B(0 + 1) = B(0) \cup Step(Back(calls), B(0), Nodes)
      BY <1>9, ReachZero
  <2> HIDE DEF B, Turn, T
  <2>2. /\ T[0].seen = {Root} /\ T[0].tests = TestsOf(Root)
        /\ T[0].frontier = CallersOf({Root}, {})
      BY <1>8
  <2>3. T[0].frontier = Step(Back(calls), {Root}, Nodes)
      BY <1>10, <2>2
  <2>4. T[0].tests = {t \in TestNodes : \E n \in B(0) : <<t, n>> \in calls}
      BY <2>1, <2>2 DEF TestsOf
  <2>5. QED BY <2>1, <2>2, <2>3, <2>4
<1>12. ASSUME NEW k \in Nat, Good(k) PROVE Good(k + 1)
  <2>1. T[k + 1] = Turn(T[k])
      BY <1>8
  <2>2. T[k + 1].seen = B(k + 1)
      BY <1>12, <2>1
  <2>3. T[k + 1].frontier = Step(Back(calls), T[k].frontier, Nodes) \ B(k + 1)
      BY <1>10, <1>12, <2>1
  <2>4. B(k + 1 + 1) = B(k + 1) \cup Step(Back(calls), T[k].seen \cup T[k].frontier, Nodes)
    <3> HIDE DEF B
    <3>1. k + 1 \in Nat
        OBVIOUS
    <3>2. B(k + 1 + 1) = B(k + 1) \cup Step(Back(calls), B(k + 1), Nodes)
        BY <1>9, <3>1
    <3>3. QED BY <1>12, <3>2
  <2>5. Step(Back(calls), T[k].seen, Nodes) \subseteq B(k + 1)
      BY <1>9, <1>12
  <2>6. Step(Back(calls), T[k].seen \cup T[k].frontier, Nodes)
          = Step(Back(calls), T[k].seen, Nodes) \cup Step(Back(calls), T[k].frontier, Nodes)
      BY DEF Step
  <2>7. T[k + 1].tests = {t \in TestNodes : \E n \in B(k + 1) : <<t, n>> \in calls}
    <3> HIDE DEF B
    <3>1. T[k + 1].tests = T[k].tests \cup UNION {TestsOf(n) : n \in T[k].frontier}
        BY <2>1
    <3>2. T[k].seen = B(k) /\ B(k + 1) = B(k) \cup T[k].frontier
        BY <1>12
    <3>3. T[k].tests = {t \in TestNodes : \E n \in B(k) : <<t, n>> \in calls}
        BY <1>12
    <3>4. \A F, t : t \in UNION {TestsOf(n) : n \in F} <=>
                      t \in TestNodes /\ \E n \in F : <<t, n>> \in calls
      <4>1. \A F, t : t \in UNION {TestsOf(n) : n \in F} <=> \E n \in F : t \in TestsOf(n)
          OBVIOUS
      <4>2. \A n, t : t \in TestsOf(n) <=> t \in TestNodes /\ <<t, n>> \in calls
          BY DEF TestsOf
      <4>3. QED BY <4>1, <4>2, Zenon
    <3> HIDE DEF Good
    <3>5. QED BY <3>1, <3>2, <3>3, <3>4
  <2> HIDE DEF B, Turn
  <2>8. QED BY <2>2, <2>3, <2>4, <2>5, <2>6, <2>7
<1>13. \A k \in Nat : Good(k)
  <2> DEFINE K == {k \in Nat : Good(k)}
  <2> HIDE DEF Good
  <2>1. 0 \in K /\ \A k \in Nat : k \in K => k + 1 \in K
      BY <1>11, <1>12
  <2>2. Nat \subseteq K
    <3> HIDE DEF K
    <3>1. QED BY <2>1, Induct
  <2>3. QED BY <2>2
<1>14. QED BY <1>7, <1>13

\* TestsExact: get_tests_for_symbol reports a test exactly when it calls the symbol or one of
\* its callers fewer than "depth" hops up, for any graph and any depth.
THEOREM TestsAreExact == QueryWorld /\ ToolSpec => []TestsExact
<1>1. QueryWorld /\ ToolInit => ToolInv
    BY DEF ToolInv, ToolInit, QueryInit
<1>2. ToolInv => TestsExact
  <2> SUFFICES ASSUME ToolInv, asked # 0
               PROVE  TestsForSymbol(asked) =
                        {t \in TestNodes :
                            \E n \in Reach(Back(calls), Root, Nodes, asked - 1) : <<t, n>> \in calls}
      BY DEF TestsExact
  <2>1. asked - 1 \in Nat
      BY DEF ToolInv, QueryWorld
  <2>2. QED BY <2>1, TestsLoop DEF TestsForSymbol
<1>3. QED BY <1>1, <1>2, ToolInvStep, PTL DEF ToolSpec

(***************************************************************************)
(* Traversals                                                              *)
(***************************************************************************)
Dirs == {"up", "down"}
Entry == [node : Nodes, at : Nat, dir : Dirs]
WalkState == [queue : Seq(Entry), visited : SUBSET (Nodes \X Dirs), emitted : Seq(Nodes), held : Nodes]
WalkDone(t) == t.queue = <<>> \/ Len(t.emitted) >= Hoods

\* The parts of a turn: the entry taken, the neighborhood at hand, what is added to the queue
Cur(t) == t.queue[1]
Skips(t, blocked) == Cur(t).node \in blocked /\ Cur(t).node # Root
Held(t) == IF Cur(t).node \in ToSet(t.emitted) THEN t.held ELSE Cur(t).node
Fresh(t, d) ==
    IF Cur(t).at < d
    THEN {n \in Ahead(Held(t), Cur(t).dir) : <<n, Cur(t).dir>> \notin t.visited} ELSE {}
Entries(t, d) == {[node |-> n, at |-> Cur(t).at + 1, dir |-> Cur(t).dir] : n \in Fresh(t, d)}

LEMMA AheadType == ASSUME ToolInv, NEW n, NEW dir PROVE Ahead(n, dir) \subseteq Nodes
    BY DEF ToolInv, Ahead, From, Back

LEMMA EntriesType ==
    ASSUME ToolInv, NEW d \in Nat, NEW t \in WalkState, t.queue # <<>>
    PROVE  /\ Cur(t) \in Entry /\ Held(t) \in Nodes /\ Fresh(t, d) \in SUBSET Nodes
           /\ Entries(t, d) \in SUBSET Entry
           /\ IsFiniteSet(Fresh(t, d)) /\ IsFiniteSet(Entries(t, d))
           /\ Cardinality(Entries(t, d)) = Cardinality(Fresh(t, d))
<1>1. Cur(t) \in Entry
  <2>1. t.queue \in Seq(Entry)
      BY DEF WalkState
  <2>2. QED BY <2>1 DEF Cur
<1>2. Held(t) \in Nodes
    BY <1>1 DEF Held, WalkState, Entry
<1>3. Fresh(t, d) \in SUBSET Nodes
    BY AheadType DEF Fresh
<1>4. IsFiniteSet(Fresh(t, d))
    BY <1>3, FS_Subset DEF ToolInv, QueryWorld
<1>5. Entries(t, d) \in SUBSET Entry
    BY <1>1, <1>3 DEF Entries, Entry
<1> DEFINE f == [n \in Fresh(t, d) |-> [node |-> n, at |-> Cur(t).at + 1, dir |-> Cur(t).dir]]
<1>6. f \in Surjection(Fresh(t, d), Entries(t, d)) /\ f \in Injection(Fresh(t, d), Entries(t, d))
  <2>1. f \in [Fresh(t, d) -> Entries(t, d)]
      BY DEF Entries
  <2>2. \A x \in Entries(t, d) : \E n \in Fresh(t, d) : f[n] = x
      BY DEF Entries
  <2>3. \A m, n \in Fresh(t, d) : f[m] = f[n] => m = n
    <3>1. \A n \in Fresh(t, d) : f[n].node = n
        OBVIOUS
    <3>2. QED BY <3>1
  <2> HIDE DEF f
  <2>4. IsInjective(f)
      BY <2>1, <2>3 DEF IsInjective
  <2>5. QED BY <2>1, <2>2, <2>4 DEF Surjection, Injection
<1> HIDE DEF f
<1>7. QED BY <1>1, <1>2, <1>3, <1>4, <1>5, <1>6, FS_Surjection

\* What a turn does to each local variable: it skips an entry,
LEMMA HopSkips ==
    ASSUME ToolInv, NEW blocked, NEW d \in Nat, NEW t \in WalkState, t.queue # <<>>,
           Skips(t, blocked), NEW u, u = Hop(t, blocked, d)
    PROVE  /\ u \in WalkState
           /\ u.queue = Tail(t.queue) /\ u.visited = t.visited
           /\ u.emitted = t.emitted /\ u.held = t.held
<1>1. Head(t.queue) = Cur(t)
  <2>1. t.queue \in Seq(Entry)
      BY DEF WalkState
  <2>2. QED BY <2>1 DEF Cur
<1>2. t.queue \in Seq(Entry) /\ Tail(t.queue) \in Seq(Entry)
    BY HeadTailProperties DEF WalkState
<1>3. u = [t EXCEPT !.queue = Tail(@)]
    BY <1>1 DEF Hop, Skips
<1>4. QED BY <1>2, <1>3 DEF WalkState

\* or expands it.
Expanded(t, d, u) ==
    /\ u.queue = Tail(t.queue) \o SetToSeq(Entries(t, d))
    /\ u.visited = t.visited \cup (Fresh(t, d) \X {Cur(t).dir})
    /\ u.emitted = IF Cur(t).node \in ToSet(t.emitted) THEN t.emitted
                   ELSE Append(t.emitted, Cur(t).node)
    /\ u.held = Held(t)

LEMMA HopExpands ==
    ASSUME ToolInv, NEW blocked, NEW d \in Nat, NEW t \in WalkState, t.queue # <<>>,
           ~Skips(t, blocked), NEW u, u = Hop(t, blocked, d)
    PROVE  u \in WalkState /\ Expanded(t, d, u)
<1>1. Head(t.queue) = Cur(t)
  <2>1. t.queue \in Seq(Entry)
      BY DEF WalkState
  <2>2. QED BY <2>1 DEF Cur
<1>2. Cur(t) \in Entry /\ Held(t) \in Nodes /\ Fresh(t, d) \in SUBSET Nodes
      /\ Entries(t, d) \in SUBSET Entry /\ IsFiniteSet(Entries(t, d))
    BY EntriesType
<1>3. t.queue \in Seq(Entry) /\ Tail(t.queue) \in Seq(Entry)
    BY HeadTailProperties DEF WalkState
<1>4. u = [queue |-> Tail(t.queue) \o SetToSeq(Entries(t, d)),
           visited |-> t.visited \cup (Fresh(t, d) \X {Cur(t).dir}),
           emitted |-> IF Cur(t).node \in ToSet(t.emitted) THEN t.emitted
                       ELSE Append(t.emitted, Cur(t).node),
           held |-> Held(t)]
    BY <1>1 DEF Hop, Skips, Held, Fresh, Entries
<1>5. u.queue \in Seq(Entry)
    BY <1>2, <1>3, <1>4, Requeue DEF Rotated
<1>6. u.visited \in SUBSET (Nodes \X Dirs) /\ u.held \in Nodes
    BY <1>2, <1>4 DEF WalkState, Entry
<1>7. u.emitted \in Seq(Nodes)
    BY <1>2, <1>4 DEF WalkState, Entry
<1>8. u \in WalkState
    BY <1>4, <1>5, <1>6, <1>7 DEF WalkState
<1>9. QED BY <1>4, <1>8 DEF Expanded

\* The turns of a traversal
WalkRun(T, blocked, d) ==
    /\ T \in [Nat -> WalkState] /\ T[0] = AtRoot
    /\ \A k \in Nat : T[k + 1] = IF WalkDone(T[k]) THEN T[k] ELSE Hop(T[k], blocked, d)

LEMMA WalkTurns ==
    ASSUME ToolInv, NEW blocked, NEW d \in Nat
    PROVE  \E T : WalkRun(T, blocked, d) /\ Walk(blocked, d) = T[2 * Cardinality(Nodes)]
<1> DEFINE Turn(t) == IF WalkDone(t) THEN t ELSE Hop(t, blocked, d)
           f == [t \in WalkState |-> Turn(t)]
           Body(T) == [k \in Nat |-> IF k = 0 THEN AtRoot ELSE Turn(T[k - 1])]
           T == CHOOSE T : T = Body(T)
<1>1. f \in [WalkState -> WalkState]
  <2>1. ASSUME NEW t \in WalkState, ~WalkDone(t) PROVE Hop(t, blocked, d) \in WalkState
      BY <2>1, HopSkips, HopExpands DEF WalkDone
  <2>2. QED BY <2>1
<1>2. AtRoot \in WalkState
    BY DEF AtRoot, WalkState, Entry, Dirs, ToolInv, QueryWorld
<1>3. PICK g \in [Nat -> WalkState] : g[0] = AtRoot /\ \A k \in Nat : g[k + 1] = f[g[k]]
  <2> HIDE DEF f
  <2>1. QED BY <1>1, <1>2, Iterates
<1>4. g = Body(g)
  <2> HIDE DEF Turn
  <2>1. ASSUME NEW k \in Nat, k # 0 PROVE g[k] = Turn(g[k - 1])
    <3>1. k - 1 \in Nat /\ g[k - 1] \in WalkState
        BY <1>3, <2>1
    <3>2. g[k - 1 + 1] = f[g[k - 1]]
        BY <1>3, <3>1
    <3>3. QED BY <3>1, <3>2
  <2>2. QED BY <1>3, <2>1
<1>5. T = Body(T)
    BY <1>4
<1>6. Walk(blocked, d) = T[2 * Cardinality(Nodes)]
    BY DEF Walk, WalkDone
<1> HIDE DEF T, Turn
<1>7. T[0] = AtRoot /\ \A k \in Nat : k # 0 => T[k] = Turn(T[k - 1])
    BY <1>5
<1>8. \A k \in Nat : T[k + 1] = Turn(T[k])
  <2> TAKE k \in Nat
  <2>1. k + 1 \in Nat /\ k + 1 # 0 /\ (k + 1) - 1 = k
      OBVIOUS
  <2>2. QED BY <1>7, <2>1
<1>9. T \in [Nat -> WalkState]
  <2> DEFINE K == {k \in Nat : T[k] \in WalkState}
  <2>1. 0 \in K
      BY <1>2, <1>7
  <2>2. ASSUME NEW k \in Nat, k \in K PROVE k + 1 \in K
      BY <1>1, <1>8, <2>2
  <2>3. Nat \subseteq K
    <3> HIDE DEF K
    <3>1. QED BY <2>1, <2>2, Induct
  <2>4. T = [k \in Nat |-> T[k]]
      BY <1>5
  <2>5. QED BY <2>3, <2>4
<1>10. QED BY <1>6, <1>7, <1>8, <1>9 DEF Turn, WalkRun

LEMMA VisitedCount ==
    ASSUME ToolInv, NEW V \in SUBSET (Nodes \X Dirs)
    PROVE  /\ IsFiniteSet(V) /\ Cardinality(V) \in Nat
           /\ Cardinality(Nodes) \in Nat /\ Cardinality(V) <= 2 * Cardinality(Nodes)
<1>1. IsFiniteSet(Nodes) /\ Cardinality(Nodes) \in Nat
    BY FS_CardinalityType DEF ToolInv, QueryWorld
<1>2. IsFiniteSet(Dirs) /\ Cardinality(Dirs) = 2
  <2>1. IsFiniteSet({"up"}) /\ Cardinality({"up"}) = 1
      BY FS_Singleton
  <2>2. Dirs = {"up"} \cup {"down"} /\ "down" \notin {"up"}
      BY DEF Dirs
  <2>3. QED BY <2>1, <2>2, FS_AddElement
<1>3. /\ IsFiniteSet(Nodes \X Dirs)
      /\ Cardinality(Nodes \X Dirs) = Cardinality(Nodes) * Cardinality(Dirs)
    BY <1>1, <1>2, FS_Product
<1>4. QED BY <1>1, <1>2, <1>3, FS_Subset, FS_CardinalityType

\* A turn takes one entry off the queue and puts as many on it as it visits symbols.
LEMMA HopCounts ==
    ASSUME ToolInv, NEW blocked, NEW d \in Nat, NEW t \in WalkState, t.queue # <<>>,
           NEW u, u = Hop(t, blocked, d)
    PROVE  /\ Len(t.queue) \in Nat \ {0} /\ Len(u.queue) \in Nat
           /\ Cardinality(t.visited) \in Nat /\ Cardinality(u.visited) \in Nat
           /\ Len(u.queue) + 1 + Cardinality(t.visited) = Len(t.queue) + Cardinality(u.visited)
<1>1. /\ t.queue \in Seq(Entry) /\ t.visited \in SUBSET (Nodes \X Dirs)
      /\ Len(t.queue) \in Nat \ {0}
    BY DEF WalkState
<1>2. IsFiniteSet(t.visited) /\ Cardinality(t.visited) \in Nat
    BY <1>1, VisitedCount
<1>3. CASE Skips(t, blocked)
  <2>1. u.queue = Tail(t.queue) /\ u.visited = t.visited
      BY <1>3, HopSkips
  <2>2. Len(u.queue) = Len(t.queue) - 1
      BY <1>1, <2>1, HeadTailProperties
  <2>3. QED BY <1>1, <1>2, <2>1, <2>2
<1>4. CASE ~Skips(t, blocked)
  <2> DEFINE V == Fresh(t, d) \X {Cur(t).dir}
  <2>0. Expanded(t, d, u)
      BY <1>4, HopExpands
  <2>1. /\ u.queue = Tail(t.queue) \o SetToSeq(Entries(t, d))
        /\ u.visited = t.visited \cup V
      BY <2>0 DEF Expanded
  <2>2. /\ Entries(t, d) \in SUBSET Entry /\ IsFiniteSet(Entries(t, d)) /\ Cur(t) \in Entry
        /\ IsFiniteSet(Fresh(t, d)) /\ Fresh(t, d) \in SUBSET Nodes
        /\ Cardinality(Entries(t, d)) = Cardinality(Fresh(t, d))
      BY EntriesType
  <2>3. Len(u.queue) = Len(t.queue) - 1 + Cardinality(Fresh(t, d))
      BY <1>1, <2>1, <2>2, Requeue DEF Rotated
  <2>4. t.visited \cap V = {}
      BY DEF Fresh
  <2>5. Cardinality(Fresh(t, d)) \in Nat
      BY <2>2, FS_CardinalityType
  <2>6. Cardinality(V) = Cardinality(Fresh(t, d)) /\ IsFiniteSet(V)
    <3>1. IsFiniteSet({Cur(t).dir}) /\ Cardinality({Cur(t).dir}) = 1
        BY FS_Singleton
    <3>2. IsFiniteSet(V) /\ Cardinality(V) = Cardinality(Fresh(t, d)) * 1
        BY <2>2, <3>1, FS_Product
    <3>3. QED BY <2>5, <3>2
  <2> HIDE DEF V
  <2>7. Cardinality(t.visited \cap V) = 0
      BY <2>4, FS_EmptySet
  <2>8. Cardinality(u.visited) = Cardinality(t.visited) + Cardinality(V)
    <3>1. Cardinality(t.visited \cup V) = Cardinality(t.visited) + Cardinality(V) - 0
        BY <1>2, <2>6, <2>7, FS_Union
    <3>2. QED BY <1>2, <2>1, <2>5, <2>6, <3>1
  <2>9. QED BY <1>1, <1>2, <2>3, <2>5, <2>6, <2>8
<1>5. QED BY <1>3, <1>4

\* As many turns as symbols can enter the queue: the loop is over by then.
LEMMA WalkEnds ==
    ASSUME ToolInv, NEW blocked, NEW d \in Nat, NEW T, WalkRun(T, blocked, d)
    PROVE  WalkDone(T[2 * Cardinality(Nodes)])
<1> DEFINE N == 2 * Cardinality(Nodes)
           Counts(k) == WalkDone(T[k]) \/ k + Len(T[k].queue) = Cardinality(T[k].visited)
           K == {k \in Nat : Counts(k)}
<1>1. \A k \in Nat : T[k] \in WalkState
    BY DEF WalkRun
<1>2. Cardinality(Nodes) \in Nat /\ N \in Nat
    BY FS_CardinalityType DEF ToolInv, QueryWorld
<1>3. 0 \in K
  <2>1. T[0] = AtRoot /\ Len(AtRoot.queue) = 2
      BY DEF WalkRun, AtRoot
  <2>2. AtRoot.visited = {<<Root, "up">>} \cup {<<Root, "down">>}
      BY DEF AtRoot
  <2>3. <<Root, "down">> \notin {<<Root, "up">>}
      OBVIOUS
  <2>4. IsFiniteSet({<<Root, "up">>}) /\ Cardinality({<<Root, "up">>}) = 1
      BY FS_Singleton
  <2>5. Cardinality({<<Root, "up">>} \cup {<<Root, "down">>}) = 1 + 1
      BY <2>3, <2>4, FS_AddElement
  <2>6. 0 + Len(T[0].queue) = Cardinality(T[0].visited)
      BY <2>1, <2>2, <2>5
  <2>7. QED BY <2>6
<1>4. ASSUME NEW k \in Nat, k \in K PROVE k + 1 \in K
  <2>1. CASE WalkDone(T[k])
      BY <2>1 DEF WalkRun
  <2>2. CASE ~WalkDone(T[k])
    <3>1. T[k] \in WalkState /\ T[k].queue # <<>> /\ T[k + 1] = Hop(T[k], blocked, d)
        BY <1>1, <2>2 DEF WalkRun, WalkDone
    <3>2. k + Len(T[k].queue) = Cardinality(T[k].visited)
        BY <1>4, <2>2
    <3>3. /\ Len(T[k].queue) \in Nat \ {0} /\ Len(T[k + 1].queue) \in Nat
          /\ Cardinality(T[k].visited) \in Nat /\ Cardinality(T[k + 1].visited) \in Nat
          /\ Len(T[k + 1].queue) + 1 + Cardinality(T[k].visited)
               = Len(T[k].queue) + Cardinality(T[k + 1].visited)
        BY <3>1, HopCounts
    <3>4. (k + 1) + Len(T[k + 1].queue) = Cardinality(T[k + 1].visited)
      <4>1. PICK x, y, v, w \in Nat :
                /\ x = Len(T[k].queue) /\ y = Len(T[k + 1].queue)
                /\ v = Cardinality(T[k].visited) /\ w = Cardinality(T[k + 1].visited)
          BY <3>3, Zenon
      <4>2. k + x = v /\ y + 1 + v = x + w
          BY <3>2, <3>3, <4>1, Zenon
      <4>3. (k + 1) + y = w
          BY <4>2
      <4>4. QED BY <4>1, <4>3, Zenon
    <3>5. Counts(k + 1)
      <4> PICK m \in Nat : m = k + 1
          OBVIOUS
      <4>1. m + Len(T[m].queue) = Cardinality(T[m].visited)
          BY <3>4
      <4>2. QED BY <4>1
    <3> HIDE DEF Counts
    <3>6. QED BY <3>5
  <2>3. QED BY <2>1, <2>2
<1>5. N \in K
  <2> HIDE DEF K, N
  <2>1. QED BY <1>2, <1>3, <1>4, Induct
<1>6. CASE N + Len(T[N].queue) = Cardinality(T[N].visited)
  <2>1. T[N].queue \in Seq(Entry) /\ T[N].visited \in SUBSET (Nodes \X Dirs)
      BY <1>1, <1>2 DEF WalkState
  <2>2. /\ Len(T[N].queue) \in Nat /\ Cardinality(T[N].visited) \in Nat
        /\ Cardinality(T[N].visited) <= N
      BY <2>1, VisitedCount
  <2>3. Len(T[N].queue) = 0
      BY <1>2, <1>6, <2>2
  <2>4. T[N].queue = <<>>
      BY <2>1, <2>3
  <2>5. QED BY <2>4 DEF WalkDone
<1>7. QED BY <1>5, <1>6

\* The queue after a turn: the entry taken is gone, and the symbols of F are added, one hop
\* further in its direction.
Requeued(t, u, F) ==
    /\ Len(t.queue) \in Nat \ {0} /\ Len(u.queue) \in Nat /\ Len(u.queue) >= Len(t.queue) - 1
    /\ \A i \in 1 .. Len(u.queue) : i < Len(t.queue) => u.queue[i] = t.queue[i + 1]
    /\ \A i \in 1 .. Len(u.queue) : i >= Len(t.queue) =>
          /\ u.queue[i].node \in F
          /\ u.queue[i].at = Cur(t).at + 1 /\ u.queue[i].dir = Cur(t).dir
    /\ \A i, j \in 1 .. Len(u.queue) :
          i >= Len(t.queue) /\ j >= Len(t.queue) /\ u.queue[i].node = u.queue[j].node => i = j
    /\ \A n \in F : \E i \in 1 .. Len(u.queue) : u.queue[i].node = n /\ u.queue[i].dir = Cur(t).dir

LEMMA HopQueue ==
    ASSUME ToolInv, NEW blocked, NEW d \in Nat, NEW t \in WalkState, t.queue # <<>>,
           NEW u, u = Hop(t, blocked, d)
    PROVE  Requeued(t, u, IF Skips(t, blocked) THEN {} ELSE Fresh(t, d))
<1>1. t.queue \in Seq(Entry) /\ Len(t.queue) \in Nat \ {0}
    BY DEF WalkState
<1>2. CASE Skips(t, blocked)
  <2>1. u.queue = Tail(t.queue)
      BY <1>2, HopSkips
  <2>2. /\ Len(Tail(t.queue)) = Len(t.queue) - 1
        /\ \A i \in 1 .. Len(t.queue) - 1 : Tail(t.queue)[i] = t.queue[i + 1]
      BY <1>1, HeadTailProperties
  <2>3. Requeued(t, u, {})
      BY <1>1, <2>1, <2>2 DEF Requeued
  <2>4. QED BY <1>2, <2>3
<1>3. CASE ~Skips(t, blocked)
  <2>1. Expanded(t, d, u)
      BY <1>3, HopExpands
  <2>2. Entries(t, d) \in SUBSET Entry /\ IsFiniteSet(Entries(t, d)) /\ Cur(t) \in Entry
      BY EntriesType
  <2> DEFINE r == Tail(t.queue) \o SetToSeq(Entries(t, d))
             q == t.queue
  <2>20. Rotated(Entry, t.queue, Entries(t, d), Tail(t.queue) \o SetToSeq(Entries(t, d)))
      BY <1>1, <2>2, Requeue
  <2>21. Rotated(Entry, q, Entries(t, d), r)
      BY <2>20
  <2> HIDE DEF r, q
  <2>3. /\ r \in Seq(Entry) /\ Len(r) = Len(q) - 1 + Cardinality(Entries(t, d))
        /\ Cardinality(Entries(t, d)) \in Nat
        /\ \A i \in 1 .. Len(q) - 1 : r[i] = q[i + 1]
        /\ \A i \in Len(q) .. Len(r) : r[i] \in Entries(t, d)
        /\ \A i, j \in Len(q) .. Len(r) : r[i] = r[j] => i = j
        /\ \A x \in Entries(t, d) : \E i \in Len(q) .. Len(r) : r[i] = x
      BY <2>21 DEF Rotated
  <2>4. u.queue = r
      BY <2>1 DEF Expanded, r
  <2> USE DEF q
  <2>5. Len(u.queue) \in Nat /\ Len(u.queue) >= Len(t.queue) - 1
      BY <1>1, <2>3, <2>4
  <2>6. \A i \in 1 .. Len(u.queue) : i < Len(t.queue) => u.queue[i] = t.queue[i + 1]
      BY <1>1, <2>3, <2>4, <2>5
  <2>7. \A x \in Entries(t, d) :
          /\ x.node \in Fresh(t, d) /\ x.at = Cur(t).at + 1 /\ x.dir = Cur(t).dir
      BY DEF Entries
  <2>8. \A i \in 1 .. Len(u.queue) : i >= Len(t.queue) => u.queue[i] \in Entries(t, d)
      BY <1>1, <2>3, <2>4, <2>5
  <2>9. \A x, y \in Entries(t, d) : x.node = y.node => x = y
      BY DEF Entries
  <2>10. \A i, j \in 1 .. Len(u.queue) :
            i >= Len(t.queue) /\ j >= Len(t.queue) /\ u.queue[i].node = u.queue[j].node => i = j
    <3>1. SUFFICES ASSUME NEW i \in 1 .. Len(u.queue), NEW j \in 1 .. Len(u.queue),
                          i >= Len(t.queue), j >= Len(t.queue), u.queue[i].node = u.queue[j].node
                   PROVE  i = j
        OBVIOUS
    <3>2. u.queue[i] = u.queue[j]
        BY <2>8, <2>9, <3>1
    <3>3. i \in Len(q) .. Len(r) /\ j \in Len(q) .. Len(r)
        BY <1>1, <2>4, <2>5, <3>1
    <3>4. QED BY <2>3, <2>4, <3>2, <3>3
  <2>11. ASSUME NEW n \in Fresh(t, d)
         PROVE  \E i \in 1 .. Len(u.queue) : u.queue[i].node = n /\ u.queue[i].dir = Cur(t).dir
    <3> DEFINE x == [node |-> n, at |-> Cur(t).at + 1, dir |-> Cur(t).dir]
    <3>1. x \in Entries(t, d) /\ x.node = n
        BY DEF Entries
    <3> HIDE DEF x
    <3>2. PICK i \in Len(q) .. Len(r) : r[i] = x
        BY <2>3, <3>1
    <3>3. i \in 1 .. Len(u.queue)
        BY <1>1, <2>4, <2>5, <3>2
    <3>4. QED BY <2>4, <2>7, <3>1, <3>2, <3>3
  <2>12. Requeued(t, u, Fresh(t, d))
      BY <1>1, <2>5, <2>6, <2>7, <2>8, <2>10, <2>11 DEF Requeued
  <2>13. QED BY <1>3, <2>12
<1>4. QED BY <1>2, <1>3

\* The queue is in order of distance, over one distance or two that follow each other.
QueueOrder(t) ==
    /\ \A i, j \in 1 .. Len(t.queue) : i <= j => t.queue[i].at <= t.queue[j].at
    /\ \A i \in 1 .. Len(t.queue) : t.queue[i].at <= Cur(t).at + 1

LEMMA HopOrder ==
    ASSUME ToolInv, NEW blocked, NEW d \in Nat, NEW t \in WalkState, t.queue # <<>>,
           NEW u, u = Hop(t, blocked, d), QueueOrder(t)
    PROVE  /\ QueueOrder(u)
           /\ \A i \in 1 .. Len(u.queue) : u.queue[i].at >= Cur(t).at
<1>1. PICK F : Requeued(t, u, F)
    BY HopQueue
<1>2. u \in WalkState
    BY HopSkips, HopExpands
<1>3. /\ \A i \in 1 .. Len(t.queue) : t.queue[i] \in Entry
      /\ \A i \in 1 .. Len(u.queue) : u.queue[i] \in Entry
      /\ Len(t.queue) \in Nat \ {0} /\ Len(u.queue) \in Nat
    BY <1>2 DEF WalkState
<1>4. \A i \in 1 .. Len(t.queue) : t.queue[i].at \in Nat
    BY <1>3 DEF Entry
<1>5. Cur(t).at \in Nat /\ Cur(t) = t.queue[1]
    BY <1>3, <1>4 DEF Cur
<1>6. \A i \in 1 .. Len(u.queue) :
         /\ u.queue[i].at \in Nat
         /\ Cur(t).at <= u.queue[i].at /\ u.queue[i].at <= Cur(t).at + 1
         /\ i >= Len(t.queue) => u.queue[i].at = Cur(t).at + 1
  <2>1. ASSUME NEW i \in 1 .. Len(u.queue), i < Len(t.queue)
        PROVE  /\ u.queue[i].at \in Nat
               /\ Cur(t).at <= u.queue[i].at /\ u.queue[i].at <= Cur(t).at + 1
    <3>1. i + 1 \in 1 .. Len(t.queue) /\ 1 \in 1 .. Len(t.queue) /\ 1 <= i + 1
        BY <1>3, <2>1
    <3>2. u.queue[i] = t.queue[i + 1]
        BY <1>1, <2>1 DEF Requeued
    <3>3. QED BY <1>4, <1>5, <3>1, <3>2 DEF QueueOrder
  <2>2. ASSUME NEW i \in 1 .. Len(u.queue), i >= Len(t.queue)
        PROVE  u.queue[i].at = Cur(t).at + 1
      BY <1>1, <2>2 DEF Requeued
  <2>3. QED BY <1>3, <1>5, <2>1, <2>2
<1>7. ASSUME NEW i \in 1 .. Len(u.queue), NEW j \in 1 .. Len(u.queue), i <= j
      PROVE  u.queue[i].at <= u.queue[j].at
  <2>1. CASE j >= Len(t.queue)
      BY <1>5, <1>6, <2>1
  <2>2. CASE j < Len(t.queue)
    <3>1. i < Len(t.queue) /\ i + 1 \in 1 .. Len(t.queue) /\ j + 1 \in 1 .. Len(t.queue)
        BY <1>3, <1>7, <2>2
    <3>2. u.queue[i] = t.queue[i + 1] /\ u.queue[j] = t.queue[j + 1]
        BY <1>1, <2>2, <3>1 DEF Requeued
    <3>3. QED BY <1>7, <3>1, <3>2 DEF QueueOrder
  <2>3. QED BY <1>3, <2>1, <2>2
<1>8. ASSUME NEW i \in 1 .. Len(u.queue) PROVE u.queue[i].at <= Cur(u).at + 1
  <2>1. 1 \in 1 .. Len(u.queue) /\ Cur(u) = u.queue[1]
      BY <1>3 DEF Cur
  <2>2. Cur(t).at <= Cur(u).at /\ u.queue[i].at <= Cur(t).at + 1
      BY <1>6, <2>1
  <2>3. Cur(u).at \in Nat /\ u.queue[i].at \in Nat
      BY <1>6, <2>1
  <2>4. QED BY <1>5, <2>2, <2>3
<1>9. QED BY <1>6, <1>7, <1>8 DEF QueueOrder

(***************************************************************************)
(* The scan for warnings                                                   *)
(***************************************************************************)
Links == calls \cup uses \cup Back(calls \cup uses)
Ball(k) == Reach(Links, Root, Nodes, k)

LEMMA LinksType == ASSUME ToolInv PROVE Links \in SUBSET (Nodes \X Nodes)
    BY DEF Links, ToolInv, Back

LEMMA AheadLinks ==
    ASSUME ToolInv, NEW n, NEW m, NEW dir
    PROVE  m \in Ahead(n, dir) <=> IF dir = "down" THEN <<n, m>> \in calls \cup uses
                                   ELSE <<n, m>> \in Back(calls \cup uses)
<1> DEFINE E == IF dir = "down" THEN calls \cup uses ELSE Back(calls \cup uses)
<1>1. E \in SUBSET (Nodes \X Nodes)
    BY DEF ToolInv, Back
<1> HIDE DEF E
<1>2. m \in {e[2] : e \in From(E, n)} <=> <<n, m>> \in E
  <2>1. ASSUME m \in {e[2] : e \in From(E, n)} PROVE <<n, m>> \in E
    <3>1. PICK e \in E : e[1] = n /\ e[2] = m
        BY <2>1 DEF From
    <3>2. e = <<e[1], e[2]>>
        BY <1>1
    <3>3. QED BY <3>1, <3>2
  <2>2. ASSUME <<n, m>> \in E PROVE m \in {e[2] : e \in From(E, n)}
    <3>1. <<n, m>>[1] = n /\ <<n, m>>[2] = m
        OBVIOUS
    <3>2. <<n, m>> \in From(E, n)
        BY <2>2, <3>1 DEF From
    <3>3. QED BY <3>1, <3>2
  <2>3. QED BY <2>1, <2>2
<1>3. QED BY <1>2 DEF Ahead, E

LEMMA AroundLinks == ASSUME ToolInv, NEW n, NEW m PROVE m \in Around(n) <=> <<n, m>> \in Links
<1>1. "up" # "down"
    OBVIOUS
<1>2. m \in Around(n) <=> <<n, m>> \in Back(calls \cup uses) \/ <<n, m>> \in calls \cup uses
    BY <1>1, AheadLinks DEF Around
<1>3. QED BY <1>2 DEF Links

LEMMA AroundSteps ==
    ASSUME ToolInv, NEW F PROVE UNION {Around(n) : n \in F} = Step(Links, F, Nodes)
<1>1. \A m : m \in UNION {Around(n) : n \in F} <=> \E n \in F : m \in Around(n)
    OBVIOUS
<1>2. \A m : m \in Step(Links, F, Nodes) <=> \E n \in F : <<n, m>> \in Links
  <2> TAKE m
  <2>1. ASSUME m \in Step(Links, F, Nodes) PROVE \E n \in F : <<n, m>> \in Links
    <3>1. PICK e \in Links : e[1] \in F /\ e[2] = m
        BY <2>1 DEF Step
    <3>2. e = <<e[1], e[2]>>
        BY LinksType
    <3>3. QED BY <3>1, <3>2
  <2>2. ASSUME NEW n \in F, <<n, m>> \in Links PROVE m \in Step(Links, F, Nodes)
    <3>1. <<n, m>>[1] = n /\ <<n, m>>[2] = m /\ m \in Nodes
        BY <2>2, LinksType
    <3>2. QED BY <2>2, <3>1 DEF Step
  <2>3. QED BY <2>1, <2>2
<1>3. QED BY <1>1, <1>2, AroundLinks

\* After k turns the scan has seen the ball of radius k, its rim being the frontier.
LEMMA ScanLoop == ASSUME ToolInv PROVE \A k \in Nat : Scan(k) = Ball(k)
<1> DEFINE S == [seen : SUBSET Nodes, frontier : SUBSET Nodes]
           s0 == [seen |-> {Root}, frontier |-> {Root}]
           New(s) == (UNION {Around(n) : n \in s.frontier}) \ s.seen
           Turn(s) == [seen |-> s.seen \cup New(s), frontier |-> New(s)]
           f == [s \in S |-> Turn(s)]
           Body(T) == [k \in Nat |-> IF k = 0 THEN s0 ELSE Turn(T[k - 1])]
           T == CHOOSE T : T = Body(T)
<1>1. Root \in Nodes
    BY DEF ToolInv, QueryWorld
<1>2. \A F : UNION {Around(n) : n \in F} \subseteq Nodes
    BY AheadType DEF Around
<1>3. f \in [S -> S] /\ s0 \in S
    BY <1>1, <1>2
<1>4. PICK g \in [Nat -> S] : g[0] = s0 /\ \A k \in Nat : g[k + 1] = f[g[k]]
  <2> HIDE DEF f, S, s0
  <2>1. QED BY <1>3, Iterates
<1>5. g = Body(g)
  <2> HIDE DEF s0, Turn, S
  <2>1. ASSUME NEW k \in Nat, k # 0 PROVE g[k] = Turn(g[k - 1])
    <3>1. k - 1 \in Nat /\ g[k - 1] \in S
        BY <1>4, <2>1
    <3>2. g[k - 1 + 1] = f[g[k - 1]]
        BY <1>4, <3>1
    <3>3. QED BY <3>1, <3>2
  <2>2. QED BY <1>4, <2>1
<1>6. T = Body(T)
    BY <1>5
<1>7. \A k \in Nat : Scan(k) = T[k].seen
    BY DEF Scan
<1> HIDE DEF T
<1>8. T[0] = s0 /\ \A k \in Nat : k # 0 => T[k] = Turn(T[k - 1])
  <2> HIDE DEF s0, Turn
  <2>1. QED BY <1>6
<1>9. \A k \in Nat : T[k + 1] = Turn(T[k])
  <2> HIDE DEF Turn
  <2> TAKE k \in Nat
  <2>1. k + 1 \in Nat /\ k + 1 # 0 /\ (k + 1) - 1 = k
      OBVIOUS
  <2>2. QED BY <1>8, <2>1
<1> DEFINE Good(k) ==
        /\ T[k].seen = Ball(k)
        /\ Step(Links, T[k].seen, Nodes) \subseteq T[k].seen \cup Step(Links, T[k].frontier, Nodes)
        /\ T[k].frontier \subseteq T[k].seen
<1>10. Good(0)
    BY <1>8, ReachZero DEF Ball
<1>11. ASSUME NEW k \in Nat, Good(k) PROVE Good(k + 1)
  <2> DEFINE N == Step(Links, T[k].frontier, Nodes) \ T[k].seen
  <2>1. T[k + 1].seen = T[k].seen \cup N /\ T[k + 1].frontier = N
    <3>1. New(T[k]) = N
        BY AroundSteps
    <3> HIDE DEF New, N
    <3>2. T[k + 1] = [seen |-> T[k].seen \cup New(T[k]), frontier |-> New(T[k])]
        BY <1>9
    <3>3. QED BY <3>1, <3>2
  <2>2. Ball(k + 1) = Ball(k) \cup Step(Links, Ball(k), Nodes)
      BY ReachNext DEF Ball
  <2>3. Step(Links, T[k].frontier, Nodes) \subseteq Step(Links, T[k].seen, Nodes)
      BY <1>11 DEF Step
  <2>4. Step(Links, T[k].seen \cup N, Nodes)
          = Step(Links, T[k].seen, Nodes) \cup Step(Links, N, Nodes)
      BY DEF Step
  <2> HIDE DEF Turn
  <2>5. T[k + 1].seen = Ball(k + 1)
      BY <1>11, <2>1, <2>2, <2>3
  <2>6. QED BY <1>11, <2>1, <2>3, <2>4, <2>5
<1>12. \A k \in Nat : Good(k)
  <2> DEFINE K == {k \in Nat : Good(k)}
  <2> HIDE DEF Good
  <2>1. 0 \in K /\ \A k \in Nat : k \in K => k + 1 \in K
      BY <1>10, <1>11
  <2>2. Nat \subseteq K
    <3> HIDE DEF K
    <3>1. QED BY <2>1, Induct
  <2>3. QED BY <2>2
<1>13. QED BY <1>7, <1>12

\* What holds at the root and goes on by turns holds throughout.
LEMMA WalkInduct ==
    ASSUME NEW blocked, NEW d \in Nat, NEW T, WalkRun(T, blocked, d), NEW I, AtRoot \in I,
           \A t \in WalkState : t \in I /\ ~WalkDone(t) => Hop(t, blocked, d) \in I
    PROVE  \A k \in Nat : T[k] \in I
<1> DEFINE K == {k \in Nat : T[k] \in I}
<1>1. 0 \in K
    BY DEF WalkRun
<1>2. ASSUME NEW k \in Nat, k \in K PROVE k + 1 \in K
    BY <1>2 DEF WalkRun
<1>3. Nat \subseteq K
  <2> HIDE DEF K
  <2>1. QED BY <1>1, <1>2, Induct
<1>4. QED BY <1>3

(***************************************************************************)
(* The summary of a traversal                                              *)
(***************************************************************************)
Crossed(emitted) == {e \in ToSet(emitted) \X Nodes : e[2] \in Around(e[1])}
Near(emitted, k) == Reach(Crossed(emitted), Root, Nodes, k)

LEMMA SummaryInBall ==
    ASSUME ToolInv, NEW emitted, NEW d \in Nat
    PROVE  Summary(emitted, d) = Near(emitted, d) \ {Root} /\ Near(emitted, d) \subseteq Ball(d)
<1>1. Crossed(emitted) \subseteq Links
  <2>1. ASSUME NEW e \in Crossed(emitted) PROVE e \in Links
    <3>1. e = <<e[1], e[2]>> /\ e[2] \in Around(e[1])
        BY DEF Crossed
    <3>2. QED BY <3>1, AroundLinks
  <2>2. QED BY <2>1
<1>2. QED BY <1>1, ReachWider DEF Summary, Near, Crossed, Ball

LEMMA NearGrows ==
    ASSUME NEW em, NEW more, ToSet(em) \subseteq ToSet(more), NEW j \in Nat, NEW k \in Nat, j <= k
    PROVE  Near(em, j) \subseteq Near(more, k)
<1>1. Crossed(em) \subseteq Crossed(more)
    BY DEF Crossed
<1>2. Near(em, j) \subseteq Near(em, k)
    BY ReachGrows DEF Near
<1>3. Near(em, k) \subseteq Near(more, k)
    BY <1>1, ReachWider DEF Near
<1>4. QED BY <1>2, <1>3

\* What a traversal emits, and the queue holds, lies on a path through what it emitted.
Traced(t, d) ==
    /\ QueueOrder(t)
    /\ \A i \in 1 .. Len(t.queue) :
          /\ t.queue[i].at <= d
          /\ t.queue[i].node \in Near(t.emitted, t.queue[i].at)
          /\ t.emitted # <<>> => t.held \in Near(t.emitted, t.queue[i].at)
    /\ t.emitted # <<>> => t.held \in ToSet(t.emitted)
    /\ ToSet(t.emitted) \subseteq Near(t.emitted, d)

LEMMA HopTraced ==
    ASSUME ToolInv, NEW blocked, NEW d \in Nat, NEW t \in WalkState, t.queue # <<>>,
           NEW u, u = Hop(t, blocked, d), Traced(t, d)
    PROVE  Traced(u, d)
<1> DEFINE F == IF Skips(t, blocked) THEN {} ELSE Fresh(t, d)
<1>1. Requeued(t, u, F)
    BY HopQueue
<1> HIDE DEF F
<1>2. u \in WalkState
    BY HopSkips, HopExpands
<1>3. /\ \A i \in 1 .. Len(t.queue) : t.queue[i] \in Entry
      /\ \A i \in 1 .. Len(u.queue) : u.queue[i] \in Entry
      /\ Len(t.queue) \in Nat \ {0} /\ Len(u.queue) \in Nat
      /\ t.emitted \in Seq(Nodes) /\ u.emitted \in Seq(Nodes)
    BY <1>2 DEF WalkState
<1>4. /\ \A i \in 1 .. Len(t.queue) : t.queue[i].at \in Nat
      /\ \A i \in 1 .. Len(u.queue) : u.queue[i].at \in Nat
    BY <1>3 DEF Entry
<1>5. Cur(t) = t.queue[1] /\ Cur(t).at \in Nat /\ 1 \in 1 .. Len(t.queue)
    BY <1>3, <1>4 DEF Cur
<1>6. QueueOrder(u) /\ \A i \in 1 .. Len(u.queue) : u.queue[i].at >= Cur(t).at
    BY HopOrder DEF Traced
<1>7. /\ Cur(t).at <= d /\ Cur(t).node \in Near(t.emitted, Cur(t).at)
      /\ t.emitted # <<>> => t.held \in Near(t.emitted, Cur(t).at) /\ t.held \in ToSet(t.emitted)
    BY <1>5 DEF Traced
<1>8. CASE Skips(t, blocked)
  <2>1. u.emitted = t.emitted /\ u.held = t.held /\ F = {}
      BY <1>8, HopSkips DEF F
  <2>2. ASSUME NEW i \in 1 .. Len(u.queue)
        PROVE  i + 1 \in 1 .. Len(t.queue) /\ u.queue[i] = t.queue[i + 1]
    <3>1. i < Len(t.queue)
        BY <1>1, <1>3, <2>1 DEF Requeued
    <3>2. QED BY <1>1, <1>3, <3>1 DEF Requeued
  <2>3. QED BY <1>6, <2>1, <2>2 DEF Traced
<1>9. CASE ~Skips(t, blocked)
  <2>1. /\ u.emitted = IF Cur(t).node \in ToSet(t.emitted) THEN t.emitted
                       ELSE Append(t.emitted, Cur(t).node)
        /\ u.held = Held(t) /\ F = Fresh(t, d)
    <3>1. Expanded(t, d, u)
        BY <1>9, HopExpands
    <3>2. F = Fresh(t, d)
        BY <1>9 DEF F
    <3>3. QED BY <3>1, <3>2 DEF Expanded
  <2>2. /\ ToSet(t.emitted) \subseteq ToSet(u.emitted)
        /\ ToSet(u.emitted) = ToSet(t.emitted) \cup {Cur(t).node}
    <3>1. CASE Cur(t).node \in ToSet(t.emitted)
        BY <2>1, <3>1
    <3>2. CASE Cur(t).node \notin ToSet(t.emitted)
      <4>1. u.emitted = Append(t.emitted, Cur(t).node)
          BY <2>1, <3>2
      <4>2. Cur(t).node \in Nodes
          BY <1>3, <1>5 DEF Entry
      <4>3. QED BY <1>3, <4>1, <4>2, AppendedSet
    <3>3. QED BY <3>1, <3>2
  <2>3. \A j, k \in Nat : j <= k => Near(t.emitted, j) \subseteq Near(u.emitted, k)
      BY <2>2, NearGrows
  <2>4. u.held \in ToSet(u.emitted) /\ u.held \in Near(u.emitted, Cur(t).at)
    <3>1. CASE Cur(t).node \in ToSet(t.emitted)
      <4>1. t.emitted # <<>> /\ u.held = t.held
          BY <1>3, <2>1, <3>1 DEF Held, ToSet
      <4>2. QED BY <1>5, <1>7, <2>2, <2>3, <4>1
    <3>2. CASE Cur(t).node \notin ToSet(t.emitted)
      <4>1. u.held = Cur(t).node
          BY <2>1, <3>2 DEF Held
      <4>2. QED BY <1>5, <1>7, <2>2, <2>3, <4>1
    <3>3. QED BY <3>1, <3>2
  <2>5. \A k \in Nat : Cur(t).at <= k => u.held \in Near(u.emitted, k)
      BY <1>5, <2>4, NearGrows
  <2>6. ASSUME NEW n \in F PROVE Cur(t).at < d /\ n \in Near(u.emitted, Cur(t).at + 1)
    <3>1. Cur(t).at < d /\ n \in Ahead(u.held, Cur(t).dir) /\ n \in Nodes
        BY <2>1, EntriesType DEF Fresh
    <3>2. n \in Around(u.held)
      <4>1. Cur(t).dir \in Dirs
          BY <1>3, <1>5 DEF Entry
      <4>2. QED BY <3>1, <4>1 DEF Around, Dirs
    <3>3. <<u.held, n>> \in Crossed(u.emitted)
      <4>1. <<u.held, n>>[1] = u.held /\ <<u.held, n>>[2] = n
          OBVIOUS
      <4>2. QED BY <2>4, <3>1, <3>2, <4>1 DEF Crossed
    <3>4. QED BY <1>5, <2>4, <3>1, <3>3, ReachStep DEF Near
  <2>7. ASSUME NEW i \in 1 .. Len(u.queue)
        PROVE  u.queue[i].at <= d /\ u.queue[i].node \in Near(u.emitted, u.queue[i].at)
    <3>1. CASE i < Len(t.queue)
      <4>1. i + 1 \in 1 .. Len(t.queue) /\ u.queue[i] = t.queue[i + 1]
          BY <1>1, <1>3, <3>1 DEF Requeued
      <4>2. t.queue[i + 1].at <= d /\ t.queue[i + 1].at \in Nat
            /\ t.queue[i + 1].node \in Near(t.emitted, t.queue[i + 1].at)
          BY <1>4, <4>1 DEF Traced
      <4>3. Near(t.emitted, t.queue[i + 1].at) \subseteq Near(u.emitted, t.queue[i + 1].at)
        <5>1. PICK j \in Nat : j = t.queue[i + 1].at
            BY <4>2
        <5>2. Near(t.emitted, j) \subseteq Near(u.emitted, j)
            BY <2>3, <5>1
        <5>3. QED BY <5>1, <5>2
      <4>4. QED BY <4>1, <4>2, <4>3
    <3>2. CASE i >= Len(t.queue)
      <4>1. u.queue[i].node \in F /\ u.queue[i].at = Cur(t).at + 1
          BY <1>1, <3>2 DEF Requeued
      <4>2. QED BY <1>5, <2>6, <4>1
    <3>3. QED BY <1>3, <3>1, <3>2
  <2>8. ToSet(u.emitted) \subseteq Near(u.emitted, d)
    <3>1. ToSet(t.emitted) \subseteq Near(u.emitted, d)
        BY <2>2, NearGrows DEF Traced
    <3>2. Cur(t).node \in Near(u.emitted, d)
        BY <1>5, <1>7, <2>2, NearGrows
    <3>3. QED BY <2>2, <3>1, <3>2
  <2>9. \A i \in 1 .. Len(u.queue) : u.held \in Near(u.emitted, u.queue[i].at)
      BY <1>4, <1>6, <2>5
  <2>10. QED BY <1>6, <2>4, <2>7, <2>8, <2>9 DEF Traced
<1>10. QED BY <1>8, <1>9

LEMMA RootTraced == ASSUME ToolInv, NEW d \in Nat PROVE Traced(AtRoot, d)
<1>1. /\ AtRoot.queue = <<[node |-> Root, at |-> 0, dir |-> "up"],
                          [node |-> Root, at |-> 0, dir |-> "down"]>>
      /\ AtRoot.emitted = <<>>
    BY DEF AtRoot
<1>2. /\ Len(AtRoot.queue) = 2
      /\ \A i \in 1 .. 2 : AtRoot.queue[i].at = 0 /\ AtRoot.queue[i].node = Root
    BY <1>1
<1>3. Root \in Near(<<>>, 0)
    BY ReachZero DEF Near
<1>4. ToSet(AtRoot.emitted) = {}
    BY <1>1 DEF ToSet
<1>5. QED BY <1>1, <1>2, <1>3, <1>4 DEF Traced, QueueOrder, Cur

LEMMA TraverseTraced ==
    ASSUME ToolInv, NEW blocked, NEW d \in Nat
    PROVE  ToSet(Traverse(blocked, d)) \subseteq Near(Traverse(blocked, d), d)
<1> DEFINE N == 2 * Cardinality(Nodes)
           I == {t \in WalkState : Traced(t, d)}
<1>1. PICK T : WalkRun(T, blocked, d) /\ Walk(blocked, d) = T[N]
    BY WalkTurns
<1>2. N \in Nat
    BY FS_CardinalityType DEF ToolInv, QueryWorld
<1> HIDE DEF N
<1>3. AtRoot \in I
    BY <1>1, RootTraced DEF WalkRun
<1>4. ASSUME NEW t \in WalkState, t \in I, ~WalkDone(t) PROVE Hop(t, blocked, d) \in I
  <2>1. t.queue # <<>> /\ Traced(t, d)
      BY <1>4 DEF WalkDone
  <2>2. Hop(t, blocked, d) \in WalkState
      BY <2>1, HopSkips, HopExpands
  <2>3. QED BY <2>1, <2>2, HopTraced
<1>5. T[N] \in I
  <2> HIDE DEF I
  <2>1. QED BY <1>1, <1>2, <1>3, <1>4, WalkInduct
<1>6. QED BY <1>1, <1>5 DEF Traced, Traverse

(***************************************************************************)
(* The search for a path                                                   *)
(***************************************************************************)
Paths == {p \in Seq(Nodes) : p # <<>>}
PathState == [queue : Seq(Paths), visited : SUBSET Nodes, found : Seq(Nodes)]
AtFirst == [queue |-> << <<Root>> >>, visited |-> {Root}, found |-> <<>>]
PathDone(t) == t.queue = <<>> \/ t.found # <<>>

Top(t) == t.queue[1]
Unseen(t, d) == IF Len(Top(t)) - 1 >= d THEN {} ELSE Around(Last(Top(t))) \ t.visited
Longer(t, d) == {Append(Top(t), n) : n \in Unseen(t, d)}
Meets(t, d) == Len(Top(t)) - 1 < d /\ Goal \in Around(Last(Top(t)))

LEMMA LongerPath ==
    ASSUME ToolInv, NEW p \in Paths, NEW n \in Nodes
    PROVE  /\ Append(p, n) \in Paths /\ Len(Append(p, n)) = Len(p) + 1 /\ Len(p) \in Nat \ {0}
           /\ \A i \in 1 .. Len(p) : Append(p, n)[i] = p[i]
           /\ Append(p, n)[Len(p) + 1] = n /\ Last(Append(p, n)) = n
           /\ Last(p) = p[Len(p)] /\ Last(p) \in Nodes
<1>1. p \in Seq(Nodes) /\ p # <<>>
    BY DEF Paths
<1>2. /\ Append(p, n) \in Seq(Nodes) /\ Len(Append(p, n)) = Len(p) + 1
      /\ \A i \in 1 .. Len(p) : Append(p, n)[i] = p[i]
      /\ Append(p, n)[Len(p) + 1] = n
    BY <1>1, AppendProperties
<1>3. Len(p) \in Nat \ {0}
    BY <1>1, LenProperties, EmptySeq
<1>4. Append(p, n) # <<>>
    BY <1>2, <1>3
<1>5. Last(Append(p, n)) = n
    BY <1>2 DEF Last
<1>6. Last(p) = p[Len(p)] /\ Last(p) \in Nodes
    BY <1>1, <1>3 DEF Last
<1>7. QED BY <1>2, <1>3, <1>4, <1>5, <1>6 DEF Paths

LEMMA LongerType ==
    ASSUME ToolInv, NEW d \in Nat, NEW t \in PathState, t.queue # <<>>
    PROVE  /\ Top(t) \in Paths /\ Len(Top(t)) \in Nat \ {0} /\ Last(Top(t)) \in Nodes
           /\ Len(t.queue) \in Nat \ {0}
           /\ Head(t.queue) = Top(t)
           /\ Unseen(t, d) \in SUBSET Nodes /\ Longer(t, d) \in SUBSET Paths
           /\ IsFiniteSet(Unseen(t, d)) /\ IsFiniteSet(Longer(t, d))
           /\ Cardinality(Longer(t, d)) = Cardinality(Unseen(t, d))
<1>1. t.queue \in Seq(Paths)
    BY DEF PathState
<1>2. /\ Top(t) \in Paths /\ Head(t.queue) = Top(t) /\ Len(t.queue) \in Nat \ {0}
    BY <1>1 DEF Top
<1>3. Len(Top(t)) \in Nat \ {0} /\ Last(Top(t)) \in Nodes
  <2>1. Root \in Nodes
      BY DEF ToolInv, QueryWorld
  <2>2. QED BY <1>2, <2>1, LongerPath
<1>4. Unseen(t, d) \in SUBSET Nodes
    BY AheadType DEF Unseen, Around
<1>5. IsFiniteSet(Unseen(t, d))
    BY <1>4, FS_Subset DEF ToolInv, QueryWorld
<1>6. Longer(t, d) \in SUBSET Paths
  <2>1. \A n \in Unseen(t, d) : Append(Top(t), n) \in Paths
      BY <1>2, <1>4, LongerPath
  <2>2. QED BY <2>1 DEF Longer
<1> DEFINE f == [n \in Unseen(t, d) |-> Append(Top(t), n)]
<1>7. f \in Surjection(Unseen(t, d), Longer(t, d)) /\ f \in Injection(Unseen(t, d), Longer(t, d))
  <2>1. f \in [Unseen(t, d) -> Longer(t, d)]
      BY DEF Longer
  <2>2. \A x \in Longer(t, d) : \E n \in Unseen(t, d) : f[n] = x
      BY DEF Longer
  <2>3. \A m, n \in Unseen(t, d) : f[m] = f[n] => m = n
    <3>1. \A n \in Unseen(t, d) : f[n][Len(Top(t)) + 1] = n
        BY <1>2, <1>4, LongerPath
    <3> HIDE DEF f
    <3>2. QED BY <3>1
  <2> HIDE DEF f
  <2>4. IsInjective(f)
      BY <2>1, <2>3 DEF IsInjective
  <2>5. QED BY <2>1, <2>2, <2>4 DEF Surjection, Injection
<1> HIDE DEF f
<1>8. QED BY <1>2, <1>3, <1>4, <1>5, <1>6, <1>7, FS_Surjection

\* A turn meets the goal,
LEMMA ExtendMeets ==
    ASSUME ToolInv, NEW d \in Nat, NEW t \in PathState, t.queue # <<>>, Meets(t, d),
           NEW u, u = Extend(t, d)
    PROVE  /\ u \in PathState /\ u.found = Append(Top(t), Goal)
           /\ u.queue = t.queue /\ u.visited = t.visited
<1>1. Head(t.queue) = Top(t) /\ Top(t) \in Paths /\ Len(Top(t)) \in Nat
    BY LongerType
<1>2. ~(Len(Top(t)) - 1 >= d) /\ Goal \in Around(Last(Top(t)))
    BY <1>1 DEF Meets
<1>3. u = [t EXCEPT !.found = Append(Top(t), Goal)]
    BY <1>1, <1>2 DEF Extend
<1>4. Append(Top(t), Goal) \in Seq(Nodes)
    BY <1>1, LongerPath DEF Paths, ToolInv, QueryWorld
<1>5. QED BY <1>3, <1>4 DEF PathState

\* or takes a path off the queue and adds the paths one longer.
Lengthened(t, d, u) ==
    /\ Rotated(Paths, t.queue, Longer(t, d), u.queue)
    /\ u.visited = t.visited \cup Unseen(t, d) /\ u.found = t.found

LEMMA ExtendLengthens ==
    ASSUME ToolInv, NEW d \in Nat, NEW t \in PathState, t.queue # <<>>, ~Meets(t, d),
           NEW u, u = Extend(t, d)
    PROVE  u \in PathState /\ Lengthened(t, d, u)
<1>1. /\ Head(t.queue) = Top(t) /\ Top(t) \in Paths /\ Len(Top(t)) \in Nat
      /\ Unseen(t, d) \in SUBSET Nodes /\ Longer(t, d) \in SUBSET Paths
      /\ IsFiniteSet(Longer(t, d))
    BY LongerType
<1>2. t.queue \in Seq(Paths)
    BY DEF PathState
<1>3. CASE Len(Top(t)) - 1 >= d
  <2>1. u = [t EXCEPT !.queue = Tail(@)]
      BY <1>1, <1>3 DEF Extend
  <2>2. Unseen(t, d) = {} /\ Longer(t, d) = {}
      BY <1>3 DEF Unseen, Longer
  <2>3. /\ Tail(t.queue) \in Seq(Paths) /\ Len(Tail(t.queue)) = Len(t.queue) - 1
        /\ \A i \in 1 .. Len(t.queue) - 1 : Tail(t.queue)[i] = t.queue[i + 1]
      BY <1>2, HeadTailProperties
  <2>4. Cardinality({}) = 0
      BY FS_EmptySet
  <2>5. Len(t.queue) \in Nat \ {0}
      BY <1>2, LenProperties, EmptySeq
  <2>6. Rotated(Paths, t.queue, {}, Tail(t.queue))
      BY <2>3, <2>4, <2>5 DEF Rotated
  <2>7. u.queue = Tail(t.queue) /\ u.visited = t.visited /\ u.found = t.found
      BY <2>1 DEF PathState
  <2>8. u \in PathState
      BY <2>1, <2>3 DEF PathState
  <2>9. QED BY <2>2, <2>6, <2>7, <2>8 DEF Lengthened
<1>4. CASE ~(Len(Top(t)) - 1 >= d)
  <2>1. Goal \notin Around(Last(Top(t)))
      BY <1>1, <1>4 DEF Meets
  <2>2. Unseen(t, d) = Around(Last(Top(t))) \ t.visited
      BY <1>4 DEF Unseen
  <2>3. u = [t EXCEPT !.queue = Tail(@) \o SetToSeq({Append(Top(t), n) : n \in Unseen(t, d)}),
                      !.visited = @ \cup Unseen(t, d)]
      BY <1>1, <1>4, <2>1, <2>2 DEF Extend
  <2>4. /\ u.queue = Tail(t.queue) \o SetToSeq(Longer(t, d))
        /\ u.visited = t.visited \cup Unseen(t, d) /\ u.found = t.found
      BY <2>3 DEF PathState, Longer
  <2>5. Rotated(Paths, t.queue, Longer(t, d), u.queue)
      BY <1>1, <1>2, <2>4, Requeue
  <2>6. u.queue \in Seq(Paths)
      BY <2>5 DEF Rotated
  <2>7. u \in PathState
      BY <1>1, <2>3, <2>4, <2>6 DEF PathState
  <2>8. QED BY <2>4, <2>5, <2>7 DEF Lengthened
<1>5. QED BY <1>3, <1>4

\* The turns of a search
PathRun(T, d) ==
    /\ T \in [Nat -> PathState] /\ T[0] = AtFirst
    /\ \A k \in Nat : T[k + 1] = IF PathDone(T[k]) THEN T[k] ELSE Extend(T[k], d)

LEMMA PathTurns ==
    ASSUME ToolInv, NEW d \in Nat
    PROVE  \E T : PathRun(T, d) /\ FindPathBfs(d) = T[Cardinality(Nodes)].found
<1> DEFINE Turn(t) == IF PathDone(t) THEN t ELSE Extend(t, d)
           f == [t \in PathState |-> Turn(t)]
           Body(T) == [k \in Nat |-> IF k = 0 THEN AtFirst ELSE Turn(T[k - 1])]
           T == CHOOSE T : T = Body(T)
<1>1. f \in [PathState -> PathState]
  <2>1. ASSUME NEW t \in PathState, ~PathDone(t) PROVE Extend(t, d) \in PathState
      BY <2>1, ExtendMeets, ExtendLengthens DEF PathDone
  <2>2. QED BY <2>1
<1>2. AtFirst \in PathState
  <2>1. Root \in Nodes
      BY DEF ToolInv, QueryWorld
  <2>2. <<Root>> \in Paths
      BY <2>1 DEF Paths
  <2>3. QED BY <2>1, <2>2 DEF AtFirst, PathState
<1>3. PICK g \in [Nat -> PathState] : g[0] = AtFirst /\ \A k \in Nat : g[k + 1] = f[g[k]]
  <2> HIDE DEF f
  <2>1. QED BY <1>1, <1>2, Iterates
<1>4. g = Body(g)
  <2> HIDE DEF Turn
  <2>1. ASSUME NEW k \in Nat, k # 0 PROVE g[k] = Turn(g[k - 1])
    <3>1. k - 1 \in Nat /\ g[k - 1] \in PathState
        BY <1>3, <2>1
    <3>2. g[k - 1 + 1] = f[g[k - 1]]
        BY <1>3, <3>1
    <3>3. QED BY <3>1, <3>2
  <2>2. QED BY <1>3, <2>1
<1>5. T = Body(T)
    BY <1>4
<1>6. FindPathBfs(d) = T[Cardinality(Nodes)].found
    BY DEF FindPathBfs, PathDone, AtFirst
<1> HIDE DEF T, Turn
<1>7. T[0] = AtFirst /\ \A k \in Nat : k # 0 => T[k] = Turn(T[k - 1])
    BY <1>5
<1>8. \A k \in Nat : T[k + 1] = Turn(T[k])
  <2> TAKE k \in Nat
  <2>1. k + 1 \in Nat /\ k + 1 # 0 /\ (k + 1) - 1 = k
      OBVIOUS
  <2>2. QED BY <1>7, <2>1
<1>9. T \in [Nat -> PathState]
  <2> DEFINE K == {k \in Nat : T[k] \in PathState}
  <2>1. 0 \in K
      BY <1>2, <1>7
  <2>2. ASSUME NEW k \in Nat, k \in K PROVE k + 1 \in K
      BY <1>1, <1>8, <2>2
  <2>3. Nat \subseteq K
    <3> HIDE DEF K
    <3>1. QED BY <2>1, <2>2, Induct
  <2>4. T = [k \in Nat |-> T[k]]
      BY <1>5
  <2>5. QED BY <2>3, <2>4
<1>10. QED BY <1>6, <1>7, <1>8, <1>9 DEF Turn, PathRun

LEMMA PathInduct ==
    ASSUME NEW d \in Nat, NEW T, PathRun(T, d), NEW I, AtFirst \in I,
           \A t \in PathState : t \in I /\ ~PathDone(t) => Extend(t, d) \in I
    PROVE  \A k \in Nat : T[k] \in I
<1> DEFINE K == {k \in Nat : T[k] \in I}
<1>1. 0 \in K
    BY DEF PathRun
<1>2. ASSUME NEW k \in Nat, k \in K PROVE k + 1 \in K
    BY <1>2 DEF PathRun
<1>3. Nat \subseteq K
  <2> HIDE DEF K
  <2>1. QED BY <1>1, <1>2, Induct
<1>4. QED BY <1>3

LEMMA PathEnds ==
    ASSUME ToolInv, NEW d \in Nat, NEW T, PathRun(T, d)
    PROVE  PathDone(T[Cardinality(Nodes)])
<1> DEFINE N == Cardinality(Nodes)
           Counts(k) == PathDone(T[k]) \/ k + Len(T[k].queue) = Cardinality(T[k].visited)
           K == {k \in Nat : Counts(k)}
<1>1. \A k \in Nat : T[k] \in PathState
    BY DEF PathRun
<1>2. IsFiniteSet(Nodes) /\ N \in Nat
    BY FS_CardinalityType DEF ToolInv, QueryWorld
<1>3. ASSUME NEW V \in SUBSET Nodes
      PROVE  IsFiniteSet(V) /\ Cardinality(V) \in Nat /\ Cardinality(V) <= N
    BY <1>2, FS_Subset, FS_CardinalityType
<1>4. 0 \in K
  <2>1. T[0] = AtFirst /\ Len(AtFirst.queue) = 1 /\ AtFirst.visited = {Root}
      BY DEF PathRun, AtFirst
  <2>2. Cardinality({Root}) = 1
      BY FS_Singleton
  <2>3. 0 + Len(T[0].queue) = Cardinality(T[0].visited)
      BY <2>1, <2>2
  <2>4. QED BY <2>3
<1>5. ASSUME NEW k \in Nat, k \in K PROVE k + 1 \in K
  <2>1. CASE PathDone(T[k])
      BY <2>1 DEF PathRun
  <2>2. CASE ~PathDone(T[k])
    <3>1. T[k] \in PathState /\ T[k].queue # <<>> /\ T[k + 1] = Extend(T[k], d)
        BY <1>1, <2>2 DEF PathRun, PathDone
    <3>2. k + Len(T[k].queue) = Cardinality(T[k].visited)
        BY <1>5, <2>2
    <3>3. CASE Meets(T[k], d)
      <4>1. T[k + 1].found = Append(Top(T[k]), Goal)
          BY <3>1, <3>3, ExtendMeets
      <4>2. T[k + 1].found # <<>>
        <5>1. Top(T[k]) \in Paths /\ Goal \in Nodes
            BY <3>1, LongerType DEF ToolInv, QueryWorld
        <5>2. Append(Top(T[k]), Goal) \in Paths
            BY <5>1, LongerPath
        <5>3. QED BY <4>1, <5>2 DEF Paths
      <4>3. QED BY <4>2 DEF PathDone
    <3>4. CASE ~Meets(T[k], d)
      <4> DEFINE t == T[k]
                 u == T[k + 1]
      <4>1. Lengthened(t, d, u) /\ u \in PathState
          BY <3>1, <3>4, ExtendLengthens
      <4>2. /\ Len(t.queue) \in Nat \ {0} /\ Unseen(t, d) \in SUBSET Nodes
            /\ Cardinality(Longer(t, d)) = Cardinality(Unseen(t, d))
          BY <3>1, LongerType
      <4>3. /\ t.visited \in SUBSET Nodes /\ u.visited \in SUBSET Nodes
            /\ u.visited = t.visited \cup Unseen(t, d)
          BY <3>1, <4>1 DEF PathState, Lengthened
      <4>4. Len(u.queue) = Len(t.queue) - 1 + Cardinality(Unseen(t, d))
          BY <4>1, <4>2 DEF Lengthened, Rotated
      <4>5. Cardinality(u.visited) = Cardinality(t.visited) + Cardinality(Unseen(t, d))
        <5>1. t.visited \cap Unseen(t, d) = {}
            BY DEF Unseen
        <5>2. Cardinality(t.visited \cap Unseen(t, d)) = 0
            BY <5>1, FS_EmptySet
        <5>3. /\ IsFiniteSet(t.visited) /\ IsFiniteSet(Unseen(t, d))
              /\ Cardinality(t.visited) \in Nat /\ Cardinality(Unseen(t, d)) \in Nat
            BY <1>3, <4>2, <4>3
        <5>4. Cardinality(t.visited \cup Unseen(t, d))
                = Cardinality(t.visited) + Cardinality(Unseen(t, d)) - 0
            BY <5>2, <5>3, FS_Union
        <5>5. QED BY <4>3, <5>3, <5>4
      <4>6. /\ Cardinality(t.visited) \in Nat /\ Cardinality(Unseen(t, d)) \in Nat
            /\ Cardinality(u.visited) \in Nat
          BY <1>3, <4>2, <4>3
      <4>7. PICK x, v, w, c \in Nat :
                /\ x = Len(t.queue) /\ v = Cardinality(t.visited)
                /\ w = Cardinality(u.visited) /\ c = Cardinality(Unseen(t, d))
          BY <4>2, <4>6, Zenon
      <4>8. k + x = v /\ w = v + c /\ Len(u.queue) = x - 1 + c
          BY <3>2, <4>4, <4>5, <4>7, Zenon
      <4>9. (k + 1) + Len(u.queue) = w
          BY <4>8
      <4>10. (k + 1) + Len(u.queue) = Cardinality(u.visited)
          BY <4>7, <4>9, Zenon
      <4> PICK m \in Nat : m = k + 1
          OBVIOUS
      <4>11. m + Len(T[m].queue) = Cardinality(T[m].visited)
          BY <4>10
      <4>12. QED BY <4>11
    <3>5. QED BY <3>3, <3>4
  <2>3. QED BY <2>1, <2>2
<1>6. N \in K
  <2> HIDE DEF K, N
  <2>1. QED BY <1>2, <1>4, <1>5, Induct
<1>7. CASE N + Len(T[N].queue) = Cardinality(T[N].visited)
  <2>1. T[N].queue \in Seq(Paths) /\ T[N].visited \in SUBSET Nodes
      BY <1>1, <1>2 DEF PathState
  <2>2. /\ Len(T[N].queue) \in Nat /\ Cardinality(T[N].visited) \in Nat
        /\ Cardinality(T[N].visited) <= N
      BY <1>3, <2>1
  <2>3. Len(T[N].queue) = 0
      BY <1>2, <1>7, <2>2
  <2>4. T[N].queue = <<>>
      BY <2>1, <2>3
  <2>5. QED BY <2>4 DEF PathDone
<1>8. QED BY <1>6, <1>7

\* A path from the root along edges, no longer than need be
Shortest(p) ==
    /\ p \in Paths /\ p[1] = Root /\ \A i \in 1 .. Len(p) - 1 : <<p[i], p[i + 1]>> \in Links
    /\ Last(p) \in Ball(Len(p) - 1) /\ \A j \in 0 .. Len(p) - 2 : Last(p) \notin Ball(j)

LEMMA ShortestLonger ==
    ASSUME ToolInv, NEW p, Shortest(p), NEW n \in Around(Last(p)), n \notin Ball(Len(p) - 1)
    PROVE  Shortest(Append(p, n))
<1>1. n \in Nodes
    BY AheadType DEF Around
<1>2. p \in Paths
    BY DEF Shortest
<1> DEFINE q == Append(p, n)
<1>3. /\ q \in Paths /\ Len(q) = Len(p) + 1 /\ Len(p) \in Nat \ {0}
      /\ \A i \in 1 .. Len(p) : q[i] = p[i]
      /\ q[Len(p) + 1] = n /\ Last(q) = n /\ Last(p) = p[Len(p)]
    BY <1>1, <1>2, LongerPath
<1> HIDE DEF q
<1>4. q[1] = Root
    BY <1>3 DEF Shortest
<1>5. ASSUME NEW i \in 1 .. Len(q) - 1 PROVE <<q[i], q[i + 1]>> \in Links
  <2>1. CASE i = Len(p)
    <3>1. q[i] = Last(p) /\ q[i + 1] = n
        BY <1>3, <2>1
    <3>2. QED BY <3>1, AroundLinks
  <2>2. CASE i # Len(p)
    <3>1. i \in 1 .. Len(p) - 1 /\ i \in 1 .. Len(p) /\ i + 1 \in 1 .. Len(p)
        BY <1>3, <2>2
    <3>2. QED BY <1>3, <3>1 DEF Shortest
  <2>3. QED BY <2>1, <2>2
<1>6. Last(q) \in Ball(Len(q) - 1)
  <2>1. PICK k \in Nat : k = Len(p) - 1 /\ k + 1 = Len(q) - 1
      BY <1>3
  <2>2. Last(p) \in Ball(k) /\ <<Last(p), n>> \in Links
      BY <2>1, AroundLinks DEF Shortest
  <2>3. n \in Ball(k + 1)
      BY <1>1, <2>1, <2>2, ReachStep DEF Ball
  <2>4. QED BY <1>3, <2>1, <2>3
<1>7. ASSUME NEW j \in 0 .. Len(q) - 2 PROVE Last(q) \notin Ball(j)
  <2>1. PICK k \in Nat : k = Len(p) - 1 /\ j <= k /\ j \in Nat
      BY <1>3
  <2>2. Ball(j) \subseteq Ball(k)
      BY <2>1, ReachGrows DEF Ball
  <2>3. QED BY <1>3, <2>1, <2>2
<1>8. Shortest(q)
    BY <1>3, <1>4, <1>5, <1>6, <1>7 DEF Shortest
<1>9. QED BY <1>8 DEF q

\* The queue holds shortest paths in order of length; the symbols met end a path in the queue
\* or have had their neighbors met, as far as the depth goes; the goal is not among them.
Searched(t, d) ==
    /\ \A i \in 1 .. Len(t.queue) :
          Shortest(t.queue[i]) /\ Len(t.queue[i]) - 1 <= d /\ Len(t.queue[i]) <= Len(Top(t)) + 1
    /\ \A i, j \in 1 .. Len(t.queue) : i <= j => Len(t.queue[i]) <= Len(t.queue[j])
    /\ t.queue # <<>> => Ball(Len(Top(t)) - 1) \subseteq t.visited
    /\ Root \in t.visited /\ Goal \notin t.visited
    /\ \A m \in t.visited :
          \/ \E i \in 1 .. Len(t.queue) : Last(t.queue[i]) = m
          \/ \A k \in Nat : k < d /\ m \in Ball(k) => Around(m) \subseteq t.visited
    /\ t.found # <<>> => Shortest(t.found) /\ Last(t.found) = Goal /\ Len(t.found) - 1 <= d

LEMMA ExtendSearched ==
    ASSUME ToolInv, NEW d \in Nat, NEW t \in PathState, ~PathDone(t), Searched(t, d),
           NEW u, u = Extend(t, d)
    PROVE  Searched(u, d)
<1>1. t.queue # <<>> /\ t.found = <<>>
    BY DEF PathDone
<1>2. /\ Top(t) \in Paths /\ Len(Top(t)) \in Nat \ {0} /\ Last(Top(t)) \in Nodes
      /\ Len(t.queue) \in Nat \ {0} /\ t.queue \in Seq(Paths)
    BY <1>1, LongerType DEF PathState
<1>3. 1 \in 1 .. Len(t.queue) /\ Shortest(Top(t)) /\ Len(Top(t)) - 1 <= d
      /\ Ball(Len(Top(t)) - 1) \subseteq t.visited
    BY <1>1, <1>2 DEF Searched, Top
<1>4. CASE Meets(t, d)
  <2>1. u.queue = t.queue /\ u.visited = t.visited /\ u.found = Append(Top(t), Goal)
      BY <1>1, <1>4, ExtendMeets
  <2>2. Goal \in Around(Last(Top(t))) /\ Len(Top(t)) - 1 < d
      BY <1>4 DEF Meets
  <2>3. Goal \notin Ball(Len(Top(t)) - 1)
      BY <1>3 DEF Searched
  <2>4. Shortest(u.found)
      BY <1>3, <2>1, <2>2, <2>3, ShortestLonger
  <2>5. Last(u.found) = Goal /\ Len(u.found) - 1 <= d
    <3>1. Last(u.found) = Goal /\ Len(u.found) = Len(Top(t)) + 1
        BY <1>2, <2>1, LongerPath DEF ToolInv, QueryWorld
    <3>2. QED BY <1>2, <2>2, <3>1
  <2>6. Top(u) = Top(t)
      BY <2>1 DEF Top
  <2>7. QED BY <2>1, <2>4, <2>5, <2>6 DEF Searched
<1>5. CASE ~Meets(t, d)
  <2> DEFINE q == t.queue
             r == u.queue
             L == Len(Top(t))
  <2>1. u \in PathState /\ Lengthened(t, d, u)
      BY <1>1, <1>5, ExtendLengthens
  <2>2. /\ u.visited = t.visited \cup Unseen(t, d) /\ u.found = <<>>
        /\ Rotated(Paths, q, Longer(t, d), r)
      BY <1>1, <2>1 DEF Lengthened
  <2> HIDE DEF q, r, L
  <2>3. /\ r \in Seq(Paths) /\ Len(r) \in Nat /\ Len(q) \in Nat \ {0} /\ Len(r) >= Len(q) - 1
        /\ \A i \in 1 .. Len(r) : i < Len(q) => i + 1 \in 1 .. Len(q) /\ r[i] = q[i + 1]
        /\ \A i \in 1 .. Len(r) : i >= Len(q) => r[i] \in Longer(t, d)
        /\ \A x \in Longer(t, d) : \E i \in 1 .. Len(r) : r[i] = x
        /\ \A i \in 1 .. Len(q) : i # 1 => i - 1 \in 1 .. Len(r) /\ r[i - 1] = q[i]
    <3>1. /\ r \in Seq(Paths) /\ Len(r) = Len(q) - 1 + Cardinality(Longer(t, d))
          /\ Cardinality(Longer(t, d)) \in Nat /\ Len(q) \in Nat \ {0}
          /\ \A i \in 1 .. Len(q) - 1 : r[i] = q[i + 1]
          /\ \A i \in Len(q) .. Len(r) : r[i] \in Longer(t, d)
          /\ \A x \in Longer(t, d) : \E i \in Len(q) .. Len(r) : r[i] = x
        BY <2>2 DEF Rotated
    <3>2. Len(r) \in Nat /\ Len(r) >= Len(q) - 1
        BY <3>1
    <3>3. \A i \in 1 .. Len(r) : i < Len(q) => i + 1 \in 1 .. Len(q) /\ r[i] = q[i + 1]
        BY <3>1, <3>2
    <3>4. \A i \in 1 .. Len(r) : i >= Len(q) => r[i] \in Longer(t, d)
        BY <3>1, <3>2
    <3>5. \A x \in Longer(t, d) : \E i \in 1 .. Len(r) : r[i] = x
      <4>1. \A i \in Len(q) .. Len(r) : i \in 1 .. Len(r)
          BY <3>1, <3>2
      <4>2. QED BY <3>1, <4>1
    <3>6. ASSUME NEW i \in 1 .. Len(q), i # 1 PROVE i - 1 \in 1 .. Len(r) /\ r[i - 1] = q[i]
      <4>1. i - 1 \in 1 .. Len(q) - 1 /\ (i - 1) + 1 = i
          BY <3>1, <3>6
      <4>2. QED BY <3>1, <3>2, <4>1
    <3>7. QED BY <3>1, <3>2, <3>3, <3>4, <3>5, <3>6
  <2>4. /\ \A i \in 1 .. Len(q) : /\ q[i] \in Paths /\ Len(q[i]) \in Nat \ {0}
                                  /\ Shortest(q[i]) /\ Len(q[i]) - 1 <= d
                                  /\ L <= Len(q[i]) /\ Len(q[i]) <= L + 1
        /\ \A i, j \in 1 .. Len(q) : i <= j => Len(q[i]) <= Len(q[j])
        /\ L \in Nat \ {0} /\ Top(t) = q[1] /\ 1 \in 1 .. Len(q)
    <3>1. \A i \in 1 .. Len(q) : q[i] \in Paths /\ 1 <= i
        BY <1>2 DEF q
    <3>2. \A i \in 1 .. Len(q) : Len(q[i]) \in Nat \ {0}
      <4>1. \A p \in Paths : Len(p) \in Nat \ {0}
          BY LenProperties, EmptySeq DEF Paths
      <4>2. QED BY <3>1, <4>1
    <3>3. Top(t) = q[1]
        BY DEF Top, q
    <3>4. QED BY <1>2, <1>3, <3>1, <3>2, <3>3 DEF Searched, q, L
  <2>5. ASSUME NEW x \in Longer(t, d)
        PROVE  /\ Shortest(x) /\ Len(x) = L + 1 /\ Len(x) - 1 <= d
               /\ Last(x) \in Unseen(t, d)
    <3>1. PICK n \in Unseen(t, d) : x = Append(Top(t), n)
        BY DEF Longer
    <3>2. n \in Around(Last(Top(t))) /\ n \notin t.visited /\ ~(L - 1 >= d)
        BY DEF Unseen, L
    <3>3. n \notin Ball(Len(Top(t)) - 1) /\ n \in Nodes
        BY <1>3, <3>2, AheadType DEF Around
    <3>4. Shortest(x)
        BY <1>3, <3>1, <3>2, <3>3, ShortestLonger
    <3>5. Len(x) = L + 1 /\ Last(x) = n
        BY <1>2, <3>1, <3>3, LongerPath DEF L
    <3>6. QED BY <2>4, <3>2, <3>4, <3>5
  <2>6. ASSUME NEW i \in 1 .. Len(r)
        PROVE  /\ Shortest(r[i]) /\ Len(r[i]) - 1 <= d /\ Len(r[i]) \in Nat \ {0}
               /\ L <= Len(r[i]) /\ Len(r[i]) <= L + 1
               /\ i >= Len(q) => Len(r[i]) = L + 1
    <3>1. CASE i < Len(q)
        BY <2>3, <2>4, <3>1
    <3>2. CASE i >= Len(q)
      <4>1. r[i] \in Longer(t, d)
          BY <2>3, <3>2
      <4>2. QED BY <2>4, <2>5, <4>1
    <3>3. QED BY <2>3, <3>1, <3>2
  <2>7. ASSUME NEW i \in 1 .. Len(r), NEW j \in 1 .. Len(r), i <= j
        PROVE  Len(r[i]) <= Len(r[j])
    <3>1. CASE j >= Len(q)
        BY <2>4, <2>6, <3>1
    <3>2. CASE j < Len(q)
      <4>1. /\ i + 1 \in 1 .. Len(q) /\ r[i] = q[i + 1]
            /\ j + 1 \in 1 .. Len(q) /\ r[j] = q[j + 1] /\ i + 1 <= j + 1
          BY <2>3, <2>7, <3>2
      <4>2. QED BY <2>4, <4>1
    <3>3. QED BY <2>3, <3>1, <3>2
  <2>8. Goal \notin Unseen(t, d)
    <3>1. CASE L - 1 >= d
        BY <3>1 DEF Unseen, L
    <3>2. CASE ~(L - 1 >= d)
      <4>1. L - 1 < d
          BY <2>4, <3>2
      <4>2. Goal \notin Around(Last(Top(t)))
          BY <1>5, <4>1 DEF Meets, L
      <4>3. QED BY <4>2 DEF Unseen
    <3>3. QED BY <3>1, <3>2
  <2>9. ASSUME NEW m \in u.visited, ~(\E i \in 1 .. Len(r) : Last(r[i]) = m),
               NEW k \in Nat, k < d, m \in Ball(k)
        PROVE  Around(m) \subseteq u.visited
    <3>1. m \in t.visited
      <4>1. SUFFICES ASSUME m \in Unseen(t, d) PROVE FALSE
          BY <2>2
      <4>2. Append(Top(t), m) \in Longer(t, d) /\ m \in Nodes
          BY <4>1, AheadType DEF Longer, Unseen, Around
      <4>3. Last(Append(Top(t), m)) = m
          BY <1>2, <4>2, LongerPath
      <4>4. QED BY <2>3, <2>9, <4>2, <4>3
    <3>2. CASE \E i \in 1 .. Len(q) : Last(q[i]) = m
      <4>1. PICK i \in 1 .. Len(q) : Last(q[i]) = m
          BY <3>2
      <4>2. i = 1
          BY <2>3, <2>9, <4>1
      <4>3. Last(Top(t)) = m
          BY <2>4, <4>1, <4>2
      <4>4. ~(L - 1 >= d)
        <5>1. SUFFICES ASSUME L - 1 >= d PROVE FALSE
            OBVIOUS
        <5>2. k \in 0 .. L - 2
            BY <2>4, <2>9, <5>1
        <5>3. QED BY <1>3, <2>9, <4>3, <5>2 DEF Shortest, L
      <4>5. QED BY <2>2, <4>3, <4>4 DEF Unseen, L
    <3>3. CASE ~(\E i \in 1 .. Len(q) : Last(q[i]) = m)
      <4>1. Around(m) \subseteq t.visited
          BY <2>9, <3>1, <3>3 DEF Searched, q
      <4>2. QED BY <2>2, <4>1
    <3>4. QED BY <3>2, <3>3
  <2>10. ASSUME r # <<>> PROVE Ball(Len(Top(u)) - 1) \subseteq u.visited
    <3>1. 1 \in 1 .. Len(r) /\ Top(u) = r[1]
        BY <2>3, <2>10 DEF Top, r
    <3>2. CASE Len(Top(u)) = L
        BY <1>3, <2>2, <3>2 DEF L
    <3>3. CASE Len(Top(u)) # L
      <4>1. PICK k \in Nat : k = L - 1 /\ Len(Top(u)) - 1 = k + 1 /\ k < d
          BY <2>4, <2>6, <3>1, <3>3
      <4>2. \A m \in Ball(k) : ~(\E i \in 1 .. Len(r) : Last(r[i]) = m)
        <5>1. SUFFICES ASSUME NEW m \in Ball(k), NEW i \in 1 .. Len(r), Last(r[i]) = m PROVE FALSE
            OBVIOUS
        <5>2. 1 <= i /\ Len(r[1]) <= Len(r[i])
            BY <2>7, <3>1
        <5>3. k \in 0 .. Len(r[i]) - 2
            BY <2>4, <2>6, <3>1, <4>1, <5>2
        <5>4. QED BY <2>6, <5>1, <5>3 DEF Shortest
      <4>3. \A m \in Ball(k) : m \in u.visited
          BY <1>3, <2>2, <4>1 DEF L
      <4>4. \A m \in Ball(k) : Around(m) \subseteq u.visited
          BY <2>9, <4>1, <4>2, <4>3
      <4>5. Ball(k + 1) \subseteq u.visited
        <5>1. Ball(k + 1) = Ball(k) \cup Step(Links, Ball(k), Nodes)
            BY <4>1, ReachNext DEF Ball
        <5>2. Step(Links, Ball(k), Nodes) = UNION {Around(n) : n \in Ball(k)}
            BY AroundSteps
        <5>3. QED BY <4>3, <4>4, <5>1, <5>2
      <4>6. QED BY <4>1, <4>5
    <3>4. QED BY <3>2, <3>3
  <2>11. \A i \in 1 .. Len(r) : Len(r[i]) <= Len(Top(u)) + 1
    <3>1. SUFFICES ASSUME NEW i \in 1 .. Len(r) PROVE Len(r[i]) <= Len(Top(u)) + 1
        OBVIOUS
    <3>2. 1 \in 1 .. Len(r) /\ Top(u) = r[1]
        BY <2>3 DEF Top, r
    <3>3. L <= Len(Top(u)) /\ Len(Top(u)) \in Nat
        BY <2>6, <3>2
    <3>4. Len(r[i]) <= L + 1 /\ Len(r[i]) \in Nat
        BY <2>6
    <3>5. QED BY <2>4, <3>3, <3>4
  <2>12. Root \in u.visited /\ Goal \notin u.visited
      BY <2>2, <2>8 DEF Searched
  <2> USE DEF r
  <2>13. QED BY <2>2, <2>6, <2>7, <2>9, <2>10, <2>11, <2>12 DEF Searched
<1>6. QED BY <1>4, <1>5

LEMMA FirstSearched == ASSUME ToolInv, NEW d \in Nat PROVE Searched(AtFirst, d)
<1>1. Root \in Nodes /\ Goal # Root
    BY DEF ToolInv, QueryWorld
<1>2. Ball(0) = {Root}
    BY ReachZero DEF Ball
<1>3. /\ AtFirst.queue = << <<Root>> >> /\ AtFirst.visited = {Root} /\ AtFirst.found = <<>>
      /\ Top(AtFirst) = <<Root>> /\ Len(<<Root>>) = 1 /\ Len(AtFirst.queue) = 1
      /\ \A i \in 1 .. 1 : AtFirst.queue[i] = <<Root>>
    BY DEF AtFirst, Top
<1>4. <<Root>>[1] = Root /\ Last(<<Root>>) = Root
    BY DEF Last
<1>5. Shortest(<<Root>>)
  <2>1. <<Root>> \in Paths
      BY <1>1 DEF Paths
  <2>2. Last(<<Root>>) \in Ball(Len(<<Root>>) - 1)
      BY <1>2, <1>3, <1>4
  <2>3. QED BY <1>3, <1>4, <2>1, <2>2 DEF Shortest
<1>6. Ball(Len(<<Root>>) - 1) \subseteq {Root}
    BY <1>2, <1>3
<1>7. 1 \in 1 .. Len(AtFirst.queue) /\ Last(AtFirst.queue[1]) = Root
    BY <1>3, <1>4
<1>8. \A i \in 1 .. Len(AtFirst.queue) :
         /\ Shortest(AtFirst.queue[i]) /\ Len(AtFirst.queue[i]) = 1
         /\ Len(AtFirst.queue[i]) - 1 <= d /\ Len(AtFirst.queue[i]) <= Len(Top(AtFirst)) + 1
  <2>1. \A i \in 1 .. Len(AtFirst.queue) : AtFirst.queue[i] = <<Root>>
      BY <1>3
  <2>2. Len(<<Root>>) = 1 /\ Len(Top(AtFirst)) = 1 /\ 1 - 1 <= d /\ 1 <= 1 + 1
      BY <1>3
  <2> HIDE DEF AtFirst
  <2>3. QED BY <1>5, <2>1, <2>2
<1>9. \A i, j \in 1 .. Len(AtFirst.queue) : Len(AtFirst.queue[i]) <= Len(AtFirst.queue[j])
    BY <1>8
<1>10. \A m \in AtFirst.visited : \E i \in 1 .. Len(AtFirst.queue) : Last(AtFirst.queue[i]) = m
    BY <1>3, <1>7
<1>11. /\ Ball(Len(Top(AtFirst)) - 1) \subseteq AtFirst.visited
       /\ Root \in AtFirst.visited /\ Goal \notin AtFirst.visited /\ AtFirst.found = <<>>
    BY <1>1, <1>3, <1>6
<1>12. QED BY <1>8, <1>9, <1>10, <1>11 DEF Searched

\* The path found, when the goal is in the ball
LEMMA PathAnswer ==
    ASSUME ToolInv, NEW d \in Nat, NEW p, p = FindPathBfs(d)
    PROVE  IF p = <<>> THEN Goal \notin Ball(d)
           ELSE Shortest(p) /\ Last(p) = Goal /\ Len(p) - 1 <= d
<1> DEFINE N == Cardinality(Nodes)
           I == {t \in PathState : Searched(t, d)}
<1>1. PICK T : PathRun(T, d) /\ p = T[N].found
    BY PathTurns
<1>2. N \in Nat
    BY FS_CardinalityType DEF ToolInv, QueryWorld
<1>3. PathDone(T[N])
    BY <1>1, PathEnds
<1> HIDE DEF N
<1>4. AtFirst \in I
    BY <1>1, FirstSearched DEF PathRun
<1>5. ASSUME NEW t \in PathState, t \in I, ~PathDone(t) PROVE Extend(t, d) \in I
  <2>1. t.queue # <<>> /\ Searched(t, d)
      BY <1>5 DEF PathDone
  <2>2. Extend(t, d) \in PathState
      BY <2>1, ExtendMeets, ExtendLengthens
  <2>3. QED BY <1>5, <2>1, <2>2, ExtendSearched
<1>6. T[N] \in I
  <2> HIDE DEF I
  <2>1. QED BY <1>1, <1>2, <1>4, <1>5, PathInduct
<1> DEFINE t == T[N]
<1>7. t \in PathState /\ Searched(t, d)
    BY <1>6
<1> HIDE DEF t
<1>8. CASE p # <<>>
    BY <1>1, <1>7, <1>8 DEF Searched, t
<1>9. CASE p = <<>>
  <2>1. t.queue = <<>>
      BY <1>1, <1>3, <1>9 DEF PathDone, t
  <2>2. \A i \in 1 .. Len(t.queue) : FALSE
      BY <2>1
  <2>3. \A m \in t.visited : \A k \in Nat : k < d /\ m \in Ball(k) => Around(m) \subseteq t.visited
      BY <1>7, <2>2 DEF Searched
  <2> DEFINE K == {k \in Nat : k <= d => Ball(k) \subseteq t.visited}
  <2>4. 0 \in K
    <3>1. Ball(0) = {Root}
        BY ReachZero DEF Ball
    <3>2. QED BY <1>7, <3>1 DEF Searched
  <2>5. ASSUME NEW k \in Nat, k \in K PROVE k + 1 \in K
    <3>1. SUFFICES ASSUME k + 1 <= d PROVE Ball(k + 1) \subseteq t.visited
        OBVIOUS
    <3>2. k < d /\ Ball(k) \subseteq t.visited
        BY <2>5, <3>1
    <3>3. Ball(k + 1) = Ball(k) \cup Step(Links, Ball(k), Nodes)
        BY ReachNext DEF Ball
    <3>4. Step(Links, Ball(k), Nodes) = UNION {Around(n) : n \in Ball(k)}
        BY AroundSteps
    <3>5. \A m \in Ball(k) : Around(m) \subseteq t.visited
        BY <2>3, <3>2
    <3>6. QED BY <3>2, <3>3, <3>4, <3>5
  <2>6. Nat \subseteq K
    <3> HIDE DEF K
    <3>1. QED BY <2>4, <2>5, Induct
  <2>7. Ball(d) \subseteq t.visited
      BY <2>6
  <2>8. QED BY <1>7, <1>9, <2>7 DEF Searched
<1>10. QED BY <1>8, <1>9

(***************************************************************************)
(* Distances                                                               *)
(***************************************************************************)
LEMMA DistanceIs ==
    ASSUME NEW E, NEW n, NEW m, NEW d \in Nat, NEW k \in 0 .. d, m \in Reach(E, n, Nodes, k),
           \A j \in 0 .. k - 1 : m \notin Reach(E, n, Nodes, j)
    PROVE  Distance(E, n, m, d) = k
<1> DEFINE Is(i) == m \in Reach(E, n, Nodes, i) /\ \A j \in 0 .. i - 1 : m \notin Reach(E, n, Nodes, j)
<1>1. \A i \in 0 .. d : Is(i) => i = k
  <2>1. SUFFICES ASSUME NEW i \in 0 .. d, Is(i), i # k PROVE FALSE
      OBVIOUS
  <2>2. i \in 0 .. k - 1 \/ k \in 0 .. i - 1
      BY <2>1
  <2>3. QED BY <2>1, <2>2
<1>2. Is(k)
    OBVIOUS
<1>3. Distance(E, n, m, d) = CHOOSE i \in 0 .. d : Is(i)
    BY DEF Distance
<1> HIDE DEF Is
<1>4. QED BY <1>1, <1>2, <1>3

LEMMA DistanceOf ==
    ASSUME NEW E, NEW n, NEW m, NEW d \in Nat, m \in Reach(E, n, Nodes, d)
    PROVE  Distance(E, n, m, d) \in 0 .. d /\ m \in Reach(E, n, Nodes, Distance(E, n, m, d))
<1> DEFINE K == {k \in Nat : m \in Reach(E, n, Nodes, k)}
<1>1. d \in K /\ K \in SUBSET Nat
    OBVIOUS
<1>2. PICK k \in K : \A j \in K : k <= j
  <2> HIDE DEF K
  <2>1. K # {}
      BY <1>1
  <2>2. QED BY <1>1, <2>1, Least
<1>3. k \in 0 .. d /\ m \in Reach(E, n, Nodes, k)
    BY <1>1, <1>2
<1>4. \A j \in 0 .. k - 1 : m \notin Reach(E, n, Nodes, j)
  <2>1. SUFFICES ASSUME NEW j \in 0 .. k - 1, m \in Reach(E, n, Nodes, j) PROVE FALSE
      OBVIOUS
  <2>2. j \in K /\ ~(k <= j)
      BY <1>3, <2>1
  <2>3. QED BY <1>2, <2>2
<1>5. Distance(E, n, m, d) = k
    BY <1>3, <1>4, DistanceIs
<1>6. QED BY <1>3, <1>5

\* One step more in front
LEMMA ReachFront ==
    ASSUME NEW X, NEW F \in SUBSET (X \X X), NEW a, NEW b \in X, <<a, b>> \in F, NEW d \in Nat
    PROVE  Reach(F, b, X, d) \subseteq Reach(F, a, X, d + 1)
<1> DEFINE K == {k \in Nat : Reach(F, b, X, k) \subseteq Reach(F, a, X, k + 1)}
<1>1. 0 \in K
  <2>1. Reach(F, b, X, 0) = {b} /\ Reach(F, a, X, 0) = {a}
      BY ReachZero
  <2>2. b \in Reach(F, a, X, 0 + 1)
      BY <2>1, ReachStep
  <2>3. QED BY <2>1, <2>2
<1>2. ASSUME NEW k \in Nat, k \in K PROVE k + 1 \in K
  <2>1. SUFFICES ASSUME NEW c \in Reach(F, b, X, k + 1) PROVE c \in Reach(F, a, X, (k + 1) + 1)
      OBVIOUS
  <2>2. Reach(F, a, X, k + 1) \subseteq Reach(F, a, X, (k + 1) + 1)
      BY ReachGrows
  <2>3. CASE c \in Reach(F, b, X, k)
      BY <1>2, <2>2, <2>3
  <2>4. CASE c \notin Reach(F, b, X, k)
    <3>1. PICK e \in Reach(F, b, X, k) : <<e, c>> \in F /\ c \in X
        BY <2>1, <2>4, ReachLast
    <3>2. k + 1 \in Nat /\ e \in Reach(F, a, X, k + 1)
        BY <1>2, <3>1
    <3>3. QED BY <3>1, <3>2, ReachStep
  <2>5. QED BY <2>3, <2>4
<1>3. Nat \subseteq K
  <2> HIDE DEF K
  <2>1. QED BY <1>1, <1>2, Induct
<1>4. QED BY <1>3

\* Paths read backwards
LEMMA ReachBack ==
    ASSUME NEW X, NEW E \in SUBSET (X \X X), NEW F \in SUBSET (X \X X), Back(E) \subseteq F,
           NEW n \in X, NEW m \in X, NEW d \in Nat, m \in Reach(E, n, X, d)
    PROVE  n \in Reach(F, m, X, d)
<1> DEFINE K == {k \in Nat : \A c \in X : c \in Reach(E, n, X, k) => n \in Reach(F, c, X, k)}
<1>1. 0 \in K
  <2>1. ASSUME NEW c \in X, c \in Reach(E, n, X, 0) PROVE n \in Reach(F, c, X, 0)
    <3>1. c = n
        BY <2>1, ReachZero
    <3>2. QED BY <3>1, ReachZero
  <2>2. QED BY <2>1
<1>2. ASSUME NEW k \in Nat, k \in K PROVE k + 1 \in K
  <2>1. SUFFICES ASSUME NEW c \in X, c \in Reach(E, n, X, k + 1) PROVE n \in Reach(F, c, X, k + 1)
      OBVIOUS
  <2>2. CASE c \in Reach(E, n, X, k)
    <3>1. Reach(F, c, X, k) \subseteq Reach(F, c, X, k + 1)
        BY ReachGrows
    <3>2. QED BY <1>2, <2>2, <3>1
  <2>3. CASE c \notin Reach(E, n, X, k)
    <3>1. PICK e \in Reach(E, n, X, k) : <<e, c>> \in E
        BY <2>1, <2>3, ReachLast
    <3>2. <<c, e>> \in F /\ e \in X
      <4>1. <<e, c>>[1] = e /\ <<e, c>>[2] = c
          OBVIOUS
      <4>2. <<c, e>> \in Back(E)
          BY <3>1, <4>1 DEF Back
      <4>3. QED BY <4>2
    <3>3. n \in Reach(F, e, X, k)
        BY <1>2, <3>1, <3>2
    <3>4. QED BY <3>2, <3>3, ReachFront
  <2>4. QED BY <2>2, <2>3
<1>3. Nat \subseteq K
  <2> HIDE DEF K
  <2>1. QED BY <1>1, <1>2, Induct
<1>4. QED BY <1>3

\* A path of Neo4j is one of the ball too.
LEMMA DependencyInBall ==
    ASSUME ToolInv, NEW d \in Nat, DependencyPath(d) # 0
    PROVE  DependencyPath(d) \in 0 .. d /\ Goal \in Ball(DependencyPath(d))
<1> DEFINE forward == Goal \in Reach(calls, Root, Nodes, d)
           backward == Root \in Reach(calls, Goal, Nodes, d)
           plain == {e \in calls \cup uses : {e[1], e[2]} \cap Shared = {}}
           third == Goal \in Reach(plain, Root, Nodes, d)
<1>1. /\ Links \in SUBSET (Nodes \X Nodes) /\ calls \in SUBSET (Nodes \X Nodes)
      /\ Root \in Nodes /\ Goal \in Nodes
      /\ calls \subseteq Links /\ plain \subseteq Links /\ Back(calls) \subseteq Links
    BY LinksType DEF ToolInv, QueryWorld, Links, Back
<1>2. DependencyPath(d) =
        CASE forward -> Distance(calls, Root, Goal, d)
          [] ~forward /\ backward -> Distance(calls, Goal, Root, d)
          [] ~forward /\ ~backward /\ third -> Distance(plain, Root, Goal, d)
          [] OTHER -> 0
    BY DEF DependencyPath
<1> HIDE DEF forward, backward, plain, third
<1>3. CASE forward
  <2> DEFINE k == Distance(calls, Root, Goal, d)
  <2>1. k \in 0 .. d /\ Goal \in Reach(calls, Root, Nodes, k)
      BY <1>3, DistanceOf DEF forward
  <2>2. DependencyPath(d) = k
      BY <1>2, <1>3
  <2> HIDE DEF k
  <2>3. Reach(calls, Root, Nodes, k) \subseteq Ball(k)
      BY <1>1, <2>1, ReachWider DEF Ball
  <2>4. QED BY <2>1, <2>2, <2>3
<1>4. CASE ~forward /\ backward
  <2> DEFINE k == Distance(calls, Goal, Root, d)
  <2>1. k \in 0 .. d /\ Root \in Reach(calls, Goal, Nodes, k)
      BY <1>4, DistanceOf DEF backward
  <2>2. DependencyPath(d) = k
      BY <1>2, <1>4
  <2> HIDE DEF k
  <2>3. Goal \in Ball(k)
      BY <1>1, <2>1, ReachBack DEF Ball
  <2>4. QED BY <2>1, <2>2, <2>3
<1>5. CASE ~forward /\ ~backward /\ third
  <2> DEFINE k == Distance(plain, Root, Goal, d)
  <2>1. k \in 0 .. d /\ Goal \in Reach(plain, Root, Nodes, k)
      BY <1>5, DistanceOf DEF third
  <2>2. DependencyPath(d) = k
      BY <1>2, <1>5
  <2> HIDE DEF k
  <2>3. Reach(plain, Root, Nodes, k) \subseteq Ball(k)
      BY <1>1, <2>1, ReachWider DEF Ball
  <2>4. QED BY <2>1, <2>2, <2>3
<1>6. CASE ~forward /\ ~backward /\ ~third
    BY <1>2, <1>6
<1>7. QED BY <1>3, <1>4, <1>5, <1>6

\* ReachesNested: traverse_graph, its summary, the scan for warnings and both searches for
\* paths agree on distances, for any graph, any depth and any max_neighborhoods.
THEOREM ReachesAgree == QueryWorld /\ ToolSpec => []ReachesNested
<1>1. QueryWorld /\ ToolInit => ToolInv
    BY DEF ToolInv, ToolInit, QueryInit
<1>2. ToolInv => ReachesNested
  <2> DEFINE emitted == Traverse({}, asked)
             path == FindPathBfs(asked)
             far == DependencyPath(asked)
  <2> SUFFICES ASSUME ToolInv, asked # 0
               PROVE  /\ ToSet(emitted) \ {Root} \subseteq Summary(emitted, asked)
                      /\ Summary(emitted, asked) \subseteq Scan(asked)
                      /\ Scan(asked) = Reach(Links, Root, Nodes, asked)
                      /\ path # <<>> <=> Goal \in Scan(asked)
                      /\ path # <<>> =>
                            /\ Head(path) = Root /\ Last(path) = Goal
                            /\ Len(path) - 1 = Distance(Links, Root, Goal, asked)
                            /\ \A i \in 1 .. Len(path) - 1 : <<path[i], path[i + 1]>> \in Links
                      /\ far # 0 => path # <<>> /\ Len(path) - 1 <= far
      BY DEF ReachesNested, Links
  <2>1. asked \in Nat
      BY DEF ToolInv, QueryWorld
  <2>2. Scan(asked) = Ball(asked)
      BY <2>1, ScanLoop
  <2>3. /\ ToSet(emitted) \subseteq Near(emitted, asked)
        /\ Summary(emitted, asked) = Near(emitted, asked) \ {Root}
        /\ Near(emitted, asked) \subseteq Ball(asked)
      BY <2>1, TraverseTraced, SummaryInBall
  <2>4. IF path = <<>> THEN Goal \notin Ball(asked)
        ELSE Shortest(path) /\ Last(path) = Goal /\ Len(path) - 1 <= asked
      BY <2>1, PathAnswer
  <2>5. far # 0 => far \in 0 .. asked /\ Goal \in Ball(far)
      BY <2>1, DependencyInBall
  <2> HIDE DEF emitted, path, far
  <2>6. ASSUME path # <<>>
        PROVE  /\ Head(path) = Root /\ Last(path) = Goal /\ Goal \in Ball(asked)
               /\ Len(path) - 1 = Distance(Links, Root, Goal, asked)
               /\ \A i \in 1 .. Len(path) - 1 : <<path[i], path[i + 1]>> \in Links
               /\ \A j \in Nat : j < Len(path) - 1 => Goal \notin Ball(j)
    <3>1. path \in Seq(Nodes) /\ path # <<>> /\ path[1] = Root
        BY <2>4, <2>6 DEF Shortest, Paths
    <3>2. Head(path) = Root
        BY <3>1
    <3>3. PICK k \in 0 .. asked : k = Len(path) - 1
      <4>1. Len(path) \in Nat \ {0}
          BY <3>1, LenProperties, EmptySeq
      <4>2. QED BY <2>1, <2>4, <2>6, <4>1
    <3>4. Goal \in Ball(k) /\ \A j \in 0 .. k - 1 : Goal \notin Ball(j)
        BY <2>4, <2>6, <3>3 DEF Shortest
    <3>5. Distance(Links, Root, Goal, asked) = k
        BY <2>1, <3>3, <3>4, DistanceIs DEF Ball
    <3>6. Ball(k) \subseteq Ball(asked)
        BY <2>1, <3>3, ReachGrows DEF Ball
    <3>7. \A j \in Nat : j < k => Goal \notin Ball(j)
        BY <3>3, <3>4
    <3>8. QED BY <2>4, <2>6, <3>2, <3>3, <3>4, <3>5, <3>6, <3>7 DEF Shortest
  <2>7. ASSUME far # 0 PROVE path # <<>> /\ Len(path) - 1 <= far
    <3>1. far \in 0 .. asked /\ Goal \in Ball(far) /\ far \in Nat
        BY <2>1, <2>5, <2>7
    <3>2. Ball(far) \subseteq Ball(asked)
        BY <2>1, <3>1, ReachGrows DEF Ball
    <3>3. path # <<>>
        BY <2>4, <3>1, <3>2
    <3>4. ~(far < Len(path) - 1)
        BY <2>6, <3>1, <3>3
    <3>5. Len(path) \in Nat
        BY <2>4, <3>3 DEF Shortest, Paths
    <3>6. QED BY <3>1, <3>3, <3>4, <3>5
  <2>8. QED BY <2>2, <2>3, <2>4, <2>6, <2>7 DEF Ball
<1>3. QED BY <1>1, <1>2, ToolInvStep, PTL DEF ToolSpec

(***************************************************************************)
(* The cones                                                               *)
(***************************************************************************)
LEMMA ConeZero == ASSUME NEW blocked, NEW p PROVE Cone(blocked, p, 0) = {Root}
    BY ReachZero DEF Cone

LEMMA ConeGrows ==
    ASSUME NEW blocked, NEW p, NEW j \in Nat, NEW k \in Nat, j <= k
    PROVE  Cone(blocked, p, j) \subseteq Cone(blocked, p, k)
    BY ReachGrows DEF Cone

LEMMA ConeNext ==
    ASSUME ToolInv, NEW blocked, NEW p, NEW k \in Nat, NEW b
    PROVE  b \in Cone(blocked, p, k + 1) <=>
               \/ b \in Cone(blocked, p, k)
               \/ b \in Nodes \ blocked /\ \E a \in Cone(blocked, p, k) \cap Nodes : b \in Ahead(a, p)
<1> DEFINE E == {e \in Nodes \X Nodes : e[2] \in Ahead(e[1], p)}
<1>1. \A a, c : <<a, c>> \in E <=> a \in Nodes /\ c \in Nodes /\ c \in Ahead(a, p)
  <2>1. \A a, c : <<a, c>>[1] = a /\ <<a, c>>[2] = c
      OBVIOUS
  <2>2. QED BY <2>1
<1>2. E \in SUBSET (Nodes \X Nodes)
    OBVIOUS
<1>3. \A j : Cone(blocked, p, j) = Reach(E, Root, Nodes \ blocked, j)
    BY DEF Cone
<1> HIDE DEF E
<1>4. ASSUME b \in Cone(blocked, p, k + 1), b \notin Cone(blocked, p, k)
      PROVE  b \in Nodes \ blocked /\ \E a \in Cone(blocked, p, k) \cap Nodes : b \in Ahead(a, p)
  <2>1. b \in Reach(E, Root, Nodes \ blocked, k + 1) /\ b \notin Reach(E, Root, Nodes \ blocked, k)
      BY <1>3, <1>4
  <2>2. /\ b \in Nodes \ blocked
        /\ \E a \in Reach(E, Root, Nodes \ blocked, k) : <<a, b>> \in E
      BY <1>2, <2>1, ReachLast
  <2>3. QED BY <1>1, <1>3, <2>2
<1>5. ASSUME b \in Nodes \ blocked, NEW a \in Cone(blocked, p, k) \cap Nodes, b \in Ahead(a, p)
      PROVE  b \in Cone(blocked, p, k + 1)
  <2>1. <<a, b>> \in E /\ a \in Reach(E, Root, Nodes \ blocked, k)
      BY <1>1, <1>3, <1>5
  <2>2. b \in Reach(E, Root, Nodes \ blocked, k + 1)
      BY <1>5, <2>1, ReachStep
  <2>3. QED BY <1>3, <2>2
<1>6. Cone(blocked, p, k) \subseteq Cone(blocked, p, k + 1)
    BY ConeGrows
<1>7. QED BY <1>4, <1>5, <1>6

\* A cone holds symbols that are not left out, and the root.
LEMMA ConeNodes ==
    ASSUME ToolInv, NEW blocked, NEW p, NEW d \in Nat
    PROVE  Cone(blocked, p, d) \subseteq {Root} \cup (Nodes \ blocked) /\ Cone(blocked, p, d) \subseteq Nodes
<1> DEFINE K == {k \in Nat : Cone(blocked, p, k) \subseteq {Root} \cup (Nodes \ blocked)}
<1>1. 0 \in K
    BY ConeZero
<1>2. ASSUME NEW k \in Nat, k \in K PROVE k + 1 \in K
    BY <1>2, ConeNext
<1>3. Nat \subseteq K
  <2> HIDE DEF K
  <2>1. QED BY <1>1, <1>2, Induct
<1>4. Root \in Nodes
    BY DEF ToolInv, QueryWorld
<1>5. QED BY <1>3, <1>4

(***************************************************************************)
(* What a traversal emits                                                  *)
(***************************************************************************)
Left == GodTypes \ {Root}
Apart(d) == Cone({}, "up", d) \cap Cone({}, "down", d) = {Root}
Queued(t, m, p) == \E i \in 1 .. Len(t.queue) : t.queue[i].node = m /\ t.queue[i].dir = p

\* A turn, the entries it skips included
Added(t, d) == IF Skips(t, Left) THEN {} ELSE Fresh(t, d)
Turned(t, d, u) ==
    /\ Cur(t) = t.queue[1] /\ Cur(t) \in Entry /\ Held(t) \in Nodes
    /\ Len(t.queue) \in Nat \ {0} /\ Len(u.queue) \in Nat
    /\ \A i \in 1 .. Len(t.queue) : t.queue[i] \in Entry
    /\ \A i \in 1 .. Len(u.queue) : u.queue[i] \in Entry
    /\ \A i \in 1 .. Len(u.queue) :
          i < Len(t.queue) => i + 1 \in 1 .. Len(t.queue) /\ u.queue[i] = t.queue[i + 1]
    /\ \A i \in 1 .. Len(u.queue) : i >= Len(t.queue) =>
          /\ u.queue[i].node \in Added(t, d)
          /\ u.queue[i].at = Cur(t).at + 1 /\ u.queue[i].dir = Cur(t).dir
    /\ \A i \in 1 .. Len(t.queue) : i # 1 => i - 1 \in 1 .. Len(u.queue) /\ u.queue[i - 1] = t.queue[i]
    /\ \A i, j \in 1 .. Len(u.queue) :
          i >= Len(t.queue) /\ j >= Len(t.queue) /\ u.queue[i].node = u.queue[j].node => i = j
    /\ \A n \in Added(t, d) : Queued(u, n, Cur(t).dir)
    /\ u.visited = t.visited \cup (Added(t, d) \X {Cur(t).dir})
    /\ ToSet(u.emitted) = IF Skips(t, Left) THEN ToSet(t.emitted) ELSE ToSet(t.emitted) \cup {Cur(t).node}
    /\ u.held = IF Skips(t, Left) THEN t.held ELSE Held(t)
    /\ \A n \in Added(t, d) :
          /\ ~Skips(t, Left) /\ Cur(t).at < d /\ n \in Nodes
          /\ n \in Ahead(Held(t), Cur(t).dir) /\ <<n, Cur(t).dir>> \notin t.visited

LEMMA HopTurns ==
    ASSUME ToolInv, NEW d \in Nat, NEW t \in WalkState, t.queue # <<>>, NEW u, u = Hop(t, Left, d)
    PROVE  u \in WalkState /\ Turned(t, d, u)
<1>1. Requeued(t, u, Added(t, d))
    BY HopQueue DEF Added
<1>2. u \in WalkState
    BY HopSkips, HopExpands
<1>3. /\ \A i \in 1 .. Len(t.queue) : t.queue[i] \in Entry
      /\ \A i \in 1 .. Len(u.queue) : u.queue[i] \in Entry
      /\ Len(t.queue) \in Nat \ {0} /\ Len(u.queue) \in Nat
      /\ t.emitted \in Seq(Nodes)
    BY <1>2 DEF WalkState
<1>4. Cur(t) = t.queue[1] /\ Cur(t) \in Entry /\ Held(t) \in Nodes
    BY EntriesType DEF Cur
<1>5. \A i \in 1 .. Len(u.queue) :
          i < Len(t.queue) => i + 1 \in 1 .. Len(t.queue) /\ u.queue[i] = t.queue[i + 1]
    BY <1>1, <1>3 DEF Requeued
<1>6. \A i \in 1 .. Len(t.queue) : i # 1 => i - 1 \in 1 .. Len(u.queue) /\ u.queue[i - 1] = t.queue[i]
  <2>1. SUFFICES ASSUME NEW i \in 1 .. Len(t.queue), i # 1
                 PROVE  i - 1 \in 1 .. Len(u.queue) /\ u.queue[i - 1] = t.queue[i]
      OBVIOUS
  <2>2. Len(u.queue) >= Len(t.queue) - 1
      BY <1>1 DEF Requeued
  <2>3. i - 1 \in 1 .. Len(u.queue) /\ i - 1 < Len(t.queue) /\ (i - 1) + 1 = i
      BY <1>3, <2>1, <2>2
  <2>4. QED BY <1>5, <2>3
<1>7. \A i \in 1 .. Len(u.queue) : i >= Len(t.queue) =>
          /\ u.queue[i].node \in Added(t, d)
          /\ u.queue[i].at = Cur(t).at + 1 /\ u.queue[i].dir = Cur(t).dir
    BY <1>1 DEF Requeued
<1>8. \A i, j \in 1 .. Len(u.queue) :
          i >= Len(t.queue) /\ j >= Len(t.queue) /\ u.queue[i].node = u.queue[j].node => i = j
    BY <1>1 DEF Requeued
<1>9. \A n \in Added(t, d) : Queued(u, n, Cur(t).dir)
    BY <1>1 DEF Requeued, Queued
<1>10. \A n \in Added(t, d) :
          /\ ~Skips(t, Left) /\ Cur(t).at < d /\ n \in Nodes
          /\ n \in Ahead(Held(t), Cur(t).dir) /\ <<n, Cur(t).dir>> \notin t.visited
    BY AheadType DEF Added, Fresh
<1>11. /\ u.visited = t.visited \cup (Added(t, d) \X {Cur(t).dir})
       /\ ToSet(u.emitted) = IF Skips(t, Left) THEN ToSet(t.emitted)
                             ELSE ToSet(t.emitted) \cup {Cur(t).node}
       /\ u.held = IF Skips(t, Left) THEN t.held ELSE Held(t)
  <2>1. CASE Skips(t, Left)
    <3>1. u.visited = t.visited /\ u.emitted = t.emitted /\ u.held = t.held
        BY <2>1, HopSkips
    <3>2. Added(t, d) \X {Cur(t).dir} = {}
        BY <2>1 DEF Added
    <3>3. QED BY <2>1, <3>1, <3>2
  <2>2. CASE ~Skips(t, Left)
    <3>1. Expanded(t, d, u) /\ Added(t, d) = Fresh(t, d)
        BY <2>2, HopExpands DEF Added
    <3>2. /\ u.visited = t.visited \cup (Added(t, d) \X {Cur(t).dir}) /\ u.held = Held(t)
          /\ u.emitted = IF Cur(t).node \in ToSet(t.emitted) THEN t.emitted
                         ELSE Append(t.emitted, Cur(t).node)
        BY <3>1 DEF Expanded
    <3>3. ToSet(u.emitted) = ToSet(t.emitted) \cup {Cur(t).node}
      <4>1. CASE Cur(t).node \in ToSet(t.emitted)
          BY <3>2, <4>1
      <4>2. CASE Cur(t).node \notin ToSet(t.emitted)
        <5>1. u.emitted = Append(t.emitted, Cur(t).node) /\ Cur(t).node \in Nodes
            BY <1>4, <3>2, <4>2 DEF Entry
        <5>2. QED BY <1>3, <5>1, AppendedSet
      <4>3. QED BY <4>1, <4>2
    <3>4. QED BY <2>2, <3>2, <3>3
  <2>3. QED BY <2>1, <2>2
<1>12. QED
    BY <1>2, <1>3, <1>4, <1>5, <1>6, <1>7, <1>8, <1>9, <1>10, <1>11 DEF Turned

\* What the queue holds: members of a cone, or god types behind one, at their distance
EntriesPlaced(t, d) ==
    \A i \in 1 .. Len(t.queue) :
        LET e == t.queue[i] IN
        /\ e.at <= d /\ <<e.node, e.dir>> \in t.visited
        /\ e.node \in Cone({}, e.dir, e.at)
        /\ e.node \in Cone(GodTypes, e.dir, e.at) \cup Left
        /\ \A k \in Nat : k < e.at => e.node \notin Cone(GodTypes, e.dir, k)
EntriesOnce(t) ==
    \A i, j \in 1 .. Len(t.queue) :
        t.queue[i].node = t.queue[j].node /\ t.queue[i].dir = t.queue[j].dir => i = j
\* The entries of the root come first, and its neighborhood is at hand for the second of them.
RootFirst(t) ==
    \A j \in 1 .. Len(t.queue) : t.queue[j].node = Root =>
        t.held = Root /\ \A i \in 1 .. Len(t.queue) : i <= j => t.queue[i].node = Root
EmittedPlaced(t, d) ==
    /\ ToSet(t.emitted) \subseteq Cone(GodTypes, "up", d) \cup Cone(GodTypes, "down", d)
    /\ \A m \in ToSet(t.emitted) : \E p \in Dirs :
          m \in Cone({}, p, d) /\ <<m, p>> \in t.visited /\ ~Queued(t, m, p)
\* What has been met waits, is left out, or was emitted and its neighbors met.
Opened(t, d) ==
    \A m \in Nodes, p \in Dirs : <<m, p>> \in t.visited =>
        \/ Queued(t, m, p)
        \/ m \in Left
        \/ /\ m \in ToSet(t.emitted)
           /\ \A k \in Nat : k < d /\ m \in Cone(GodTypes, p, k) =>
                 \A n \in Ahead(m, p) : <<n, p>> \in t.visited
Covered(t) ==
    /\ \A p \in Dirs : <<Root, p>> \in t.visited
    /\ t.queue # <<>> => \A p \in Dirs : \A m \in Cone(GodTypes, p, Cur(t).at) : <<m, p>> \in t.visited
Walked(t, d) ==
    /\ QueueOrder(t) /\ EntriesPlaced(t, d) /\ EntriesOnce(t) /\ RootFirst(t)
    /\ EmittedPlaced(t, d) /\ Opened(t, d) /\ Covered(t)

\* The neighborhood at hand is that of the entry taken.
LEMMA HeldIsCurrent ==
    ASSUME ToolInv, NEW d \in Nat, Apart(d), NEW t \in WalkState, t.queue # <<>>, Walked(t, d),
           NEW u, Turned(t, d, u)
    PROVE  Held(t) = Cur(t).node
<1>1. SUFFICES ASSUME Cur(t).node \in ToSet(t.emitted) PROVE Held(t) = Cur(t).node
    BY DEF Held
<1>2. /\ 1 \in 1 .. Len(t.queue) /\ Cur(t) = t.queue[1] /\ Cur(t) \in Entry
    BY DEF Turned
<1>3. PICK p \in Dirs : Cur(t).node \in Cone({}, p, d) /\ ~Queued(t, Cur(t).node, p)
    BY <1>1 DEF Walked, EmittedPlaced
<1>4. Queued(t, Cur(t).node, Cur(t).dir)
    BY <1>2 DEF Queued
<1>5. Cur(t).node \in Cone({}, Cur(t).dir, d)
  <2>1. Cur(t).at \in Nat /\ Cur(t).at <= d /\ Cur(t).node \in Cone({}, Cur(t).dir, Cur(t).at)
      BY <1>2 DEF Walked, EntriesPlaced, Entry
  <2>2. QED BY <2>1, ConeGrows
<1>6. Cur(t).node = Root
  <2>1. p # Cur(t).dir /\ p \in {"up", "down"} /\ Cur(t).dir \in {"up", "down"}
      BY <1>2, <1>3, <1>4 DEF Entry, Dirs
  <2>2. Cur(t).node \in Cone({}, "up", d) /\ Cur(t).node \in Cone({}, "down", d)
      BY <1>3, <1>5, <2>1
  <2>3. QED BY <2>2 DEF Apart
<1>7. t.held = Root
    BY <1>2, <1>6 DEF Walked, RootFirst
<1>8. QED BY <1>1, <1>6, <1>7 DEF Held

LEMMA HopPlaced ==
    ASSUME ToolInv, NEW d \in Nat, Apart(d), NEW t \in WalkState, t.queue # <<>>, Walked(t, d),
           NEW u, Turned(t, d, u)
    PROVE  EntriesPlaced(u, d)
<1>1. Held(t) = Cur(t).node
    BY HeldIsCurrent
<1>2. /\ 1 \in 1 .. Len(t.queue) /\ Cur(t) = t.queue[1] /\ Cur(t) \in Entry
      /\ Cur(t).at \in Nat /\ Cur(t).dir \in Dirs /\ Cur(t).node \in Nodes
    BY DEF Turned, Entry
<1>3. t.visited \subseteq u.visited
    BY DEF Turned
<1> SUFFICES ASSUME NEW i \in 1 .. Len(u.queue), NEW e, e = u.queue[i]
             PROVE  /\ e.at <= d /\ <<e.node, e.dir>> \in u.visited
                    /\ e.node \in Cone({}, e.dir, e.at)
                    /\ e.node \in Cone(GodTypes, e.dir, e.at) \cup Left
                    /\ \A k \in Nat : k < e.at => e.node \notin Cone(GodTypes, e.dir, k)
    BY DEF EntriesPlaced
<1>4. CASE i < Len(t.queue)
  <2>1. i + 1 \in 1 .. Len(t.queue) /\ e = t.queue[i + 1]
      BY <1>4 DEF Turned
  <2>2. QED BY <1>3, <2>1 DEF Walked, EntriesPlaced
<1>5. CASE i >= Len(t.queue)
  <2>1. /\ e.node \in Added(t, d) /\ e.at = Cur(t).at + 1 /\ e.dir = Cur(t).dir
      BY <1>5 DEF Turned
  <2>2. /\ ~Skips(t, Left) /\ Cur(t).at < d /\ e.node \in Nodes
        /\ e.node \in Ahead(Cur(t).node, Cur(t).dir) /\ <<e.node, Cur(t).dir>> \notin t.visited
        /\ <<e.node, Cur(t).dir>> \in u.visited
      BY <1>1, <2>1 DEF Turned
  <2>3. /\ Cur(t).node \in Cone({}, Cur(t).dir, Cur(t).at)
        /\ Cur(t).node \in Cone(GodTypes, Cur(t).dir, Cur(t).at) \cup Left
      BY <1>2 DEF Walked, EntriesPlaced
  <2>4. Cur(t).node \in Cone(GodTypes, Cur(t).dir, Cur(t).at)
    <3>1. ~(Cur(t).node \in Left /\ Cur(t).node # Root)
        BY <2>2 DEF Skips
    <3>2. Cur(t).node \notin Left
        BY <3>1 DEF Left
    <3>3. QED BY <2>3, <3>2
  <2>5. e.node \in Cone({}, Cur(t).dir, Cur(t).at + 1)
      BY <1>2, <2>2, <2>3, ConeNext
  <2>6. e.node # Root
      BY <1>2, <2>2 DEF Walked, Covered
  <2>7. e.node \in Cone(GodTypes, Cur(t).dir, Cur(t).at + 1) \cup Left
    <3>1. CASE e.node \in GodTypes
        BY <2>6, <3>1 DEF Left
    <3>2. CASE e.node \notin GodTypes
        BY <1>2, <2>2, <2>4, <3>2, ConeNext
    <3>3. QED BY <3>1, <3>2
  <2>8. ASSUME NEW k \in Nat, k < e.at PROVE e.node \notin Cone(GodTypes, e.dir, k)
    <3>1. e.node \notin Cone(GodTypes, Cur(t).dir, Cur(t).at)
        BY <1>2, <2>2 DEF Walked, Covered
    <3>2. k <= Cur(t).at
        BY <1>2, <2>1, <2>8
    <3>3. Cone(GodTypes, Cur(t).dir, k) \subseteq Cone(GodTypes, Cur(t).dir, Cur(t).at)
        BY <1>2, <3>2, ConeGrows
    <3>4. QED BY <2>1, <3>1, <3>3
  <2>9. e.at <= d
      BY <1>2, <2>1, <2>2
  <2>10. QED BY <2>1, <2>2, <2>5, <2>7, <2>8, <2>9
<1>6. QED BY <1>4, <1>5 DEF Turned

LEMMA HopOnce ==
    ASSUME ToolInv, NEW d \in Nat, NEW t \in WalkState, t.queue # <<>>, Walked(t, d),
           NEW u, Turned(t, d, u)
    PROVE  EntriesOnce(u)
<1>1. ASSUME NEW i \in 1 .. Len(u.queue), NEW j \in 1 .. Len(u.queue), i < Len(t.queue),
             j >= Len(t.queue), u.queue[i].node = u.queue[j].node, u.queue[i].dir = u.queue[j].dir
      PROVE  FALSE
  <2>1. i + 1 \in 1 .. Len(t.queue) /\ u.queue[i] = t.queue[i + 1]
      BY <1>1 DEF Turned
  <2>2. <<u.queue[i].node, u.queue[i].dir>> \in t.visited
      BY <2>1 DEF Walked, EntriesPlaced
  <2>3. u.queue[j].node \in Added(t, d) /\ u.queue[j].dir = Cur(t).dir
      BY <1>1 DEF Turned
  <2>4. <<u.queue[j].node, u.queue[j].dir>> \notin t.visited
      BY <2>3 DEF Turned
  <2>5. QED BY <1>1, <2>2, <2>4
<1> SUFFICES ASSUME NEW i \in 1 .. Len(u.queue), NEW j \in 1 .. Len(u.queue),
                    u.queue[i].node = u.queue[j].node, u.queue[i].dir = u.queue[j].dir
             PROVE  i = j
    BY DEF EntriesOnce
<1>2. CASE i < Len(t.queue) /\ j < Len(t.queue)
  <2>1. /\ i + 1 \in 1 .. Len(t.queue) /\ u.queue[i] = t.queue[i + 1]
        /\ j + 1 \in 1 .. Len(t.queue) /\ u.queue[j] = t.queue[j + 1]
      BY <1>2 DEF Turned
  <2>2. i + 1 = j + 1
      BY <2>1 DEF Walked, EntriesOnce
  <2>3. QED BY <2>2
<1>3. CASE i >= Len(t.queue) /\ j >= Len(t.queue)
    BY <1>3 DEF Turned
<1>4. QED BY <1>1, <1>2, <1>3 DEF Turned

LEMMA HopRootFirst ==
    ASSUME ToolInv, NEW d \in Nat, NEW t \in WalkState, t.queue # <<>>, Walked(t, d),
           NEW u, Turned(t, d, u)
    PROVE  RootFirst(u)
<1> SUFFICES ASSUME NEW j \in 1 .. Len(u.queue), u.queue[j].node = Root
             PROVE  /\ u.held = Root
                    /\ \A i \in 1 .. Len(u.queue) : i <= j => u.queue[i].node = Root
    BY DEF RootFirst
<1>1. 1 \in 1 .. Len(t.queue) /\ Cur(t) = t.queue[1] /\ Cur(t).dir \in Dirs
    BY DEF Turned, Entry
<1>2. j < Len(t.queue)
  <2>1. SUFFICES ASSUME j >= Len(t.queue) PROVE FALSE
      BY DEF Turned
  <2>2. Root \in Added(t, d)
      BY <2>1 DEF Turned
  <2>3. <<Root, Cur(t).dir>> \notin t.visited
      BY <2>2 DEF Turned
  <2>4. QED BY <1>1, <2>3 DEF Walked, Covered
<1>3. j + 1 \in 1 .. Len(t.queue) /\ u.queue[j] = t.queue[j + 1]
    BY <1>2 DEF Turned
<1>4. t.held = Root /\ \A i \in 1 .. Len(t.queue) : i <= j + 1 => t.queue[i].node = Root
    BY <1>3 DEF Walked, RootFirst
<1>5. \A i \in 1 .. Len(u.queue) : i <= j => u.queue[i].node = Root
  <2>1. SUFFICES ASSUME NEW i \in 1 .. Len(u.queue), i <= j PROVE u.queue[i].node = Root
      OBVIOUS
  <2>2. i < Len(t.queue) /\ i + 1 <= j + 1
      BY <1>2, <2>1 DEF Turned
  <2>3. i + 1 \in 1 .. Len(t.queue) /\ u.queue[i] = t.queue[i + 1]
      BY <2>2 DEF Turned
  <2>4. QED BY <1>4, <2>2, <2>3
<1>6. Cur(t).node = Root
    BY <1>1, <1>3, <1>4
<1>7. u.held = Root
    BY <1>4, <1>6 DEF Turned, Held
<1>8. QED BY <1>5, <1>7

LEMMA HopEmitted ==
    ASSUME ToolInv, NEW d \in Nat, Apart(d), NEW t \in WalkState, t.queue # <<>>, Walked(t, d),
           NEW u, Turned(t, d, u)
    PROVE  EmittedPlaced(u, d)
<1>1. /\ 1 \in 1 .. Len(t.queue) /\ Cur(t) = t.queue[1] /\ Cur(t) \in Entry
      /\ Cur(t).at \in Nat /\ Cur(t).dir \in Dirs /\ Cur(t).node \in Nodes
    BY DEF Turned, Entry
<1>2. t.visited \subseteq u.visited
    BY DEF Turned
<1>3. /\ Cur(t).at <= d /\ <<Cur(t).node, Cur(t).dir>> \in t.visited
      /\ Cur(t).node \in Cone({}, Cur(t).dir, Cur(t).at)
      /\ Cur(t).node \in Cone(GodTypes, Cur(t).dir, Cur(t).at) \cup Left
    BY <1>1 DEF Walked, EntriesPlaced

\* an entry met before the turn is in the queue after it only if it was there behind the first
<1>4. ASSUME NEW m, NEW p, <<m, p>> \in t.visited, Queued(u, m, p)
      PROVE  \E j \in 1 .. Len(t.queue) : j # 1 /\ t.queue[j].node = m /\ t.queue[j].dir = p
  <2>1. PICK i \in 1 .. Len(u.queue) : u.queue[i].node = m /\ u.queue[i].dir = p
      BY <1>4 DEF Queued
  <2>2. i < Len(t.queue)
    <3>1. SUFFICES ASSUME i >= Len(t.queue) PROVE FALSE
        BY DEF Turned
    <3>2. m \in Added(t, d) /\ p = Cur(t).dir
        BY <2>1, <3>1 DEF Turned
    <3>3. <<m, p>> \notin t.visited
        BY <3>2 DEF Turned
    <3>4. QED BY <1>4, <3>3
  <2>3. i + 1 \in 1 .. Len(t.queue) /\ u.queue[i] = t.queue[i + 1] /\ i + 1 # 1
      BY <2>2 DEF Turned
  <2>4. QED BY <2>1, <2>3
<1>5. ASSUME NEW m \in ToSet(t.emitted)
      PROVE  \E p \in Dirs : m \in Cone({}, p, d) /\ <<m, p>> \in u.visited /\ ~Queued(u, m, p)
  <2>1. PICK p \in Dirs : m \in Cone({}, p, d) /\ <<m, p>> \in t.visited /\ ~Queued(t, m, p)
      BY DEF Walked, EmittedPlaced
  <2>2. ~Queued(u, m, p)
      BY <1>4, <2>1 DEF Queued
  <2>3. QED BY <1>2, <2>1, <2>2
<1>6. CASE Skips(t, Left)
  <2>1. ToSet(u.emitted) = ToSet(t.emitted)
      BY <1>6 DEF Turned
  <2>2. QED BY <1>5, <2>1 DEF EmittedPlaced, Walked
<1>7. CASE ~Skips(t, Left)
  <2>1. ToSet(u.emitted) = ToSet(t.emitted) \cup {Cur(t).node}
      BY <1>7 DEF Turned
  <2>2. Cur(t).node \in Cone(GodTypes, Cur(t).dir, d) /\ Cur(t).node \in Cone({}, Cur(t).dir, d)
    <3>1. Cur(t).node \notin Left
        BY <1>7 DEF Skips, Left
    <3>2. QED BY <1>1, <1>3, <3>1, ConeGrows
  <2>3. ~Queued(u, Cur(t).node, Cur(t).dir)
      BY <1>1, <1>3, <1>4 DEF Walked, EntriesOnce
  <2>4. Cur(t).node \in Cone(GodTypes, "up", d) \cup Cone(GodTypes, "down", d)
      BY <1>1, <2>2 DEF Dirs
  <2>5. \A m \in ToSet(u.emitted) : \E p \in Dirs :
            m \in Cone({}, p, d) /\ <<m, p>> \in u.visited /\ ~Queued(u, m, p)
      BY <1>1, <1>2, <1>3, <1>5, <2>1, <2>2, <2>3
  <2>6. QED BY <2>1, <2>4, <2>5 DEF EmittedPlaced, Walked
<1>8. QED BY <1>6, <1>7

LEMMA HopOpened ==
    ASSUME ToolInv, NEW d \in Nat, Apart(d), NEW t \in WalkState, t.queue # <<>>, Walked(t, d),
           NEW u, Turned(t, d, u)
    PROVE  Opened(u, d)
<1>1. /\ 1 \in 1 .. Len(t.queue) /\ Cur(t) = t.queue[1] /\ Cur(t) \in Entry
      /\ Cur(t).at \in Nat /\ Cur(t).dir \in Dirs /\ Cur(t).node \in Nodes
    BY DEF Turned, Entry
<1>2. t.visited \subseteq u.visited /\ ToSet(t.emitted) \subseteq ToSet(u.emitted)
    BY DEF Turned
<1> SUFFICES ASSUME NEW m \in Nodes, NEW p \in Dirs, <<m, p>> \in u.visited,
                    ~Queued(u, m, p), m \notin Left
             PROVE  /\ m \in ToSet(u.emitted)
                    /\ \A k \in Nat : k < d /\ m \in Cone(GodTypes, p, k) =>
                          \A n \in Ahead(m, p) : <<n, p>> \in u.visited
    BY DEF Opened
<1>3. <<m, p>> \in t.visited
    BY DEF Turned
<1>4. CASE Queued(t, m, p)
  <2>1. PICK i \in 1 .. Len(t.queue) : t.queue[i].node = m /\ t.queue[i].dir = p
      BY <1>4 DEF Queued
  <2>2. i = 1
    <3>1. SUFFICES ASSUME i # 1 PROVE FALSE
        OBVIOUS
    <3>2. i - 1 \in 1 .. Len(u.queue) /\ u.queue[i - 1] = t.queue[i]
        BY <3>1 DEF Turned
    <3>3. QED BY <2>1, <3>2 DEF Queued
  <2>3. Cur(t).node = m /\ Cur(t).dir = p
      BY <1>1, <2>1, <2>2
  <2>4. ~Skips(t, Left)
      BY <2>3 DEF Skips
  <2>5. m \in ToSet(u.emitted)
      BY <2>3, <2>4 DEF Turned
  <2>6. ASSUME NEW k \in Nat, k < d, m \in Cone(GodTypes, p, k), NEW n \in Ahead(m, p)
        PROVE  <<n, p>> \in u.visited
    <3>1. ~(k < Cur(t).at)
        BY <1>1, <2>3, <2>6 DEF Walked, EntriesPlaced
    <3>2. Cur(t).at < d
        BY <1>1, <2>6, <3>1
    <3>3. Held(t) = m
        BY <2>3, HeldIsCurrent
    <3>4. <<n, p>> \in t.visited \/ n \in Added(t, d)
        BY <2>3, <2>4, <2>6, <3>2, <3>3 DEF Added, Fresh
    <3>5. QED BY <2>3, <3>4 DEF Turned
  <2>7. QED BY <2>5, <2>6
<1>5. CASE ~Queued(t, m, p)
  <2>1. /\ m \in ToSet(t.emitted)
        /\ \A k \in Nat : k < d /\ m \in Cone(GodTypes, p, k) =>
              \A n \in Ahead(m, p) : <<n, p>> \in t.visited
      BY <1>3, <1>5 DEF Walked, Opened
  <2>2. QED BY <1>2, <2>1
<1>6. QED BY <1>4, <1>5

\* When all entries of a distance are taken, the cones are met one hop further.
LEMMA CoversNext ==
    ASSUME ToolInv, NEW d \in Nat, NEW t \in WalkState, Opened(t, d), NEW k \in Nat, k < d,
           NEW p \in Dirs, \A m \in Cone(GodTypes, p, k) : <<m, p>> \in t.visited /\ ~Queued(t, m, p)
    PROVE  \A m \in Cone(GodTypes, p, k + 1) : <<m, p>> \in t.visited
<1> SUFFICES ASSUME NEW m \in Cone(GodTypes, p, k + 1), m \notin Cone(GodTypes, p, k)
             PROVE  <<m, p>> \in t.visited
    OBVIOUS
<1>1. PICK a \in Cone(GodTypes, p, k) \cap Nodes : m \in Ahead(a, p)
    BY ConeNext
<1>2. a \notin Left
    BY <1>1, ConeNodes DEF Left
<1>3. QED BY <1>1, <1>2 DEF Opened

LEMMA HopCovered ==
    ASSUME ToolInv, NEW d \in Nat, NEW t \in WalkState, t.queue # <<>>, Walked(t, d),
           NEW u \in WalkState, Turned(t, d, u), EntriesPlaced(u, d), Opened(u, d),
           \A i \in 1 .. Len(u.queue) : u.queue[i].at >= Cur(t).at,
           \A i \in 1 .. Len(u.queue) : u.queue[i].at <= Cur(t).at + 1,
           QueueOrder(u)
    PROVE  Covered(u)
<1>1. t.visited \subseteq u.visited
    BY DEF Turned
<1>2. \A p \in Dirs : <<Root, p>> \in u.visited
    BY <1>1 DEF Walked, Covered
<1>3. \A p \in Dirs : \A m \in Cone(GodTypes, p, Cur(t).at) : <<m, p>> \in u.visited
    BY <1>1 DEF Walked, Covered
<1>4. ASSUME u.queue # <<>>, NEW p \in Dirs, NEW m \in Cone(GodTypes, p, Cur(u).at)
      PROVE  <<m, p>> \in u.visited
  <2>1. /\ u.queue \in Seq(Entry) /\ 1 \in 1 .. Len(u.queue) /\ Cur(u) = u.queue[1]
        /\ Cur(u) \in Entry /\ Cur(t) \in Entry
      BY <1>4 DEF WalkState, Cur, Turned
  <2>2. /\ Cur(u).at \in Nat /\ Cur(t).at \in Nat /\ Cur(u).at >= Cur(t).at
        /\ Cur(u).at <= Cur(t).at + 1 /\ Cur(u).at <= d
      BY <2>1 DEF Entry, EntriesPlaced
  <2>3. CASE Cur(u).at = Cur(t).at
      BY <1>3, <1>4, <2>3
  <2>4. CASE Cur(u).at # Cur(t).at
    <3>1. PICK k \in Nat : k = Cur(t).at /\ Cur(u).at = k + 1 /\ k < d
        BY <2>2, <2>4
    <3>2. ASSUME NEW n \in Cone(GodTypes, p, k), Queued(u, n, p) PROVE FALSE
      <4>1. PICK i \in 1 .. Len(u.queue) : u.queue[i].node = n /\ u.queue[i].dir = p
          BY <3>2 DEF Queued
      <4>2. u.queue[1].at <= u.queue[i].at
          BY <2>1, <4>1 DEF QueueOrder
      <4>3. u.queue[i].at \in Nat
        <5>1. u.queue[i] \in Entry
            BY <4>1 DEF Turned
        <5>2. QED BY <5>1 DEF Entry
      <4>4. k < u.queue[i].at
          BY <2>1, <3>1, <4>2, <4>3
      <4>5. QED BY <3>2, <4>1, <4>4 DEF EntriesPlaced
    <3>3. \A n \in Cone(GodTypes, p, k) : <<n, p>> \in u.visited /\ ~Queued(u, n, p)
        BY <1>3, <3>1, <3>2
    <3>4. \A n \in Cone(GodTypes, p, k + 1) : <<n, p>> \in u.visited
        BY <3>1, <3>3, CoversNext
    <3>5. QED BY <1>4, <3>1, <3>4
  <2>5. QED BY <2>3, <2>4
<1>5. QED BY <1>2, <1>4 DEF Covered

LEMMA HopWalked ==
    ASSUME ToolInv, NEW d \in Nat, Apart(d), NEW t \in WalkState, t.queue # <<>>, Walked(t, d),
           NEW u, u = Hop(t, Left, d)
    PROVE  u \in WalkState /\ Walked(u, d)
<1>1. u \in WalkState /\ Turned(t, d, u)
    BY HopTurns
<1>2. QueueOrder(u) /\ \A i \in 1 .. Len(u.queue) : u.queue[i].at >= Cur(t).at
    BY HopOrder DEF Walked
<1>3. EntriesPlaced(u, d) /\ Opened(u, d)
    BY <1>1, HopPlaced, HopOpened
<1>4. ASSUME NEW i \in 1 .. Len(u.queue) PROVE u.queue[i].at <= Cur(t).at + 1
  <2>1. CASE i < Len(t.queue)
    <3>1. i + 1 \in 1 .. Len(t.queue) /\ u.queue[i] = t.queue[i + 1]
        BY <1>1, <2>1 DEF Turned
    <3>2. QED BY <3>1 DEF Walked, QueueOrder
  <2>2. CASE i >= Len(t.queue)
    <3>1. u.queue[i].at = Cur(t).at + 1 /\ Cur(t).at \in Nat
        BY <1>1, <2>2 DEF Turned, Entry
    <3>2. QED BY <3>1
  <2>3. QED BY <1>1, <2>1, <2>2 DEF Turned
<1>5. Covered(u)
    BY <1>1, <1>2, <1>3, <1>4, HopCovered
<1>6. EntriesOnce(u) /\ RootFirst(u) /\ EmittedPlaced(u, d)
    BY <1>1, HopOnce, HopRootFirst, HopEmitted
<1>7. QED BY <1>1, <1>2, <1>3, <1>5, <1>6 DEF Walked

LEMMA RootWalked == ASSUME ToolInv, NEW d \in Nat PROVE Walked(AtRoot, d)
<1>1. /\ AtRoot.queue = <<[node |-> Root, at |-> 0, dir |-> "up"],
                          [node |-> Root, at |-> 0, dir |-> "down"]>>
      /\ AtRoot.emitted = <<>> /\ AtRoot.held = Root /\ AtRoot.visited = {Root} \X {"up", "down"}
    BY DEF AtRoot
<1>2. /\ Len(AtRoot.queue) = 2
      /\ \A i \in 1 .. 2 : AtRoot.queue[i].at = 0 /\ AtRoot.queue[i].node = Root
      /\ AtRoot.queue[1].dir = "up" /\ AtRoot.queue[2].dir = "down"
    BY <1>1
<1>3. \A B, p : Root \in Cone(B, p, 0) /\ \A m \in Cone(B, p, 0) : m = Root
    BY ConeZero
<1>4. ToSet(AtRoot.emitted) = {}
    BY <1>1 DEF ToSet
<1>5. \A p \in Dirs : <<Root, p>> \in AtRoot.visited /\ Queued(AtRoot, Root, p)
    BY <1>1, <1>2 DEF Dirs, Queued
<1>6. QueueOrder(AtRoot) /\ Cur(AtRoot).at = 0
    BY <1>2 DEF QueueOrder, Cur
<1>7. \A i \in 1 .. Len(AtRoot.queue) : AtRoot.queue[i].dir \in Dirs
    BY <1>2 DEF Dirs
<1> HIDE DEF AtRoot
<1>8. EntriesPlaced(AtRoot, d)
    BY <1>2, <1>3, <1>5, <1>7 DEF EntriesPlaced
<1>9. EntriesOnce(AtRoot)
    BY <1>2 DEF EntriesOnce
<1>10. RootFirst(AtRoot)
    BY <1>1, <1>2 DEF RootFirst
<1>11. EmittedPlaced(AtRoot, d)
    BY <1>4 DEF EmittedPlaced
<1>12. Opened(AtRoot, d)
    BY <1>1, <1>5 DEF Opened
<1>13. Covered(AtRoot)
    BY <1>3, <1>5, <1>6 DEF Covered
<1>14. QED BY <1>6, <1>8, <1>9, <1>10, <1>11, <1>12, <1>13 DEF Walked

LEMMA TraverseCones ==
    ASSUME ToolInv, NEW d \in Nat, Apart(d), NEW em, em = Traverse(Left, d)
    PROVE  /\ ToSet(em) \subseteq Cone(GodTypes, "up", d) \cup Cone(GodTypes, "down", d)
           /\ Len(em) < Hoods => Cone(GodTypes, "up", d) \cup Cone(GodTypes, "down", d) \subseteq ToSet(em)
<1> DEFINE N == 2 * Cardinality(Nodes)
           I == {t \in WalkState : Walked(t, d)}
<1>1. PICK T : WalkRun(T, Left, d) /\ em = T[N].emitted
    BY WalkTurns DEF Traverse
<1>2. N \in Nat
    BY FS_CardinalityType DEF ToolInv, QueryWorld
<1>3. WalkDone(T[N])
    BY <1>1, WalkEnds
<1> HIDE DEF N
<1>4. AtRoot \in I
    BY <1>1, RootWalked DEF WalkRun
<1>5. ASSUME NEW t \in WalkState, t \in I, ~WalkDone(t) PROVE Hop(t, Left, d) \in I
  <2>1. t.queue # <<>> /\ Walked(t, d)
      BY <1>5 DEF WalkDone
  <2>2. QED BY <2>1, HopWalked
<1>6. T[N] \in I
  <2> HIDE DEF I
  <2>1. QED BY <1>1, <1>2, <1>4, <1>5, WalkInduct
<1> DEFINE t == T[N]
<1>7. t \in WalkState /\ Walked(t, d)
    BY <1>6
<1> HIDE DEF t
<1>8. ASSUME Len(em) < Hoods, NEW p \in Dirs PROVE Cone(GodTypes, p, d) \subseteq ToSet(em)
  <2>1. t.queue = <<>>
    <3>1. Len(em) \in Nat /\ Hoods \in Nat
        BY <1>1, <1>7 DEF WalkState, ToolInv, QueryWorld, t
    <3>2. QED BY <1>1, <1>3, <1>8, <3>1 DEF WalkDone, t
  <2>2. \A m : ~Queued(t, m, p)
      BY <2>1 DEF Queued
  <2> DEFINE K == {k \in Nat : k <= d => \A m \in Cone(GodTypes, p, k) : <<m, p>> \in t.visited}
  <2>3. 0 \in K
      BY <1>7, ConeZero DEF Walked, Covered
  <2>4. ASSUME NEW k \in Nat, k \in K PROVE k + 1 \in K
    <3>1. SUFFICES ASSUME k + 1 <= d
                   PROVE  \A m \in Cone(GodTypes, p, k + 1) : <<m, p>> \in t.visited
        OBVIOUS
    <3>2. k < d /\ \A m \in Cone(GodTypes, p, k) : <<m, p>> \in t.visited /\ ~Queued(t, m, p)
        BY <2>2, <2>4, <3>1
    <3>3. QED BY <1>7, <3>2, CoversNext DEF Walked
  <2>5. Nat \subseteq K
    <3> HIDE DEF K
    <3>1. QED BY <2>3, <2>4, Induct
  <2>6. \A m \in Cone(GodTypes, p, d) : <<m, p>> \in t.visited
      BY <2>5
  <2>7. \A m \in Cone(GodTypes, p, d) : m \in Nodes /\ m \notin Left
      BY ConeNodes DEF Left
  <2>8. QED BY <1>1, <1>7, <2>2, <2>6, <2>7 DEF Walked, Opened, t
<1>9. ToSet(em) \subseteq Cone(GodTypes, "up", d) \cup Cone(GodTypes, "down", d)
    BY <1>1, <1>7 DEF Walked, EmittedPlaced, t
<1>10. QED BY <1>8, <1>9 DEF Dirs

\* TraverseExact: where the cones of the root meet in the root only, traverse emits members of
\* the cones, and all of them unless it reports itself truncated, for any graph and any depth.
THEOREM TraverseIsExact == QueryWorld /\ ToolSpec => []TraverseExact
<1>1. QueryWorld /\ ToolInit => ToolInv
    BY DEF ToolInv, ToolInit, QueryInit
<1>2. ToolInv => TraverseExact
  <2> DEFINE emitted == Traverse(Left, asked)
             cones == Cone(GodTypes, "up", asked) \cup Cone(GodTypes, "down", asked)
  <2> SUFFICES ASSUME ToolInv, asked # 0, ~InBothCones(asked)
               PROVE  /\ ToSet(emitted) \subseteq cones
                      /\ Len(emitted) < Hoods => ToSet(emitted) = cones
      BY DEF TraverseExact, Left
  <2>1. asked \in Nat
      BY DEF ToolInv, QueryWorld
  <2>2. Apart(asked)
      BY DEF InBothCones, Apart
  <2>3. /\ ToSet(emitted) \subseteq cones
        /\ Len(emitted) < Hoods => cones \subseteq ToSet(emitted)
      BY <2>1, <2>2, TraverseCones
  <2>4. QED BY <2>3
<1>3. QED BY <1>1, <1>2, ToolInvStep, PTL DEF ToolSpec

(***************************************************************************)
(* Mutual reachability                                                     *)
(***************************************************************************)
Edges == calls \cup uses
Closed(C) == C \in SUBSET Nodes /\ \A a \in C, b \in Nodes : <<a, b>> \in Edges => b \in C
Class(n) == {m \in Nodes : Leads(n, m) /\ Leads(m, n)}

LEMMA SuccsHeads ==
    ASSUME ToolInv
    PROVE  /\ Heads \in SUBSET Nodes /\ Edges \in SUBSET (Nodes \X Nodes)
           /\ \A n : Succs(n) \in SUBSET Nodes
           /\ \A n, m : m \in Succs(n) <=> <<n, m>> \in Edges
           /\ \A n, m : <<n, m>> \in Edges => n \in Heads
<1>1. Edges \in SUBSET (Nodes \X Nodes)
    BY DEF ToolInv, Edges
<1>2. ASSUME NEW n, NEW m PROVE m \in Succs(n) <=> <<n, m>> \in Edges
  <2>1. Succs(n) = Ahead(n, "down")
      BY DEF Succs, Ahead
  <2>2. QED BY <2>1, AheadLinks DEF Edges
<1>3. \A n, m : <<n, m>> \in Edges => n \in Heads
  <2>1. \A n, m : <<n, m>>[1] = n
      OBVIOUS
  <2>2. QED BY <2>1 DEF Heads, Edges
<1>4. Heads \in SUBSET Nodes
    BY <1>1 DEF Heads, Edges
<1>5. \A n : Succs(n) \in SUBSET Nodes
  <2>1. \A n, m : <<n, m>> \in Edges => m \in Nodes
      BY <1>1
  <2>2. QED BY <1>2, <2>1
<1>6. QED BY <1>1, <1>2, <1>3, <1>4, <1>5

LEMMA LeadsClosed ==
    ASSUME ToolInv, NEW n, NEW m
    PROVE  Leads(n, m) <=> \A C : Closed(C) /\ n \in C => m \in C
<1>1. Edges \in SUBSET (Nodes \X Nodes)
    BY SuccsHeads
<1>2. ASSUME NEW C \in SUBSET Nodes
      PROVE  (\A e \in Edges : e[1] \in C => e[2] \in C) <=> Closed(C)
  <2>1. ASSUME \A e \in Edges : e[1] \in C => e[2] \in C PROVE Closed(C)
    <3>1. \A a, b : <<a, b>>[1] = a /\ <<a, b>>[2] = b
        OBVIOUS
    <3>2. QED BY <2>1, <3>1 DEF Closed
  <2>2. ASSUME Closed(C), NEW e \in Edges, e[1] \in C PROVE e[2] \in C
    <3>1. e = <<e[1], e[2]>> /\ e[2] \in Nodes
        BY <1>1
    <3>2. QED BY <2>2, <3>1 DEF Closed
  <2>3. QED BY <2>1, <2>2
<1>3. \A C : Closed(C) => C \in SUBSET Nodes
    BY DEF Closed
<1>4. Leads(n, m) <=> \A C \in SUBSET Nodes : n \in C /\ (\A e \in Edges : e[1] \in C => e[2] \in C) => m \in C
    BY DEF Leads, Edges
<1>5. QED BY <1>2, <1>3, <1>4

LEMMA LeadsSelf == ASSUME ToolInv, NEW n PROVE Leads(n, n)
    BY LeadsClosed

LEMMA LeadsOn == ASSUME ToolInv, NEW n, NEW m, NEW p, Leads(n, m), Leads(m, p) PROVE Leads(n, p)
    BY LeadsClosed

LEMMA LeadsEdge == ASSUME ToolInv, NEW n, NEW m \in Succs(n) PROVE Leads(n, m)
<1>1. <<n, m>> \in Edges /\ m \in Nodes
    BY SuccsHeads
<1>2. QED BY <1>1, LeadsClosed DEF Closed

LEMMA ClassShared ==
    ASSUME ToolInv, NEW n \in Nodes, NEW m \in Class(n) PROVE Class(m) = Class(n)
    BY LeadsOn DEF Class

\* A symbol without successors is alone.
LEMMA ClassAlone == ASSUME ToolInv, NEW n \in Nodes \ Heads PROVE Class(n) = {n}
<1>1. Closed({n})
    BY SuccsHeads DEF Closed
<1>2. \A m : Leads(n, m) => m = n
    BY <1>1, LeadsClosed
<1>3. QED BY <1>2, LeadsSelf DEF Class

(***************************************************************************)
(* The search for cycles                                                   *)
(***************************************************************************)
WorkItem == [node : Nodes, todo : SUBSET Nodes]
CycleState ==
    [work : Seq(WorkItem), known : SUBSET Nodes, count : Nat, stack : Seq(Nodes),
     comps : SUBSET (SUBSET Nodes), index : [Nodes -> Nat], low : [Nodes -> Nat]]

\* The nodes at work, the one on top, the nodes on the stack, the edges followed
Gray(t) == {t.work[i].node : i \in 1 .. Len(t.work)}
Tip(t) == t.work[Len(t.work)].node
Stacked(t) == {t.stack[i] : i \in 1 .. Len(t.stack)}
Followed(t, n, m) ==
    /\ n \in t.known /\ m \in Succs(n)
    /\ \A i \in 1 .. Len(t.work) : t.work[i].node = n => m \notin t.work[i].todo

\* Both work and stack are in the order in which the nodes were met.
Shape(t) ==
    /\ t.known \subseteq Heads /\ Stacked(t) \subseteq t.known /\ Gray(t) \subseteq Stacked(t)
    /\ \A n \in t.known : t.index[n] < t.count /\ t.low[n] <= t.index[n]
    /\ \A m, n \in t.known : t.index[m] = t.index[n] => m = n
    /\ \A i, j \in 1 .. Len(t.stack) : i < j => t.index[t.stack[i]] < t.index[t.stack[j]]
    /\ \A i, j \in 1 .. Len(t.work) : i < j => t.index[t.work[i].node] < t.index[t.work[j].node]
    /\ \A i \in 1 .. Len(t.work) : t.work[i].todo \subseteq Succs(t.work[i].node)

LEMMA CycleTypes ==
    ASSUME NEW t \in CycleState
    PROVE  /\ t.work \in Seq(WorkItem) /\ Len(t.work) \in Nat
           /\ t.stack \in Seq(Nodes) /\ Len(t.stack) \in Nat
           /\ t.known \in SUBSET Nodes /\ t.count \in Nat /\ t.comps \in SUBSET (SUBSET Nodes)
           /\ t.index \in [Nodes -> Nat] /\ t.low \in [Nodes -> Nat]
           /\ \A i \in 1 .. Len(t.work) : /\ t.work[i] \in WorkItem
                                          /\ t.work[i].node \in Nodes /\ t.work[i].todo \in SUBSET Nodes
           /\ \A i \in 1 .. Len(t.stack) : t.stack[i] \in Nodes
<1>1. /\ t.work \in Seq(WorkItem) /\ t.stack \in Seq(Nodes)
      /\ t.known \in SUBSET Nodes /\ t.count \in Nat /\ t.comps \in SUBSET (SUBSET Nodes)
      /\ t.index \in [Nodes -> Nat] /\ t.low \in [Nodes -> Nat]
    BY DEF CycleState
<1>2. \A i \in 1 .. Len(t.work) : t.work[i] \in WorkItem
    BY <1>1
<1>3. \A i \in 1 .. Len(t.work) : t.work[i].node \in Nodes /\ t.work[i].todo \in SUBSET Nodes
    BY <1>2 DEF WorkItem
<1>4. QED BY <1>1, <1>2, <1>3

\* A node is entered.
Discovered(t, u, n) ==
    /\ u.known = t.known \cup {n} /\ u.count = t.count + 1 /\ u.comps = t.comps
    /\ u.index = [t.index EXCEPT ![n] = t.count] /\ u.low = [t.low EXCEPT ![n] = t.count]
    /\ Stacked(u) = Stacked(t) \cup {n} /\ Gray(u) = Gray(t) \cup {n}
    /\ \A x, y : Followed(u, x, y) <=> Followed(t, x, y)

LEMMA DiscoverWorks ==
    ASSUME ToolInv, NEW t \in CycleState, Shape(t), NEW n \in Heads \ t.known,
           NEW u, u = Discover(t, n)
    PROVE  u \in CycleState /\ Shape(u) /\ Discovered(t, u, n) /\ u.work # <<>>
<1> DEFINE w == [node |-> n, todo |-> Succs(n)]
<1>1. /\ t.work \in Seq(WorkItem) /\ Len(t.work) \in Nat
      /\ t.stack \in Seq(Nodes) /\ Len(t.stack) \in Nat
      /\ t.known \in SUBSET Nodes /\ t.count \in Nat
      /\ t.index \in [Nodes -> Nat] /\ t.low \in [Nodes -> Nat]
    BY CycleTypes
<1>2. n \in Nodes /\ Succs(n) \in SUBSET Nodes /\ w \in WorkItem
    BY SuccsHeads DEF WorkItem
<1>3. /\ u.work = Append(t.work, w) /\ u.known = t.known \cup {n} /\ u.count = t.count + 1
      /\ u.index = [t.index EXCEPT ![n] = t.count] /\ u.low = [t.low EXCEPT ![n] = t.count]
      /\ u.stack = Append(t.stack, n) /\ u.comps = t.comps
    BY DEF Discover, CycleState
<1>4. /\ u.work \in Seq(WorkItem) /\ Len(u.work) = Len(t.work) + 1
      /\ u.work[Len(t.work) + 1] = w
      /\ \A i \in 1 .. Len(t.work) : u.work[i] = t.work[i]
    BY <1>1, <1>2, <1>3, AppendProperties
<1>5. /\ u.stack \in Seq(Nodes) /\ Len(u.stack) = Len(t.stack) + 1
      /\ u.stack[Len(t.stack) + 1] = n
      /\ \A i \in 1 .. Len(t.stack) : u.stack[i] = t.stack[i]
    BY <1>1, <1>2, <1>3, AppendProperties
<1>6. u.index \in [Nodes -> Nat] /\ u.low \in [Nodes -> Nat] /\ u.count \in Nat
      /\ u.known \in SUBSET Nodes
    BY <1>1, <1>2, <1>3
<1>7. u \in CycleState
    BY <1>3, <1>4, <1>5, <1>6 DEF Discover, CycleState
<1>8. /\ \A i : i \in 1 .. Len(u.work) <=> i \in 1 .. Len(t.work) \/ i = Len(t.work) + 1
      /\ \A i : i \in 1 .. Len(u.stack) <=> i \in 1 .. Len(t.stack) \/ i = Len(t.stack) + 1
  <2>1. ASSUME NEW k \in Nat
        PROVE  \A i : i \in 1 .. k + 1 <=> i \in 1 .. k \/ i = k + 1
      OBVIOUS
  <2>2. QED BY <1>1, <1>4, <1>5, <2>1
<1>9. w.node = n /\ w.todo = Succs(n)
    OBVIOUS
<1> HIDE DEF w
<1>10. Gray(u) = Gray(t) \cup {n}
    BY <1>4, <1>8, <1>9 DEF Gray
<1>11. Stacked(u) = Stacked(t) \cup {n}
    BY <1>5, <1>8 DEF Stacked
<1>12. \A x, y : Followed(u, x, y) <=> Followed(t, x, y)
  <2>1. ASSUME NEW x, NEW y, Followed(u, x, y) PROVE Followed(t, x, y)
    <3>1. x # n
        BY <1>4, <1>8, <1>9, <2>1 DEF Followed
    <3>2. QED BY <1>3, <1>4, <1>8, <2>1, <3>1 DEF Followed
  <2>2. ASSUME NEW x, NEW y, Followed(t, x, y) PROVE Followed(u, x, y)
    <3>1. x # n /\ x \in u.known /\ y \in Succs(x)
        BY <1>3, <2>2 DEF Followed
    <3>2. QED BY <1>4, <1>8, <1>9, <2>2, <3>1 DEF Followed
  <2>3. QED BY <2>1, <2>2
<1>13. Discovered(t, u, n)
    BY <1>3, <1>10, <1>11, <1>12 DEF Discovered
<1>14. /\ u.index[n] = t.count /\ u.low[n] = t.count
       /\ \A x \in t.known : x \in Nodes /\ x # n /\ u.index[x] = t.index[x] /\ u.low[x] = t.low[x]
       /\ \A x \in t.known : t.index[x] \in Nat /\ t.low[x] \in Nat
                             /\ t.index[x] < t.count /\ t.low[x] <= t.index[x]
    BY <1>1, <1>2, <1>3 DEF Shape
<1>15. \A i \in 1 .. Len(t.stack) : t.stack[i] \in t.known
    BY DEF Shape, Stacked
<1>16. \A i \in 1 .. Len(t.work) : t.work[i].node \in t.known
    BY DEF Shape, Stacked, Gray
<1>17. Shape(u)
  <2>1. u.known \subseteq Heads /\ Stacked(u) \subseteq u.known /\ Gray(u) \subseteq Stacked(u)
      BY <1>3, <1>10, <1>11 DEF Shape
  <2>2. \A x \in u.known : u.index[x] < u.count /\ u.low[x] <= u.index[x]
    <3>1. SUFFICES ASSUME NEW x \in u.known PROVE u.index[x] < u.count /\ u.low[x] <= u.index[x]
        OBVIOUS
    <3>2. u.count = t.count + 1 /\ t.count \in Nat
        BY <1>1, <1>3
    <3>3. CASE x = n
        BY <1>14, <3>2, <3>3
    <3>4. CASE x # n
      <4>1. x \in t.known
          BY <1>3, <3>1, <3>4
      <4>2. QED BY <1>14, <3>2, <4>1
    <3>5. QED BY <3>3, <3>4
  <2>3. ASSUME NEW x \in u.known, NEW y \in u.known, u.index[x] = u.index[y] PROVE x = y
    <3>1. CASE x = n /\ y # n
      <4>1. y \in t.known
          BY <1>3, <2>3, <3>1
      <4>2. QED BY <1>1, <1>14, <2>3, <3>1, <4>1
    <3>2. CASE x # n /\ y = n
      <4>1. x \in t.known
          BY <1>3, <2>3, <3>2
      <4>2. QED BY <1>1, <1>14, <2>3, <3>2, <4>1
    <3>3. CASE x # n /\ y # n
      <4>1. x \in t.known /\ y \in t.known
          BY <1>3, <2>3, <3>3
      <4>2. QED BY <1>14, <2>3, <4>1 DEF Shape
    <3>4. QED BY <3>1, <3>2, <3>3
  <2>4. ASSUME NEW i \in 1 .. Len(u.stack), NEW j \in 1 .. Len(u.stack), i < j
        PROVE  u.index[u.stack[i]] < u.index[u.stack[j]]
    <3>1. i \in 1 .. Len(t.stack) /\ u.stack[i] = t.stack[i] /\ t.stack[i] \in t.known
      <4>1. i \in 1 .. Len(t.stack)
          BY <1>1, <1>5, <2>4
      <4>2. QED BY <1>5, <1>15, <4>1
    <3>2. CASE j \in 1 .. Len(t.stack)
      <4>1. u.stack[j] = t.stack[j] /\ t.stack[j] \in t.known
          BY <1>5, <1>15, <3>2
      <4>2. t.index[t.stack[i]] < t.index[t.stack[j]]
          BY <2>4, <3>1, <3>2 DEF Shape
      <4>3. QED BY <1>14, <3>1, <4>1, <4>2
    <3>3. CASE j = Len(t.stack) + 1
        BY <1>5, <1>14, <3>1, <3>3
    <3>4. QED BY <1>8, <3>2, <3>3
  <2>5. ASSUME NEW i \in 1 .. Len(u.work), NEW j \in 1 .. Len(u.work), i < j
        PROVE  u.index[u.work[i].node] < u.index[u.work[j].node]
    <3>1. i \in 1 .. Len(t.work) /\ u.work[i] = t.work[i] /\ t.work[i].node \in t.known
      <4>1. i \in 1 .. Len(t.work)
          BY <1>1, <1>4, <2>5
      <4>2. QED BY <1>4, <1>16, <4>1
    <3>2. CASE j \in 1 .. Len(t.work)
      <4>1. u.work[j] = t.work[j] /\ t.work[j].node \in t.known
          BY <1>4, <1>16, <3>2
      <4>2. t.index[t.work[i].node] < t.index[t.work[j].node]
          BY <2>5, <3>1, <3>2 DEF Shape
      <4>3. QED BY <1>14, <3>1, <4>1, <4>2
    <3>3. CASE j = Len(t.work) + 1
        BY <1>4, <1>9, <1>14, <3>1, <3>3
    <3>4. QED BY <1>8, <3>2, <3>3
  <2>6. \A i \in 1 .. Len(u.work) : u.work[i].todo \subseteq Succs(u.work[i].node)
      BY <1>4, <1>8, <1>9 DEF Shape
  <2>7. QED BY <2>1, <2>2, <2>3, <2>4, <2>5, <2>6 DEF Shape
<1>18. u.work # <<>>
    BY <1>1, <1>4
<1>19. QED BY <1>7, <1>13, <1>17, <1>18

LEMMA ShapeParts ==
    ASSUME NEW t \in CycleState, Shape(t)
    PROVE  /\ \A i \in 1 .. Len(t.work) : /\ t.work[i].node \in t.known
                                          /\ t.work[i].node \in Stacked(t) /\ t.work[i].node \in Gray(t)
           /\ \A i \in 1 .. Len(t.stack) : t.stack[i] \in t.known
           /\ t.known \subseteq Nodes /\ Gray(t) \subseteq t.known
           /\ \A n \in Nodes : t.index[n] \in Nat /\ t.low[n] \in Nat
           /\ \A i, j \in 1 .. Len(t.work) : t.work[i].node = t.work[j].node => i = j
           /\ t.work = <<>> <=> Gray(t) = {}
           /\ ToSet(t.stack) = Stacked(t)
<1>1. /\ Len(t.work) \in Nat /\ t.work \in Seq(WorkItem) /\ t.stack \in Seq(Nodes)
      /\ t.known \in SUBSET Nodes
      /\ t.index \in [Nodes -> Nat] /\ t.low \in [Nodes -> Nat]
    BY CycleTypes
<1>2. /\ Stacked(t) \subseteq t.known /\ Gray(t) \subseteq Stacked(t)
      /\ \A i, j \in 1 .. Len(t.work) : i < j => t.index[t.work[i].node] < t.index[t.work[j].node]
    BY DEF Shape
<1>3. \A i \in 1 .. Len(t.work) : t.work[i].node \in Gray(t)
    BY DEF Gray
<1>4. \A i \in 1 .. Len(t.stack) : t.stack[i] \in Stacked(t)
    BY DEF Stacked
<1>5. \A n \in Nodes : t.index[n] \in Nat /\ t.low[n] \in Nat
    BY <1>1
<1>6. ASSUME NEW i \in 1 .. Len(t.work), NEW j \in 1 .. Len(t.work), t.work[i].node = t.work[j].node
      PROVE  i = j
  <2>1. ~(i < j) /\ ~(j < i)
    <3>1. t.index[t.work[i].node] \in Nat /\ t.index[t.work[j].node] = t.index[t.work[i].node]
        BY <1>1, <1>2, <1>3, <1>5, <1>6
    <3>2. QED BY <1>2, <3>1
  <2>2. QED BY <2>1
<1>7. t.work = <<>> <=> Gray(t) = {}
  <2>1. ASSUME t.work # <<>> PROVE Gray(t) # {}
    <3>1. 1 \in 1 .. Len(t.work)
        BY <1>1, <2>1
    <3>2. QED BY <1>3, <3>1
  <2>2. ASSUME t.work = <<>> PROVE Gray(t) = {}
      BY <2>2 DEF Gray
  <2>3. QED BY <2>1, <2>2
<1>8. ToSet(t.stack) = Stacked(t)
  <2>1. DOMAIN t.stack = 1 .. Len(t.stack)
      BY <1>1
  <2>2. QED BY <2>1 DEF ToSet, Stacked
<1>9. QED BY <1>1, <1>2, <1>3, <1>4, <1>5, <1>6, <1>7, <1>8

LEMMA TipLast ==
    ASSUME NEW t \in CycleState, Shape(t), t.work # <<>>
    PROVE  /\ Len(t.work) \in Nat \ {0} /\ Len(t.work) \in 1 .. Len(t.work)
           /\ Last(t.work) = t.work[Len(t.work)] /\ Last(t.work).node = Tip(t)
           /\ Tip(t) \in Gray(t) /\ Tip(t) \in Stacked(t) /\ Tip(t) \in t.known /\ Tip(t) \in Nodes
           /\ \A g \in Gray(t) : t.index[g] <= t.index[Tip(t)]
<1>1. t.work \in Seq(WorkItem) /\ Len(t.work) \in Nat \ {0}
  <2>1. t.work \in Seq(WorkItem)
      BY CycleTypes
  <2>2. QED BY <2>1, LenProperties, EmptySeq
<1>2. Len(t.work) \in 1 .. Len(t.work)
    BY <1>1
<1>3. Last(t.work) = t.work[Len(t.work)] /\ Last(t.work).node = Tip(t)
    BY DEF Last, Tip
<1>4. Tip(t) \in Gray(t) /\ Tip(t) \in Stacked(t) /\ Tip(t) \in t.known /\ Tip(t) \in Nodes
    BY <1>2, ShapeParts DEF Tip
<1>5. ASSUME NEW g \in Gray(t) PROVE t.index[g] <= t.index[Tip(t)]
  <2>1. PICK i \in 1 .. Len(t.work) : t.work[i].node = g
      BY DEF Gray
  <2>2. CASE i = Len(t.work)
    <3>1. g = Tip(t) /\ t.index[g] \in Nat
        BY <1>4, <2>1, <2>2, ShapeParts DEF Tip
    <3>2. QED BY <3>1
  <2>3. CASE i # Len(t.work)
    <3>1. i < Len(t.work)
        BY <1>1, <2>3
    <3>2. t.index[t.work[i].node] < t.index[t.work[Len(t.work)].node]
        BY <1>2, <3>1 DEF Shape
    <3>3. t.index[g] \in Nat /\ t.index[Tip(t)] \in Nat
        BY <1>4, ShapeParts
    <3>4. QED BY <2>1, <3>2, <3>3 DEF Tip
  <2>4. QED BY <2>2, <2>3
<1>6. QED BY <1>1, <1>2, <1>3, <1>4, <1>5

\* A successor is taken.
Took(t, s, m) ==
    /\ s.known = t.known /\ s.count = t.count /\ s.comps = t.comps /\ s.stack = t.stack
    /\ s.index = t.index /\ s.low = t.low /\ Gray(s) = Gray(t)
    /\ m \in Succs(Tip(t)) /\ ~Followed(t, Tip(t), m)
    /\ \A x, y : Followed(s, x, y) <=> Followed(t, x, y) \/ (x = Tip(t) /\ y = m)

LEMMA TakeWorks ==
    ASSUME ToolInv, NEW t \in CycleState, Shape(t), t.work # <<>>, NEW m \in Last(t.work).todo,
           NEW s, s = [t EXCEPT !.work[Len(t.work)].todo = @ \ {m}]
    PROVE  s \in CycleState /\ Shape(s) /\ Took(t, s, m)
<1> DEFINE L == Len(t.work)
           w == [t.work[L] EXCEPT !.todo = @ \ {m}]
<1>1. /\ t.work \in Seq(WorkItem) /\ L \in Nat /\ L \in 1 .. L /\ Last(t.work) = t.work[L]
      /\ Tip(t) \in t.known
    BY CycleTypes, TipLast
<1>2. t.work[L] \in WorkItem
    BY <1>1
<1>3. w \in WorkItem /\ w.node = t.work[L].node /\ w.todo = t.work[L].todo \ {m}
    BY <1>2 DEF WorkItem
<1>4. s = [t EXCEPT !.work = [t.work EXCEPT ![L] = w]]
    OBVIOUS
<1> HIDE DEF w
<1>5. /\ s.work = [t.work EXCEPT ![L] = w]
      /\ s.known = t.known /\ s.count = t.count /\ s.comps = t.comps /\ s.stack = t.stack
      /\ s.index = t.index /\ s.low = t.low
    BY <1>4 DEF CycleState
<1>6. /\ s.work \in Seq(WorkItem) /\ Len(s.work) = L
      /\ \A i \in 1 .. L : s.work[i] = IF i = L THEN w ELSE t.work[i]
  <2> DEFINE v == [t.work EXCEPT ![L] = w]
  <2>1. t.work \in Seq(WorkItem) /\ w \in WorkItem /\ L \in 1 .. Len(t.work)
      BY <1>1, <1>3
  <2>2. /\ v \in Seq(WorkItem) /\ Len(v) = Len(t.work)
        /\ \A i \in 1 .. Len(t.work) : v[i] = IF i = L THEN w ELSE t.work[i]
      BY <2>1, ExceptSeq
  <2>3. s.work = v
      BY <1>5
  <2> HIDE DEF v
  <2>4. QED BY <2>2, <2>3
<1>7. s \in CycleState
    BY <1>4, <1>5, <1>6 DEF CycleState
<1>8. \A i \in 1 .. L : s.work[i].node = t.work[i].node
    BY <1>3, <1>6
<1>9. Gray(s) = Gray(t) /\ Stacked(s) = Stacked(t) /\ Tip(t) = t.work[L].node
    BY <1>5, <1>6, <1>8 DEF Gray, Stacked, Tip
<1>10. m \in Succs(Tip(t))
    BY <1>1, <1>9 DEF Shape
<1>11. ~Followed(t, Tip(t), m)
    BY <1>1, <1>9 DEF Followed
<1>12. ASSUME NEW x, NEW y PROVE Followed(s, x, y) <=> Followed(t, x, y) \/ (x = Tip(t) /\ y = m)
  <2>1. CASE x # Tip(t)
    <3>1. \A i \in 1 .. L : s.work[i].node = x => s.work[i] = t.work[i]
        BY <1>6, <1>8, <1>9, <2>1
    <3>2. QED BY <1>5, <1>6, <1>8, <2>1, <3>1 DEF Followed
  <2>2. CASE x = Tip(t)
    <3>1. \A i \in 1 .. L : t.work[i].node = x <=> i = L
        BY <1>1, <1>9, <2>2, ShapeParts
    <3>2. Followed(t, x, y) <=> x \in t.known /\ y \in Succs(x) /\ y \notin t.work[L].todo
        BY <1>1, <3>1 DEF Followed
    <3>3. Followed(s, x, y) <=> x \in t.known /\ y \in Succs(x) /\ y \notin t.work[L].todo \ {m}
        BY <1>1, <1>3, <1>5, <1>6, <1>8, <3>1 DEF Followed
    <3>4. QED BY <1>1, <1>10, <2>2, <3>2, <3>3
  <2>3. QED BY <2>1, <2>2
<1>13. \A i \in 1 .. L : s.work[i].todo \subseteq Succs(s.work[i].node)
    BY <1>3, <1>6, <1>8 DEF Shape
<1>14. Shape(s)
  <2>1. \A i, j \in 1 .. Len(s.work) : i < j => s.index[s.work[i].node] < s.index[s.work[j].node]
      BY <1>5, <1>6, <1>8 DEF Shape
  <2>2. \A i \in 1 .. Len(s.work) : s.work[i].todo \subseteq Succs(s.work[i].node)
      BY <1>6, <1>13
  <2> HIDE DEF L
  <2>3. /\ s.known \subseteq Heads /\ Stacked(s) \subseteq s.known /\ Gray(s) \subseteq Stacked(s)
        /\ \A n \in s.known : s.index[n] < s.count /\ s.low[n] <= s.index[n]
        /\ \A a, b \in s.known : s.index[a] = s.index[b] => a = b
        /\ \A i, j \in 1 .. Len(s.stack) : i < j => s.index[s.stack[i]] < s.index[s.stack[j]]
      BY <1>5, <1>9 DEF Shape
  <2>4. QED BY <2>1, <2>2, <2>3 DEF Shape
<1>15. QED BY <1>5, <1>7, <1>9, <1>10, <1>11, <1>12, <1>14 DEF Took

\* A lowlink is lowered.
Lowered(t, u, n, v) ==
    /\ u.work = t.work /\ u.known = t.known /\ u.count = t.count /\ u.comps = t.comps
    /\ u.stack = t.stack /\ u.index = t.index
    /\ u.low = [t.low EXCEPT ![n] = Lower(t.low[n], v)]

LEMMA LowerWorks ==
    ASSUME NEW t \in CycleState, Shape(t), NEW n \in Nodes, NEW v \in Nat,
           NEW u, u = [t EXCEPT !.low[n] = Lower(@, v)]
    PROVE  u \in CycleState /\ Shape(u) /\ Lowered(t, u, n, v)
<1>1. t.low \in [Nodes -> Nat] /\ t.low[n] \in Nat /\ t.index \in [Nodes -> Nat]
      /\ t.known \in SUBSET Nodes
    BY CycleTypes
<1>2. Lower(t.low[n], v) \in Nat /\ Lower(t.low[n], v) <= t.low[n]
    BY <1>1 DEF Lower
<1>3. u = [t EXCEPT !.low = [t.low EXCEPT ![n] = Lower(t.low[n], v)]]
    OBVIOUS
<1>4. Lowered(t, u, n, v)
    BY <1>3 DEF CycleState, Lowered
<1>5. u.low \in [Nodes -> Nat]
    BY <1>1, <1>2, <1>4 DEF Lowered
<1>6. u \in CycleState
    BY <1>3, <1>4, <1>5 DEF CycleState, Lowered
<1>7. Gray(u) = Gray(t) /\ Stacked(u) = Stacked(t)
    BY <1>4 DEF Lowered, Gray, Stacked
<1>8. \A x \in t.known : u.low[x] <= t.index[x]
  <2>1. SUFFICES ASSUME NEW x \in t.known PROVE u.low[x] <= t.index[x]
      OBVIOUS
  <2>2. x \in Nodes /\ t.low[x] <= t.index[x] /\ t.low[x] \in Nat /\ t.index[x] \in Nat
      BY <1>1 DEF Shape
  <2>3. u.low[x] = IF x = n THEN Lower(t.low[n], v) ELSE t.low[x]
      BY <1>1, <1>4, <2>2 DEF Lowered
  <2>4. QED BY <1>1, <1>2, <2>2, <2>3
<1>9. Shape(u)
    BY <1>4, <1>7, <1>8 DEF Lowered, Shape
<1>10. QED BY <1>4, <1>6, <1>9

\* The node on top is done with its successors and taken off work.
Popped(t, s) ==
    /\ s.known = t.known /\ s.count = t.count /\ s.comps = t.comps /\ s.stack = t.stack
    /\ s.index = t.index /\ s.low = t.low /\ Gray(s) = Gray(t) \ {Tip(t)}
    /\ \A x, y : Followed(s, x, y) <=> Followed(t, x, y)

LEMMA PopWorks ==
    ASSUME ToolInv, NEW t \in CycleState, Shape(t), t.work # <<>>, Last(t.work).todo = {},
           NEW s, s = [t EXCEPT !.work = Front(@)]
    PROVE  s \in CycleState /\ Shape(s) /\ Popped(t, s)
<1> DEFINE L == Len(t.work)
           f == Front(t.work)
<1>1. /\ t.work \in Seq(WorkItem) /\ L \in Nat \ {0} /\ L \in 1 .. L /\ Last(t.work) = t.work[L]
      /\ Tip(t) \in t.known /\ Tip(t) = t.work[L].node
    BY CycleTypes, TipLast DEF Tip
<1>2. /\ f \in Seq(WorkItem) /\ Len(f) = L - 1 /\ \A i \in 1 .. L - 1 : f[i] = t.work[i]
  <2>1. 1 \in Int /\ L - 1 \in Int /\ \A i \in 1 .. L - 1 : t.work[i] \in WorkItem
      BY <1>1
  <2> DEFINE v == SubSeq(t.work, 1, L - 1)
  <2>2. /\ v \in Seq(WorkItem) /\ Len(v) = IF 1 <= L - 1 THEN L - 1 - 1 + 1 ELSE 0
        /\ \A i \in 1 .. L - 1 - 1 + 1 : v[i] = t.work[1 + i - 1]
      BY <2>1, SubSeqProperties
  <2>3. f = v
      BY DEF Front
  <2> HIDE DEF v, f
  <2>4. Len(f) = L - 1
      BY <1>1, <2>2, <2>3
  <2>5. ASSUME NEW i \in 1 .. L - 1 PROVE f[i] = t.work[i]
    <3>1. i \in 1 .. L - 1 - 1 + 1 /\ 1 + i - 1 = i
        BY <1>1
    <3>2. QED BY <2>2, <2>3, <3>1
  <2>6. QED BY <2>2, <2>3, <2>4, <2>5
<1>3. s = [t EXCEPT !.work = f]
    OBVIOUS
<1> HIDE DEF f
<1>4. /\ s.work = f /\ s.known = t.known /\ s.count = t.count /\ s.comps = t.comps
      /\ s.stack = t.stack /\ s.index = t.index /\ s.low = t.low
    BY <1>3 DEF CycleState
<1>5. s \in CycleState
    BY <1>2, <1>3, <1>4 DEF CycleState
<1>6. \A i \in 1 .. L : t.work[i].node = Tip(t) <=> i = L
    BY <1>1, ShapeParts
<1>7. \A i : i \in 1 .. L <=> i \in 1 .. L - 1 \/ i = L
    BY <1>1
<1>8. L \notin 1 .. L - 1
    BY <1>1
<1> DEFINE M == L - 1
<1>9. /\ Len(s.work) = M /\ \A i \in 1 .. M : s.work[i] = t.work[i]
    BY <1>2, <1>4
<1>10. /\ \A i : i \in 1 .. L <=> i \in 1 .. M \/ i = L
       /\ L \notin 1 .. M
    BY <1>7, <1>8
<1> HIDE DEF M
<1>11. Gray(s) = Gray(t) \ {Tip(t)}
  <2>1. Gray(s) = {t.work[i].node : i \in 1 .. M}
      BY <1>9 DEF Gray
  <2> HIDE DEF L
  <2>2. \A i \in 1 .. M : t.work[i].node # Tip(t)
      BY <1>6, <1>10
  <2>3. Gray(t) = {t.work[i].node : i \in 1 .. M} \cup {Tip(t)}
      BY <1>1, <1>10 DEF Gray, L
  <2>4. QED BY <2>1, <2>2, <2>3
<1>12. ASSUME NEW x, NEW y PROVE Followed(s, x, y) <=> Followed(t, x, y)
  <2>1. t.work[L].todo = {}
      BY <1>1
  <2> DEFINE Open(i) == t.work[i].node = x => y \notin t.work[i].todo
  <2>2. Open(L)
      BY <2>1
  <2>3. Followed(s, x, y) <=> x \in t.known /\ y \in Succs(x) /\ \A i \in 1 .. M : Open(i)
      BY <1>4, <1>9 DEF Followed
  <2>4. Followed(t, x, y) <=> x \in t.known /\ y \in Succs(x) /\ \A i \in 1 .. L : Open(i)
      BY DEF Followed
  <2> HIDE DEF Open, L
  <2>5. QED BY <1>10, <2>2, <2>3, <2>4
<1>13. Stacked(s) = Stacked(t)
    BY <1>4 DEF Stacked
<1>14. Shape(s)
  <2>1. \A i \in 1 .. M : i \in 1 .. Len(t.work)
      BY <1>10
  <2>2. \A i, j \in 1 .. Len(s.work) : i < j => s.index[s.work[i].node] < s.index[s.work[j].node]
      BY <1>4, <1>9, <2>1 DEF Shape
  <2>3. \A i \in 1 .. Len(s.work) : s.work[i].todo \subseteq Succs(s.work[i].node)
      BY <1>4, <1>9, <2>1 DEF Shape
  <2> HIDE DEF L
  <2>4. /\ s.known \subseteq Heads /\ Stacked(s) \subseteq s.known /\ Gray(s) \subseteq Stacked(s)
        /\ \A n \in s.known : s.index[n] < s.count /\ s.low[n] <= s.index[n]
        /\ \A a, b \in s.known : s.index[a] = s.index[b] => a = b
        /\ \A i, j \in 1 .. Len(s.stack) : i < j => s.index[s.stack[i]] < s.index[s.stack[j]]
      BY <1>4, <1>11, <1>13 DEF Shape
  <2>5. QED BY <2>2, <2>3, <2>4 DEF Shape
<1>15. QED BY <1>4, <1>5, <1>11, <1>12, <1>14 DEF Popped

\* A component is taken off the stack: what lies above its root, and the root.
Cut(t, u, n) ==
    /\ u.work = t.work /\ u.known = t.known /\ u.count = t.count
    /\ u.index = t.index /\ u.low = t.low
    /\ Stacked(u) = {x \in Stacked(t) : t.index[x] < t.index[n]}
    /\ u.comps = IF Cardinality(Stacked(t) \ Stacked(u)) >= 2
                 THEN t.comps \cup {Stacked(t) \ Stacked(u)} ELSE t.comps

LEMMA CutWorks ==
    ASSUME ToolInv, NEW t \in CycleState, Shape(t), NEW n \in Stacked(t), t.low[n] = t.index[n],
           \A g \in Gray(t) : t.index[g] < t.index[n], NEW u, u = Emit(t, n)
    PROVE  u \in CycleState /\ Shape(u) /\ Cut(t, u, n)
<1> DEFINE at == CHOOSE i \in 1 .. Len(t.stack) : t.stack[i] = n
           above == SubSeq(t.stack, at, Len(t.stack))
           below == SubSeq(t.stack, 1, at - 1)
<1>1. at \in 1 .. Len(t.stack) /\ t.stack[at] = n
    BY DEF Stacked
<1>2. u = [t EXCEPT !.stack = below,
                    !.comps = IF Cardinality(ToSet(above)) >= 2 THEN @ \cup {ToSet(above)} ELSE @]
    BY DEF Emit
<1> HIDE DEF at
<1>3. /\ t.stack \in Seq(Nodes) /\ Len(t.stack) \in Nat /\ t.index \in [Nodes -> Nat]
      /\ t.comps \in SUBSET (SUBSET Nodes)
      /\ \A i \in 1 .. Len(t.stack) : t.stack[i] \in Nodes /\ t.index[t.stack[i]] \in Nat
      /\ \A i, j \in 1 .. Len(t.stack) : i < j => t.index[t.stack[i]] < t.index[t.stack[j]]
    BY CycleTypes DEF Shape
<1>4. \A i \in 1 .. Len(t.stack) : t.index[t.stack[i]] < t.index[n] <=> i < at
  <2>1. SUFFICES ASSUME NEW i \in 1 .. Len(t.stack)
                 PROVE  t.index[t.stack[i]] < t.index[n] <=> i < at
      OBVIOUS
  <2>2. CASE i = at
      BY <1>1, <1>3, <2>2
  <2>3. CASE i < at
      BY <1>1, <1>3, <2>3
  <2>4. CASE at < i
    <3>1. t.index[n] < t.index[t.stack[i]]
        BY <1>1, <1>3, <2>4
    <3>2. t.index[n] \in Nat /\ t.index[t.stack[i]] \in Nat
        BY <1>1, <1>3
    <3>3. QED BY <1>1, <2>4, <3>1, <3>2
  <2>5. QED BY <1>1, <2>2, <2>3, <2>4
<1>5. /\ below \in Seq(Nodes) /\ Len(below) = at - 1 /\ \A i \in 1 .. at - 1 : below[i] = t.stack[i]
  <2>1. 1 \in Int /\ at - 1 \in Int /\ \A i \in 1 .. at - 1 : t.stack[i] \in Nodes
      BY <1>1, <1>3
  <2> DEFINE v == below
  <2>2. /\ v \in Seq(Nodes) /\ Len(v) = IF 1 <= at - 1 THEN at - 1 - 1 + 1 ELSE 0
        /\ \A i \in 1 .. at - 1 - 1 + 1 : v[i] = t.stack[1 + i - 1]
      BY <2>1, SubSeqProperties
  <2> HIDE DEF v
  <2>3. Len(v) = at - 1
      BY <1>1, <2>2
  <2>4. ASSUME NEW i \in 1 .. at - 1 PROVE v[i] = t.stack[i]
    <3>1. i \in 1 .. at - 1 - 1 + 1 /\ 1 + i - 1 = i
        BY <1>1
    <3>2. QED BY <2>2, <3>1
  <2>5. QED BY <2>2, <2>3, <2>4 DEF v
<1>6. /\ above \in Seq(Nodes) /\ \A x : x \in ToSet(above) <=> \E i \in at .. Len(t.stack) : t.stack[i] = x
  <2>1. at \in Int /\ Len(t.stack) \in Int /\ \A i \in at .. Len(t.stack) : t.stack[i] \in Nodes
      BY <1>1, <1>3
  <2> DEFINE v == above
             m == Len(t.stack) - at + 1
  <2>2. /\ v \in Seq(Nodes) /\ Len(v) = IF at <= Len(t.stack) THEN m ELSE 0
        /\ \A i \in 1 .. m : v[i] = t.stack[at + i - 1]
      BY <2>1, SubSeqProperties
  <2> HIDE DEF v
  <2>3. Len(v) = m /\ DOMAIN v = 1 .. m
      BY <1>1, <2>2
  <2>4. ASSUME NEW x PROVE x \in ToSet(v) <=> \E i \in at .. Len(t.stack) : t.stack[i] = x
    <3>1. x \in ToSet(v) <=> \E i \in 1 .. m : v[i] = x
        BY <2>3 DEF ToSet
    <3>2. ASSUME NEW i \in 1 .. m, v[i] = x PROVE \E j \in at .. Len(t.stack) : t.stack[j] = x
      <4>1. at + i - 1 \in at .. Len(t.stack) /\ t.stack[at + i - 1] = x
          BY <1>1, <2>2, <3>2
      <4>2. QED BY <4>1
    <3>3. ASSUME NEW j \in at .. Len(t.stack), t.stack[j] = x PROVE \E i \in 1 .. m : v[i] = x
      <4>1. j - at + 1 \in 1 .. m /\ at + (j - at + 1) - 1 = j
          BY <1>1
      <4>2. v[j - at + 1] = x
          BY <2>2, <3>3, <4>1
      <4>3. QED BY <4>1, <4>2
    <3>4. QED BY <3>1, <3>2, <3>3
  <2>5. QED BY <2>2, <2>4 DEF v
<1> DEFINE C == ToSet(above)
<1>7. C = {x \in Stacked(t) : ~(t.index[x] < t.index[n])}
  <2>1. \A i : i \in at .. Len(t.stack) <=> i \in 1 .. Len(t.stack) /\ ~(i < at)
      BY <1>1, <1>3
  <2> HIDE DEF above
  <2>2. QED BY <1>4, <1>6, <2>1 DEF Stacked
<1> HIDE DEF above, below
<1>8. /\ u.stack = below /\ u.work = t.work /\ u.known = t.known /\ u.count = t.count
      /\ u.index = t.index /\ u.low = t.low
      /\ u.comps = IF Cardinality(C) >= 2 THEN t.comps \cup {C} ELSE t.comps
    BY <1>2 DEF CycleState
<1>9. Stacked(u) = {x \in Stacked(t) : t.index[x] < t.index[n]}
  <2>1. \A i : i \in 1 .. at - 1 <=> i \in 1 .. Len(t.stack) /\ i < at
      BY <1>1, <1>3
  <2>2. Stacked(u) = {t.stack[i] : i \in 1 .. at - 1}
      BY <1>5, <1>8 DEF Stacked
  <2>3. QED BY <1>4, <2>1, <2>2 DEF Stacked
<1>10. C = Stacked(t) \ Stacked(u) /\ C \in SUBSET Nodes
  <2>1. Stacked(t) \subseteq Nodes
      BY <1>3 DEF Stacked
  <2>2. QED BY <1>7, <1>9, <2>1
<1> HIDE DEF C
<1>11. u \in CycleState
  <2>1. u.comps \in SUBSET (SUBSET Nodes)
      BY <1>3, <1>8, <1>10
  <2>2. u = [t EXCEPT !.stack = u.stack, !.comps = u.comps]
      BY <1>2, <1>8 DEF CycleState, C
  <2>3. QED BY <1>5, <1>8, <2>1, <2>2 DEF CycleState
<1>12. Shape(u)
  <2>1. \A i, j \in 1 .. Len(u.stack) : i < j => u.index[u.stack[i]] < u.index[u.stack[j]]
    <3>1. \A i \in 1 .. at - 1 : i \in 1 .. Len(t.stack)
        BY <1>1, <1>3
    <3>2. Len(u.stack) = at - 1 /\ \A i \in 1 .. at - 1 : u.stack[i] = t.stack[i]
        BY <1>5, <1>8
    <3>3. SUFFICES ASSUME NEW i \in 1 .. at - 1, NEW j \in 1 .. at - 1, i < j
                   PROVE  t.index[t.stack[i]] < t.index[t.stack[j]]
        BY <1>8, <3>2
    <3>4. QED BY <1>3, <3>1, <3>3
  <2>2. Gray(u) = Gray(t)
      BY <1>8 DEF Gray
  <2>3. /\ Stacked(u) \subseteq u.known /\ Gray(u) \subseteq Stacked(u)
      BY <1>8, <1>9, <2>2 DEF Shape
  <2>4. QED BY <1>8, <2>1, <2>3 DEF Shape
<1>13. QED BY <1>8, <1>9, <1>10, <1>11, <1>12 DEF Cut

(***************************************************************************)
(* The components found                                                    *)
(***************************************************************************)
Settled(t) == t.known \ Stacked(t)
\* The nearest node at work below n on the stack
Under(t, g, n) ==
    t.index[g] <= t.index[n] /\ \A h \in Gray(t) : t.index[h] <= t.index[n] => t.index[h] <= t.index[g]

\* Edges followed lead to nodes known, and from settled nodes to settled ones.
FollowedKnown(t) ==
    /\ \A n, m : Followed(t, n, m) /\ m \in Heads => m \in t.known
    /\ \A n \in Settled(t) : \A m \in Succs(n) : m \in Heads => m \in Settled(t)
\* A node at work leads to those above it on the stack, and a stacked node to one at work below it.
StackLinked(t) ==
    /\ \A g \in Gray(t), n \in Stacked(t) : t.index[g] <= t.index[n] => Leads(g, n)
    /\ \A n \in Stacked(t) : \E g \in Gray(t) : t.index[g] <= t.index[n] /\ Leads(n, g)
\* A lowlink bounds where edges lead from the part of the stack between two nodes at work,
\* and is the index of a stacked node that the node leads to.
LowKept(t) ==
    /\ \A g \in Gray(t), n \in Stacked(t), m \in Stacked(t) :
          Followed(t, n, m) /\ Under(t, g, n) => t.low[g] <= t.index[m]
    /\ \A g \in Gray(t) : \E x \in Stacked(t) : t.index[x] = t.low[g] /\ Leads(g, x)
CompsExact(t) == t.comps = {c \in {Class(n) : n \in Settled(t)} : Cardinality(c) >= 2}
Cycled(t) == FollowedKnown(t) /\ StackLinked(t) /\ LowKept(t) /\ CompsExact(t)

\* The numbers of a state, for use below.
LEMMA Numbers ==
    ASSUME ToolInv, NEW t \in CycleState, Shape(t)
    PROVE  /\ t.known \subseteq Heads /\ Stacked(t) \subseteq t.known /\ Gray(t) \subseteq Stacked(t)
           /\ t.known \subseteq Nodes /\ t.count \in Nat
           /\ \A n \in t.known : /\ n \in Nodes /\ t.index[n] \in Nat /\ t.low[n] \in Nat
                                 /\ t.index[n] < t.count /\ t.low[n] <= t.index[n]
           /\ \A m, n \in t.known : t.index[m] = t.index[n] => m = n
<1>1. /\ t.known \subseteq Heads /\ Stacked(t) \subseteq t.known /\ Gray(t) \subseteq Stacked(t)
      /\ \A n \in t.known : t.index[n] < t.count /\ t.low[n] <= t.index[n]
      /\ \A m, n \in t.known : t.index[m] = t.index[n] => m = n
    BY DEF Shape
<1>2. t.known \subseteq Nodes /\ t.count \in Nat
    BY CycleTypes
<1>3. \A n \in t.known : n \in Nodes /\ t.index[n] \in Nat /\ t.low[n] \in Nat
    BY <1>2, ShapeParts
<1>4. QED BY <1>1, <1>2, <1>3

LEMMA EnterCycled ==
    ASSUME ToolInv, NEW t \in CycleState, Shape(t), Cycled(t), NEW n \in Heads \ t.known,
           NEW u \in CycleState, Shape(u), t.work # <<>> => n \in Succs(Tip(t)),
           u.known = t.known \cup {n}, u.comps = t.comps,
           u.index = [t.index EXCEPT ![n] = t.count], u.low = [t.low EXCEPT ![n] = t.count],
           Stacked(u) = Stacked(t) \cup {n}, Gray(u) = Gray(t) \cup {n},
           \A x, y : Followed(u, x, y) => \/ Followed(t, x, y)
                                          \/ t.work # <<>> /\ x = Tip(t) /\ y = n
    PROVE  Cycled(u)
<1>1. /\ t.known \subseteq Heads /\ Stacked(t) \subseteq t.known /\ Gray(t) \subseteq Stacked(t)
      /\ t.known \subseteq Nodes /\ t.count \in Nat
      /\ \A x \in t.known : /\ x \in Nodes /\ t.index[x] \in Nat /\ t.low[x] \in Nat
                            /\ t.index[x] < t.count /\ t.low[x] <= t.index[x]
    BY Numbers
<1>2. n \in Nodes
    BY SuccsHeads
<1>3. /\ u.index[n] = t.count /\ u.low[n] = t.count
      /\ \A x \in t.known : x # n /\ u.index[x] = t.index[x] /\ u.low[x] = t.low[x]
    BY <1>1, <1>2, CycleTypes
<1>4. Settled(u) = Settled(t)
    BY <1>1 DEF Settled
<1>5. FollowedKnown(u)
    BY <1>4 DEF Cycled, FollowedKnown
<1>6. StackLinked(u)
  <2>1. ASSUME NEW g \in Gray(u), NEW x \in Stacked(u), u.index[g] <= u.index[x] PROVE Leads(g, x)
    <3>1. CASE g = n
      <4>1. x = n
          BY <1>1, <1>3, <2>1, <3>1
      <4>2. QED BY <3>1, <4>1, LeadsSelf
    <3>2. CASE g # n /\ x # n
        BY <1>1, <1>3, <2>1, <3>2 DEF Cycled, StackLinked
    <3>3. CASE g # n /\ x = n
      <4>1. g \in Gray(t) /\ t.work # <<>>
          BY <3>3, ShapeParts
      <4>2. Tip(t) \in Stacked(t) /\ t.index[g] <= t.index[Tip(t)]
          BY <4>1, TipLast
      <4>3. Leads(g, Tip(t))
          BY <4>1, <4>2 DEF Cycled, StackLinked
      <4>4. Leads(Tip(t), n)
          BY <4>1, LeadsEdge
      <4>5. QED BY <3>3, <4>3, <4>4, LeadsOn
    <3>4. QED BY <3>1, <3>2, <3>3
  <2>2. ASSUME NEW x \in Stacked(u) PROVE \E g \in Gray(u) : u.index[g] <= u.index[x] /\ Leads(x, g)
    <3>1. CASE x = n
        BY <1>1, <1>3, <3>1, LeadsSelf
    <3>2. CASE x # n
      <4>1. x \in Stacked(t)
          BY <3>2
      <4>2. PICK g \in Gray(t) : t.index[g] <= t.index[x] /\ Leads(x, g)
          BY <4>1 DEF Cycled, StackLinked
      <4>3. u.index[g] <= u.index[x]
          BY <1>1, <1>3, <4>1, <4>2
      <4>4. QED BY <4>2, <4>3
    <3>3. QED BY <3>1, <3>2
  <2>3. QED BY <2>1, <2>2 DEF StackLinked
<1>7. LowKept(u)
  <2>1. ASSUME NEW g \in Gray(u), NEW x \in Stacked(u), NEW m \in Stacked(u),
               Followed(u, x, m), Under(u, g, x)
        PROVE  u.low[g] <= u.index[m]
    <3>1. x # n \/ g = n
      <4>1. SUFFICES ASSUME x = n, g # n PROVE FALSE
          OBVIOUS
      <4>2. u.index[n] <= u.index[g]
          BY <1>1, <1>3, <2>1, <4>1 DEF Under
      <4>3. QED BY <1>1, <1>3, <4>1, <4>2
    <3>2. ~(g = n)
      <4>1. SUFFICES ASSUME g = n PROVE FALSE
          OBVIOUS
      <4>2. x = n
          BY <1>1, <1>3, <2>1, <4>1 DEF Under
      <4>3. Followed(t, n, m) \/ (t.work # <<>> /\ n = Tip(t))
          BY <2>1, <4>2
      <4>4. n \notin t.known
          OBVIOUS
      <4>5. QED BY <4>3, <4>4, TipLast DEF Followed
    <3>3. g \in Gray(t) /\ x \in Stacked(t) /\ u.low[g] = t.low[g]
          /\ t.low[g] <= t.index[g] /\ t.index[g] < t.count /\ t.low[g] \in Nat
        BY <1>1, <1>3, <3>1, <3>2
    <3>4. CASE m = n
      <4>1. u.index[m] = t.count /\ t.index[g] \in Nat
          BY <1>1, <1>3, <3>3, <3>4
      <4>2. QED BY <1>1, <3>3, <4>1
    <3>5. CASE m # n
      <4>1. m \in Stacked(t) /\ Followed(t, x, m)
          BY <2>1, <3>5
      <4>2. Under(t, g, x)
          BY <1>1, <1>3, <2>1, <3>3 DEF Under
      <4>3. t.low[g] <= t.index[m]
          BY <3>3, <4>1, <4>2 DEF Cycled, LowKept
      <4>4. QED BY <1>1, <1>3, <3>3, <4>1, <4>3
    <3>6. QED BY <3>4, <3>5
  <2>2. ASSUME NEW g \in Gray(u) PROVE \E x \in Stacked(u) : u.index[x] = u.low[g] /\ Leads(g, x)
    <3>1. CASE g = n
        BY <1>3, <3>1, LeadsSelf
    <3>2. CASE g # n
      <4>1. g \in Gray(t)
          BY <3>2
      <4>2. PICK x \in Stacked(t) : t.index[x] = t.low[g] /\ Leads(g, x)
          BY <4>1 DEF Cycled, LowKept
      <4>3. u.index[x] = u.low[g]
          BY <1>1, <1>3, <4>1, <4>2
      <4>4. QED BY <4>2, <4>3
    <3>3. QED BY <3>1, <3>2
  <2>3. QED BY <2>1, <2>2 DEF LowKept
<1>8. CompsExact(u)
    BY <1>4 DEF Cycled, CompsExact
<1>9. QED BY <1>5, <1>6, <1>7, <1>8 DEF Cycled

LEMMA FollowCycled ==
    ASSUME ToolInv, NEW t \in CycleState, Shape(t), Cycled(t), t.work # <<>>,
           NEW m \in Succs(Tip(t)), m \in Heads => m \in t.known,
           NEW u \in CycleState, Shape(u),
           u.known = t.known, u.comps = t.comps, u.index = t.index,
           Stacked(u) = Stacked(t), Gray(u) = Gray(t),
           \A x, y : Followed(u, x, y) => Followed(t, x, y) \/ (x = Tip(t) /\ y = m),
           \/ m \notin Stacked(t) /\ u.low = t.low
           \/ /\ m \in Stacked(t)
              /\ u.low = [t.low EXCEPT ![Tip(t)] = Lower(t.low[Tip(t)], t.index[m])]
    PROVE  Cycled(u)
<1>1. /\ t.known \subseteq Heads /\ Stacked(t) \subseteq t.known /\ Gray(t) \subseteq Stacked(t)
      /\ t.known \subseteq Nodes
      /\ \A x \in t.known : /\ x \in Nodes /\ t.index[x] \in Nat /\ t.low[x] \in Nat
                            /\ t.low[x] <= t.index[x]
      /\ \A x, y \in t.known : t.index[x] = t.index[y] => x = y
    BY Numbers
<1>2. /\ Tip(t) \in Gray(t) /\ Tip(t) \in Stacked(t) /\ Tip(t) \in t.known /\ Tip(t) \in Nodes
      /\ \A g \in Gray(t) : t.index[g] <= t.index[Tip(t)]
    BY TipLast
<1>3. Settled(u) = Settled(t)
    BY DEF Settled
<1>4. FollowedKnown(u)
    BY <1>3 DEF Cycled, FollowedKnown
<1>5. StackLinked(u)
    BY DEF Cycled, StackLinked
<1>6. CompsExact(u)
    BY <1>3 DEF Cycled, CompsExact
<1>7. \A x \in t.known : u.low[x] \in Nat /\ u.low[x] <= t.low[x]
  <2>1. t.low \in [Nodes -> Nat]
      BY CycleTypes
  <2>2. ASSUME m \in Stacked(t),
               u.low = [t.low EXCEPT ![Tip(t)] = Lower(t.low[Tip(t)], t.index[m])],
               NEW x \in t.known
        PROVE  u.low[x] \in Nat /\ u.low[x] <= t.low[x]
    <3>1. t.index[m] \in Nat /\ t.low[Tip(t)] \in Nat /\ t.low[x] \in Nat /\ x \in Nodes
        BY <1>1, <1>2, <2>2
    <3>2. u.low[x] = IF x = Tip(t) THEN Lower(t.low[Tip(t)], t.index[m]) ELSE t.low[x]
        BY <2>1, <2>2, <3>1
    <3>3. QED BY <3>1, <3>2 DEF Lower
  <2>3. QED BY <1>1, <2>2
<1>8. ASSUME m \in Stacked(t)
      PROVE  /\ u.low[Tip(t)] = Lower(t.low[Tip(t)], t.index[m])
             /\ \A x \in t.known : x # Tip(t) => u.low[x] = t.low[x]
  <2>1. t.low \in [Nodes -> Nat] /\ u.low = [t.low EXCEPT ![Tip(t)] = Lower(t.low[Tip(t)], t.index[m])]
      BY <1>8, CycleTypes
  <2>2. QED BY <1>1, <1>2, <2>1
<1>9. LowKept(u)
  <2>1. ASSUME NEW g \in Gray(u), NEW x \in Stacked(u), NEW y \in Stacked(u),
               Followed(u, x, y), Under(u, g, x)
        PROVE  u.low[g] <= u.index[y]
    <3>1. g \in t.known /\ y \in t.known /\ g \in Gray(t) /\ Under(t, g, x)
        BY <1>1, <2>1 DEF Under
    <3>2. CASE Followed(t, x, y)
      <4>1. t.low[g] <= t.index[y]
          BY <2>1, <3>1, <3>2 DEF Cycled, LowKept
      <4>2. t.index[y] \in Nat /\ u.low[g] \in Nat /\ t.low[g] \in Nat /\ u.low[g] <= t.low[g]
          BY <1>1, <1>7, <3>1
      <4>3. QED BY <4>1, <4>2
    <3>3. CASE x = Tip(t) /\ y = m
      <4>1. t.index[Tip(t)] <= t.index[g] /\ t.index[g] <= t.index[Tip(t)]
          BY <1>1, <1>2, <3>1, <3>3 DEF Under
      <4>2. g = Tip(t)
          BY <1>1, <1>2, <3>1, <4>1
      <4>3. m \in Stacked(t) /\ t.index[m] \in Nat /\ t.low[Tip(t)] \in Nat
          BY <1>1, <1>2, <2>1, <3>3
      <4>4. u.low[g] = Lower(t.low[Tip(t)], t.index[m])
          BY <1>8, <4>2, <4>3
      <4>5. QED BY <3>3, <4>3, <4>4 DEF Lower
    <3>4. QED BY <2>1, <3>2, <3>3
  <2>2. ASSUME NEW g \in Gray(u) PROVE \E x \in Stacked(u) : u.index[x] = u.low[g] /\ Leads(g, x)
    <3>1. PICK x \in Stacked(t) : t.index[x] = t.low[g] /\ Leads(g, x)
        BY DEF Cycled, LowKept
    <3>2. CASE u.low[g] = t.low[g]
        BY <3>1, <3>2
    <3>3. CASE u.low[g] # t.low[g]
      <4>1. m \in Stacked(t) /\ g = Tip(t) /\ g \in t.known
          BY <1>1, <1>8, <3>3
      <4>2. u.low[g] = t.index[m]
          BY <1>8, <3>3, <4>1 DEF Lower
      <4>3. Leads(g, m)
          BY <4>1, LeadsEdge
      <4>4. QED BY <4>1, <4>2, <4>3
    <3>4. QED BY <3>2, <3>3
  <2>3. QED BY <2>1, <2>2 DEF LowKept
<1>10. QED BY <1>4, <1>5, <1>6, <1>9 DEF Cycled

\* A node is done: what is below it at work inherits its lowlink.
Inherited(t, u) ==
    \/ Gray(u) = {} /\ u.low = t.low
    \/ \E p \in Gray(u) : /\ \A h \in Gray(u) : t.index[h] <= t.index[p]
                          /\ u.low = [t.low EXCEPT ![p] = Lower(t.low[p], t.low[Tip(t)])]

LEMMA InheritedLow ==
    ASSUME ToolInv, NEW t \in CycleState, Shape(t), t.work # <<>>, NEW u,
           Gray(u) = Gray(t) \ {Tip(t)}, Inherited(t, u)
    PROVE  /\ \A x \in t.known : u.low[x] \in Nat /\ u.low[x] <= t.low[x]
           /\ \A g \in Gray(u) : \/ u.low[g] = t.low[g]
                                 \/ u.low[g] = t.low[Tip(t)] /\ t.low[Tip(t)] < t.low[g]
           /\ \A g \in Gray(u) : (\A h \in Gray(u) : t.index[h] <= t.index[g])
                                    => u.low[g] <= t.low[Tip(t)]
<1>1. /\ Gray(t) \subseteq t.known
      /\ \A x \in t.known : x \in Nodes /\ t.index[x] \in Nat /\ t.low[x] \in Nat
      /\ \A x, y \in t.known : t.index[x] = t.index[y] => x = y
      /\ t.low \in [Nodes -> Nat]
    BY Numbers, CycleTypes
<1>2. Tip(t) \in t.known
    BY TipLast
<1>3. CASE Gray(u) = {} /\ u.low = t.low
    BY <1>1, <1>3
<1>4. ASSUME NEW p \in Gray(u), \A h \in Gray(u) : t.index[h] <= t.index[p],
             u.low = [t.low EXCEPT ![p] = Lower(t.low[p], t.low[Tip(t)])]
      PROVE  /\ \A x \in t.known : u.low[x] \in Nat /\ u.low[x] <= t.low[x]
             /\ \A g \in Gray(u) : \/ u.low[g] = t.low[g]
                                   \/ u.low[g] = t.low[Tip(t)] /\ t.low[Tip(t)] < t.low[g]
             /\ \A g \in Gray(u) : (\A h \in Gray(u) : t.index[h] <= t.index[g])
                                      => u.low[g] <= t.low[Tip(t)]
  <2>1. p \in t.known /\ t.low[p] \in Nat /\ t.low[Tip(t)] \in Nat
      BY <1>1, <1>2
  <2>2. \A x \in t.known :
            u.low[x] = IF x = p THEN Lower(t.low[p], t.low[Tip(t)]) ELSE t.low[x]
      BY <1>1, <1>4
  <2>3. \A x \in t.known : u.low[x] \in Nat /\ u.low[x] <= t.low[x]
      BY <1>1, <2>1, <2>2 DEF Lower
  <2>4. \A g \in Gray(u) : \/ u.low[g] = t.low[g]
                           \/ u.low[g] = t.low[Tip(t)] /\ t.low[Tip(t)] < t.low[g]
    <3>1. SUFFICES ASSUME NEW g \in Gray(u)
                   PROVE  \/ u.low[g] = t.low[g]
                          \/ u.low[g] = t.low[Tip(t)] /\ t.low[Tip(t)] < t.low[g]
        OBVIOUS
    <3>2. g \in t.known
        BY <1>1
    <3>3. CASE g = p
        BY <2>1, <2>2, <3>2, <3>3 DEF Lower
    <3>4. CASE g # p
        BY <2>2, <3>2, <3>4
    <3>5. QED BY <3>3, <3>4
  <2>5. ASSUME NEW g \in Gray(u), \A h \in Gray(u) : t.index[h] <= t.index[g]
        PROVE  u.low[g] <= t.low[Tip(t)]
    <3>1. g \in t.known /\ t.index[g] \in Nat /\ t.index[p] \in Nat
        BY <1>1, <2>1
    <3>2. t.index[g] = t.index[p]
      <4>1. t.index[g] <= t.index[p] /\ t.index[p] <= t.index[g]
          BY <1>4, <2>5
      <4>2. QED BY <3>1, <4>1
    <3>3. g = p
        BY <1>1, <2>1, <3>1, <3>2
    <3>4. QED BY <2>1, <2>2, <3>1, <3>3 DEF Lower
  <2>6. QED BY <2>3, <2>4, <2>5
<1>5. QED BY <1>3, <1>4 DEF Inherited

\* A node that is done, and is not the root of a component, stays on the stack.
LEMMA LeaveKept ==
    ASSUME ToolInv, NEW t \in CycleState, Shape(t), Cycled(t), t.work # <<>>,
           t.low[Tip(t)] # t.index[Tip(t)],
           NEW u \in CycleState, Shape(u), u.known = t.known, u.index = t.index, u.comps = t.comps,
           Stacked(u) = Stacked(t), Gray(u) = Gray(t) \ {Tip(t)}, Inherited(t, u),
           \A x, y : Followed(u, x, y) => Followed(t, x, y)
    PROVE  Cycled(u)
<1>1. /\ Stacked(t) \subseteq t.known /\ Gray(t) \subseteq Stacked(t)
      /\ \A x \in t.known : t.index[x] \in Nat /\ t.low[x] \in Nat /\ t.low[x] <= t.index[x]
    BY Numbers
<1>2. /\ Tip(t) \in Gray(t) /\ Tip(t) \in Stacked(t) /\ Tip(t) \in t.known
      /\ \A g \in Gray(t) : t.index[g] <= t.index[Tip(t)]
    BY TipLast
<1>3. /\ \A x \in t.known : u.low[x] \in Nat /\ u.low[x] <= t.low[x]
      /\ \A g \in Gray(u) : \/ u.low[g] = t.low[g]
                            \/ u.low[g] = t.low[Tip(t)] /\ t.low[Tip(t)] < t.low[g]
      /\ \A g \in Gray(u) : (\A h \in Gray(u) : t.index[h] <= t.index[g])
                               => u.low[g] <= t.low[Tip(t)]
    BY InheritedLow
<1>4. t.low[Tip(t)] < t.index[Tip(t)]
    BY <1>1, <1>2
<1>5. Settled(u) = Settled(t)
    BY DEF Settled
<1>6. FollowedKnown(u)
    BY <1>5 DEF Cycled, FollowedKnown
<1>7. StackLinked(u)
  <2>1. ASSUME NEW n \in Stacked(u) PROVE \E g \in Gray(u) : u.index[g] <= u.index[n] /\ Leads(n, g)
    <3>1. PICK g \in Gray(t) : t.index[g] <= t.index[n] /\ Leads(n, g)
        BY DEF Cycled, StackLinked
    <3>2. CASE g # Tip(t)
        BY <3>1, <3>2
    <3>3. CASE g = Tip(t)
      <4>1. PICK x \in Stacked(t) : t.index[x] = t.low[g] /\ Leads(g, x)
          BY DEF Cycled, LowKept
      <4>2. PICK h \in Gray(t) : t.index[h] <= t.index[x] /\ Leads(x, h)
          BY DEF Cycled, StackLinked
      <4>3. h # Tip(t) /\ t.index[h] <= t.index[n]
          BY <1>1, <1>2, <1>4, <3>1, <3>3, <4>1, <4>2
      <4>4. Leads(n, h)
          BY <3>1, <4>1, <4>2, LeadsOn
      <4>5. QED BY <4>2, <4>3, <4>4
    <3>4. QED BY <3>2, <3>3
  <2>2. \A g \in Gray(u), n \in Stacked(u) : u.index[g] <= u.index[n] => Leads(g, n)
      BY DEF Cycled, StackLinked
  <2>3. QED BY <2>1, <2>2 DEF StackLinked
<1>8. LowKept(u)
  <2>1. ASSUME NEW g \in Gray(u), NEW n \in Stacked(u), NEW m \in Stacked(u),
               Followed(u, n, m), Under(u, g, n)
        PROVE  u.low[g] <= u.index[m]
    <3>1. /\ g \in t.known /\ m \in t.known /\ n \in t.known /\ g \in Gray(t)
          /\ t.index[m] \in Nat /\ t.low[g] \in Nat /\ u.low[g] \in Nat /\ t.low[Tip(t)] \in Nat
        BY <1>1, <1>2, <1>3
    <3>2. CASE Under(t, g, n)
      <4>1. t.low[g] <= t.index[m]
          BY <2>1, <3>1, <3>2 DEF Cycled, LowKept
      <4>2. QED BY <1>3, <3>1, <4>1
    <3>3. CASE ~Under(t, g, n)
      <4>1. PICK h \in Gray(t) : t.index[h] <= t.index[n] /\ ~(t.index[h] <= t.index[g])
          BY <2>1, <3>3 DEF Under
      <4>2. h = Tip(t)
          BY <2>1, <4>1 DEF Under
      <4>3. Under(t, Tip(t), n)
          BY <1>2, <4>1, <4>2 DEF Under
      <4>4. t.low[Tip(t)] <= t.index[m]
          BY <1>2, <2>1, <4>3 DEF Cycled, LowKept
      <4>5. \A k \in Gray(u) : t.index[k] <= t.index[g]
        <5>1. SUFFICES ASSUME NEW k \in Gray(u) PROVE t.index[k] <= t.index[g]
            OBVIOUS
        <5>2. k \in Gray(t) /\ t.index[k] \in Nat /\ t.index[Tip(t)] \in Nat /\ t.index[n] \in Nat
            BY <1>1, <1>2, <3>1
        <5>3. t.index[k] <= t.index[n]
            BY <1>2, <4>1, <4>2, <5>2
        <5>4. QED BY <2>1, <5>3 DEF Under
      <4>6. u.low[g] <= t.low[Tip(t)]
          BY <1>3, <4>5
      <4>7. QED BY <3>1, <4>4, <4>6
    <3>4. QED BY <3>2, <3>3
  <2>2. ASSUME NEW g \in Gray(u) PROVE \E x \in Stacked(u) : u.index[x] = u.low[g] /\ Leads(g, x)
    <3>1. CASE u.low[g] = t.low[g]
      <4>1. PICK x \in Stacked(t) : t.index[x] = t.low[g] /\ Leads(g, x)
          BY DEF Cycled, LowKept
      <4>2. QED BY <3>1, <4>1
    <3>2. CASE u.low[g] = t.low[Tip(t)]
      <4>1. PICK x \in Stacked(t) : t.index[x] = t.low[Tip(t)] /\ Leads(Tip(t), x)
          BY <1>2 DEF Cycled, LowKept
      <4>2. Leads(g, Tip(t))
          BY <1>2 DEF Cycled, StackLinked
      <4>3. Leads(g, x)
          BY <4>1, <4>2, LeadsOn
      <4>4. QED BY <3>2, <4>1, <4>3
    <3>3. QED BY <1>3, <3>1, <3>2
  <2>3. QED BY <2>1, <2>2 DEF LowKept
<1>9. CompsExact(u)
    BY <1>5 DEF Cycled, CompsExact
<1>10. QED BY <1>6, <1>7, <1>8, <1>9 DEF Cycled

\* The part of the stack from a root upwards is its component.
LEMMA RootClass ==
    ASSUME ToolInv, NEW t \in CycleState, Shape(t), Cycled(t), t.work # <<>>,
           \A m \in Succs(Tip(t)) : Followed(t, Tip(t), m),
           t.low[Tip(t)] = t.index[Tip(t)],
           NEW C, C = {x \in Stacked(t) : t.index[Tip(t)] <= t.index[x]}
    PROVE  /\ Class(Tip(t)) = C /\ Tip(t) \in C
           /\ \A x \in C : Class(x) = C
           /\ \A x \in C : \A y \in Succs(x) : y \in Heads => y \in Settled(t) \cup C
<1> DEFINE n == Tip(t)
<1>1. /\ t.known \subseteq Heads /\ Stacked(t) \subseteq t.known /\ Gray(t) \subseteq Stacked(t)
      /\ t.known \subseteq Nodes
      /\ \A x \in t.known : t.index[x] \in Nat
      /\ \A x, y \in t.known : t.index[x] = t.index[y] => x = y
    BY Numbers
<1>2. /\ n \in Gray(t) /\ n \in Stacked(t) /\ n \in t.known /\ n \in Nodes
      /\ \A g \in Gray(t) : t.index[g] <= t.index[n]
    BY TipLast
<1>3. n \in C
    BY <1>1, <1>2
<1>4. ASSUME NEW x \in C PROVE Leads(n, x) /\ Leads(x, n) /\ x \in Nodes
  <2>1. Leads(n, x)
      BY <1>2 DEF Cycled, StackLinked
  <2>2. PICK g \in Gray(t) : Leads(x, g)
      BY DEF Cycled, StackLinked
  <2>3. Leads(g, n)
      BY <1>2 DEF Cycled, StackLinked
  <2>4. QED BY <1>1, <2>1, <2>2, <2>3, LeadsOn
<1>5. ASSUME NEW x \in C, NEW y \in Succs(x), y \in Heads PROVE y \in Settled(t) \cup C
  <2>1. x \in Stacked(t) /\ x \in t.known /\ t.index[n] <= t.index[x]
      BY <1>1
  <2>2. x = n \/ x \notin Gray(t)
      BY <1>1, <1>2, <2>1
  <2>3. Followed(t, x, y)
    <3>1. CASE x \notin Gray(t)
        BY <2>1, <3>1 DEF Followed, Gray
    <3>2. QED BY <2>2, <3>1
  <2>4. y \in t.known
      BY <1>5, <2>3 DEF Cycled, FollowedKnown
  <2>5. CASE y \in Stacked(t)
    <3>1. Under(t, n, x)
        BY <1>2, <2>1 DEF Under
    <3>2. t.low[n] <= t.index[y]
        BY <1>2, <2>1, <2>3, <2>5, <3>1 DEF Cycled, LowKept
    <3>3. QED BY <2>5, <3>2
  <2>6. QED BY <2>4, <2>5 DEF Settled
<1>6. ASSUME NEW m \in Class(n) PROVE m \in C
  <2> DEFINE D1 == Settled(t) \cup C \cup (Nodes \ Heads)
             D2 == Settled(t) \cup (Nodes \ Heads)
  <2>1. /\ Settled(t) \subseteq Nodes /\ C \subseteq Nodes
        /\ \A a, b : <<a, b>> \in Edges => b \in Succs(a) /\ a \in Heads
        /\ \A x \in Settled(t) : \A y \in Succs(x) : y \in Heads => y \in Settled(t)
      BY <1>1, <1>4, SuccsHeads DEF Cycled, FollowedKnown, Settled
  <2>2. Closed(D1)
    <3>1. ASSUME NEW a \in D1, NEW b \in Nodes, <<a, b>> \in Edges PROVE b \in D1
        BY <1>5, <2>1, <3>1
    <3>2. QED BY <2>1, <3>1 DEF Closed
  <2>3. Closed(D2)
    <3>1. ASSUME NEW a \in D2, NEW b \in Nodes, <<a, b>> \in Edges PROVE b \in D2
        BY <2>1, <3>1
    <3>2. QED BY <2>1, <3>1 DEF Closed
  <2>4. n \in D1 /\ n \notin D2
      BY <1>1, <1>2, <1>3 DEF Settled
  <2> HIDE DEF D1, D2
  <2>5. m \in D1 /\ m \notin D2
    <3>1. Leads(n, m) /\ Leads(m, n)
        BY DEF Class
    <3>2. QED BY <2>2, <2>3, <2>4, <3>1, LeadsClosed
  <2>6. QED BY <2>5 DEF D1, D2
<1>7. Class(n) = C
    BY <1>4, <1>6 DEF Class
<1>8. \A x \in C : Class(x) = C
    BY <1>2, <1>7, ClassShared
<1>9. QED BY <1>3, <1>5, <1>7, <1>8

\* A root takes its component with it.
LEMMA LeaveCut ==
    ASSUME ToolInv, NEW t \in CycleState, Shape(t), Cycled(t), t.work # <<>>,
           \A m \in Succs(Tip(t)) : Followed(t, Tip(t), m),
           t.low[Tip(t)] = t.index[Tip(t)],
           NEW u \in CycleState, Shape(u), u.known = t.known, u.index = t.index,
           Stacked(u) = {x \in Stacked(t) : t.index[x] < t.index[Tip(t)]},
           u.comps = IF Cardinality(Stacked(t) \ Stacked(u)) >= 2
                     THEN t.comps \cup {Stacked(t) \ Stacked(u)} ELSE t.comps,
           Gray(u) = Gray(t) \ {Tip(t)}, Inherited(t, u),
           \A x, y : Followed(u, x, y) => Followed(t, x, y)
    PROVE  Cycled(u)
<1> DEFINE n == Tip(t)
           C == Stacked(t) \ Stacked(u)
<1>1. /\ Stacked(t) \subseteq t.known /\ Gray(t) \subseteq Stacked(t) /\ Gray(u) \subseteq Stacked(u)
      /\ \A x \in t.known : t.index[x] \in Nat /\ t.low[x] \in Nat /\ t.low[x] <= t.index[x]
      /\ \A x, y \in t.known : t.index[x] = t.index[y] => x = y
    BY Numbers DEF Shape
<1>2. /\ n \in Gray(t) /\ n \in Stacked(t) /\ n \in t.known
      /\ \A g \in Gray(t) : t.index[g] <= t.index[n]
    BY TipLast
<1>3. /\ \A x \in t.known : u.low[x] \in Nat /\ u.low[x] <= t.low[x]
      /\ \A g \in Gray(u) : \/ u.low[g] = t.low[g]
                            \/ u.low[g] = t.low[n] /\ t.low[n] < t.low[g]
    BY InheritedLow
<1>4. C = {x \in Stacked(t) : t.index[n] <= t.index[x]}
    BY <1>1, <1>2
<1> HIDE DEF C
<1>5. /\ Class(n) = C /\ n \in C
      /\ \A x \in C : Class(x) = C
      /\ \A x \in C : \A y \in Succs(x) : y \in Heads => y \in Settled(t) \cup C
    BY <1>4, RootClass
<1>6. Settled(u) = Settled(t) \cup C
  <2>1. Stacked(u) \subseteq Stacked(t)
      OBVIOUS
  <2>2. QED BY <1>1, <2>1 DEF C, Settled
<1>7. FollowedKnown(u)
    BY <1>5, <1>6 DEF Cycled, FollowedKnown
<1>8. StackLinked(u)
  <2>1. \A g \in Gray(u), x \in Stacked(u) : u.index[g] <= u.index[x] => Leads(g, x)
      BY DEF Cycled, StackLinked
  <2>2. ASSUME NEW x \in Stacked(u) PROVE \E g \in Gray(u) : u.index[g] <= u.index[x] /\ Leads(x, g)
    <3>1. PICK g \in Gray(t) : t.index[g] <= t.index[x] /\ Leads(x, g)
        BY DEF Cycled, StackLinked
    <3>2. g # n
        BY <1>1, <1>2, <3>1
    <3>3. QED BY <3>1, <3>2
  <2>3. QED BY <2>1, <2>2 DEF StackLinked
<1>9. \A g \in Gray(u) : /\ g \in Gray(t) /\ g \in t.known /\ t.index[g] < t.index[n]
                         /\ u.low[g] = t.low[g]
    BY <1>1, <1>2, <1>3
<1>10. LowKept(u)
  <2>1. ASSUME NEW g \in Gray(u), NEW x \in Stacked(u), NEW m \in Stacked(u),
               Followed(u, x, m), Under(u, g, x)
        PROVE  u.low[g] <= u.index[m]
    <3>1. Under(t, g, x)
      <4>1. ASSUME NEW h \in Gray(t), t.index[h] <= t.index[x] PROVE t.index[h] <= t.index[g]
        <5>1. h # n
            BY <1>1, <1>2, <4>1
        <5>2. QED BY <2>1, <4>1, <5>1 DEF Under
      <4>2. QED BY <2>1, <4>1 DEF Under
    <3>2. t.low[g] <= t.index[m]
        BY <1>9, <2>1, <3>1 DEF Cycled, LowKept
    <3>3. QED BY <1>9, <3>2
  <2>2. ASSUME NEW g \in Gray(u) PROVE \E x \in Stacked(u) : u.index[x] = u.low[g] /\ Leads(g, x)
    <3>1. PICK x \in Stacked(t) : t.index[x] = t.low[g] /\ Leads(g, x)
        BY <1>9 DEF Cycled, LowKept
    <3>2. t.index[x] < t.index[n]
        BY <1>1, <1>2, <1>9, <3>1
    <3>3. QED BY <1>9, <3>1, <3>2
  <2>3. QED BY <2>1, <2>2 DEF LowKept
<1>11. CompsExact(u)
  <2>1. {Class(x) : x \in Settled(u)} = {Class(x) : x \in Settled(t)} \cup {C}
      BY <1>5, <1>6
  <2>2. t.comps = {c \in {Class(x) : x \in Settled(t)} : Cardinality(c) >= 2}
      BY DEF Cycled, CompsExact
  <2>3. u.comps = IF Cardinality(C) >= 2 THEN t.comps \cup {C} ELSE t.comps
      BY DEF C
  <2>4. u.comps = {c \in {Class(x) : x \in Settled(t)} \cup {C} : Cardinality(c) >= 2}
      BY <2>2, <2>3
  <2>5. QED BY <2>1, <2>4 DEF CompsExact
<1>12. QED BY <1>7, <1>8, <1>10, <1>11 DEF Cycled

\* A turn follows an edge, enters a node or leaves one, and undoes nothing.
Ended(t) == t.known \ Gray(t)
Passed(t, u) ==
    /\ \A x, y : Followed(t, x, y) => Followed(u, x, y)
    /\ t.known \subseteq u.known /\ Ended(t) \subseteq Ended(u)
    /\ \/ \E x, y : Followed(u, x, y) /\ ~Followed(t, x, y)
       \/ u.known # t.known
       \/ Ended(u) # Ended(t)
Searching(t) == t \in CycleState /\ Shape(t) /\ Cycled(t)

LEMMA RootTurn ==
    ASSUME ToolInv, NEW t, Searching(t), t.work = <<>>, ~(Heads \subseteq t.known),
           NEW u, u = Visit(t)
    PROVE  Searching(u) /\ Passed(t, u)
<1> DEFINE n == CHOOSE n \in Heads \ t.known : TRUE
<1>1. t \in CycleState /\ Shape(t) /\ Cycled(t)
    BY DEF Searching
<1>2. n \in Heads \ t.known
    OBVIOUS
<1>3. u = Discover(t, n)
    BY DEF Visit
<1> HIDE DEF n
<1>4. u \in CycleState /\ Shape(u) /\ Discovered(t, u, n)
    BY <1>1, <1>2, <1>3, DiscoverWorks
<1>5. /\ u.known = t.known \cup {n} /\ u.comps = t.comps
      /\ u.index = [t.index EXCEPT ![n] = t.count] /\ u.low = [t.low EXCEPT ![n] = t.count]
      /\ Stacked(u) = Stacked(t) \cup {n} /\ Gray(u) = Gray(t) \cup {n}
      /\ \A x, y : Followed(u, x, y) <=> Followed(t, x, y)
    BY <1>4 DEF Discovered
<1>6. Cycled(u)
    BY <1>1, <1>2, <1>4, <1>5, EnterCycled
<1>7. Passed(t, u)
    BY <1>2, <1>5 DEF Passed, Ended
<1>8. QED BY <1>4, <1>6, <1>7 DEF Searching

\* The node on top is taken off work, and the one below it inherits its lowlink.
Retired(t, v) ==
    /\ v.known = t.known /\ v.index = t.index /\ v.comps = t.comps
    /\ Stacked(v) = Stacked(t) /\ Gray(v) = Gray(t) \ {Tip(t)}
    /\ \A x, y : Followed(v, x, y) <=> Followed(t, x, y)
    /\ Inherited(t, v) /\ v.low[Tip(t)] = t.low[Tip(t)]

LEMMA InheritWorks ==
    ASSUME ToolInv, NEW t \in CycleState, Shape(t), t.work # <<>>, Last(t.work).todo = {},
           NEW s \in CycleState, Shape(s), Popped(t, s), NEW v, v = Inherit(s, Tip(t))
    PROVE  v \in CycleState /\ Shape(v) /\ Retired(t, v)
<1> DEFINE n == Tip(t)
<1>1. s \in CycleState /\ Shape(s) /\ Popped(t, s)
    OBVIOUS
<1>2. /\ s.known = t.known /\ s.count = t.count /\ s.comps = t.comps /\ s.stack = t.stack
      /\ s.index = t.index /\ s.low = t.low /\ Gray(s) = Gray(t) \ {n}
      /\ \A x, y : Followed(s, x, y) <=> Followed(t, x, y)
    BY <1>1 DEF Popped
<1>3. Stacked(s) = Stacked(t)
    BY <1>2 DEF Stacked
<1>4. CASE s.work = <<>>
  <2>1. v = s
      BY <1>4 DEF Inherit
  <2>2. Gray(s) = {}
      BY <1>1, <1>4, ShapeParts
  <2>3. Inherited(t, v)
      BY <1>2, <2>1, <2>2 DEF Inherited
  <2>4. QED BY <1>1, <1>2, <1>3, <2>1, <2>3 DEF Retired
<1>5. CASE s.work # <<>>
  <2> DEFINE p == Tip(s)
  <2>1. /\ Last(s.work).node = p /\ p \in Gray(s) /\ p \in Nodes
        /\ \A g \in Gray(s) : s.index[g] <= s.index[p]
      BY <1>1, <1>5, TipLast
  <2>2. n \in Nodes /\ s.low[n] \in Nat
    <3>1. n \in Nodes
        BY TipLast
    <3>2. QED BY <1>1, <3>1, ShapeParts
  <2>3. v = [s EXCEPT !.low[p] = Lower(@, s.low[n])]
      BY <1>5, <2>1 DEF Inherit
  <2> HIDE DEF p
  <2>4. v \in CycleState /\ Shape(v) /\ Lowered(s, v, p, s.low[n])
      BY <1>1, <2>1, <2>2, <2>3, LowerWorks
  <2>5. /\ v.work = s.work /\ v.known = s.known /\ v.comps = s.comps
        /\ v.stack = s.stack /\ v.index = s.index
        /\ v.low = [s.low EXCEPT ![p] = Lower(s.low[p], s.low[n])]
      BY <2>4 DEF Lowered
  <2>6. Gray(v) = Gray(s) /\ Stacked(v) = Stacked(s)
        /\ \A x, y : Followed(v, x, y) <=> Followed(s, x, y)
      BY <2>5 DEF Gray, Stacked, Followed
  <2>7. Inherited(t, v)
      BY <1>2, <2>1, <2>5, <2>6 DEF Inherited
  <2>8. p # n
      BY <1>2, <2>1
  <2>9. v.low[n] = t.low[n]
    <3>1. s.low \in [Nodes -> Nat]
        BY <1>1, CycleTypes
    <3>2. QED BY <1>2, <2>2, <2>5, <2>8, <3>1
  <2>10. QED BY <1>2, <1>3, <2>4, <2>5, <2>6, <2>7, <2>9 DEF Retired
<1>6. QED BY <1>4, <1>5

LEMMA LeaveTurn ==
    ASSUME ToolInv, NEW t, Searching(t), t.work # <<>>, Last(t.work).todo = {},
           NEW u, u = Visit(t)
    PROVE  Searching(u) /\ Passed(t, u)
<1> DEFINE n == Tip(t)
           s == [t EXCEPT !.work = Front(@)]
           v == Inherit(s, n)
<1>1. t \in CycleState /\ Shape(t) /\ Cycled(t)
    BY DEF Searching
<1>2. /\ Last(t.work).node = n /\ n \in Gray(t) /\ n \in Stacked(t) /\ n \in t.known
      /\ \A g \in Gray(t) : t.index[g] <= t.index[n]
      /\ Last(t.work) = t.work[Len(t.work)] /\ Len(t.work) \in 1 .. Len(t.work)
      /\ n = t.work[Len(t.work)].node
    BY <1>1, TipLast DEF Tip
<1>3. u = Emit(v, n)
    BY <1>2 DEF Visit
<1>4. v \in CycleState /\ Shape(v) /\ Retired(t, v)
  <2>1. s \in CycleState /\ Shape(s) /\ Popped(t, s)
      BY <1>1, PopWorks
  <2> HIDE DEF s
  <2>2. QED BY <1>1, <2>1, InheritWorks
<1> HIDE DEF v
<1>5. /\ v.known = t.known /\ v.index = t.index /\ v.comps = t.comps
      /\ Stacked(v) = Stacked(t) /\ Gray(v) = Gray(t) \ {n}
      /\ \A x, y : Followed(v, x, y) <=> Followed(t, x, y)
      /\ Inherited(t, v) /\ v.low[n] = t.low[n]
    BY <1>4 DEF Retired
<1>6. \A m \in Succs(n) : Followed(t, n, m)
  <2>1. \A i \in 1 .. Len(t.work) : t.work[i].node = n => i = Len(t.work)
      BY <1>1, <1>2, ShapeParts
  <2>2. QED BY <1>2, <2>1 DEF Followed
<1>7. CASE v.low[n] # v.index[n]
  <2>1. u = v
      BY <1>3, <1>7 DEF Emit
  <2>2. t.low[n] # t.index[n]
      BY <1>5, <1>7
  <2>3. Cycled(u)
      BY <1>1, <1>4, <1>5, <2>1, <2>2, LeaveKept
  <2>4. Passed(t, u)
      BY <1>2, <1>5, <2>1 DEF Passed, Ended
  <2>5. QED BY <1>4, <2>1, <2>3, <2>4 DEF Searching
<1>8. CASE v.low[n] = v.index[n]
  <2>1. \A g \in Gray(v) : v.index[g] < v.index[n]
    <3>1. SUFFICES ASSUME NEW g \in Gray(v) PROVE t.index[g] < t.index[n]
        BY <1>5
    <3>2. g \in t.known /\ g # n /\ t.index[g] <= t.index[n]
        BY <1>1, <1>2, <1>5, ShapeParts
    <3>3. t.index[g] \in Nat /\ t.index[n] \in Nat /\ t.index[g] # t.index[n]
        BY <1>1, <1>2, <3>2, Numbers
    <3>4. QED BY <3>2, <3>3
  <2>2. u \in CycleState /\ Shape(u) /\ Cut(v, u, n)
      BY <1>2, <1>3, <1>4, <1>5, <1>8, <2>1, CutWorks
  <2>3. /\ u.work = v.work /\ u.known = t.known /\ u.index = t.index /\ u.low = v.low
        /\ Stacked(u) = {x \in Stacked(t) : t.index[x] < t.index[n]}
        /\ u.comps = IF Cardinality(Stacked(t) \ Stacked(u)) >= 2
                     THEN t.comps \cup {Stacked(t) \ Stacked(u)} ELSE t.comps
      BY <1>5, <2>2 DEF Cut
  <2>4. Gray(u) = Gray(t) \ {n} /\ \A x, y : Followed(u, x, y) <=> Followed(t, x, y)
    <3>1. Gray(u) = Gray(v)
        BY <2>3 DEF Gray
    <3>2. \A x, y : Followed(u, x, y) <=> Followed(v, x, y)
        BY <1>5, <2>3 DEF Followed
    <3>3. QED BY <1>5, <3>1, <3>2
  <2>5. Inherited(t, u)
      BY <1>5, <2>3, <2>4 DEF Inherited
  <2>6. t.low[n] = t.index[n]
      BY <1>5, <1>8
  <2>7. Cycled(u)
      BY <1>1, <1>6, <2>2, <2>3, <2>4, <2>5, <2>6, LeaveCut
  <2>8. Passed(t, u)
      BY <1>2, <2>3, <2>4 DEF Passed, Ended
  <2>9. QED BY <2>2, <2>7, <2>8 DEF Searching
<1>9. QED BY <1>7, <1>8

LEMMA FollowTurn ==
    ASSUME ToolInv, NEW t, Searching(t), t.work # <<>>, Last(t.work).todo # {},
           NEW u, u = Visit(t)
    PROVE  Searching(u) /\ Passed(t, u)
<1> DEFINE n == Tip(t)
           m == CHOOSE m \in Last(t.work).todo : TRUE
           s == [t EXCEPT !.work[Len(t.work)].todo = @ \ {m}]
<1>1. t \in CycleState /\ Shape(t) /\ Cycled(t)
    BY DEF Searching
<1>2. m \in Last(t.work).todo
    OBVIOUS
<1>3. /\ Last(t.work).node = n /\ n \in Gray(t) /\ n \in Stacked(t) /\ n \in t.known /\ n \in Nodes
    BY <1>1, TipLast
<1>4. u = IF m \notin Heads THEN s
          ELSE IF m \notin t.known THEN Discover(s, m)
          ELSE IF m \in ToSet(t.stack) THEN [s EXCEPT !.low[n] = Lower(@, t.index[m])]
          ELSE s
    BY <1>3 DEF Visit, Follow
<1> HIDE DEF m
<1>5. s \in CycleState /\ Shape(s) /\ Took(t, s, m)
    BY <1>1, <1>2, TakeWorks
<1> HIDE DEF s
<1>6. /\ s.known = t.known /\ s.count = t.count /\ s.comps = t.comps /\ s.stack = t.stack
      /\ s.index = t.index /\ s.low = t.low /\ Gray(s) = Gray(t)
      /\ m \in Succs(n) /\ ~Followed(t, n, m)
      /\ \A x, y : Followed(s, x, y) <=> Followed(t, x, y) \/ (x = n /\ y = m)
    BY <1>5 DEF Took
<1>7. Stacked(s) = Stacked(t) /\ ToSet(t.stack) = Stacked(t) /\ Stacked(t) \subseteq t.known
      /\ t.known \subseteq Heads
  <2>1. Stacked(s) = Stacked(t)
      BY <1>6 DEF Stacked
  <2>2. ToSet(t.stack) = Stacked(t)
      BY <1>1, ShapeParts
  <2>3. QED BY <1>1, <2>1, <2>2, Numbers
<1>8. Passed(t, s)
  <2>1. Followed(s, n, m)
      BY <1>6
  <2>2. QED BY <1>6, <2>1 DEF Passed, Ended
<1>9. ASSUME m \notin Stacked(t), m \in Heads => m \in t.known, u = s
      PROVE  Searching(u) /\ Passed(t, u)
  <2>1. Cycled(u)
      BY <1>1, <1>5, <1>6, <1>7, <1>9, FollowCycled
  <2>2. QED BY <1>5, <1>8, <1>9, <2>1 DEF Searching
<1>10. CASE m \in Heads /\ m \notin t.known
  <2>1. u = Discover(s, m) /\ m \in Heads \ s.known
      BY <1>4, <1>6, <1>10
  <2>2. u \in CycleState /\ Shape(u) /\ Discovered(s, u, m)
      BY <1>5, <2>1, DiscoverWorks
  <2>3. /\ u.known = t.known \cup {m} /\ u.comps = t.comps
        /\ u.index = [t.index EXCEPT ![m] = t.count] /\ u.low = [t.low EXCEPT ![m] = t.count]
        /\ Stacked(u) = Stacked(t) \cup {m} /\ Gray(u) = Gray(t) \cup {m}
        /\ \A x, y : Followed(u, x, y) <=> Followed(s, x, y)
      BY <1>6, <1>7, <2>2 DEF Discovered
  <2>4. \A x, y : Followed(u, x, y) => Followed(t, x, y) \/ (t.work # <<>> /\ x = Tip(t) /\ y = m)
      BY <1>6, <2>3
  <2>5. m \in Heads \ t.known
      BY <1>10
  <2>6. Cycled(u)
      BY <1>1, <1>6, <2>2, <2>3, <2>4, <2>5, EnterCycled
  <2>7. Passed(t, u)
    <3>1. Followed(u, n, m) /\ \A x, y : Followed(t, x, y) => Followed(u, x, y)
        BY <1>6, <2>3
    <3>2. t.known \subseteq u.known /\ Ended(t) \subseteq Ended(u)
        BY <1>10, <2>3 DEF Ended
    <3>3. QED BY <1>6, <3>1, <3>2 DEF Passed
  <2>8. QED BY <2>2, <2>6, <2>7 DEF Searching
<1>11. CASE m \in Heads /\ m \in t.known /\ m \in Stacked(t)
  <2>1. u = [s EXCEPT !.low[n] = Lower(@, t.index[m])]
      BY <1>4, <1>7, <1>11
  <2>2. t.index[m] \in Nat
      BY <1>1, <1>11, Numbers
  <2>3. u \in CycleState /\ Shape(u) /\ Lowered(s, u, n, t.index[m])
      BY <1>3, <1>5, <2>1, <2>2, LowerWorks
  <2>4. /\ u.work = s.work /\ u.known = t.known /\ u.comps = t.comps
        /\ u.stack = t.stack /\ u.index = t.index
        /\ u.low = [t.low EXCEPT ![n] = Lower(t.low[n], t.index[m])]
      BY <1>6, <2>3 DEF Lowered
  <2>5. /\ Gray(u) = Gray(t) /\ Stacked(u) = Stacked(t)
        /\ \A x, y : Followed(u, x, y) <=> Followed(s, x, y)
    <3>1. Gray(u) = Gray(s)
        BY <2>4 DEF Gray
    <3>2. QED BY <1>6, <2>4, <3>1 DEF Stacked, Followed
  <2>6. Cycled(u)
    <3>1. \A x, y : Followed(u, x, y) => Followed(t, x, y) \/ (x = Tip(t) /\ y = m)
        BY <1>6, <2>5
    <3>2. QED BY <1>1, <1>6, <1>11, <2>3, <2>4, <2>5, <3>1, FollowCycled
  <2>7. Passed(t, u)
    <3>1. Followed(u, n, m) /\ \A x, y : Followed(t, x, y) => Followed(u, x, y)
        BY <1>6, <2>5
    <3>2. t.known \subseteq u.known /\ Ended(t) \subseteq Ended(u)
        BY <2>4, <2>5 DEF Ended
    <3>3. QED BY <1>6, <3>1, <3>2 DEF Passed
  <2>8. QED BY <2>3, <2>6, <2>7 DEF Searching
<1>12. CASE m \notin Heads \/ (m \in t.known /\ m \notin Stacked(t))
  <2>1. m \notin Stacked(t) /\ (m \in Heads => m \in t.known)
      BY <1>7, <1>12
  <2>2. u = s
      BY <1>4, <1>7, <1>12
  <2>3. QED BY <1>9, <2>1, <2>2
<1>13. QED BY <1>10, <1>11, <1>12

LEMMA VisitWorks ==
    ASSUME ToolInv, NEW t, Searching(t), ~(t.work = <<>> /\ Heads \subseteq t.known)
    PROVE  Searching(Visit(t)) /\ Passed(t, Visit(t))
    BY RootTurn, LeaveTurn, FollowTurn

CycleDone(t) == t.work = <<>> /\ Heads \subseteq t.known
AtNone ==
    [work |-> <<>>, known |-> {}, count |-> 0, stack |-> <<>>, comps |-> {},
     index |-> [n \in Nodes |-> 0], low |-> [n \in Nodes |-> 0]]

LEMMA NoneSearching == ToolInv => Searching(AtNone)
<1> SUFFICES ASSUME ToolInv PROVE Searching(AtNone)
    OBVIOUS
<1>1. /\ AtNone.work = <<>> /\ AtNone.known = {} /\ AtNone.count = 0 /\ AtNone.stack = <<>>
      /\ AtNone.comps = {}
    BY DEF AtNone
<1>2. AtNone \in CycleState
    BY DEF AtNone, CycleState
<1>3. Len(AtNone.work) = 0 /\ Len(AtNone.stack) = 0
    BY <1>1
<1>4. Gray(AtNone) = {} /\ Stacked(AtNone) = {} /\ Settled(AtNone) = {}
    BY <1>1, <1>3 DEF Gray, Stacked, Settled
<1>5. Shape(AtNone)
  <2>1. {} \subseteq Heads
      OBVIOUS
  <2>2. 1 .. 0 = {}
      OBVIOUS
  <2>3. QED BY <1>1, <1>3, <1>4, <2>1, <2>2 DEF Shape
<1>6. \A x, y : ~Followed(AtNone, x, y)
    BY <1>1 DEF Followed
<1>7. FollowedKnown(AtNone) /\ StackLinked(AtNone) /\ LowKept(AtNone)
    BY <1>4, <1>6 DEF FollowedKnown, StackLinked, LowKept
<1>8. CompsExact(AtNone)
    BY <1>1, <1>4 DEF CompsExact
<1>9. QED BY <1>2, <1>5, <1>7, <1>8 DEF Searching, Cycled

\* The turns of the search
CycleRun(T) ==
    /\ \A k \in Nat : Searching(T[k])
    /\ \A k \in Nat : ~CycleDone(T[k]) => Passed(T[k], T[k + 1])
    /\ \A k \in Nat : CycleDone(T[k]) => T[k + 1] = T[k]

LEMMA CycleTurns ==
    ASSUME ToolInv
    PROVE  \E T : CycleRun(T) /\ Sccs = T[Cardinality(Nodes) * (Cardinality(Nodes) + 2)].comps
<1> DEFINE S == {t \in CycleState : Searching(t)}
           Turn(t) == IF CycleDone(t) THEN t ELSE Visit(t)
           f == [t \in S |-> Turn(t)]
           Body(T) == [k \in Nat |-> IF k = 0 THEN AtNone ELSE Turn(T[k - 1])]
           T == CHOOSE T : T = Body(T)
<1>1. f \in [S -> S]
  <2>1. ASSUME NEW t \in S PROVE Turn(t) \in S
    <3>1. Searching(t)
        OBVIOUS
    <3>2. ASSUME ~CycleDone(t) PROVE Visit(t) \in S
      <4>1. Searching(Visit(t))
          BY <3>1, <3>2, VisitWorks DEF CycleDone
      <4>2. QED BY <4>1 DEF Searching
    <3>3. QED BY <3>2
  <2> HIDE DEF S, Turn
  <2>2. QED BY <2>1
<1>2. AtNone \in S
    BY NoneSearching DEF Searching
<1>3. PICK g \in [Nat -> S] : g[0] = AtNone /\ \A k \in Nat : g[k + 1] = f[g[k]]
  <2> HIDE DEF f, S
  <2>1. QED BY <1>1, <1>2, Iterates
<1>4. g = Body(g)
  <2> HIDE DEF Turn, S
  <2>1. ASSUME NEW k \in Nat, k # 0 PROVE g[k] = Turn(g[k - 1])
    <3>1. k - 1 \in Nat /\ g[k - 1] \in S
        BY <1>3, <2>1
    <3>2. g[k - 1 + 1] = f[g[k - 1]]
        BY <1>3, <3>1
    <3>3. QED BY <3>1, <3>2
  <2>2. QED BY <1>3, <2>1
<1>5. T = Body(T)
    BY <1>4
<1>6. Sccs = T[Cardinality(Nodes) * (Cardinality(Nodes) + 2)].comps
    BY DEF Sccs, CycleDone, AtNone
<1> HIDE DEF T, Turn, S
<1>7. T[0] = AtNone /\ \A k \in Nat : k # 0 => T[k] = Turn(T[k - 1])
    BY <1>5
<1>8. \A k \in Nat : T[k + 1] = Turn(T[k])
  <2> TAKE k \in Nat
  <2>1. k + 1 \in Nat /\ k + 1 # 0 /\ (k + 1) - 1 = k
      OBVIOUS
  <2>2. QED BY <1>7, <2>1
<1>9. \A k \in Nat : T[k] \in S
  <2> DEFINE K == {k \in Nat : T[k] \in S}
  <2>1. 0 \in K
      BY <1>2, <1>7
  <2>2. ASSUME NEW k \in Nat, k \in K PROVE k + 1 \in K
      BY <1>1, <1>8, <2>2
  <2>3. Nat \subseteq K
    <3> HIDE DEF K
    <3>1. QED BY <2>1, <2>2, Induct
  <2>4. QED BY <2>3
<1>10. CycleRun(T)
  <2>1. \A k \in Nat : Searching(T[k])
      BY <1>9 DEF S
  <2>2. ASSUME NEW k \in Nat, ~CycleDone(T[k]) PROVE Passed(T[k], T[k + 1])
    <3>1. T[k + 1] = Visit(T[k])
        BY <1>8, <2>2 DEF Turn
    <3>2. Passed(T[k], Visit(T[k]))
        BY <2>1, <2>2, VisitWorks DEF CycleDone
    <3>3. QED BY <3>1, <3>2
  <2>3. \A k \in Nat : CycleDone(T[k]) => T[k + 1] = T[k]
      BY <1>8 DEF Turn
  <2>4. QED BY <2>1, <2>2, <2>3 DEF CycleRun
<1>11. QED BY <1>6, <1>10

\* How far a search is: edges followed, nodes entered, nodes left
Ways(t) == {e \in Nodes \X Nodes : Followed(t, e[1], e[2])}
Passes(t) == Cardinality(Ways(t)) + Cardinality(t.known) + Cardinality(Ended(t))

LEMMA PassesParts ==
    ASSUME ToolInv, NEW t, Searching(t)
    PROVE  /\ Ways(t) \subseteq Nodes \X Nodes /\ t.known \subseteq Nodes /\ Ended(t) \subseteq Nodes
           /\ \A x, y : <<x, y>> \in Ways(t) <=> Followed(t, x, y)
           /\ IsFiniteSet(Nodes) /\ Cardinality(Nodes) \in Nat
           /\ IsFiniteSet(Nodes \X Nodes)
           /\ Cardinality(Nodes \X Nodes) = Cardinality(Nodes) * Cardinality(Nodes)
<1>1. t.known \subseteq Nodes /\ Ended(t) \subseteq Nodes
    BY Numbers DEF Searching, Ended
<1>2. ASSUME NEW x, NEW y PROVE <<x, y>> \in Ways(t) <=> Followed(t, x, y)
  <2>1. ASSUME Followed(t, x, y) PROVE <<x, y>> \in Nodes \X Nodes
      BY <1>1, <2>1, SuccsHeads DEF Followed
  <2>2. QED BY <2>1 DEF Ways
<1>3. IsFiniteSet(Nodes) /\ Cardinality(Nodes) \in Nat
    BY FS_CardinalityType DEF ToolInv, QueryWorld
<1>4. QED BY <1>1, <1>2, <1>3, FS_Product DEF Ways

LEMMA PassesGrow ==
    ASSUME ToolInv, NEW t, Searching(t), NEW u, Searching(u), Passed(t, u)
    PROVE  Passes(t) \in Nat /\ Passes(u) \in Nat /\ Passes(t) < Passes(u)
<1>1. Ways(t) \subseteq Ways(u) /\ t.known \subseteq u.known /\ Ended(t) \subseteq Ended(u)
    BY DEF Passed, Ways
<1>2. Ways(t) # Ways(u) \/ t.known # u.known \/ Ended(t) # Ended(u)
    BY PassesParts DEF Passed
<1>3. IsFiniteSet(Ways(u)) /\ IsFiniteSet(u.known) /\ IsFiniteSet(Ended(u))
    BY PassesParts, FS_Subset
<1>4. ASSUME NEW A, NEW B, A \subseteq B, IsFiniteSet(B)
      PROVE  /\ Cardinality(A) \in Nat /\ Cardinality(B) \in Nat
             /\ Cardinality(A) <= Cardinality(B) /\ (A # B => Cardinality(A) # Cardinality(B))
    BY <1>4, FS_Subset, FS_CardinalityType
<1>5. /\ Cardinality(Ways(t)) \in Nat /\ Cardinality(Ways(u)) \in Nat
      /\ Cardinality(Ways(t)) <= Cardinality(Ways(u))
      /\ Ways(t) # Ways(u) => Cardinality(Ways(t)) # Cardinality(Ways(u))
    BY <1>1, <1>3, <1>4
<1>6. /\ Cardinality(t.known) \in Nat /\ Cardinality(u.known) \in Nat
      /\ Cardinality(t.known) <= Cardinality(u.known)
      /\ t.known # u.known => Cardinality(t.known) # Cardinality(u.known)
    BY <1>1, <1>3, <1>4
<1>7. /\ Cardinality(Ended(t)) \in Nat /\ Cardinality(Ended(u)) \in Nat
      /\ Cardinality(Ended(t)) <= Cardinality(Ended(u))
      /\ Ended(t) # Ended(u) => Cardinality(Ended(t)) # Cardinality(Ended(u))
    BY <1>1, <1>3, <1>4
<1>8. QED BY <1>2, <1>5, <1>6, <1>7 DEF Passes

LEMMA PassesBound ==
    ASSUME ToolInv, NEW t, Searching(t), NEW N, N = Cardinality(Nodes),
           ~(Passes(t) < N * (N + 2))
    PROVE  CycleDone(t)
<1>1. /\ N \in Nat /\ IsFiniteSet(Nodes) /\ IsFiniteSet(Nodes \X Nodes)
      /\ Cardinality(Nodes \X Nodes) = N * N
      /\ Ways(t) \subseteq Nodes \X Nodes /\ t.known \subseteq Nodes /\ Ended(t) \subseteq Nodes
    BY PassesParts
<1>2. ASSUME NEW B, IsFiniteSet(B), NEW A, A \subseteq B
      PROVE  /\ Cardinality(A) \in Nat /\ Cardinality(A) <= Cardinality(B)
             /\ Cardinality(A) = Cardinality(B) => A = B
    BY <1>2, FS_Subset, FS_CardinalityType
<1>3. Cardinality(Ways(t)) \in Nat /\ Cardinality(Ways(t)) <= N * N
    BY <1>1, <1>2
<1>4. /\ Cardinality(t.known) \in Nat /\ Cardinality(t.known) <= N
      /\ Cardinality(t.known) = N => t.known = Nodes
    BY <1>1, <1>2
<1>5. /\ Cardinality(Ended(t)) \in Nat /\ Cardinality(Ended(t)) <= N
      /\ Cardinality(Ended(t)) = N => Ended(t) = Nodes
    BY <1>1, <1>2
<1>6. PICK w \in Nat, k \in Nat, e \in Nat, m \in Nat :
          /\ w = Cardinality(Ways(t)) /\ k = Cardinality(t.known) /\ e = Cardinality(Ended(t))
          /\ m = N * N
  <2>1. N * N \in Nat
      BY <1>1
  <2>2. QED BY <1>3, <1>4, <1>5, <2>1
<1>7. Passes(t) = w + k + e
    BY <1>6 DEF Passes
<1>8. N * (N + 2) = m + N + N
    BY <1>1, <1>6
<1>9. w <= m /\ k <= N /\ e <= N /\ ~(w + k + e < m + N + N)
    BY <1>3, <1>4, <1>5, <1>6, <1>7, <1>8
<1>10. k = N /\ e = N
    BY <1>1, <1>9
<1>11. t.known = Nodes /\ Ended(t) = Nodes
    BY <1>4, <1>5, <1>6, <1>10
<1>12. Gray(t) = {}
    BY <1>11, Numbers DEF Ended, Searching
<1>13. QED BY <1>11, <1>12, ShapeParts, SuccsHeads DEF CycleDone, Searching

LEMMA CycleEnds ==
    ASSUME ToolInv, NEW T, CycleRun(T)
    PROVE  LET N == Cardinality(Nodes)
           IN  Searching(T[N * (N + 2)]) /\ CycleDone(T[N * (N + 2)])
<1> DEFINE N == Cardinality(Nodes)
           Q == N * (N + 2)
           K == {k \in Nat : CycleDone(T[k]) \/ k <= Passes(T[k])}
<1>1. N \in Nat /\ Q \in Nat /\ \A k \in Nat : Searching(T[k])
  <2>1. N \in Nat
      BY FS_CardinalityType DEF ToolInv, QueryWorld
  <2>2. QED BY <2>1 DEF CycleRun
<1>2. \A k \in Nat : Passes(T[k]) \in Nat
  <2>1. SUFFICES ASSUME NEW k \in Nat PROVE Passes(T[k]) \in Nat
      OBVIOUS
  <2>2. /\ IsFiniteSet(Ways(T[k])) /\ IsFiniteSet(T[k].known) /\ IsFiniteSet(Ended(T[k]))
      BY <1>1, PassesParts, FS_Subset
  <2>3. QED BY <2>2, FS_CardinalityType DEF Passes
<1>3. 0 \in K
    BY <1>2
<1>4. ASSUME NEW k \in Nat, k \in K PROVE k + 1 \in K
  <2>1. CASE CycleDone(T[k])
      BY <2>1 DEF CycleRun
  <2>2. CASE ~CycleDone(T[k])
    <3>1. Passed(T[k], T[k + 1]) /\ k + 1 \in Nat
        BY <2>2 DEF CycleRun
    <3>2. Passes(T[k]) < Passes(T[k + 1])
        BY <1>1, <3>1, PassesGrow
    <3>3. k <= Passes(T[k])
        BY <1>4, <2>2
    <3>4. k + 1 <= Passes(T[k + 1])
        BY <1>2, <3>1, <3>2, <3>3
    <3>5. QED BY <3>1, <3>4
  <2>3. QED BY <2>1, <2>2
<1>5. Nat \subseteq K
  <2> HIDE DEF K
  <2>1. QED BY <1>3, <1>4, Induct
<1>6. CycleDone(T[Q])
  <2>1. SUFFICES ASSUME ~CycleDone(T[Q]) PROVE FALSE
      OBVIOUS
  <2>2. Q <= Passes(T[Q])
      BY <1>1, <1>5, <2>1
  <2>3. ~(Passes(T[Q]) < Q)
      BY <1>1, <1>2, <2>2
  <2>4. QED BY <1>1, <2>1, <2>3, PassesBound
<1>7. QED BY <1>1, <1>6

\* A search that is over has found the classes of two members or more.
LEMMA CyclesFound ==
    ASSUME ToolInv, NEW t, Searching(t), CycleDone(t)
    PROVE  t.comps = {c \in {Class(n) : n \in Nodes} : Cardinality(c) >= 2}
<1>1. t \in CycleState /\ Shape(t) /\ Cycled(t)
    BY DEF Searching
<1>2. Gray(t) = {}
    BY <1>1, ShapeParts DEF CycleDone
<1>3. Stacked(t) = {}
    BY <1>1, <1>2 DEF Cycled, StackLinked
<1>4. Settled(t) = Heads
    BY <1>1, <1>3, Numbers DEF CycleDone, Settled
<1>5. t.comps = {c \in {Class(n) : n \in Heads} : Cardinality(c) >= 2}
    BY <1>1, <1>4 DEF Cycled, CompsExact
<1>6. ASSUME NEW n \in Nodes \ Heads PROVE ~(Cardinality(Class(n)) >= 2)
  <2>1. Class(n) = {n} /\ Cardinality({n}) = 1
      BY ClassAlone, FS_Singleton
  <2>2. QED BY <2>1
<1>7. Heads \subseteq Nodes
    BY SuccsHeads
<1>8. QED BY <1>5, <1>6, <1>7

\* SccsExact: the components that find_cycles gets from _sccs are the classes of mutually
\* reachable symbols with two members or more, for any graph.
THEOREM SccsAreExact == QueryWorld /\ ToolSpec => []SccsExact
<1>1. QueryWorld /\ ToolInit => ToolInv
    BY DEF ToolInv, ToolInit, QueryInit
<1>2. ToolInv => SccsExact
  <2> SUFFICES ASSUME ToolInv
               PROVE  Sccs = {c \in {Class(n) : n \in Nodes} : Cardinality(c) >= 2}
      BY DEF SccsExact, Class
  <2>1. PICK T : CycleRun(T) /\ Sccs = T[Cardinality(Nodes) * (Cardinality(Nodes) + 2)].comps
      BY CycleTurns
  <2>2. QED BY <2>1, CycleEnds, CyclesFound
<1>3. QED BY <1>1, <1>2, ToolInvStep, PTL DEF ToolSpec
=============================================================================
