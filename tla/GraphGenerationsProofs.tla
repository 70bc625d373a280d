----------------------- MODULE GraphGenerationsProofs -----------------------
(***************************************************************************)
(* What holds of GraphGenerations for every set of workers, symbols and    *)
(* generations.                                                            *)
(***************************************************************************)
EXTENDS GraphGenerations, TLAPS

-----------------------------------------------------------------------------
(* Typing *)

LEMMA InitTypeOK == Init => TypeOK
  BY MaxGenAssumption DEF Init, TypeOK, Gens, Phases

LEMMA RequestTypeOK ==
  ASSUME TypeOK, NEW w \in Workers, Request(w)
  PROVE  TypeOK'
<1>1. ASSUME NEW tree \in Trees, BeginIndex(w, tree)
      PROVE  TypeOK'
  BY <1>1 DEF BeginIndex, Acquire, Trees, TypeOK, store, proxy, Phases
<1>2. CASE BeginReplay(w)
  BY <1>2 DEF BeginReplay, Acquire, TypeOK, store, proxy, Phases
<1>3. ASSUME NEW tree \in Trees, NEW touched \in SUBSET Symbols,
             BeginSync(w, tree, touched)
      PROVE  TypeOK'
  BY <1>3 DEF BeginSync, Acquire, Trees, TypeOK, store, proxy, Phases
<1>. QED
  BY <1>1, <1>2, <1>3 DEF Request

LEMMA StepTypeOK ==
  ASSUME TypeOK, NEW w \in Workers, Step(w)
  PROVE  TypeOK'
<1>1. CASE ChooseGen(w)
  BY <1>1 DEF ChooseGen, TypeOK, proxy, Phases
<1>2. ASSUME NEW s \in Symbols, UpsertNew(w, s)
      PROVE  TypeOK'
  BY <1>2 DEF UpsertNew, TypeOK, proxy
<1>3. CASE Swap(w)
  BY <1>3 DEF Swap, SwapTail, TypeOK, store, Phases
<1>4. CASE Finish(w)
  BY <1>4, MaxGenAssumption DEF Finish, Leave, TypeOK, store, proxy, Phases, Gens
<1>5. CASE RemoveGone(w)
  BY <1>5 DEF RemoveGone, TypeOK, proxy, Phases
<1>6. ASSUME NEW s \in Symbols, UpsertServed(w, s)
      PROVE  TypeOK'
  BY <1>6 DEF UpsertServed, TypeOK, proxy
<1>. QED
  BY <1>1, <1>2, <1>3, <1>4, <1>5, <1>6 DEF Step

LEMMA NextTypeOK == TypeOK /\ [Next]_vars => TypeOK'
<1> SUFFICES ASSUME TypeOK, [Next]_vars
             PROVE  TypeOK'
  OBVIOUS
<1>1. ASSUME NEW w \in Workers, Fail(w)
      PROVE  TypeOK'
  BY <1>1, MaxGenAssumption DEF Fail, Leave, TypeOK, store, proxy, Phases, Gens
<1>2. CASE ReplayEmpty
  BY <1>2 DEF ReplayEmpty, TypeOK, proxy
<1>3. ASSUME NEW g \in Gens, Cleanup(g)
      PROVE  TypeOK'
  BY <1>3 DEF Cleanup, TypeOK, proxy
<1>4. ASSUME NEW g \in Gens, CleanupFails(g)
      PROVE  TypeOK'
  BY <1>4 DEF CleanupFails, TypeOK, store, proxy
<1>5. CASE Rollback
  <2>1. history \in Seq(Gens) /\ Len(history) \in 1 .. Len(history)
    BY <1>5 DEF Rollback, TypeOK
  <2>2. history[Len(history)] \in Gens
    BY <2>1
  <2>3. SubSeq(history, 1, Len(history) - 1) \in Seq(Gens)
    BY <2>1
  <2>. QED
    BY <1>5, <2>2, <2>3 DEF Rollback, TypeOK, store
<1>6. CASE Restart
  BY <1>6, MaxGenAssumption DEF Restart, TypeOK, store, Phases, Gens
<1>7. CASE UNCHANGED vars
  BY <1>7 DEF vars, store, proxy, TypeOK
<1>. QED
  BY <1>1, <1>2, <1>3, <1>4, <1>5, <1>6, <1>7, RequestTypeOK, StepTypeOK
     DEF Next

(* Every variable stays in its type, whatever the environment does. *)
THEOREM TypeCorrect == Spec => []TypeOK
<1>. QED
  BY InitTypeOK, NextTypeOK, PTL DEF Spec

-----------------------------------------------------------------------------
(* The rebuild mutex *)

LEMMA MutexStep ==
  ASSUME TypeOK, BuildersExclude, [Next]_vars
  PROVE  BuildersExclude'
<1> USE MutexAssumption DEF TypeOK, BuildersExclude
<1>1. ASSUME NEW w \in Workers, NEW tree \in Trees, BeginIndex(w, tree)
      PROVE  BuildersExclude'
  BY <1>1 DEF BeginIndex, Acquire
<1>2. ASSUME NEW w \in Workers, BeginReplay(w)
      PROVE  BuildersExclude'
  BY <1>2 DEF BeginReplay, Acquire
<1>3. ASSUME NEW w \in Workers, NEW tree \in Trees,
             NEW touched \in SUBSET Symbols, BeginSync(w, tree, touched)
      PROVE  BuildersExclude'
  BY <1>3 DEF BeginSync, Acquire
<1>4. ASSUME NEW w \in Workers, ChooseGen(w)
      PROVE  BuildersExclude'
  BY <1>4 DEF ChooseGen
<1>5. ASSUME NEW w \in Workers, NEW s \in Symbols,
             UpsertNew(w, s) \/ UpsertServed(w, s)
      PROVE  BuildersExclude'
  BY <1>5 DEF UpsertNew, UpsertServed
<1>6. ASSUME NEW w \in Workers, Swap(w)
      PROVE  BuildersExclude'
  BY <1>6 DEF Swap, SwapTail
<1>7. ASSUME NEW w \in Workers, Finish(w) \/ Fail(w)
      PROVE  BuildersExclude'
  BY <1>7 DEF Finish, Fail, Leave
<1>8. ASSUME NEW w \in Workers, RemoveGone(w)
      PROVE  BuildersExclude'
  BY <1>8 DEF RemoveGone
<1>9. CASE Restart
  BY <1>9 DEF Restart
<1>10. CASE ReplayEmpty \/ Rollback \/ UNCHANGED vars
  BY <1>10 DEF ReplayEmpty, Rollback, vars
<1>11. ASSUME NEW g \in Gens, Cleanup(g) \/ CleanupFails(g)
       PROVE  BuildersExclude'
  BY <1>11 DEF Cleanup, CleanupFails
<1>. QED
  BY <1>1, <1>2, <1>3, <1>4, <1>5, <1>6, <1>7, <1>8, <1>9, <1>10, <1>11
     DEF Next, Request, Step

(* No two requests are ever inside the mutex, whatever the faults. *)
THEOREM MutualExclusion == Spec => []BuildersExclude
<1>1. Init => BuildersExclude
  BY MutexAssumption DEF Init, BuildersExclude
<1>. QED
  BY <1>1, MutexStep, TypeCorrect, PTL DEF Spec

-----------------------------------------------------------------------------
(* Generation numbers                                                      *)
(*                                                                         *)
(* PrivateGeneration is not inductive: it needs that the number the probe  *)
(* answers is never below one that is still in use, although clean-ups     *)
(* delete nodes, rollbacks go back to emptied generations and crashes      *)
(* leave half-built ones.  What carries it is that every number in use is  *)
(* dominated by a generation that still has the root symbol.               *)

Used(h) == h \in Reachable \/ Live(h)

(* A snapshot, once there is one, has the root, and nobody works before    *)
(* there is one.                                                           *)
RootKept ==
    /\ snapshot # {} => Root \in snapshot
    /\ snapshot = {} => cleanups = {} /\ \A g \in Gens : neo4j[g] = {}
    /\ \A w \in Workers :
        /\ Root \notin drop[w]
        /\ pc[w] # "idle" => snapshot # {}
        /\ pc[w] = "indexed" => Root \in todo[w]

Dominated ==
    \A h \in Gens : Used(h) /\ h # 0 => \E g \in Gens : h <= g /\ Root \in neo4j[g]

CleanupsOnTop ==
    \A g \in cleanups :
        /\ Root \in neo4j[g]
        /\ \A h \in Gens : Used(h) => h <= g

BuildOnTop ==
    \A w \in Workers : pc[w] = "building" =>
        /\ cleanups = {}
        /\ gen[w] \notin Reachable
        /\ \A h \in Gens : Used(h) => h <= gen[w]
        /\ neo4j[gen[w]] # {} => Root \in neo4j[gen[w]]
        /\ Root \in neo4j[gen[w]] \cup todo[w]

NumberingInv ==
    /\ TypeOK
    /\ BuildersExclude
    /\ RootKept
    /\ Dominated
    /\ CleanupsOnTop
    /\ BuildOnTop

LEMMA ReachableTyped == TypeOK => Reachable \subseteq Gens
  BY DEF TypeOK, Reachable

LEMMA SwapReachable ==
  ASSUME TypeOK, NEW w \in Workers, Swap(w)
  PROVE  Reachable' = Reachable \cup {gen[w]}
<1>1. /\ history \in Seq(Gens)
      /\ serving \in Gens
      /\ history' = Append(history, serving)
      /\ serving' = gen[w]
  BY DEF Swap, SwapTail, TypeOK
<1>2. Len(history') = Len(history) + 1 /\ Len(history) \in Nat
  BY <1>1
<1>3. \A i \in 1 .. Len(history) : history'[i] = history[i]
  BY <1>1
<1>4. history'[Len(history) + 1] = serving
  BY <1>1
<1>. QED
  BY <1>1, <1>2, <1>3, <1>4 DEF Reachable

LEMMA DropLast ==
  ASSUME NEW S, NEW s \in Seq(S), NEW n \in Nat, Len(s) = n + 1
  PROVE  /\ Len(SubSeq(s, 1, n)) = n
         /\ \A i \in 1 .. n : SubSeq(s, 1, n)[i] = s[i]
<1>1. Len(SubSeq(s, 1, n)) = n
  OBVIOUS
<1>2. \A i \in 1 .. n : SubSeq(s, 1, n)[i] = s[i]
  OBVIOUS
<1>. QED
  BY <1>1, <1>2

LEMMA RollbackReachable ==
  ASSUME TypeOK, Rollback
  PROVE  Reachable' \subseteq Reachable
<1> DEFINE n == Len(history) - 1
<1>1. /\ history \in Seq(Gens)
      /\ Len(history) \in Nat \ {0}
      /\ history' = SubSeq(history, 1, n)
      /\ serving' = history[Len(history)]
  BY DEF Rollback, TypeOK
<1>2. n \in Nat /\ Len(history) = n + 1
  BY <1>1
<1>3. Len(history') = n /\ \A i \in 1 .. n : history'[i] = history[i]
  BY <1>1, <1>2, DropLast, Zenon
<1> HIDE DEF n
<1>4. \A i \in 1 .. n : i \in 1 .. Len(history)
  BY <1>2
<1>5. Len(history) \in 1 .. Len(history)
  BY <1>1
<1>. QED
  BY <1>1, <1>3, <1>4, <1>5, Zenon DEF Reachable

(* The number a rebuild picks is above every number in use, and nothing is *)
(* stored under it: the reset has nothing to delete.                       *)
LEMMA FreshNumber ==
  ASSUME NumberingInv, "probe" \notin Faults,
         NEW g \in Gens, Probed(g), g + 1 \in Gens
  PROVE  /\ \A h \in Gens : Used(h) => h < g + 1
         /\ neo4j[g + 1] = {}
<1>1. IsCurrentGen(g)
  BY DEF Probed
<1>2. ASSUME NEW h \in Gens, Used(h)
      PROVE  h <= g
  <2>1. CASE h = 0
    BY <2>1, MaxGenAssumption DEF Gens
  <2>2. CASE h # 0
    <3>1. PICK k \in Gens : h <= k /\ Root \in neo4j[k]
      BY <1>2, <2>2 DEF NumberingInv, Dominated
    <3>2. k <= g
      BY <1>1, <3>1 DEF IsCurrentGen, Live
    <3>. QED
      BY <3>1, <3>2, MaxGenAssumption DEF Gens
  <2>. QED
    BY <2>1, <2>2
<1>3. neo4j[g + 1] = {}
  BY <1>2, MaxGenAssumption DEF Used, Live, Gens
<1>. QED
  BY <1>2, <1>3, MaxGenAssumption DEF Gens

LEMMA InitNumbering == Init => NumberingInv
<1> SUFFICES ASSUME Init
             PROVE  NumberingInv
  OBVIOUS
<1>1. TypeOK
  BY InitTypeOK
<1>2. BuildersExclude
  BY MutexAssumption DEF Init, BuildersExclude
<1>3. Reachable = {0} /\ \A g \in Gens : ~ Live(g)
  BY DEF Init, Reachable, Live
<1>4. RootKept
  BY DEF Init, RootKept
<1>5. Dominated /\ CleanupsOnTop /\ BuildOnTop
  BY <1>3 DEF Init, Dominated, CleanupsOnTop, BuildOnTop, Used
<1>. QED
  BY <1>1, <1>2, <1>4, <1>5 DEF NumberingInv

(* Requests: none of them touches the graph. *)
LEMMA NumberingRequest ==
  ASSUME NumberingInv, NEW w \in Workers, Request(w)
  PROVE  RootKept' /\ Dominated' /\ CleanupsOnTop' /\ BuildOnTop'
<1> USE DEF NumberingInv
<1> DEFINE Untouched ==
      /\ UNCHANGED <<neo4j, proxy, gen, cleanups>>
      /\ pc[w] = "idle"
      /\ \A v \in Workers : pc'[v] = "building" => pc[v] = "building" /\ v # w
      /\ \A v \in Workers \ {w} : pc'[v] = pc[v] /\ todo'[v] = todo[v]
<1>1. Untouched
  <2>1. ASSUME NEW tree \in Trees, BeginIndex(w, tree)
        PROVE  Untouched
    BY <2>1 DEF BeginIndex, Acquire, TypeOK
  <2>2. CASE BeginReplay(w)
    BY <2>2 DEF BeginReplay, Acquire, TypeOK, store
  <2>3. ASSUME NEW tree \in Trees, NEW touched \in SUBSET Symbols,
               BeginSync(w, tree, touched)
        PROVE  Untouched
    BY <2>3 DEF BeginSync, Acquire, TypeOK
  <2>. QED
    BY <2>1, <2>2, <2>3 DEF Request
<1>2. Reachable' = Reachable /\ \A h : Used(h)' <=> Used(h)
  BY <1>1 DEF Reachable, Used, Live, proxy
<1>3. RootKept'
  <2>1. ASSUME NEW tree \in Trees, BeginIndex(w, tree)
        PROVE  RootKept'
    BY <2>1 DEF BeginIndex, Acquire, RootKept, Trees, TypeOK
  <2>2. CASE BeginReplay(w)
    BY <2>2 DEF BeginReplay, Acquire, RootKept, TypeOK, store
  <2>3. ASSUME NEW tree \in Trees, NEW touched \in SUBSET Symbols,
               BeginSync(w, tree, touched)
        PROVE  RootKept'
    BY <2>3 DEF BeginSync, Acquire, RootKept, Trees, TypeOK
  <2>. QED
    BY <2>1, <2>2, <2>3 DEF Request
<1>4. Dominated' /\ CleanupsOnTop'
  BY <1>1, <1>2 DEF Dominated, CleanupsOnTop
<1>5. BuildOnTop'
  BY <1>1, <1>2 DEF BuildOnTop
<1>. QED
  BY <1>3, <1>4, <1>5

(* Steps that write the generation being built. *)
LEMMA NumberingBuild ==
  ASSUME NumberingInv, "overlap" \notin Faults, "probe" \notin Faults,
         NEW w \in Workers,
         ChooseGen(w) \/ (\E s \in Symbols : UpsertNew(w, s)) \/ Swap(w)
  PROVE  RootKept' /\ Dominated' /\ CleanupsOnTop' /\ BuildOnTop'
<1> USE DEF NumberingInv
<1>0. /\ pc[w] \in {"indexed", "building"}
      /\ snapshot # {}
      /\ \A v \in Workers \ {w} : pc[v] = "idle"
  BY DEF ChooseGen, UpsertNew, Swap, BuildersExclude, RootKept, TypeOK
<1>1. CASE ChooseGen(w)
  <2>1. PICK g \in Gens :
          /\ Probed(g)
          /\ g + 1 \in Gens
          /\ gen' = [gen EXCEPT ![w] = g + 1]
          /\ neo4j' = [neo4j EXCEPT ![g + 1] = {}]
    BY <1>1 DEF ChooseGen
  <2>2. neo4j' = neo4j /\ \A h \in Gens : Used(h) => h < g + 1
    BY <2>1, FreshNumber DEF TypeOK
  <2>3. /\ cleanups = {}
        /\ UNCHANGED <<snapshot, serving, history, todo, drop, cleanups>>
        /\ pc' = [pc EXCEPT ![w] = "building"]
    BY <1>1 DEF ChooseGen, proxy
  <2>4. Reachable' = Reachable /\ \A h : Used(h)' <=> Used(h)
    BY <2>2, <2>3 DEF Reachable, Used, Live
  <2>5. RootKept'
    BY <1>0, <2>2, <2>3 DEF RootKept, TypeOK
  <2>6. Dominated' /\ CleanupsOnTop'
    BY <2>2, <2>3, <2>4 DEF Dominated, CleanupsOnTop
  <2>7. BuildOnTop'
    <3>1. ASSUME NEW v \in Workers, pc'[v] = "building"
          PROVE  v = w
      BY <1>0, <2>3, <3>1 DEF TypeOK
    <3>2. gen'[w] = g + 1 /\ todo'[w] = todo[w] /\ Root \in todo[w]
      BY <1>1, <2>1, <2>3 DEF TypeOK, RootKept, ChooseGen
    <3>3. g + 1 \notin Reachable /\ neo4j[g + 1] = {}
      BY <2>1, <2>2, ReachableTyped, MaxGenAssumption DEF Used, Live, Gens
    <3>4. \A h \in Gens : Used(h) => h <= g + 1
      BY <2>1, <2>2, MaxGenAssumption DEF Gens
    <3>. QED
      BY <2>2, <2>3, <2>4, <3>1, <3>2, <3>3, <3>4 DEF BuildOnTop
  <2>. QED
    BY <2>5, <2>6, <2>7
<1>2. ASSUME NEW s \in Symbols, UpsertNew(w, s)
      PROVE  RootKept' /\ Dominated' /\ CleanupsOnTop' /\ BuildOnTop'
  <2>1. /\ pc[w] = "building"
        /\ s \in todo[w]
        /\ Root \in todo[w] => s = Root
        /\ neo4j' = [neo4j EXCEPT ![gen[w]] = @ \cup {s}]
        /\ todo' = [todo EXCEPT ![w] = @ \ {s}]
        /\ UNCHANGED <<snapshot, serving, history, pc, gen, drop, cleanups>>
    BY <1>2 DEF UpsertNew, proxy
  <2>2. /\ gen[w] \in Gens
        /\ neo4j'[gen[w]] = neo4j[gen[w]] \cup {s}
        /\ \A h \in Gens \ {gen[w]} : neo4j'[h] = neo4j[h]
    BY <2>1 DEF TypeOK
  <2>3. Root \in neo4j'[gen[w]]
    BY <2>1, <2>2 DEF BuildOnTop
  <2>4. /\ Reachable' = Reachable
        /\ \A h \in Gens : Used(h)' => Used(h) \/ h = gen[w]
    BY <2>1, <2>2 DEF Reachable, Used, Live
  <2>5. \A h \in Gens : Used(h)' => h <= gen[w]
    BY <2>1, <2>2, <2>4, MaxGenAssumption DEF BuildOnTop, Gens
  <2>6. RootKept'
    BY <1>0, <2>1 DEF RootKept, TypeOK
  <2>7. Dominated'
    BY <2>2, <2>3, <2>5 DEF Dominated
  <2>8. CleanupsOnTop'
    BY <2>1 DEF BuildOnTop, CleanupsOnTop
  <2>9. BuildOnTop'
    BY <1>0, <2>1, <2>2, <2>3, <2>4, <2>5 DEF BuildOnTop
  <2>. QED
    BY <2>6, <2>7, <2>8, <2>9
<1>3. CASE Swap(w)
  <2>1. /\ pc[w] = "building"
        /\ todo[w] = {}
        /\ cleanups' = cleanups \cup {gen[w]}
        /\ pc' = [pc EXCEPT ![w] = "swapped"]
        /\ UNCHANGED <<snapshot, neo4j, gen, todo, drop>>
    BY <1>3 DEF Swap, SwapTail, store
  <2>2. Reachable' = Reachable \cup {gen[w]}
    BY <1>3, SwapReachable
  <2>3. gen[w] \in Gens /\ Root \in neo4j[gen[w]] /\ cleanups' = {gen[w]}
    BY <2>1 DEF BuildOnTop, TypeOK
  <2>4. \A h \in Gens : Used(h)' => h <= gen[w]
    BY <2>1, <2>2, <2>3, MaxGenAssumption DEF BuildOnTop, Used, Live, Gens
  <2>5. RootKept'
    BY <1>0, <2>1 DEF RootKept, TypeOK
  <2>6. Dominated'
    BY <2>1, <2>3, <2>4 DEF Dominated
  <2>7. CleanupsOnTop'
    BY <2>1, <2>3, <2>4 DEF CleanupsOnTop
  <2>8. BuildOnTop'
    BY <1>0, <2>1 DEF BuildOnTop, TypeOK
  <2>. QED
    BY <2>5, <2>6, <2>7, <2>8
<1>. QED
  BY <1>1, <1>2, <1>3

(* Steps that write the served generation or nothing. *)
LEMMA NumberingPatch ==
  ASSUME NumberingInv, NEW w \in Workers,
         \/ Finish(w) \/ Fail(w)
         \/ RemoveGone(w)
         \/ \E s \in Symbols : UpsertServed(w, s)
  PROVE  RootKept' /\ Dominated' /\ CleanupsOnTop' /\ BuildOnTop'
<1> USE DEF NumberingInv
<1>0. /\ snapshot # {}
      /\ \A v \in Workers \ {w} : pc[v] = "idle"
      /\ UNCHANGED <<snapshot, serving, history, cleanups>>
      /\ pc'[w] # "building"
      /\ \A v \in Workers \ {w} : pc'[v] = pc[v] /\ drop'[v] = drop[v]
  BY DEF Finish, Fail, Leave, RemoveGone, UpsertServed, BuildersExclude,
         RootKept, TypeOK, store, proxy
<1>1. BuildOnTop'
  BY <1>0 DEF BuildOnTop
<1>2. RootKept'
  BY <1>0 DEF RootKept, Finish, Fail, Leave, RemoveGone, UpsertServed, TypeOK
<1>3. /\ serving \in Gens
      /\ Root \in neo4j[serving] => Root \in neo4j'[serving]
      /\ \A h \in Gens \ {serving} : neo4j'[h] = neo4j[h]
  BY DEF Finish, Fail, Leave, RemoveGone, UpsertServed, RootKept, TypeOK, store
<1>4. Reachable' = Reachable /\ serving \in Reachable
  BY <1>0 DEF Reachable
<1>5. \A h \in Gens : Used(h)' => Used(h)
  BY <1>3, <1>4 DEF Used, Live
<1>6. Dominated'
  BY <1>3, <1>5 DEF Dominated
<1>7. CleanupsOnTop'
  BY <1>0, <1>3, <1>5 DEF CleanupsOnTop, TypeOK
<1>. QED
  BY <1>1, <1>2, <1>6, <1>7

(* Everything that takes no mutex. *)
LEMMA NumberingOutside ==
  ASSUME NumberingInv, "probe" \notin Faults,
         \/ ReplayEmpty \/ Rollback \/ Restart
         \/ \E g \in Gens : Cleanup(g) \/ CleanupFails(g)
  PROVE  RootKept' /\ Dominated' /\ CleanupsOnTop' /\ BuildOnTop'
<1> USE DEF NumberingInv
<1>1. CASE ReplayEmpty
  <2>1. neo4j' = neo4j
    BY <1>1 DEF ReplayEmpty, RootKept, TypeOK
  <2>2. UNCHANGED <<snapshot, serving, history, pc, gen, todo, drop, cleanups>>
    BY <1>1 DEF ReplayEmpty, proxy
  <2>3. Reachable' = Reachable /\ \A h : Used(h)' <=> Used(h)
    BY <2>1, <2>2 DEF Reachable, Used, Live
  <2>. QED
    BY <2>1, <2>2, <2>3 DEF RootKept, Dominated, CleanupsOnTop, BuildOnTop
<1>2. CASE Rollback
  <2>1. UNCHANGED <<snapshot, neo4j, pc, gen, todo, drop, cleanups>>
    BY <1>2 DEF Rollback, store
  <2>2. Reachable' \subseteq Reachable /\ \A h : Used(h)' => Used(h)
    BY <1>2, <2>1, RollbackReachable DEF Used, Live
  <2>. QED
    BY <2>1, <2>2 DEF RootKept, Dominated, CleanupsOnTop, BuildOnTop
<1>3. CASE Restart
  <2>1. PICK g \in Gens : IsCurrentGen(g) /\ serving' = g
    BY <1>3 DEF Restart, Probed
  <2>2. /\ UNCHANGED <<snapshot, neo4j>>
        /\ cleanups' = {}
        /\ history' = <<>>
        /\ pc' = [v \in Workers |-> "idle"]
        /\ drop' = [v \in Workers |-> {}]
    BY <1>3 DEF Restart, store
  <2>3. Reachable' = {g}
    BY <2>1, <2>2 DEF Reachable
  <2>4. \A h \in Gens : Used(h)' /\ h # 0 => Used(h)
    BY <2>1, <2>2, <2>3 DEF Used, Live, IsCurrentGen
  <2>. QED
    BY <2>2, <2>4 DEF RootKept, Dominated, CleanupsOnTop, BuildOnTop
<1>4. ASSUME NEW g \in Gens, Cleanup(g)
      PROVE  RootKept' /\ Dominated' /\ CleanupsOnTop' /\ BuildOnTop'
  <2>1. /\ UNCHANGED <<snapshot, serving, history, pc, gen, todo, drop>>
        /\ cleanups' \subseteq cleanups
        /\ g \in cleanups
        /\ neo4j' = [h \in Gens |-> IF h = g THEN neo4j[h] ELSE {}]
    BY <1>4 DEF Cleanup, proxy
  <2>2. Root \in neo4j[g] /\ \A h \in Gens : Used(h) => h <= g
    BY <2>1 DEF CleanupsOnTop
  <2>3. Root \in neo4j'[g] /\ Reachable' = Reachable
    BY <2>1, <2>2 DEF Reachable
  <2>4. \A h \in Gens : Used(h)' => Used(h)
    BY <2>1, <2>3 DEF Used, Live
  <2>5. RootKept'
    BY <2>1 DEF RootKept
  <2>6. Dominated'
    BY <2>2, <2>3, <2>4 DEF Dominated
  <2>7. CleanupsOnTop'
    <3>1. ASSUME NEW k \in cleanups'
          PROVE  k = g
      <4>1. k \in Gens /\ Used(k) /\ Used(g) /\ k <= g /\ g <= k
        BY <2>1, <2>2, <3>1 DEF CleanupsOnTop, TypeOK, Used, Live
      <4>. QED
        BY <4>1, MaxGenAssumption DEF Gens
    <3>. QED
      BY <2>2, <2>3, <2>4, <3>1 DEF CleanupsOnTop
  <2>8. BuildOnTop'
    BY <2>1 DEF BuildOnTop
  <2>. QED
    BY <2>5, <2>6, <2>7, <2>8
<1>5. ASSUME NEW g \in Gens, CleanupFails(g)
      PROVE  RootKept' /\ Dominated' /\ CleanupsOnTop' /\ BuildOnTop'
  <2>1. /\ UNCHANGED <<snapshot, neo4j, serving, history, pc, gen, todo, drop>>
        /\ cleanups' \subseteq cleanups
        /\ cleanups # {}
    BY <1>5 DEF CleanupFails, proxy, store
  <2>2. Reachable' = Reachable /\ \A h : Used(h)' <=> Used(h)
    BY <2>1 DEF Reachable, Used, Live
  <2>. QED
    BY <2>1, <2>2 DEF RootKept, Dominated, CleanupsOnTop, BuildOnTop
<1>. QED
  BY <1>1, <1>2, <1>3, <1>4, <1>5

LEMMA NumberingStep ==
  ASSUME "overlap" \notin Faults, "probe" \notin Faults,
         NumberingInv, [Next]_vars
  PROVE  NumberingInv'
<1>1. TypeOK' /\ BuildersExclude'
  BY NextTypeOK, MutexStep DEF NumberingInv
<1> DEFINE Carried == RootKept' /\ Dominated' /\ CleanupsOnTop' /\ BuildOnTop'
<1>2. ASSUME NEW w \in Workers, Request(w) \/ Step(w) \/ Fail(w)
      PROVE  Carried
  BY <1>2, NumberingRequest, NumberingBuild, NumberingPatch DEF Step
<1>3. ASSUME \/ ReplayEmpty \/ Rollback \/ Restart
             \/ \E g \in Gens : Cleanup(g) \/ CleanupFails(g)
      PROVE  Carried
  BY <1>3, NumberingOutside
<1>4. ASSUME UNCHANGED vars
      PROVE  Carried
  <2>1. UNCHANGED <<snapshot, neo4j, serving, history, pc, gen, todo, drop, cleanups>>
    BY <1>4 DEF vars, store, proxy
  <2>2. Reachable' = Reachable /\ \A h : Used(h)' <=> Used(h)
    BY <2>1 DEF Reachable, Used, Live
  <2>3. RootKept' /\ Dominated'
    BY <2>1, <2>2 DEF NumberingInv, RootKept, Dominated
  <2>4. CleanupsOnTop' /\ BuildOnTop'
    BY <2>1, <2>2 DEF NumberingInv, CleanupsOnTop, BuildOnTop
  <2>. QED
    BY <2>3, <2>4
<1> HIDE DEF Carried
<1>5. Carried
  BY <1>2, <1>3, <1>4 DEF Next
<1>. QED
  BY <1>1, <1>5 DEF NumberingInv, Carried

(* While a rebuild runs, the generation it writes is not served, cannot be *)
(* rolled back to and is nobody else's, provided each clean-up thread has  *)
(* run before the next rebuild picks its number and the probe answers.     *)
THEOREM PrivateGenerations ==
  "overlap" \notin Faults /\ "probe" \notin Faults
    => (Spec => []PrivateGeneration)
<1> SUFFICES ASSUME "overlap" \notin Faults, "probe" \notin Faults
             PROVE  Spec => []PrivateGeneration
  OBVIOUS
<1>1. NumberingInv /\ [Next]_vars => NumberingInv'
  BY NumberingStep
<1>2. NumberingInv => PrivateGeneration
  BY DEF NumberingInv, PrivateGeneration, BuildOnTop, BuildersExclude
<1>. QED
  BY <1>1, <1>2, InitNumbering, PTL DEF Spec

LEMMA BuildSpared ==
  ASSUME "overlap" \notin Faults, "probe" \notin Faults,
         NumberingInv, [Next]_vars
  PROVE  SparesBuildInFlight
<1> SUFFICES ASSUME NEW w \in Workers, pc[w] = "building", pc'[w] = "building"
             PROVE  neo4j[gen[w]] \subseteq neo4j'[gen[w]]
  BY DEF SparesBuildInFlight
<1> USE DEF NumberingInv, TypeOK
<1>1. /\ gen[w] \in Gens /\ gen[w] # serving /\ cleanups = {}
      /\ mutex = w
      /\ \A v \in Workers \ {w} : pc[v] = "idle"
  BY DEF BuildOnTop, BuildersExclude, Reachable
<1>2. ASSUME NEW v \in Workers, Request(v)
      PROVE  neo4j' = neo4j
  BY <1>2 DEF Request, BeginIndex, BeginReplay, BeginSync, store
<1>3. ASSUME NEW v \in Workers, NEW s \in Symbols, UpsertNew(v, s)
      PROVE  neo4j[gen[w]] \subseteq neo4j'[gen[w]]
  BY <1>1, <1>3 DEF UpsertNew
<1>4. ASSUME NEW v \in Workers,
             ChooseGen(v) \/ RemoveGone(v)
               \/ \E s \in Symbols : UpsertServed(v, s)
      PROVE  FALSE
  BY <1>1, <1>4 DEF ChooseGen, RemoveGone, UpsertServed
<1>5. ASSUME NEW v \in Workers, Swap(v) \/ Finish(v) \/ Fail(v)
      PROVE  neo4j' = neo4j
  BY <1>5 DEF Swap, SwapTail, Finish, Fail, store
<1>6. CASE ReplayEmpty \/ \E g \in Gens : Cleanup(g) \/ CleanupFails(g)
  BY <1>1, <1>6, MutexAssumption DEF ReplayEmpty, Cleanup, CleanupFails
<1>7. CASE Rollback \/ Restart \/ UNCHANGED vars
  BY <1>7 DEF Rollback, Restart, vars, store
<1>. QED
  BY <1>2, <1>3, <1>4, <1>5, <1>6, <1>7 DEF Next, Step

(* Under the same conditions no step of anybody, a clean-up above all,     *)
(* removes a node that a rebuild in flight has written.                    *)
THEOREM BuildsSurviveCleanups ==
  "overlap" \notin Faults /\ "probe" \notin Faults
    => (Spec => CleanupSparesBuilds)
<1> SUFFICES ASSUME "overlap" \notin Faults, "probe" \notin Faults
             PROVE  Spec => CleanupSparesBuilds
  OBVIOUS
<1>1. NumberingInv /\ [Next]_vars => NumberingInv'
  BY NumberingStep
<1>2. NumberingInv /\ [Next]_vars => [SparesBuildInFlight]_vars
  BY BuildSpared
<1>. QED
  BY <1>1, <1>2, InitNumbering, PTL DEF Spec, CleanupSparesBuilds

-----------------------------------------------------------------------------
(* Zero-downtime rebuild                                                   *)
(*                                                                         *)
(* That readers only see the view move towards the snapshot rests on the   *)
(* numbering (a rebuild writes where nobody reads, a clean-up spares the   *)
(* served generation) and on the mutex (the chunks a worker still has to   *)
(* write are those of the snapshot that is stored now).                    *)

InPhase(w) ==
    /\ pc[w] = "indexed" => todo[w] = snapshot
    /\ pc[w] = "building" => neo4j[gen[w]] \cup todo[w] = snapshot
    /\ pc[w] = "removing" => drop[w] \cap snapshot = {} /\ todo[w] \subseteq snapshot
    /\ pc[w] = "patching" => todo[w] \subseteq snapshot

PublishInv ==
    /\ cleanups \subseteq {serving}
    /\ \A w \in Workers : InPhase(w)

Orderly == Faults \subseteq {"buildfail", "cleanupfail"}

LEMMA PublishStep ==
  ASSUME Orderly, NumberingInv, PublishInv, [Next]_vars
  PROVE  PublishInv'
<1> USE DEF NumberingInv, TypeOK, PublishInv, InPhase
<1>1. ASSUME NEW w \in Workers, Request(w)
      PROVE  PublishInv'
  <2>1. \A v \in Workers : pc[v] = "idle"
    BY <1>1, MutexAssumption
       DEF Request, BeginIndex, BeginReplay, BeginSync, Acquire, BuildersExclude
  <2>2. ASSUME NEW tree \in Trees, BeginIndex(w, tree)
        PROVE  PublishInv'
    BY <2>1, <2>2 DEF BeginIndex, proxy
  <2>3. CASE BeginReplay(w)
    BY <2>1, <2>3 DEF BeginReplay, store, proxy
  <2>4. ASSUME NEW tree \in Trees, NEW touched \in SUBSET Symbols,
               BeginSync(w, tree, touched)
        PROVE  PublishInv'
    BY <2>1, <2>4 DEF BeginSync, proxy
  <2>. QED
    BY <1>1, <2>2, <2>3, <2>4 DEF Request
<1>2. ASSUME NEW w \in Workers, Step(w) \/ Fail(w)
      PROVE  PublishInv'
  <2>1. \A v \in Workers \ {w} : pc[v] = "idle" /\ pc'[v] = "idle"
    BY <1>2 DEF Step, ChooseGen, UpsertNew, Swap, SwapTail, Finish, Fail, Leave,
                RemoveGone, UpsertServed, BuildersExclude
  <2>2. CASE ChooseGen(w)
    <3>1. PICK g \in Gens :
            /\ Probed(g)
            /\ g + 1 \in Gens
            /\ gen' = [gen EXCEPT ![w] = g + 1]
            /\ neo4j' = [neo4j EXCEPT ![g + 1] = {}]
      BY <2>2 DEF ChooseGen
    <3>2. neo4j'[gen'[w]] = {}
      BY <3>1
    <3>. QED
      BY <2>1, <2>2, <3>2 DEF ChooseGen, proxy
  <2>3. ASSUME NEW s \in Symbols, UpsertNew(w, s)
        PROVE  PublishInv'
    <3>1. /\ s \in todo[w]
          /\ neo4j'[gen'[w]] = neo4j[gen[w]] \cup {s}
          /\ todo'[w] = todo[w] \ {s}
          /\ UNCHANGED <<snapshot, serving, pc, cleanups>>
          /\ pc[w] = "building"
      BY <2>3 DEF UpsertNew, proxy
    <3>2. neo4j'[gen'[w]] \cup todo'[w] = snapshot
      BY <3>1
    <3>. QED
      BY <2>1, <3>1, <3>2
  <2>4. CASE Swap(w)
    BY <2>1, <2>4 DEF Swap, SwapTail, BuildOnTop, store
  <2>5. CASE Finish(w) \/ Fail(w)
    BY <2>1, <2>5 DEF Finish, Fail, Leave, store, proxy
  <2>6. CASE RemoveGone(w)
    BY <2>1, <2>6 DEF RemoveGone, proxy
  <2>7. ASSUME NEW s \in Symbols, UpsertServed(w, s)
        PROVE  PublishInv'
    BY <2>1, <2>7 DEF UpsertServed, proxy
  <2>. QED
    BY <1>2, <2>2, <2>3, <2>4, <2>5, <2>6, <2>7 DEF Step
<1>3. CASE ReplayEmpty
  BY <1>3, MutexAssumption DEF ReplayEmpty, BuildersExclude, proxy
<1>4. ASSUME NEW g \in Gens, Cleanup(g) \/ CleanupFails(g)
      PROVE  PublishInv'
  <2>1. \A w \in Workers : pc[w] # "building"
    BY <1>4 DEF Cleanup, CleanupFails, BuildOnTop
  <2>. QED
    BY <1>4, <2>1 DEF Cleanup, CleanupFails, store, proxy
<1>5. ~ Rollback /\ ~ Restart
  BY DEF Orderly, Rollback, Restart
<1>6. CASE UNCHANGED vars
  BY <1>6 DEF vars, store, proxy
<1>. QED
  BY <1>1, <1>2, <1>3, <1>4, <1>5, <1>6 DEF Next

LEMMA ViewStep ==
  ASSUME Orderly, NumberingInv, PublishInv, [Next]_vars
  PROVE  [View!Next]_View!vars
<1> USE DEF NumberingInv, TypeOK, PublishInv, InPhase
<1> DEFINE Same == neo4j'[serving'] = neo4j[serving]
<1>1. ASSUME NEW w \in Workers, Request(w)
      PROVE  View!Record
  BY <1>1 DEF Request, BeginIndex, BeginReplay, BeginSync, Trees, store, proxy,
              View!Record
<1>2. ASSUME NEW w \in Workers, ChooseGen(w)
      PROVE  Same /\ snapshot' = snapshot
  <2>1. PICK g \in Gens :
          Probed(g) /\ g + 1 \in Gens /\ neo4j' = [neo4j EXCEPT ![g + 1] = {}]
    BY <1>2 DEF ChooseGen
  <2>2. neo4j[g + 1] = {}
    BY <2>1, FreshNumber DEF Orderly
  <2>. QED
    BY <1>2, <2>1, <2>2 DEF ChooseGen, proxy
<1>3. ASSUME NEW w \in Workers, NEW s \in Symbols, UpsertNew(w, s)
      PROVE  Same /\ snapshot' = snapshot
  BY <1>3 DEF UpsertNew, BuildOnTop, Reachable, proxy
<1>4. ASSUME NEW w \in Workers, Swap(w)
      PROVE  View!Converge
  BY <1>4 DEF Swap, SwapTail, store, View!Converge
<1>5. ASSUME NEW w \in Workers, Finish(w) \/ Fail(w)
      PROVE  Same /\ snapshot' = snapshot
  BY <1>5 DEF Finish, Fail, store, proxy
<1>6. ASSUME NEW w \in Workers, RemoveGone(w)
      PROVE  View!Converge
  BY <1>6 DEF RemoveGone, proxy, View!Converge
<1>7. ASSUME NEW w \in Workers, NEW s \in Symbols, UpsertServed(w, s)
      PROVE  View!Converge
  BY <1>7 DEF UpsertServed, proxy, View!Converge
<1>8. CASE ReplayEmpty
  BY <1>8 DEF ReplayEmpty, RootKept, proxy, View!Next, View!Converge
<1>9. ASSUME NEW g \in Gens, Cleanup(g) \/ CleanupFails(g)
      PROVE  Same /\ snapshot' = snapshot
  BY <1>9 DEF Cleanup, CleanupFails, store, proxy
<1>10. ~ Rollback /\ ~ Restart
  BY DEF Orderly, Rollback, Restart
<1>11. CASE UNCHANGED vars
  BY <1>11 DEF vars, store, proxy, View!vars
<1>12. ASSUME Same /\ snapshot' = snapshot
       PROVE  UNCHANGED View!vars
  BY <1>12 DEF View!vars
<1> HIDE DEF Same
<1>. QED
  BY <1>1, <1>2, <1>3, <1>4, <1>5, <1>6, <1>7, <1>8, <1>9, <1>10, <1>11, <1>12
     DEF Next, Step, View!Next

(* Zero-downtime rebuild: as long as nobody rolls back or restarts, what   *)
(* readers of the graph see is the old generation until the new one is     *)
(* complete, and every change of it goes towards the stored snapshot, also *)
(* when rebuilds, syncs and clean-ups fail half-way.                       *)
THEOREM ZeroDowntime == Orderly => (Spec => PublishesAtomically)
<1> SUFFICES ASSUME Orderly
             PROVE  Spec => PublishesAtomically
  OBVIOUS
<1>1. Init => NumberingInv /\ PublishInv
  BY InitNumbering DEF Init, PublishInv, InPhase
<1>2. NumberingInv /\ PublishInv /\ [Next]_vars => (NumberingInv /\ PublishInv)'
  BY NumberingStep, PublishStep DEF Orderly
<1>3. NumberingInv /\ PublishInv /\ [Next]_vars => [View!Next]_View!vars
  BY ViewStep
<1>4. Init => View!Init
  BY MaxGenAssumption DEF Init, View!Init, Gens
<1>. QED
  BY <1>1, <1>2, <1>3, <1>4, PTL DEF Spec, PublishesAtomically, View!Spec

-----------------------------------------------------------------------------
(* Healing                                                                 *)
(*                                                                         *)
(* NumberingInv is no help here: a probe that answers 0 gives out numbers  *)
(* that are in use.  What counts is that a build starts from an emptied    *)
(* generation and ends as the served one, that a clean-up belongs to the   *)
(* served generation, and how far each phase of a sync is from the         *)
(* snapshot once a build of this process has been swapped in.              *)

Healing == Faults \cap {"overlap", "rollback", "buildfail", "cleanupfail"} = {}

(* The served graph, on its way to the snapshot. *)
Approaches(w) ==
    /\ pc[w] = "indexed" => todo[w] = snapshot
    /\ pc[w] = "building" => cleanups = {} /\ neo4j[gen[w]] \cup todo[w] = snapshot
    /\ history # <<>> =>
        /\ pc[w] = "swapped" => neo4j[serving] = snapshot
        /\ pc[w] = "removing" => (neo4j[serving] \ drop[w]) \cup todo[w] = snapshot
        /\ pc[w] = "patching" => neo4j[serving] \cup todo[w] = snapshot

HealInv ==
    /\ TypeOK
    /\ BuildersExclude
    /\ cleanups \subseteq {serving}
    /\ \A w \in Workers : Approaches(w)
    /\ NoLeakedGenerations
    /\ ServesSnapshot

LEMMA InitHealing == Init => HealInv
<1> SUFFICES ASSUME Init
             PROVE  HealInv
  OBVIOUS
<1>1. TypeOK
  BY InitTypeOK
<1>2. BuildersExclude
  BY MutexAssumption DEF Init, BuildersExclude
<1>. QED
  BY <1>1, <1>2 DEF Init, HealInv, Approaches, NoLeakedGenerations, ServesSnapshot

(* A request finds the mutex free and the served graph at the snapshot.    *)
LEMMA HealingRequest ==
  ASSUME HealInv, NEW w \in Workers, Request(w), BuildersExclude'
  PROVE  /\ cleanups' \subseteq {serving'}
         /\ \A v \in Workers : Approaches(v)'
         /\ NoLeakedGenerations' /\ ServesSnapshot'
<1> USE DEF HealInv, TypeOK
<1>1. /\ \A v \in Workers : pc[v] = "idle"
      /\ mutex = NoWorker /\ mutex' = w
      /\ UNCHANGED <<neo4j, serving, history, gen, cleanups>>
      /\ \A v \in Workers \ {w} : pc'[v] = "idle"
      /\ pc'[w] \in {"indexed", "removing"}
  BY MutexAssumption DEF Request, BeginIndex, BeginReplay, BeginSync, Acquire,
                         BuildersExclude, proxy, store
<1>2. history # <<>> => neo4j[serving] = snapshot
  BY <1>1 DEF ServesSnapshot
<1>3. Approaches(w)'
  <2>1. ASSUME NEW tree \in Trees, BeginIndex(w, tree)
        PROVE  Approaches(w)'
    BY <2>1 DEF BeginIndex, Approaches
  <2>2. CASE BeginReplay(w)
    BY <2>2 DEF BeginReplay, Approaches, store
  <2>3. ASSUME NEW tree \in Trees, NEW touched \in SUBSET Symbols,
               BeginSync(w, tree, touched)
        PROVE  Approaches(w)'
    BY <1>1, <1>2, <2>3 DEF BeginSync, Approaches
  <2>. QED
    BY <2>1, <2>2, <2>3 DEF Request
<1>4. \A v \in Workers : Approaches(v)'
  BY <1>1, <1>3 DEF Approaches
<1>5. NoLeakedGenerations'
  BY <1>1 DEF NoLeakedGenerations, Live
<1>6. ServesSnapshot'
  BY <1>1, MutexAssumption DEF ServesSnapshot
<1>. QED
  BY <1>1, <1>4, <1>5, <1>6

LEMMA HealingBuild ==
  ASSUME HealInv, Healing, NEW w \in Workers, BuildersExclude',
         ChooseGen(w) \/ (\E s \in Symbols : UpsertNew(w, s)) \/ Swap(w)
  PROVE  /\ cleanups' \subseteq {serving'}
         /\ \A v \in Workers : Approaches(v)'
         /\ NoLeakedGenerations' /\ ServesSnapshot'
<1> USE DEF HealInv, TypeOK
<1>1. /\ mutex = w /\ mutex' = w
      /\ \A v \in Workers \ {w} : pc[v] = "idle" /\ pc'[v] = "idle"
      /\ pc[w] \in {"indexed", "building"} /\ pc'[w] \in {"building", "swapped"}
      /\ snapshot' = snapshot
  BY DEF ChooseGen, UpsertNew, Swap, SwapTail, BuildersExclude, store
<1>2. \A v \in Workers \ {w} : Approaches(v)'
  BY <1>1 DEF Approaches
<1>3. ServesSnapshot'
  BY <1>1, MutexAssumption DEF ServesSnapshot
<1>4. CASE ChooseGen(w)
  <2>1. PICK g \in Gens :
          /\ g + 1 \in Gens
          /\ gen' = [gen EXCEPT ![w] = g + 1]
          /\ neo4j' = [neo4j EXCEPT ![g + 1] = {}]
    BY <1>4 DEF ChooseGen
  <2>2. /\ cleanups = {} /\ pc'[w] = "building"
        /\ UNCHANGED <<serving, history, todo, cleanups>>
    BY <1>4 DEF ChooseGen, Healing, proxy
  <2>3. neo4j'[gen'[w]] = {} /\ todo'[w] = snapshot
    BY <1>4, <2>1, <2>2 DEF Approaches, ChooseGen
  <2>4. Approaches(w)'
    BY <1>1, <2>2, <2>3 DEF Approaches
  <2>5. \A h \in Gens : Live(h)' => Live(h)
    BY <2>1 DEF Live
  <2>6. \A v \in Workers : pc[v] # "building"
    BY <1>1, <1>4 DEF ChooseGen
  <2>7. NoLeakedGenerations'
    BY <2>2, <2>5, <2>6 DEF NoLeakedGenerations
  <2>. QED
    BY <1>2, <1>3, <2>2, <2>4, <2>7
<1>5. ASSUME NEW s \in Symbols, UpsertNew(w, s)
      PROVE  cleanups' \subseteq {serving'} /\ Approaches(w)' /\ NoLeakedGenerations'
  <2>1. /\ pc[w] = "building" /\ pc'[w] = "building" /\ gen'[w] = gen[w]
        /\ s \in todo[w]
        /\ todo'[w] = todo[w] \ {s}
        /\ neo4j'[gen[w]] = neo4j[gen[w]] \cup {s}
        /\ \A h \in Gens \ {gen[w]} : neo4j'[h] = neo4j[h]
        /\ UNCHANGED <<serving, history, pc, gen, cleanups>>
    BY <1>5 DEF UpsertNew, proxy
  <2>2. neo4j'[gen[w]] \cup todo'[w] = snapshot
    BY <2>1 DEF Approaches
  <2>3. Approaches(w)'
    BY <1>1, <2>1, <2>2 DEF Approaches
  <2>4. NoLeakedGenerations'
    BY <2>1 DEF NoLeakedGenerations, Live
  <2>. QED
    BY <2>1, <2>3, <2>4
<1>6. CASE Swap(w)
  <2>1. /\ pc[w] = "building" /\ pc'[w] = "swapped"
        /\ todo[w] = {} /\ neo4j' = neo4j
        /\ serving' = gen[w] /\ cleanups' = cleanups \cup {gen[w]}
    BY <1>6 DEF Swap, SwapTail, store
  <2>2. cleanups = {} /\ neo4j'[serving'] = snapshot
    BY <2>1 DEF Approaches
  <2>3. Approaches(w)'
    BY <1>1, <2>1, <2>2 DEF Approaches
  <2>. QED
    BY <1>2, <1>3, <2>1, <2>2, <2>3 DEF NoLeakedGenerations
<1>. QED
  BY <1>2, <1>3, <1>4, <1>5, <1>6

LEMMA HealingPatch ==
  ASSUME HealInv, NEW w \in Workers, BuildersExclude',
         Finish(w) \/ RemoveGone(w) \/ \E s \in Symbols : UpsertServed(w, s)
  PROVE  /\ cleanups' \subseteq {serving'}
         /\ \A v \in Workers : Approaches(v)'
         /\ NoLeakedGenerations' /\ ServesSnapshot'
<1> USE DEF HealInv, TypeOK
<1>1. /\ mutex = w
      /\ UNCHANGED <<snapshot, serving, history, cleanups>>
      /\ \A v \in Workers \ {w} : pc[v] = "idle" /\ pc'[v] = "idle"
      /\ pc[w] \in {"swapped", "removing", "patching"}
      /\ pc'[w] \in {"idle", "patching"}
      /\ \A h \in Gens \ {serving} : neo4j'[h] = neo4j[h]
  BY DEF Finish, Leave, RemoveGone, UpsertServed, BuildersExclude, store, proxy
<1>2. \A v \in Workers \ {w} : Approaches(v)'
  BY <1>1 DEF Approaches
<1>3. NoLeakedGenerations'
  BY <1>1 DEF NoLeakedGenerations, Live
<1>4. CASE Finish(w)
  <2>1. /\ pc'[w] = "idle" /\ neo4j' = neo4j
        /\ pc[w] = "swapped" \/ (pc[w] = "patching" /\ todo[w] = {})
    BY <1>4 DEF Finish, Leave, store
  <2>2. history # <<>> => neo4j[serving] = snapshot
    BY <2>1 DEF Approaches
  <2>3. Approaches(w)'
    BY <2>1 DEF Approaches
  <2>4. ServesSnapshot'
    BY <1>1, <2>1, <2>2 DEF ServesSnapshot
  <2>. QED
    BY <1>1, <1>2, <1>3, <2>3, <2>4
<1>5. ASSUME RemoveGone(w) \/ \E s \in Symbols : UpsertServed(w, s)
      PROVE  Approaches(w)' /\ ServesSnapshot'
  <2>1. mutex' = w
    BY <1>1, <1>5 DEF RemoveGone, UpsertServed
  <2>2. ServesSnapshot'
    BY <2>1, MutexAssumption DEF ServesSnapshot
  <2>3. ASSUME RemoveGone(w)
        PROVE  Approaches(w)'
    <3>1. /\ pc[w] = "removing" /\ pc'[w] = "patching" /\ todo' = todo
          /\ neo4j'[serving] = neo4j[serving] \ drop[w]
      BY <2>3 DEF RemoveGone
    <3>. QED
      BY <1>1, <3>1 DEF Approaches
  <2>4. ASSUME NEW s \in Symbols, UpsertServed(w, s)
        PROVE  Approaches(w)'
    BY <1>1, <2>4 DEF UpsertServed, Approaches
  <2>. QED
    BY <1>5, <2>2, <2>3, <2>4
<1>. QED
  BY <1>1, <1>2, <1>3, <1>4, <1>5

LEMMA HealingOutside ==
  ASSUME HealInv, Healing,
         ReplayEmpty \/ (\E g \in Gens : Cleanup(g)) \/ Restart \/ UNCHANGED vars
  PROVE  /\ cleanups' \subseteq {serving'}
         /\ \A v \in Workers : Approaches(v)'
         /\ NoLeakedGenerations' /\ ServesSnapshot'
<1> USE DEF HealInv, TypeOK
<1>1. CASE ReplayEmpty
  <2>1. /\ \A v \in Workers : pc[v] = "idle"
        /\ UNCHANGED <<snapshot, serving, history, mutex, pc, gen, cleanups>>
        /\ snapshot = {} /\ neo4j'[serving] = {}
        /\ \A h \in Gens \ {serving} : neo4j'[h] = neo4j[h]
    BY <1>1, MutexAssumption DEF ReplayEmpty, BuildersExclude, proxy
  <2>. QED
    BY <2>1 DEF Approaches, NoLeakedGenerations, Live, ServesSnapshot
<1>2. ASSUME NEW g \in Gens, Cleanup(g)
      PROVE  /\ cleanups' \subseteq {serving'}
             /\ \A v \in Workers : Approaches(v)'
             /\ NoLeakedGenerations' /\ ServesSnapshot'
  <2>1. /\ g = serving /\ g \in cleanups
        /\ UNCHANGED <<snapshot, serving, history, mutex, pc, gen, todo, drop>>
        /\ cleanups' \subseteq cleanups
        /\ neo4j'[serving] = neo4j[serving]
        /\ \A h \in Gens \ {serving} : neo4j'[h] = {}
    BY <1>2 DEF Cleanup, proxy
  <2>2. \A v \in Workers : pc[v] # "building"
    BY <2>1 DEF Approaches
  <2>. QED
    BY <2>1, <2>2 DEF Approaches, NoLeakedGenerations, Live, ServesSnapshot
<1>3. CASE Restart
  BY <1>3 DEF Restart, Approaches, NoLeakedGenerations, ServesSnapshot
<1>4. CASE UNCHANGED vars
  BY <1>4 DEF vars, store, proxy, Approaches, NoLeakedGenerations, Live, ServesSnapshot
<1>. QED
  BY <1>1, <1>2, <1>3, <1>4

LEMMA HealingStep ==
  ASSUME Healing, HealInv, [Next]_vars
  PROVE  HealInv'
<1>1. TypeOK' /\ BuildersExclude'
  BY NextTypeOK, MutexStep DEF HealInv
<1>2. /\ ~ Rollback
      /\ \A g \in Gens : ~ CleanupFails(g)
      /\ \A w \in Workers : ~ Fail(w)
  BY DEF Healing, Rollback, CleanupFails, Fail
<1> DEFINE Healed ==
      /\ cleanups' \subseteq {serving'}
      /\ \A v \in Workers : Approaches(v)'
      /\ NoLeakedGenerations' /\ ServesSnapshot'
<1>3. ASSUME NEW w \in Workers, Request(w) \/ Step(w)
      PROVE  Healed
  BY <1>1, <1>3, HealingRequest, HealingBuild, HealingPatch DEF Step
<1>4. ASSUME ReplayEmpty \/ (\E g \in Gens : Cleanup(g)) \/ Restart \/ UNCHANGED vars
      PROVE  Healed
  BY <1>4, HealingOutside
<1> HIDE DEF Healed
<1>5. Healed
  BY <1>2, <1>3, <1>4 DEF Next
<1>. QED
  BY <1>1, <1>5 DEF HealInv, Healed

(* cleanup_other_gens collects what crashes have leaked: once a build of   *)
(* this process has been swapped in and cleaned up after, only the served  *)
(* generation and one being built have nodes, also when the probe wrongly  *)
(* answers 0.                                                              *)
THEOREM LeaksCollected == Healing => (Spec => []NoLeakedGenerations)
<1> SUFFICES ASSUME Healing
             PROVE  Spec => []NoLeakedGenerations
  OBVIOUS
<1>1. HealInv /\ [Next]_vars => HealInv'
  BY HealingStep
<1>2. HealInv => NoLeakedGenerations
  BY DEF HealInv
<1>. QED
  BY <1>1, <1>2, InitHealing, PTL DEF Spec

(* A build repairs whatever crashes have left behind: from the first swap  *)
(* of a process on, the served graph is at rest the stored snapshot.       *)
THEOREM BuildsHeal == Healing => (Spec => []ServesSnapshot)
<1> SUFFICES ASSUME Healing
             PROVE  Spec => []ServesSnapshot
  OBVIOUS
<1>1. HealInv /\ [Next]_vars => HealInv'
  BY HealingStep
<1>2. HealInv => ServesSnapshot
  BY DEF HealInv
<1>. QED
  BY <1>1, <1>2, InitHealing, PTL DEF Spec
=============================================================================
