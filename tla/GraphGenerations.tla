-------------------------- MODULE GraphGenerations --------------------------
(***************************************************************************)
(* The graph half of the index: generation-tagged nodes in Neo4j, the      *)
(* GraphIndexProxy every reader goes through, the rebuild mutex, the       *)
(* threads that rebuild, replay or sync under it, the clean-up thread each *)
(* rebuild leaves behind, rollback (which takes no mutex) and the restart  *)
(* of the backend.                                                         *)
(*                                                                         *)
(* A node is abstracted to the symbol it stands for; edges, metadata and   *)
(* chunks that the graph skips are left out.  Symbols of a file are        *)
(* distinct from those of another (IncrementalSync, planned, drops that).  *)
(*                                                                         *)
(* The environment is a parameter.  Faults names what may happen besides   *)
(* builds that succeed one after the other:                                *)
(*   "buildfail"    an exception leaves a rebuild or a sync half done      *)
(*   "cleanupfail"  the clean-up thread's query raises and is swallowed    *)
(*   "crash"        the process restarts at any point                      *)
(*   "rollback"     rollback_last_build reaches GraphIndexProxy.rollback   *)
(*   "overlap"      a rebuild picks its generation before the clean-up     *)
(*                  thread of an earlier one has run                       *)
(*   "probe"        the probe for the highest generation gives up after    *)
(*                  30 attempts and answers 0                              *)
(***************************************************************************)
EXTENDS Naturals, Sequences

CONSTANTS
    Workers,    \* threads that may call the indexing service
    NoWorker,   \* the mutex is free
    Symbols,    \* graph-eligible symbols of any source tree
    Root,       \* the first symbol of the walk, in every source tree
    MaxGen,     \* bound: the highest generation number, and the depth of
                \* the proxy's history
    Faults      \* what the environment may do, see above

FaultKinds == {"buildfail", "cleanupfail", "crash", "rollback", "overlap", "probe"}

ASSUME RootAssumption == Root \in Symbols
ASSUME MutexAssumption == NoWorker \notin Workers
ASSUME MaxGenAssumption == MaxGen \in Nat
ASSUME FaultsAssumption == Faults \subseteq FaultKinds

Gens == 0 .. MaxGen

(* The trees a repository may hold.  The walk is sorted, so its first      *)
(* chunk is the same in each of them as long as the first file stays.      *)
Trees == {S \in SUBSET Symbols : Root \in S}

VARIABLES
    snapshot,   \* symbols of the active snapshot in Postgres, {} when none
    neo4j,      \* generation -> symbols stored under that tag
    serving,    \* GraphIndexProxy._backend: the generation readers see
    history,    \* GraphIndexProxy._history
    mutex,      \* _REBUILD_MUTEX
    pc,         \* where each worker is
    gen,        \* new_gen of a worker's rebuild
    todo,       \* symbols a worker still has to upsert
    drop,       \* symbols a worker still has to remove
    cleanups    \* generations whose clean-up thread has not run yet

store == <<snapshot, neo4j>>
proxy == <<serving, history>>
vars == <<store, proxy, mutex, pc, gen, todo, drop, cleanups>>

Phases == {"idle", "indexed", "building", "swapped", "removing", "patching"}

Live(g) == neo4j[g] # {}

(* The answer of the probe: the highest generation that has a node, or 0.  *)
IsCurrentGen(g) ==
    /\ g = 0 \/ Live(g)
    /\ \A h \in Gens : Live(h) => h <= g

Probed(g) ==
    \/ IsCurrentGen(g)
    \/ "probe" \in Faults /\ g = 0

Init ==
    /\ snapshot = {}
    /\ neo4j = [g \in Gens |-> {}]
    /\ serving = 0
    /\ history = <<>>
    /\ mutex = NoWorker
    /\ pc = [w \in Workers |-> "idle"]
    /\ gen = [w \in Workers |-> 0]
    /\ todo = [w \in Workers |-> {}]
    /\ drop = [w \in Workers |-> {}]
    /\ cleanups = {}

-----------------------------------------------------------------------------
(* A worker that does not look at the mutex. *)
AcquireUnguarded(w) ==
    /\ pc[w] = "idle"
    /\ mutex' = w

(* The mutex: acquire(blocking=False).  A worker that finds it taken gets  *)
(* RebuildInProgressError (HTTP 409) and changes nothing.                  *)
Acquire(w) ==
    /\ pc[w] = "idle"
    /\ mutex = NoWorker
    /\ mutex' = w

(* The finally clause: the mutex is released however the body ends. *)
Leave(w) ==
    /\ mutex' = NoWorker
    /\ pc' = [pc EXCEPT ![w] = "idle"]
    /\ gen' = [gen EXCEPT ![w] = 0]
    /\ todo' = [todo EXCEPT ![w] = {}]
    /\ drop' = [drop EXCEPT ![w] = {}]

(* Bound on the numbers used and on the depth of the history, not a        *)
(* condition of the code.                                                  *)
GenerationsLeft ==
    /\ MaxGen > 0
    /\ \A g \in Gens : Live(g) => g < MaxGen
    /\ Len(history) < MaxGen

(* POST /api/index/repository, up to the write of the new snapshot.  Also  *)
(* the path of a sync that finds no snapshot.                              *)
BeginIndex(w, tree) ==
    /\ GenerationsLeft
    /\ Acquire(w)
    /\ snapshot' = tree
    /\ pc' = [pc EXCEPT ![w] = "indexed"]
    /\ todo' = [todo EXCEPT ![w] = tree]
    /\ UNCHANGED <<neo4j, proxy, gen, drop, cleanups>>

(* POST /api/index/replay with a snapshot to replay. *)
BeginReplay(w) ==
    /\ GenerationsLeft
    /\ Acquire(w)
    /\ snapshot # {}
    /\ pc' = [pc EXCEPT ![w] = "indexed"]
    /\ todo' = [todo EXCEPT ![w] = snapshot]
    /\ UNCHANGED <<store, proxy, gen, drop, cleanups>>

(* Replay with nothing stored: the served generation is emptied. *)
ReplayEmpty ==
    /\ mutex = NoWorker
    /\ snapshot = {}
    /\ neo4j' = [neo4j EXCEPT ![serving] = {}]
    /\ UNCHANGED <<snapshot, proxy, mutex, pc, gen, todo, drop, cleanups>>

(* A number counted up once more when the first attempt was retried. *)
ChooseGenOffByOne(w) ==
    /\ pc[w] = "indexed"
    /\ \E g \in Gens, n \in 1 .. 2 : Probed(g) /\ gen' = [gen EXCEPT ![w] = g + n]
    /\ pc' = [pc EXCEPT ![w] = "building"]
    /\ UNCHANGED <<store, proxy, mutex, todo, drop, cleanups>>

(* current_gen = _get_current_gen(); new_gen = current_gen + 1; reset().   *)
ChooseGen(w) ==
    /\ pc[w] = "indexed"
    /\ "overlap" \in Faults \/ cleanups = {}
    /\ \E g \in Gens :
        /\ Probed(g)
        /\ g + 1 \in Gens
        /\ gen' = [gen EXCEPT ![w] = g + 1]
        /\ neo4j' = [neo4j EXCEPT ![g + 1] = {}]
    /\ pc' = [pc EXCEPT ![w] = "building"]
    /\ UNCHANGED <<snapshot, proxy, mutex, todo, drop, cleanups>>

(* new_graph.upsert_symbol, chunk by chunk in the order of the snapshot. *)
UpsertNew(w, s) ==
    /\ pc[w] = "building"
    /\ s \in todo[w]
    /\ Root \in todo[w] => s = Root
    /\ neo4j' = [neo4j EXCEPT ![gen[w]] = @ \cup {s}]
    /\ todo' = [todo EXCEPT ![w] = @ \ {s}]
    /\ UNCHANGED <<snapshot, proxy, mutex, pc, gen, drop, cleanups>>

SwapTail(w) ==
    /\ serving' = gen[w]
    /\ history' = Append(history, serving)
    /\ cleanups' = cleanups \cup {gen[w]}
    /\ pc' = [pc EXCEPT ![w] = "swapped"]
    /\ UNCHANGED <<store, mutex, gen, todo, drop>>

(* A swap that does not wait for the last chunk. *)
SwapEarly(w) ==
    /\ pc[w] = "building"
    /\ SwapTail(w)

(* graph_index.swap(new_graph), and the start of the clean-up thread. *)
Swap(w) ==
    /\ pc[w] = "building"
    /\ todo[w] = {}
    /\ SwapTail(w)

(* What is left after the swap (registry, notification) and the return. *)
Finish(w) ==
    /\ \/ pc[w] = "swapped"
       \/ pc[w] = "patching" /\ todo[w] = {}
    /\ Leave(w)
    /\ UNCHANGED <<store, proxy, cleanups>>

(* An exception in the body of a rebuild or a sync, the lock never given   *)
(* back.                                                                   *)
FailHoldingMutex(w) ==
    /\ "buildfail" \in Faults
    /\ pc[w] \in {"indexed", "building", "removing", "patching"}
    /\ pc' = [pc EXCEPT ![w] = "idle"]
    /\ todo' = [todo EXCEPT ![w] = {}]
    /\ drop' = [drop EXCEPT ![w] = {}]
    /\ gen' = [gen EXCEPT ![w] = 0]
    /\ UNCHANGED <<store, proxy, mutex, cleanups>>

(* An exception in the body: nothing is undone, the mutex is released. *)
Fail(w) ==
    /\ "buildfail" \in Faults
    /\ pc[w] \in {"indexed", "building", "removing", "patching"}
    /\ Leave(w)
    /\ UNCHANGED <<store, proxy, cleanups>>

-----------------------------------------------------------------------------
(* The incremental sync writes through the proxy into whatever generation  *)
(* is served when each call is made.                                       *)

(* Up to update_incremental: the new snapshot is committed before either   *)
(* index is touched.  touched are the symbols of the re-read files; it has *)
(* every symbol that is new and may have others.                           *)
BeginSync(w, tree, touched) ==
    /\ Acquire(w)
    /\ snapshot # {}
    /\ tree \ snapshot \subseteq touched
    /\ touched \subseteq tree
    /\ snapshot' = tree
    /\ drop' = [drop EXCEPT ![w] = snapshot \ tree]
    /\ todo' = [todo EXCEPT ![w] = touched]
    /\ pc' = [pc EXCEPT ![w] = "removing"]
    /\ UNCHANGED <<neo4j, proxy, gen, cleanups>>

(* A sync that only upserts, as it was before the removal was added. *)
UpsertOnlySync(w) ==
    /\ pc[w] = "removing"
    /\ drop' = [drop EXCEPT ![w] = {}]
    /\ pc' = [pc EXCEPT ![w] = "patching"]
    /\ UNCHANGED <<store, proxy, mutex, gen, todo, cleanups>>

(* graph_index.remove_symbols(removed_ids), one query. *)
RemoveGone(w) ==
    /\ pc[w] = "removing"
    /\ neo4j' = [neo4j EXCEPT ![serving] = @ \ drop[w]]
    /\ drop' = [drop EXCEPT ![w] = {}]
    /\ pc' = [pc EXCEPT ![w] = "patching"]
    /\ UNCHANGED <<snapshot, proxy, mutex, gen, todo, cleanups>>

(* graph_index.upsert_symbol for one chunk of the re-read files. *)
UpsertServed(w, s) ==
    /\ pc[w] = "patching"
    /\ s \in todo[w]
    /\ neo4j' = [neo4j EXCEPT ![serving] = @ \cup {s}]
    /\ todo' = [todo EXCEPT ![w] = @ \ {s}]
    /\ UNCHANGED <<snapshot, proxy, mutex, pc, gen, drop, cleanups>>

-----------------------------------------------------------------------------
(* What runs outside the mutex.                                            *)

(* The clean-up as it first was: only the generation just retired goes. *)
CleanupRetired(g) ==
    /\ g \in cleanups
    /\ neo4j' = [h \in Gens |-> IF h + 1 = g THEN {} ELSE neo4j[h]]
    /\ cleanups' = cleanups \ {g}
    /\ UNCHANGED <<snapshot, proxy, mutex, pc, gen, todo, drop>>

(* _cleanup_old_gen: every generation but the thread's own, in one query.  *)
(* The close of the retired backend's driver does not matter here: the     *)
(* pinned driver reopens connections on the next use.                      *)
Cleanup(g) ==
    /\ g \in cleanups
    /\ neo4j' = [h \in Gens |-> IF h = g THEN neo4j[h] ELSE {}]
    /\ cleanups' = cleanups \ {g}
    /\ UNCHANGED <<snapshot, proxy, mutex, pc, gen, todo, drop>>

(* Its query raised: logged, and nobody tries again. *)
CleanupFails(g) ==
    /\ "cleanupfail" \in Faults
    /\ g \in cleanups
    /\ cleanups' = cleanups \ {g}
    /\ UNCHANGED <<store, proxy, mutex, pc, gen, todo, drop>>

(* GraphIndexProxy.rollback, without the rebuild mutex. *)
Rollback ==
    /\ "rollback" \in Faults
    /\ history # <<>>
    /\ serving' = history[Len(history)]
    /\ history' = SubSeq(history, 1, Len(history) - 1)
    /\ UNCHANGED <<store, mutex, pc, gen, todo, drop, cleanups>>

(* The process restarts: every thread, the mutex and the history are gone, *)
(* and importing the module binds the proxy to the probed generation.      *)
Restart ==
    /\ "crash" \in Faults
    /\ \E g \in Gens : Probed(g) /\ serving' = g
    /\ history' = <<>>
    /\ mutex' = NoWorker
    /\ pc' = [w \in Workers |-> "idle"]
    /\ gen' = [w \in Workers |-> 0]
    /\ todo' = [w \in Workers |-> {}]
    /\ drop' = [w \in Workers |-> {}]
    /\ cleanups' = {}
    /\ UNCHANGED store

-----------------------------------------------------------------------------
(* What a worker does once it holds the mutex. *)
Step(w) ==
    \/ ChooseGen(w)
    \/ \E s \in Symbols : UpsertNew(w, s)
    \/ Swap(w)
    \/ Finish(w)
    \/ RemoveGone(w)
    \/ \E s \in Symbols : UpsertServed(w, s)

Request(w) ==
    \/ \E tree \in Trees : BeginIndex(w, tree)
    \/ BeginReplay(w)
    \/ \E tree \in Trees, touched \in SUBSET Symbols : BeginSync(w, tree, touched)

Next ==
    \/ \E w \in Workers : Request(w) \/ Step(w) \/ Fail(w)
    \/ ReplayEmpty
    \/ \E g \in Gens : Cleanup(g) \/ CleanupFails(g)
    \/ Rollback
    \/ Restart

Spec == Init /\ [][Next]_vars

(* Threads run to their end; requests, failures, rollbacks and restarts    *)
(* may or may not come.                                                    *)
Fairness ==
    /\ \A w \in Workers : WF_vars(Step(w))
    /\ \A g \in Gens : WF_vars(Cleanup(g) \/ CleanupFails(g))

FairSpec == Spec /\ Fairness

-----------------------------------------------------------------------------
(* Properties                                                              *)

(* Every variable holds a value the code can put there. *)
TypeOK ==
    /\ snapshot \in SUBSET Symbols
    /\ neo4j \in [Gens -> SUBSET Symbols]
    /\ serving \in Gens
    /\ history \in Seq(Gens)
    /\ mutex \in Workers \cup {NoWorker}
    /\ pc \in [Workers -> Phases]
    /\ gen \in [Workers -> Gens]
    /\ todo \in [Workers -> SUBSET Symbols]
    /\ drop \in [Workers -> SUBSET Symbols]
    /\ cleanups \in SUBSET Gens

(* Two requests are never both between acquire and release, and the lock   *)
(* is held exactly while one is: the snapshot a rebuild was given is still *)
(* the stored one when it swaps.                                           *)
BuildersExclude ==
    \A w \in Workers : pc[w] # "idle" <=> mutex = w

(* Zero-downtime rebuild (docs/operations.md, ADR-002): readers of the     *)
(* proxy see the old generation until the new one is complete, and from    *)
(* then on the new one; no step withdraws a symbol that is both served and *)
(* in the snapshot, and none shows a symbol that is not.                   *)
View == INSTANCE PublishedIndex WITH view <- neo4j[serving], truth <- snapshot

PublishesAtomically == View!Spec

(* The generations a read or a rollback can still reach. *)
Reachable == {serving} \cup {history[i] : i \in 1 .. Len(history)}

(* A rebuild writes under a generation nobody else uses: not the served    *)
(* one, not one that a rollback could still reach, not another worker's.   *)
PrivateGeneration ==
    \A w \in Workers : pc[w] = "building" =>
        /\ gen[w] \notin Reachable
        /\ \A v \in Workers \ {w} : pc[v] = "building" => gen[v] # gen[w]

(* The incident of 2026-10-06 (RebuildInProgressError's docstring): no     *)
(* step takes away what a rebuild in flight has written so far.            *)
SparesBuildInFlight ==
    \A w \in Workers :
        pc[w] = "building" /\ pc'[w] = "building" =>
            neo4j[gen[w]] \subseteq neo4j'[gen[w]]
CleanupSparesBuilds == [][SparesBuildInFlight]_vars

(* cleanup_other_gens: generations leaked by a restart in the middle of a  *)
(* build are collected by the next rebuild.  Once a rebuild of this        *)
(* process has been swapped in and its clean-up has run, the only nodes    *)
(* besides the served ones are those of a rebuild in flight.               *)
NoLeakedGenerations ==
    history # <<>> /\ cleanups = {} =>
        \A g \in Gens : Live(g) =>
            \/ g = serving
            \/ \E w \in Workers : pc[w] = "building" /\ gen[w] = g

(* A rebuild repairs whatever restarts have left (a half-built generation  *)
(* that is served, a snapshot no graph was built from, a half-done sync):  *)
(* once one has been swapped in by this process, the served graph is, at   *)
(* rest, the stored snapshot, and syncs keep it so.                        *)
ServesSnapshot ==
    mutex = NoWorker /\ history # <<>> => neo4j[serving] = snapshot

(* A request that holds the mutex gives it back, or every later index,     *)
(* replay and sync would answer 409 until a restart.                       *)
MutexReleased == \A w \in Workers : mutex = w ~> mutex # w

(* docs/operations.md:161 "Old generation kept for rollback": the          *)
(* generation a rollback would return to still has its nodes.              *)
RollbackTargetKept ==
    history # <<>> /\ history[Len(history)] # 0 => Live(history[Len(history)])
=============================================================================
