---------------------------- MODULE BuildRegistry ----------------------------
(***************************************************************************)
(* The build registry (rag/reinforcement/build_registry.py) and the three  *)
(* things a rollback has to bring back together: the active row, the graph *)
(* generation of the proxy and the Weaviate collection.  Full builds,      *)
(* semantic-only builds and incremental syncs register rows; the agent     *)
(* (regression) and the operator (HTTP) roll back.  A transaction is cut   *)
(* where READ COMMITTED lets another one in.                               *)
(***************************************************************************)
EXTENDS Integers, FiniteSets, Sequences

CONSTANTS
    Threads,    \* threads that build, sync and roll back; Agent is one of them
    Agent,      \* the reinforcement agent's thread
    MaxBuilds,  \* bound: builds there is room for
    Scores,     \* quality scores a golden evaluation may record
    Margin,     \* _ROLLBACK_THRESHOLD, in the unit of Scores
    Bound       \* bound: for each set of faults considered, the builds begun

Kinds == {"both", "semantic", "incremental"}
Faults == {"overlap",  \* operations of two threads, and an upload, at the same time
           "fail",     \* exceptions: registration, build, upload, a step of a rollback
           "patch",    \* builds other than full ones
           "restart"}  \* the process restarts

ASSUME RegistryAssumption ==
    /\ Agent \in Threads
    /\ MaxBuilds \in Nat
    /\ Scores \subseteq Nat
    /\ Margin \in Nat
    /\ DOMAIN Bound \subseteq SUBSET Faults
    /\ \A s \in DOMAIN Bound : Bound[s] \in 0 .. MaxBuilds

Builds == 1 .. MaxBuilds
NoBuild == 0        \* NULL, or the state before the first build
NoScore == -1       \* NULL
Names == {1, 2}     \* CodeChunk and CodeChunkB
Twin(n) == 3 - n

VARIABLES
    faults,       \* the scenario, fixed in the initial state
    used,         \* builds begun so far; a build is its number
    status,       \* build_registry.status, "none" before the INSERT
    parent,       \* parent_build_id
    quality,      \* quality_score
    parentScore,  \* parent_quality_score, copied at registration
    stamp,        \* completed_at, as its rank
    op,           \* what each thread is doing
    graph,        \* GraphIndexProxy: the build whose generation is served, and history
    newest,       \* the highest generation in Neo4j, as the build that wrote it
    collection,   \* Weaviate: the active name, and the history of names
    docs,         \* the build whose objects a collection holds
    upload        \* the semantic rebuild thread: its build and its shadow

rows == <<status, parent, quality, parentScore, stamp>>
served == <<graph, newest, collection, docs, upload>>
regVars == <<faults, used, rows, op, served>>

Idle == [at |-> "idle", kind |-> "both", build |-> NoBuild, base |-> NoBuild, seen |-> {}]
NoUpload == [build |-> NoBuild, name |-> 1]

Ranked == {b \in Builds : status[b] = "active"}
GetActiveAnyStatus ==
    IF \A b \in Builds : status[b] = "none" THEN NoBuild
    ELSE CHOOSE b \in Builds : status[b] # "none" /\ \A c \in Builds : status[c] # "none" => c <= b
\* get_active_build: the active row completed last
GetActive ==
    IF Ranked = {} THEN NoBuild
    ELSE CHOOSE b \in Ranked : \A c \in Ranked : stamp[c] <= stamp[b]

Init ==
    /\ faults \in DOMAIN Bound
    /\ used = 0
    /\ status = [b \in Builds |-> "none"]
    /\ parent = [b \in Builds |-> NoBuild]
    /\ quality = [b \in Builds |-> NoScore]
    /\ parentScore = [b \in Builds |-> NoScore]
    /\ stamp = [b \in Builds |-> 0]
    /\ op = [t \in Threads |-> Idle]
    /\ graph = [now |-> NoBuild, past |-> <<>>]
    /\ newest = NoBuild
    /\ collection = [now |-> 1, past |-> <<>>]
    /\ docs = [n \in Names |-> NoBuild]
    /\ upload = NoUpload

Go(t, at) == op' = [op EXCEPT ![t].at = at]
Stop(t) == op' = [op EXCEPT ![t] = Idle]

\* Without "overlap" the next operation begins when everything is at rest.
Free(t) ==
    /\ op[t] = Idle
    /\ "overlap" \in faults \/ (upload = NoUpload /\ \A u \in Threads : op[u] = Idle)

(***************************************************************************)
(* Builds                                                                  *)
(***************************************************************************)
\* _start_semantic_rebuild_background and begin_rebuild: skipped while one runs;
\* the other collection is deleted and becomes the shadow.
StartUpload(b) ==
    IF upload # NoUpload
    THEN UNCHANGED <<docs, upload>>
    ELSE /\ upload' = [build |-> b, name |-> Twin(collection.now)]
         /\ docs' = [docs EXCEPT ![Twin(collection.now)] = NoBuild]

\* A build of any kind looks up the active build as its parent.
Look(t, k) ==
    /\ Free(t)
    /\ used < Bound[faults]
    /\ k = "both" \/ "patch" \in faults
    /\ used' = used + 1
    /\ op' = [op EXCEPT ![t] = [Idle EXCEPT !.at = "looked", !.kind = k,
                                            !.build = used + 1, !.base = GetActive]]
    /\ IF k = "incremental" THEN UNCHANGED <<docs, upload>> ELSE StartUpload(used + 1)
    /\ UNCHANGED <<faults, rows, graph, newest, collection>>

\* register_build: the parent's quality is read, then the row is inserted.
Register(t) ==
    LET b == op[t].build
        p == op[t].base
    IN  /\ op[t].at = "looked"
        /\ status' = [status EXCEPT ![b] = "building"]
        /\ parent' = [parent EXCEPT ![b] = p]
        /\ parentScore' = [parentScore EXCEPT ![b] = IF p = NoBuild THEN NoScore ELSE quality[p]]
        /\ Go(t, IF op[t].kind = "both" THEN "filling" ELSE "built")
        /\ UNCHANGED <<faults, used, quality, stamp, served>>

\* register_build raises: a full build goes on without a row, others end here.
RegisterFails(t) ==
    /\ op[t].at = "looked" /\ "fail" \in faults
    /\ IF op[t].kind = "both" THEN Go(t, "filling") ELSE Stop(t)
    /\ UNCHANGED <<faults, used, rows, served>>

\* The new generation is swapped in.
SwapGraph(t) ==
    /\ op[t].at = "filling"
    /\ graph' = [now |-> op[t].build, past |-> Append(graph.past, graph.now)]
    /\ newest' = op[t].build
    /\ IF status[op[t].build] = "none" THEN Stop(t) ELSE Go(t, "built")
    /\ UNCHANGED <<faults, used, rows, collection, docs, upload>>

\* complete_build, second statement: it sees the rows committed by now.
Supersede(t) ==
    /\ op[t].at = "built"
    /\ op' = [op EXCEPT ![t].at = "committing", ![t].seen = Ranked \ {op[t].build}]
    /\ stamp' = [stamp EXCEPT ![op[t].build] =
                    1 + Cardinality({b \in Builds : stamp[b] > 0})]
    /\ UNCHANGED <<faults, used, status, parent, quality, parentScore, served>>

CompleteOnly(t) ==
    /\ op[t].at = "committing"
    /\ status' = [status EXCEPT ![op[t].build] = "active"]
    /\ Stop(t)
    /\ UNCHANGED <<faults, used, parent, quality, parentScore, stamp, served>>

\* complete_build commits: a row it waited for is looked at again and skipped
\* when it is no longer active.
Complete(t) ==
    LET b == op[t].build
    IN  /\ op[t].at = "committing"
        /\ status' = [c \in Builds |->
                         IF c = b THEN "active"
                         ELSE IF c \in op[t].seen /\ status[c] = "active" THEN "superseded"
                         ELSE status[c]]
        /\ Stop(t)
        /\ UNCHANGED <<faults, used, parent, quality, parentScore, stamp, served>>

\* An exception in the build or in complete_build: the row stays "building".
BuildFails(t) ==
    /\ op[t].at \in {"filling", "built", "committing"} /\ "fail" \in faults
    /\ Stop(t)
    /\ UNCHANGED <<faults, used, rows, served>>

\* commit_rebuild of the background thread.
UploadDone ==
    /\ upload # NoUpload
    /\ docs' = [docs EXCEPT ![upload.name] = upload.build]
    /\ collection' = [now |-> upload.name, past |-> Append(collection.past, collection.now)]
    /\ upload' = NoUpload
    /\ UNCHANGED <<faults, used, rows, op, graph, newest>>

UploadFails ==
    /\ upload # NoUpload /\ "fail" \in faults
    /\ upload' = NoUpload
    /\ UNCHANGED <<faults, used, rows, op, graph, newest, collection, docs>>

(***************************************************************************)
(* Quality and rollback                                                    *)
(***************************************************************************)
\* run_eval records hit@10 on the active build.
Evaluate(q) ==
    /\ GetActive # NoBuild
    /\ quality[GetActive] # q
    /\ quality' = [quality EXCEPT ![GetActive] = q]
    /\ UNCHANGED <<faults, used, status, parent, parentScore, stamp, op, served>>

Regressed(b) ==
    /\ b # NoBuild
    /\ quality[b] # NoScore
    /\ parentScore[b] > 0
    /\ quality[b] < parentScore[b] - Margin

\* rollback_last_build picks the active build; the agent does when it regressed,
\* the operator when he wants.
PickRollback(t) ==
    /\ Free(t)
    /\ GetActive # NoBuild
    /\ t = Agent => Regressed(GetActive)
    /\ op' = [op EXCEPT ![t] = [Idle EXCEPT !.at = "picked", !.build = GetActive]]
    /\ UNCHANGED <<faults, used, rows, served>>

\* rollback_build, first statement.
CheckRollback(t) ==
    /\ op[t].at = "picked"
    /\ IF status[op[t].build] \in {"active", "superseded"} THEN Go(t, "checked") ELSE Stop(t)
    /\ UNCHANGED <<faults, used, rows, served>>

MarkParentOnly(t) ==
    LET p == parent[op[t].build]
    IN  /\ op[t].at = "checked"
        /\ status' = [c \in Builds |->
                         IF c = p /\ status[p] \in {"superseded", "rolled_back"} THEN "active"
                         ELSE status[c]]
        /\ IF p = NoBuild THEN Stop(t) ELSE Go(t, "marked")
        /\ UNCHANGED <<faults, used, parent, quality, parentScore, stamp, served>>

\* rollback_build, the rest: the row is marked whatever can be restored.  The two
\* indexes are rolled back when there is a parent row, restored or not.
MarkRolledBack(t) ==
    LET b == op[t].build
        p == parent[b]
    IN  /\ op[t].at = "checked"
        /\ \A u \in Threads : op[u].at = "committing" => b \notin op[u].seen   \* row lock
        /\ status' = [c \in Builds |->
                         IF c = b THEN "rolled_back"
                         ELSE IF c = p /\ status[p] \in {"superseded", "rolled_back"} THEN "active"
                         ELSE status[c]]
        /\ IF p = NoBuild THEN Stop(t) ELSE Go(t, "marked")
        /\ UNCHANGED <<faults, used, parent, quality, parentScore, stamp, served>>

BackKeeping(h) ==
    IF h.past = <<>> THEN h ELSE [h EXCEPT !.now = h.past[Len(h.past)]]
Back(h) ==
    IF h.past = <<>> THEN h
    ELSE [now |-> h.past[Len(h.past)], past |-> SubSeq(h.past, 1, Len(h.past) - 1)]

RollbackCollection(t) ==
    /\ op[t].at = "marked"
    /\ collection' = Back(collection)
    /\ Go(t, "half")
    /\ UNCHANGED <<faults, used, rows, graph, newest, docs, upload>>

RollbackGraph(t) ==
    /\ op[t].at = "half"
    /\ graph' = Back(graph)
    /\ Stop(t)
    /\ UNCHANGED <<faults, used, rows, newest, collection, docs, upload>>

RollbackFails(t) ==
    /\ op[t].at \in {"checked", "marked", "half"} /\ "fail" \in faults
    /\ Stop(t)
    /\ UNCHANGED <<faults, used, rows, served>>

\* Threads and both histories are gone; the proxy binds to the highest generation,
\* detection picks a collection that has objects, if there is one.
Restart ==
    /\ "restart" \in faults
    /\ op' = [t \in Threads |-> Idle]
    /\ upload' = NoUpload
    /\ graph' = [now |-> newest, past |-> <<>>]
    /\ \E n \in Names :
          /\ docs[n] # NoBuild \/ (n = 1 /\ docs[2] = NoBuild)
          /\ collection' = [now |-> n, past |-> <<>>]
    /\ UNCHANGED <<faults, used, rows, newest, docs>>

BuildStep(t) ==
    \/ Register(t) \/ RegisterFails(t) \/ SwapGraph(t)
    \/ Supersede(t) \/ Complete(t) \/ BuildFails(t)
RollbackStep(t) ==
    \/ CheckRollback(t) \/ MarkRolledBack(t)
    \/ RollbackCollection(t) \/ RollbackGraph(t) \/ RollbackFails(t)
Upload == UploadDone \/ UploadFails

Next ==
    \/ \E t \in Threads :
          \/ \E k \in Kinds : Look(t, k)
          \/ BuildStep(t)
          \/ PickRollback(t)
          \/ RollbackStep(t)
    \/ Upload
    \/ \E q \in Scores : Evaluate(q)
    \/ Restart

\* Builds and rollbacks that began go on, the upload ends, the agent looks at the
\* quality of the active build every five minutes.
Fairness ==
    /\ WF_regVars(Upload)
    /\ \A t \in Threads : WF_regVars(BuildStep(t)) /\ WF_regVars(RollbackStep(t))
    /\ WF_regVars(PickRollback(Agent))

Spec == Init /\ [][Next]_regVars /\ Fairness

(***************************************************************************)
(* Properties                                                              *)
(***************************************************************************)
TypeOK ==
    /\ faults \in DOMAIN Bound
    /\ used \in 0 .. MaxBuilds
    /\ status \in [Builds -> {"none", "building", "active", "superseded", "rolled_back"}]
    /\ parent \in [Builds -> {NoBuild} \cup Builds]
    /\ quality \in [Builds -> {NoScore} \cup Scores]
    /\ parentScore \in [Builds -> {NoScore} \cup Scores]
    /\ stamp \in [Builds -> Nat]
    /\ op \in [Threads ->
                 [at : {"idle", "looked", "filling", "built", "committing",
                        "picked", "checked", "marked", "half"},
                  kind : Kinds, build : {NoBuild} \cup Builds,
                  base : {NoBuild} \cup Builds, seen : SUBSET Builds]]
    /\ graph \in [now : {NoBuild} \cup Builds, past : Seq({NoBuild} \cup Builds)]
    /\ newest \in {NoBuild} \cup Builds
    /\ collection \in [now : Names, past : Seq(Names)]
    /\ docs \in [Names -> {NoBuild} \cup Builds]
    /\ upload \in [build : {NoBuild} \cup Builds, name : Names]

AtRest == upload = NoUpload /\ \A t \in Threads : op[t] = Idle

\* One at a time, operations leave at most one active build, whatever fails, is
\* rolled back or restarted in between: complete_build supersedes all others and
\* rollback_build restores a parent only in place of the build it marks.
OneActive ==
    "overlap" \notin faults => \A b, c \in Ranked : b = c

\* rollback_build's condition at line 241 never strands a rollback: a parent has
\* always completed, so that it is active still or can be made active, under every
\* fault, overlapping completions and rollbacks included.
ParentRestorable ==
    \A b \in Builds :
        parent[b] # NoBuild =>
            /\ parent[b] < b
            /\ status[parent[b]] \in {"active", "superseded", "rolled_back"}

\* With full builds only, no failure and no restart, the three agree at rest: the
\* proxy serves the generation of the active build, and the active collection holds
\* its objects whenever one of the two does, which is so until a second build has
\* begun after it.
RollbackAgrees ==
    (faults = {} /\ AtRest /\ GetActive # NoBuild) =>
        /\ graph.now = GetActive
        /\ (GetActive >= used - 1 \/ \E n \in Names : docs[n] = GetActive) =>
               docs[collection.now] = GetActive

\* A build whose quality fell behind its parent's does not stay the active one: the
\* agent rolls it back, until a build that did not regress is reached.
RegressionEnds ==
    faults \cap {"restart", "fail"} = {} =>
        \A b \in Builds : (GetActive = b /\ Regressed(b)) ~> ~(GetActive = b /\ Regressed(b))
==============================================================================
