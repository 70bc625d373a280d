---------------------------- MODULE FeedbackLoop ----------------------------
(***************************************************************************)
(* AI feedback from submission to consumption: ai_feedback_store.py and    *)
(* the agent's tick (agent.py).  An evaluation is one transaction that     *)
(* reads pending rows, judges them for minutes and updates them by id; the *)
(* agent runs one per tick, the HTTP endpoint another at any time.         *)
(***************************************************************************)
EXTENDS Naturals, FiniteSets

CONSTANTS
    Entries,     \* feedback entries ever submitted
    Symbols,     \* symbols they may cite
    About,       \* the symbol each entry cites (results_used)
    Indexed,     \* the symbols the graph has
    GateBatch,   \* rows per evaluation: 5 with the decision model
    SyncBatch,   \* LIMIT of get_unsynced_accepted_feedback: 50
    StatsLimit,  \* LIMIT of the query behind unconsumed_accepted: 5
    RerankAt,    \* _RERANK_THRESHOLD: 5
    BuildAt,     \* _AUTOBUILD_THRESHOLD: 10
    MaxBuilds,   \* bound: builds registered
    MaxCount,    \* bound: votes counted per entry
    Submitted    \* bound: for each set of faults considered, the entries submitted

FeedbackFaults ==
    {"overlap",  \* the endpoint evaluates while the agent works; other builds complete
     "fail",     \* exceptions in a step of the tick
     "crash"}    \* the process restarts

ASSUME FeedbackAssumption ==
    /\ IsFiniteSet(Entries)
    /\ About \in [Entries -> Symbols]
    /\ {GateBatch, SyncBatch, StatsLimit, RerankAt, BuildAt, MaxBuilds, MaxCount} \subseteq Nat
    /\ MaxCount >= 1
    /\ Submitted \in [DOMAIN Submitted -> SUBSET Entries]
    /\ DOMAIN Submitted \subseteq SUBSET FeedbackFaults

VARIABLES
    faults,   \* the scenario, fixed in the initial state
    status,   \* ai_feedback.status, "new" before the INSERT
    kind,     \* feedback_type
    synced,   \* entries with boost_applied_at
    by,       \* consumed_by_build
    issues,   \* rows of feedback_issues per entry
    applied,  \* times the entry's signal was recorded on the way to boost_applied_at
    reranked, \* times a rerank refresh recorded it again
    reading,  \* the rows an evaluation holds: of the agent and of the endpoint
    agent,    \* the tick: where it is, its batch, the symbols still to vote on
    builds,   \* registry: number of rows, the active one
    cooling,  \* the last registered build is younger than the cooldown
    lastRerank

store == <<status, kind, synced, by, issues>>
feedbackVars == <<faults, store, applied, reranked, reading, agent, builds, cooling, lastRerank>>

Evaluators == {"agent", "endpoint"}
NoBatch == [at |-> "asleep", batch |-> {}, todo |-> {}]

Unconsumed == {e \in Entries : status[e] = "accepted"}
Smaller(a, b) == IF a < b THEN a ELSE b
\* get_feedback_stats()["unconsumed_accepted"]: the length of a limited query
UnconsumedStat == Smaller(StatsLimit, Cardinality(Unconsumed))
\* the rows a query with ORDER BY and LIMIT n may return of S
Top(S, n) == {T \in SUBSET S : Cardinality(T) = Smaller(n, Cardinality(S))}

Init ==
    /\ faults \in DOMAIN Submitted
    /\ status = [e \in Entries |-> "new"]
    /\ kind = [e \in Entries |-> "none"]
    /\ synced = {}
    /\ by = [e \in Entries |-> 0]
    /\ issues = [e \in Entries |-> 0]
    /\ applied = [e \in Entries |-> 0]
    /\ reranked = [e \in Entries |-> 0]
    /\ reading = [v \in Evaluators |-> {}]
    /\ agent = NoBatch
    /\ builds = [rows |-> 0, active |-> 0]
    /\ cooling = FALSE
    /\ lastRerank = 0

Go(at) == agent' = [agent EXCEPT !.at = at]
EndTick == agent' = NoBatch

(***************************************************************************)
(* Submission and evaluation                                               *)
(***************************************************************************)
\* submit_feedback: entries that cite symbols the graph does not have are refused.
Submit(e) ==
    /\ status[e] = "new" /\ e \in Submitted[faults]
    /\ About[e] \in Indexed
    /\ status' = [status EXCEPT ![e] = "pending"]
    /\ UNCHANGED <<faults, kind, synced, by, issues, applied, reranked, reading, agent,
                   builds, cooling, lastRerank>>

PendingAny == {e \in Entries : status[e] # "new"}
Pending == {e \in Entries : status[e] = "pending"}

\* evaluate_pending_feedback, its SELECT.
ReadPending(v) ==
    /\ reading[v] = {}
    /\ IF v = "agent"
       THEN agent.at = "asleep" /\ Go("gate")
       ELSE "overlap" \in faults /\ UNCHANGED agent
    /\ \E rows \in Top(Pending, GateBatch) : reading' = [reading EXCEPT ![v] = rows]
    /\ UNCHANGED <<faults, store, applied, reranked, builds, cooling, lastRerank>>

Verdicts == {"ranking", "issue", "rejected"}

\* The verdicts are committed together.  The loop may stop early, when an interactive
\* decision waits for the model; rows are updated by id, whatever has become of them.
CommitVerdicts(v) ==
    /\ v = "agent" => agent.at = "gate"
    /\ v = "endpoint" => reading[v] # {}
    /\ \E judged \in SUBSET reading[v] : \E verdict \in [judged -> Verdicts] :
          /\ status' = [e \in Entries |->
                 IF e \notin judged THEN status[e]
                 ELSE IF verdict[e] = "rejected" THEN "rejected" ELSE "accepted"]
          /\ kind' = [e \in Entries |->
                 IF e \in judged /\ verdict[e] # "rejected" THEN verdict[e] ELSE kind[e]]
          /\ issues' = [e \in Entries |->
                 IF e \in judged /\ verdict[e] = "issue" THEN issues[e] + 1 ELSE issues[e]]
    /\ reading' = [reading EXCEPT ![v] = {}]
    /\ IF v = "agent" THEN Go("sync") ELSE UNCHANGED agent
    /\ UNCHANGED <<faults, synced, by, applied, reranked, builds, cooling, lastRerank>>

(***************************************************************************)
(* Signals                                                                 *)
(***************************************************************************)
\* extract_symbol_signals_from_feedback: one vote per symbol of the batch.
SignalsOf(batch) == {About[e] : e \in batch}
Ranking(batch) == {e \in batch : kind[e] = "ranking"}
Unsynced == Unconsumed \ synced

FetchMarking ==
    /\ agent.at = "sync"
    /\ agent' = [at |-> "voting", batch |-> Unsynced, todo |-> SignalsOf(Ranking(Unsynced))]
    /\ synced' = synced \cup Unsynced
    /\ UNCHANGED <<faults, status, kind, by, issues, applied, reranked, reading, builds,
                   cooling, lastRerank>>

\* get_unsynced_accepted_feedback
FetchUnsynced ==
    /\ agent.at = "sync"
    /\ \E rows \in Top(Unsynced, SyncBatch) :
          IF rows = {} THEN Go("check")
          ELSE agent' = [at |-> "voting", batch |-> rows, todo |-> SignalsOf(Ranking(rows))]
    /\ UNCHANGED <<faults, store, applied, reranked, reading, builds, cooling, lastRerank>>

\* record_feedback commits one vote.
Vote(s) ==
    /\ agent.at = "voting" /\ s \in agent.todo
    /\ agent' = [agent EXCEPT !.todo = @ \ {s}]
    /\ applied' = [e \in Entries |->
           IF e \in agent.batch /\ kind[e] = "ranking" /\ About[e] = s
           THEN Smaller(applied[e] + 1, MaxCount) ELSE applied[e]]
    /\ UNCHANGED <<faults, store, reranked, reading, builds, cooling, lastRerank>>

\* mark_boost_applied, after the last vote
MarkApplied ==
    /\ agent.at = "voting" /\ agent.todo = {}
    /\ synced' = synced \cup agent.batch
    /\ Go("check")
    /\ UNCHANGED <<faults, status, kind, by, issues, applied, reranked, reading, builds,
                   cooling, lastRerank>>

(***************************************************************************)
(* Refresh and auto-build                                                  *)
(***************************************************************************)
CheckCount ==
    /\ agent.at = "check"
    /\ IF UnconsumedStat >= BuildAt
       THEN IF cooling THEN EndTick
            ELSE \E b \in Top(Unconsumed, BuildAt) :
                    agent' = [at |-> "building", batch |-> b, todo |-> {}]
       ELSE IF UnconsumedStat >= RerankAt /\ UnconsumedStat > lastRerank
            THEN \E b \in Top(Unconsumed, UnconsumedStat) :
                    agent' = [at |-> "refreshing", batch |-> b, todo |-> SignalsOf(b)]
            ELSE EndTick
    /\ UNCHANGED <<faults, store, applied, reranked, reading, builds, cooling, lastRerank>>

\* The refresh votes again for every entry it fetched, whatever its type.
Refresh(s) ==
    /\ agent.at = "refreshing" /\ s \in agent.todo
    /\ agent' = [agent EXCEPT !.todo = @ \ {s}]
    /\ reranked' = [e \in Entries |->
           IF e \in agent.batch /\ About[e] = s
           THEN Smaller(reranked[e] + 1, MaxCount) ELSE reranked[e]]
    /\ UNCHANGED <<faults, store, applied, reading, builds, cooling, lastRerank>>

RefreshDone ==
    /\ agent.at = "refreshing" /\ agent.todo = {}
    /\ lastRerank' = Cardinality(agent.batch)
    /\ EndTick
    /\ UNCHANGED <<faults, store, applied, reranked, reading, builds, cooling>>

RegisterBuild ==
    /\ builds.rows < MaxBuilds
    /\ builds' = [rows |-> builds.rows + 1, active |-> builds.rows + 1]
    /\ cooling' = TRUE

\* _trigger_rebuild: reindex_semantic_only starts the upload and registers a build
\* that is complete at once; without a stored snapshot it does nothing.
Rebuild ==
    /\ agent.at = "building"
    /\ \/ RegisterBuild
       \/ "fail" \in faults /\ UNCHANGED <<builds, cooling>>
    /\ Go("built")
    /\ UNCHANGED <<faults, store, applied, reranked, reading, lastRerank>>

\* mark_feedback_consumed, with whatever build is active by now
Consume ==
    /\ agent.at = "built"
    /\ LET gone == IF builds.active = 0 THEN {} ELSE agent.batch \cap Unconsumed
       IN  /\ status' = [e \in Entries |-> IF e \in gone THEN "consumed" ELSE status[e]]
           /\ by' = [e \in Entries |-> IF e \in gone THEN builds.active ELSE by[e]]
    /\ lastRerank' = 0
    /\ EndTick
    /\ UNCHANGED <<faults, kind, synced, issues, applied, reranked, reading, builds, cooling>>

\* Each part of the tick catches its exceptions and the next part runs.
TickFails ==
    /\ "fail" \in faults
    /\ \/ agent.at = "gate" /\ reading' = [reading EXCEPT !["agent"] = {}] /\ Go("sync")
          /\ UNCHANGED lastRerank
       \/ agent.at \in {"sync", "voting"} /\ Go("check") /\ UNCHANGED <<reading, lastRerank>>
       \/ agent.at \in {"check", "refreshing"} /\ EndTick /\ UNCHANGED <<reading, lastRerank>>
       \/ agent.at \in {"building", "built"} /\ EndTick /\ lastRerank' = 0 /\ UNCHANGED reading
    /\ UNCHANGED <<faults, store, applied, reranked, builds, cooling>>

(***************************************************************************)
(* Environment                                                             *)
(***************************************************************************)
OtherBuild ==
    /\ "overlap" \in faults
    /\ RegisterBuild
    /\ UNCHANGED <<faults, store, applied, reranked, reading, agent, lastRerank>>

\* six hours pass
CooldownEnds ==
    /\ cooling
    /\ cooling' = FALSE
    /\ UNCHANGED <<faults, store, applied, reranked, reading, agent, builds, lastRerank>>

Crash ==
    /\ "crash" \in faults
    /\ reading' = [v \in Evaluators |-> {}]
    /\ agent' = NoBatch
    /\ lastRerank' = 0
    /\ UNCHANGED <<faults, store, applied, reranked, builds, cooling>>

Tick ==
    \/ ReadPending("agent") \/ CommitVerdicts("agent")
    \/ FetchUnsynced \/ (\E s \in Symbols : Vote(s)) \/ MarkApplied
    \/ CheckCount \/ (\E s \in Symbols : Refresh(s)) \/ RefreshDone
    \/ Rebuild \/ Consume \/ TickFails

Next ==
    \/ \E e \in Entries : Submit(e)
    \/ Tick
    \/ ReadPending("endpoint") \/ CommitVerdicts("endpoint")
    \/ OtherBuild \/ CooldownEnds \/ Crash

\* The agent's thread keeps ticking and time passes.
Fairness == WF_feedbackVars(Tick) /\ WF_feedbackVars(CooldownEnds)

Spec == Init /\ [][Next]_feedbackVars /\ Fairness

(***************************************************************************)
(* Properties                                                              *)
(***************************************************************************)
\* "each entry is applied exactly once via boost_applied_at" (agent.py:148): at most once on
\* the way to the watermark as long as no step of the tick is cut short, also while the
\* endpoint evaluates and other builds complete; and at least once behind the watermark,
\* whatever crashed or raised between the votes and it.  A bug report is filed in the backlog
\* exactly once, with the verdict that classified it, unless evaluations overlap.
AppliedOnce ==
    /\ faults \cap {"fail", "crash"} = {} => \A e \in Entries : applied[e] <= 1
    /\ "overlap" \notin faults =>
          /\ \A e \in synced : kind[e] = "ranking" => applied[e] >= 1
          /\ \A e \in Entries : issues[e] = IF kind[e] = "issue" THEN 1 ELSE 0

\* A consumed entry is history: no later evaluation, signal or build touches it,
\* as long as evaluations do not overlap.
ConsumedFinal ==
    [][\A e \in Entries :
          (status[e] = "consumed" /\ "overlap" \notin faults)
              => status'[e] = "consumed" /\ by'[e] = by[e]]_feedbackVars

\* "When 10 or more accepted (but unconsumed) feedback entries accumulate, the
\* reinforcement agent automatically triggers a zero-downtime rebuild"
\* (docs/operations.md:135), which consumes them.
BacklogConsumed ==
    (faults = {} /\ Cardinality(Unconsumed) >= BuildAt) ~> (Cardinality(Unconsumed) < BuildAt)

\* "ONLY ranking feedback adjusts weights; tool_bug/index_gap/search_gap entries are bug
\* reports" (agent.py:149).
OnlyRankingVotes ==
    \A e \in Entries : kind[e] = "issue" => applied[e] = 0 /\ reranked[e] = 0
==============================================================================
