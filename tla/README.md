# codegraph-mcp in TLA+

codegraph-mcp keeps two indexes of a source repository, a dependency graph in
Neo4j and a semantic index in Weaviate, both derived from a snapshot stored in
Postgres, and serves them to agents while they are rebuilt, patched, rolled
back and restarted. This directory holds specifications of that life cycle and
of the parts around it (registry, feedback, ingest, read tools, cache, limits,
mails, watchdog), the TLC runs that check them on small instances, and proofs
for instances of any size. File names below are relative to `src/backend/app/` unless
they start with `src/`; `IS` stands for `rag/indexing_service.py`.

## 1. Inventory

### The index and its stores

| Component | State | Operations | Talks to |
|---|---|---|---|
| Indexing service (`IS`) | `_REBUILD_MUTEX`, `_semantic_rebuild_in_progress` | full index, replay, incremental sync (under the mutex); semantic-only rebuild, rollback, background threads (outside it) | everything below |
| Graph proxy (`rag/retrieval/graph.py` 253-444) | `_backend`, `_history` | bind at import, `swap`, `rollback`, delegate | Neo4j backend |
| Neo4j backend (`rag/retrieval/neo4j_graph.py`) | nodes tagged with a generation | `reset`, `upsert_symbol`, `remove_symbols`, `cleanup_other_gens`, reads | - |
| Semantic index (`rag/retrieval/weaviate_semantic.py`) | `_active_collection`, `_shadow_collection`, `_collection_history`, the lazy client, two collections | `begin_rebuild`, `upsert_chunks`, `commit_rebuild`, `delete_chunks`, `rollback_collection`, detection | Weaviate, embeddings |
| Build registry (`rag/reinforcement/build_registry.py`) | rows: building, active, superseded, rolled_back; parent; quality | `register_build`, `complete_build`, `rollback_build`, `update_quality_score` | Postgres |
| Snapshot store (`core/repositories/`) | active snapshot: chunks, edges, commit, symbol-set hash | `replace_snapshot`, `load_snapshot`, `update_incremental` | Postgres |
| Git ingestor (`rag/ingestion/git_ingestor.py`, `src/scripts/nightly-sync.sh`) | commit pointer | diff since the last commit, expand with dependents, sync, advance the pointer | incremental sync, snapshot store |
| Parsers (`rag/ingestion/tree_sitter.py`, `chunking.py`, `sql_schema.py`, `scip_ingestor.py`, `crate_graph.py`, `observations.py`) | none | text to chunks and edges | - |

### The feedback loop

| Component | State | Operations |
|---|---|---|
| AI feedback store (`rag/reinforcement/ai_feedback_store.py`) | entries: pending, accepted, rejected, consumed; boost watermark | submit, evaluate (quality gate), consume |
| Ranking feedback (`feedback_store.py`) | votes and boost weight per symbol | record, weight |
| Reinforcement agent (`agent.py`) | cooldown, last rerank count, two locks | tick: evaluate, apply signals, auto-build at 10, rerank at 5, roll back on regression |
| Evaluation (`golden_eval.py`, `curated_queries.py`) | result rows | run a set of queries |

### Around them

System-one gateway (`core/systemone.py`: two lock classes in front of one
model), query cache (`core/query_cache.py`), token bucket and rate limit,
client tokens and authentication, power events, notifications, metrics,
tracing, health, configuration; the read-only MCP server and its graph
algorithms (`mcp/`); the diff parser, embeddings and the reranker service; the
HTTP routers and the application's start (`main.py`); the container watchdog
and the deployment scripts (`src/scripts/`). `PROJECT.json` lists each with
what is modelled of it, or why it is not.

### How they interact

A request to index acquires the mutex without blocking (HTTP 409 when taken),
walks the tree, **commits the snapshot**, hands a copy to a background thread
that fills the shadow collection, and itself fills a new graph generation,
swaps the proxy, starts a clean-up thread that deletes every other generation,
completes the build row and releases the mutex. The two background threads
outlive the mutex. An incremental sync takes the same mutex, commits its
snapshot first and then edits the *served* generation and the write target of
the semantic index in place. Rollback takes no lock that any of these take.

### What is hard, and what would make each part correct

* Graph: readers must see a complete generation at all times (`PublishesAtomically`);
  a rebuild must write where nobody reads (`PrivateGeneration`); a clean-up may
  only take what nobody uses (`CleanupSparesBuilds`, `RollbackTargetKept`);
  crashes may leave debris that is eventually collected (`NoLeakedGenerations`)
  and half-built graphs that are repaired (`ServesSnapshot`).
* Semantic index: never search what is being filled (`ShadowUnseen`), never
  serve an empty index during a rebuild (`RebuildKeepsServing`), end up with
  the snapshot (`SearchesSnapshot`), never lose the right to rebuild
  (`RebuildEnds`).
* Build registry: one active build (`OneActive`); a parent one can go back to
  (`ParentRestorable`); a rollback restores the same build in all three places
  (`RollbackAgrees`); a regressed build goes (`RegressionEnds`).
* Feedback: an entry is applied and consumed once (`AppliedOnce`,
  `ConsumedFinal`); the documented threshold triggers a build, which it does
  not (`BacklogConsumed`).
* Ingest: rows and the live graph are those of the commit the pointer names
  (`RowsOfHead`, `GraphOfSnapshot`); no edge is kept of what is gone and none
  lost that stays right (`NoPhantomEdges`, `NoEdgeLost`); a call is not lost
  when SCIP refines it (`ScipKeepsCallees`).
* Read tools: what they report is what the graph says, around cycles and at
  their limits (`TraverseExact`, `TestsExact`, `SccsExact`, `ReachesNested`,
  `RiskIgnoresTests`, `DiffAccounts`); both backends say the same
  (`MemoryCoversNeo4j`).
* Caches, buckets, locks: a value computed from one generation is not served
  for another (`HitsServedGeneration`, `GitAnswersFresh`); no tokens from
  nowhere (`BucketBound`, `WindowBound`); a good key works (`KeyAnswers`); a
  decision goes before the gate (`DecisionsFirst`).
* Host: no volume is wiped that did not fail for long (`HealingEarned`); a mail
  goes out once (`AnnouncedOnce`).

`PROJECT.json` lists 40 hazards with their lines and the properties about each;
those without one have a note.

## 2. Modules

| Module | What it is |
|---|---|
| `PublishedIndex` | Abstract specification of a served index: a snapshot is recorded without a visible change, and the visible set then only moves towards the snapshot. |
| `GraphGenerations` (`...Proofs`, `MC...`) | Mutex, full index, replay, incremental sync, generation choice, swap, clean-up thread, rollback, restart, on the graph side. |
| `ShadowCollections` (`...Proofs`, `MC...`) | Background rebuild thread, flag, semantic-only requests, incremental writes, lazy client and detection, rollback, restart, on the Weaviate side. |
| `BuildRegistry` (`...Proofs`, `MC...`) | Rows of the registry, their transactions, and `rollback_last_build` over registry, proxy and collection. |
| `FeedbackLoop` (`MC...`) | AI feedback from submission to consumption and the agent's tick. |
| `ModelSlot` | The one slot of the decision model and who waits for it. |
| `ResolutionScope` | How far a name reaches: same file, same directory, a few, none. |
| `TreeSync` | From the commits of the working tree to rows, edges, pointer and live graph. |
| `NameResolution` | From the names a function mentions to edges, and their refinement by SCIP. |
| `SymbolGraph` | The graph the read tools answer from, one upsert at a time. |
| `GraphQueries` (`MC...`) | The read tools that walk the graph, a client asking at some depth: traversals and tests, against definitions by distance. |
| `ImpactReports` | The reports built on them: the warning scan and the paths to another symbol. |
| `SymbolCycles` | Dependency cycles: the iterative algorithm for strongly connected components. |
| `RiskScores` | The risk of a change, from the edges at a symbol. |
| `GraphBackends` | The Neo4j graph and the in-memory graph side by side. |
| `DiffSymbols` | What a diff changes and which symbols of the index these are. |
| `QueryCache` | The Redis cache beside swaps, rollbacks and syncs. |
| `TokenBuckets`, `RequestGate` | Rate limits, lockout, user keys and the cache of rejected ones. |
| `Alerts` | Mails meant to be sent once. |
| `Watchdog` | The cron watchdog and its failure counts. |
| `MCService` | Composition for TLC of all components beside the index and the registry. |
| `SourceProofs` | Theorems on `TreeSync` and `NameResolution`. |
| `ServingProofs` | Theorems on `QueryCache`, `GraphBackends`, `DiffSymbols` and `RiskScores`. |
| `LimitsProofs` | Theorems on `RequestGate` and `TokenBuckets`. |
| `OperationsProofs` | Theorems on `FeedbackLoop`, `ModelSlot`, `Watchdog` and `Alerts`. |
| `QueryProofs` | Theorems on `GraphQueries`, `ImpactReports` and `SymbolCycles`. |

**Composition.** `GraphGenerations` and `ShadowCollections` share the mutex only
through requests that each of them has; they are checked apart because their
product is out of reach and neither reads the other's state. `BuildRegistry`
composes what a rollback touches in three stores. The components of `MCService`
share no variable: its variable `part` names the one that moves in a behavior,
so that one run checks them all at the cost of their sum. It extends them, so that
what it checks is the property a theorem states. `WorldsAreLegal` has TLC check on the
instance what the theorems take as hypotheses.

**Faults.** Every module with an environment has a variable or a constant for
the conditions of a behavior (`Faults`, `faults`, `given`, `trouble`, `hitch`,
`odds`), chosen in the initial state from the sets a bound lists. A property or
a theorem says in its hypothesis under which of them it holds, and the runs that
expect a violation differ from the passing ones in that set or in a constant.

### GraphGenerations and the code

| Variable | Code |
|---|---|
| `snapshot` | active snapshot in Postgres, as its graph-eligible symbols |
| `neo4j[g]` | nodes with `gen = g` |
| `serving`, `history` | `GraphIndexProxy._backend` and `_history` (`graph.py` 259-281) |
| `mutex` | `_REBUILD_MUTEX` (`IS` 839) |
| `pc`, `gen`, `todo`, `drop` | where each thread is, its `new_gen`, the symbols it still has to upsert or remove |
| `cleanups` | generations whose `_cleanup_old_gen` thread (`IS` 688-697) has not run |

`BeginIndex`, `BeginReplay` and `BeginSync` are the three mutexed entry points up to
the moment the snapshot is committed; `ChooseGen` is the probe, `+ 1` and
`reset` (`IS` 542-567); `UpsertNew`, `Swap`, `Finish` the rest of a rebuild;
`RemoveGone` and `UpsertServed` the in-place edits of a sync; `Fail` an
exception anywhere in a body (the `finally` releases the mutex and nothing is
undone). Probe and `reset` are one action: both run under the mutex, and the
only writers that could come between them are a clean-up, which "overlap"
allows before and after, and a sync, which the mutex excludes.

A node is its symbol: edges, metadata and the chunks the graph skips are not
modelled, and symbols of different files are taken as distinct. `Root` is the
first graph-eligible symbol of the sorted walk (`IS` 254-265); it is assumed
to be in every tree, as it is while the first file of the repository keeps its
first symbol. Without it, a build may die before a probe can see its number,
which is then given out again; that is harmless but would need a weaker
statement of `PrivateGeneration`. The `close` of a retired backend is left
out, since the pinned driver reopens connections.

### ShadowCollections and the code

| Variable | Code |
|---|---|
| `docs` | objects of `CodeChunk` and `CodeChunkB`, as symbols; a deleted collection is an empty one |
| `connected`, `active`, `shadow`, `past` | `_client is not None`, `_active_collection`, `_shadow_collection`, `_collection_history` |
| `busy` | `_semantic_rebuild_in_progress` |
| `job` | the rebuild thread: before `begin_rebuild`, uploading, on its way out; snapshot, what is left, `force` |
| `call` | the request under the mutex and the semantic-only request, between reading the snapshot and `_start_semantic_rebuild_background` |
| `sync` | what the sync still has to delete or embed, and the batch being embedded with the collection picked for it |

`Recreate` empties the shadow, or, when the deletion fails and the failure is swallowed,
leaves what it holds ("deletefail"): its old documents are then published by the commit,
so that `SearchesSnapshot` is stated without it. `Connect` is what `_get_client` (108-120)
leaves behind on first use: detection replaces the default name by the fuller collection.
`Begin` keeps the order of the code: the shadow's name is computed before the client is
asked for. `Embed` and `Insert` are the two halves of `upsert_chunks` for the sync, since
the target is picked before the embedding and used after it; for the rebuild thread the
target cannot change in between, so `Upload` is one action. `Raise` separates an exception
in `begin_rebuild` (with or without the shadow already deleted) from one in the upload,
which leaves the shadow set.

Branch collections, progress counters and objects rejected by a batch insert
are left out. Between a restart and the first request the model does nothing:
with `INDEX_REPLAY_ON_STARTUP=false`, which `docs/operations.md:263`
recommends, neither does the code.

### BuildRegistry and the code

`status`, `parent`, `quality`, `parentScore`, `stamp` are the columns of
`build_registry`; `graph`, `newest`, `collection`, `docs`, `upload` the proxy, the
generations and the two collections, each reduced to the build it holds. A
transaction is cut where READ COMMITTED lets another one in: `Look` (read the
active build) before `Register` (INSERT); `Supersede` before `Complete`, which
only supersedes the rows the first statement `seen`; `CheckRollback` before
`MarkRolledBack`; and `rollback_last_build` goes on with `RollbackCollection` and
`RollbackGraph`, in that order (`IS` 1033-1060). `PickRollback` is the agent's
regression check for `Agent` and the HTTP endpoint for the others. `Evaluate`
records a score on the active build.

### FeedbackLoop and the code

An entry is a row of `ai_feedback` with its status, type and `boost_applied_at`;
`reading` the pending rows an evaluation has read and not yet updated, which the
agent and the HTTP endpoint each do in a transaction that takes minutes
(`ReadPending`, `CommitVerdicts`; the verdict is a choice). `Tick` is one tick of
the agent cut at its commits: evaluate, vote symbol by symbol, set the
watermark, consume behind the active build, refresh at `RerankAt`, build at
`BuildAt`. `OtherBuild` is any build that completes beside the agent. The limits
of the queries are constants: `GateBatch` (5), `SyncBatch` (50), `StatsLimit` (5).
`applied` and `reranked` are history variables.

### TreeSync, NameResolution and the code

`tree` is the sequence of commits pulled; `snap` the rows by file, the edges and
`last_indexed_commit`; `live` the graph. `ReadHead`, `ReadDiff`, `ReadDeleted`, `ReadFile`,
`StoreSnapshot`, `RemoveGone`, `UpsertLive`, `DropFile`, `Point` are the steps of an ingest
in the order of `git_ingestor.py` and `incremental_update_symbols`, with a pull or a crash
between any two: the two calls of git and the files are read one after the other, each of
the tree as it is then, while `Point` sets the head that was read first. `DropFile` is
`_remove_file_chunks` of a file that git named as deleted: of the snapshot it removes the
rows the file has by then, and the edges whose source id starts with the path of the file,
which no id does. A full index is one step.

The content of a file is what it defines and the names that calls. `EdgesOf` resolves a
name among the rows of the snapshot, by `Nearest` of `ResolutionScope`: the symbols of the
file, else of the directory, else all if they are few, else none. An edge that is kept is
that of an earlier resolution: a call of an unchanged caller is not resolved again when a
nearer symbol of that name appears or the number of candidates passes the hub limit, unless
its file is among the dependents. Targets are ids of the snapshot: `_extract_call_targets`
(`IS` 395-448) returns what `_resolve_candidates` finds in the name index, so that the
"bare targets" of the comment at `IS` 1145-1148 do not arise. Imports and kinds, which
`TreeSync` leaves out, are in `NameResolution`: the name index, imports, same file, same
directory, qualified paths, the hub limit, and the SCIP pass with its line
regions, its staleness guard (half of the files) and the union of both edge
sets; its state is the tree and the SCIP index, of this or an earlier tree.
`Before` is the order in which the walk meets chunks; "the first three of the path
index" and "the first of the longest common suffix" are the `Foremost` of a set in
it.

### The read tools and the code

In `SymbolGraph`, which the other modules of the read tools extend, the state is the
graph and a step an upsert, so that TLC visits every graph of four symbols within the
bounds. `GraphQueries` adds `asked`, the depth a client asks at: a question comes between
upserts and is answered of the graph as it is, so that the properties are about the
states with `asked # 0`. Each tool is an operator that follows the loop of the code
(queue, `seen`, limits; the order of visits left open where it is that of a Python set or
of the database). A loop is the function from the number of turns taken to its local
variables, which stands still once the loop has ended; it is read at a number of turns
that is proved to end it: twice the number of symbols for a traversal (`Walk`), once for
a path search (`FindPathBfs`), `N * (N + 2)` for `_sccs` with `N` symbols (`Sccs`), where a
turn enters a node, follows an edge or leaves a node. `find_cycles` runs `_sccs` on the
edges between modules, `get_crate_graph` on those between crates; `SymbolCycles` runs the
same algorithm on the edges between symbols, which are as arbitrary. A node gets its index
when it is put on `work`, which is one step earlier than in the code and with nothing in
between.

`DiffSymbols` has the tree of the index and the branch as state, an edit of the
branch as a step, and the parser as operators; "search for q finds n" and
"similar enough for a rename" are the relations `Within` and `Alike`, chosen so
that one name contains another and renames are ambiguous. Every edit makes a hunk, whose
header names any declaration of the old file or none (`Hunk`): the name above the change,
which for one in the first lines of a function is the function before. A search asks the
index for `Overfetch` times what is kept (`limit * 4`), in any order, scopes the hits to the
files of the diff, and keeps `HitLimit` of them (5) for a changed name, `GoneLimit` (3) for
one that is gone (`Search`). `Listing` is `changed_symbols`, an entry for each name and hit,
so that a symbol found by two names is there twice; `Reviewed` its first `max_symbols`
entries, in any order of the names. The four limits are constants, smaller in the instance
so that each of them cuts something off. `GraphBackends` gives
one upsert, removal, clear or reset to both backends in one step.

### QueryCache, TokenBuckets, RequestGate, ModelSlot and the code

`QueryCache` cuts a cached call where other calls run: `Compute`, `Store` under the
key of the generation at that time, `Register` under its tags with the TTL of
the set renewed to the entry's own; `invalidate_tags` is `ReadMembers` and
`DeleteMembers`. Time is in units of the shorter TTL, 1 h.

`TokenBuckets` has the registry lock and the lock of each bucket: `Fetch` (sweep, find or
make) and `Take` are two steps with others between. `RequestGate` takes one request per
step, since both surfaces run these checks on one event loop: `Rest` a path of the API,
`RestOpen` a public path or one of the admin API, which skip the credential and not the
window, `Mcp` the other surface. The bypass for loopback addresses in the environment
"local" is left out. Its windows, the lockout and the cache of rejected keys are lists of
times, as in the code; `Since` is what `popleft` or a comprehension leaves of a list in
order. `ModelSlot` has the decision lock (`asking`), the waiter count (`Waiting`) and the
internal lock (`Free`); time passes in ticks and no one may outstay a timeout; the three
durations keep the order of the code's (90, 100, 120 s). `ahead` and `begun` are history
variables for `DecisionsFirst`.

### Alerts, Watchdog and the code

`Alerts` cuts `send_email` at each attempt, after the note that the mail was sent
(marker file, Redis set) has been made; `PowerLoss` and `Restart` come anywhere.
`Watchdog` takes the containers in the order of the list; a check loads nothing
but what the run read at its start, and a healing step ends in a write of the
whole file. `streak`, the checks in a row that found a container unwell, is a
history variable: the file must never claim more.

## 3. Runs

All bounds are in the `.cfg` files and MC modules. `MaxGen` bounds both generation
numbers and the depth of the proxy's history, `MaxHistory` that of the
collection history; requests that would exceed a bound are not made, and nothing
that is under way is cut short by it.

| Run | Conditions | Checks | States |
|---|---|---|---|
| `graph_publish` | builds, syncs, clean-ups fail | `PublishesAtomically` (refinement of `PublishedIndex`), `MutexReleased` | 18 000 |
| `graph_numbering` | crash, rollback, failures | `TypeOK`, `BuildersExclude`, `PrivateGeneration`, `CleanupSparesBuilds` | 333 000 |
| `graph_heal` | crash, probe that answers 0 | `NoLeakedGenerations`, `ServesSnapshot` | 82 000 (symmetry) |
| `graph_rollback_kept` | rollback | `RollbackTargetKept`, violated | - |
| `graph_overlap` | clean-up slower than the next build | `CleanupSparesBuilds`, violated | - |
| `semantic_publish` | uploads and statistics fail | `ShadowUnseen`, `SearchesSnapshot`, `PublishesAtomically` | 1 700 |
| `semantic_any` | all seven together | `TypeOK`, `RebuildEnds` | 441 000 |
| `semantic_cold` | restart | `RebuildKeepsServing`, violated | - |
| `registry` | seven sets of overlap, failures, other builds, restart | `OneActive`, `ParentRestorable`, `RollbackAgrees`, `RegressionEnds` | 331 000 |
| `service` | per component, see below | 22 properties of twelve components | 366 000 |
| `feedback_threshold` | none | `BacklogConsumed`, violated | - |
| `graph_traverse` | none | `ConesOnly`, violated | - |

What `service` checks of each component, and where its instance is:

| Component | Conditions and size | Properties |
|---|---|---|
| `FeedbackLoop` | five sets of overlap, failure, crash; up to 3 entries, 2 symbols, 2 builds | `AppliedOnce`, `ConsumedFinal` |
| `GraphQueries`, `ImpactReports`, `SymbolCycles`, `RiskScores` | all graphs of 4 symbols, up to 4 edges; depths 1 and 2 | `TraverseExact`, `TestsExact`, `SccsExact`, `RiskIgnoresTests`, `ReachesNested` |
| `GraphBackends` | 2 symbols, any history | `MemoryCoversNeo4j` |
| `QueryCache` | calm, Redis failure; up to 2 callers, 2 tools, 2 generations, 2 contents each | `HitsServedGeneration`, `GitAnswersFresh` |
| `TreeSync` | calm, pull, crash, rename, shared ids; 3 files in 2 directories, 3 symbols of 2 names, up to 2 commits after the first | `RowsOfHead`, `NoPhantomEdges`, `NoEdgeLost`, `GraphOfSnapshot` |
| `TokenBuckets` | 2 callers of one identity, a shape that fills before a sweep and one that does not, retuning between them, sweep after 2 ticks, 3 ticks | `BucketBound` |
| `RequestGate` | key created and revoked, outage, both surfaces, open paths, 4 ticks | `WindowBound`, `KeyAnswers` |
| `DiffSymbols` | 2 files, 3 names, 4 edits; searches keep 2 and 1 of twice as many, the list 3 entries | `DiffAccounts` |
| `NameResolution` | 3 files, 9 symbols with namesakes and an overload, 49 trees, any two of them for tree and SCIP | `ScipKeepsCallees` |
| `ModelSlot` | 2 agents, 2 gate threads | `DecisionsFirst` |
| `Watchdog` | calm, timeout, overlap; 2 containers | `HealingEarned` |
| `Alerts` | five sets of crash, refusal, late error, unwritable marker; 2 clients, 2 boots | `AnnouncedOnce` |

**Why the bounds are enough.** *Graph and semantic index*: two threads meet in every pair
of phases the mutex allows (with three, the third one only ever finds the mutex taken or
free); with two symbols a build or a sync has a beginning, a middle and an end, and with
three a sync adds, keeps and removes in one step; generation numbers only matter by their
order relative to the served one, the reachable ones and the leaked ones, for which three
or four are needed; a collection history of two already revisits both names. *Registry*:
three builds give a parent that has a parent, and a collection name that is used twice, a
fourth one more than two collections can hold; two when their transactions overlap.
*Feedback*: thresholds are scaled to 1 and 2; an entry is in every pair of phases with
another. *Queries*: four symbols and four edges hold a cycle through the root with a
branch that leaves it, a diamond, and a shared type. *Cache*: two generations and two
contents separate "other generation" from "same generation, other content"; two TTLs of 1
and 2 let a tag set expire before an entry. *TreeSync*: three files are the caller, the
callee and one that moves or shares; two symbols of one name in different directories,
with a hub limit of 1, resolve by file, by directory, by being alone, or not at all.
*Buckets*: three ticks are an idle interval longer than a sweep, with a full bucket again
at its end under another caller's hands. *Diffs*: a name that is part of another fills
both limits of a search, and three entries are fewer than a symbol listed twice and two
others. *Slot, watchdog, mails*: the timeouts and thresholds keep their order, and their
proofs are for any values.

Deadlock is checked in the `graph` runs on `GraphGenerations` and in `semantic_any`, which
never stop; elsewhere `CHECK_DEADLOCK FALSE` stands because the system stops when a bound
of the environment (entries, builds, commits, edits, clock, boots) is reached.

Symmetry is used in `graph_heal` only, which has invariants and no liveness
property: workers, and symbols other than `Root`, are interchangeable.

**Fairness.** `MutexReleased` assumes that a thread that holds the mutex keeps
taking steps and that clean-up threads run; `RebuildEnds` that the rebuild
thread does. They are ordinary threads in a process that keeps running, their
network calls have timeouts, and an exception is an outcome the models have.
`RegressionEnds` assumes weak fairness of the steps of builds and rollbacks that
began, of the upload, and of the agent's check, which a loop with a five-minute
sleep makes (`agent.py`). `BacklogConsumed`, in `feedback_threshold`, assumes that the agent
ticks and that its cooldown, a duration, ends. That requests arrive, entries are submitted,
operators roll back, things fail or the process restarts is never assumed. A
restart needs no fairness: it also releases.

### What the violated properties show

* `graph_rollback_kept` - ADR-002 and `docs/operations.md` promise that the old
  generation is kept for rollback. The clean-up that follows every swap deletes
  it. After index, index, clean-up, a rollback serves an empty graph.
* `graph_overlap` - the mutex was introduced because "build A's post-swap
  generation cleanup deletes build B's in-flight nodes". The clean-up is a
  thread that the mutex does not cover: A returns, B acquires the mutex and
  starts writing, A's clean-up runs. B then swaps in an incomplete graph.
* `semantic_cold` - after a restart while `CodeChunkB` is the served collection,
  a forced rebuild as the first use of the client computes the shadow's name
  from the default `CodeChunk`, connects (which makes `CodeChunkB` active), and
  deletes `CodeChunkB`. Searches return nothing until the rebuild is committed,
  hours later.
* `feedback_threshold` - the automatic rebuild at ten accepted entries never
  starts: the number compared with 10 is the length of a list that the query
  cuts at 5. The run scales 5, 5, 10 to 1, 1, 2. The steps behind the threshold (build,
  registration, consumption, cooldown) are dead in the code as it stands. `service` sets
  `StatsLimit = BuildAt`, the one constant there that is not in the order of the code's, so
  that they are taken and `AppliedOnce` and `ConsumedFinal` are checked of them too; of the
  liveness of that path it checks nothing.
* `graph_traverse` - around a cycle through the root, `traverse` expands a node
  with the neighborhood of the node emitted before it (a variable that was not
  set again), and emits symbols of neither cone. `TraverseExact` states what holds
  where the two cones meet in the root only.

### Where words and code disagree, beside the violated properties

Each of these is in a model, and the property beside it states what does hold.

* *Lockout.* `src/docs/security.md:59` promises a lockout after failed authentications for
  REST, which has none: `core/auth.py:59-60` answers 401 as often as asked, and such a
  request does not reach the request windows either. For MCP, `mcp/readonly_server.py:1404`
  and `src/docs/security.md:73` say five failures, then five minutes; the code (1442-1449)
  counts the failures of the last 60 s and lets the client in again when the first of them
  is older. `WindowBound` is the "max 5 per 60s" of the MCP surface only.
* *Limits of a review.* `analyze_pr_diff` "classifies every symbol"
  (`mcp/tools/graph_read_tools.py:1928`). Its list of changed symbols is cut at `max_symbols`
  with duplicates in it (1935), in the order of a Python set; a search asks for four times
  what it keeps *before* the hits are scoped to the files of the diff, so that a common name
  may miss the one in the file (`rag/diff_parser.py:384`), and keeps 5, or 3 for a deleted
  or renamed name (393, 418, 435). `DiffAccounts` says what is reported when nothing is cut.
* *Attribution of a change.* A changed body is attributed to the name in the hunk header
  (`rag/diff_parser.py:219-230`), which git takes from above the hunk: a change in the first
  lines of a function counts for the function before it, and its own is not reported.
  `DiffAccounts` speaks of the name in the header.
* *SCIP.* "Files covered by SCIP use ONLY scip edges" (`rag/ingestion/scip_ingestor.py:13-15`);
  the code takes the union with those of the patterns, as `NameResolution` does.
* *Buckets.* "Sustained rate is the refill rate" (`core/token_bucket.py:11`), whatever is
  set: an administrator may set a capacity of 1000 at 0.1 a second
  (`api/routers/admin.py:111-112`), and the sweep gives an identity that was idle for
  600 s a full bucket again, 1000 calls where the rate gives 60. `BucketBound` has the greater of
  the two rates.
* *Edges without a target.* The comment at `IS` 1145-1148 speaks of calls that keep a bare
  name as their target; `_extract_call_targets` returns ids of the index only.
* *Tests and risk.* "Test callers must not inflate production risk scores"
  (`mcp/tools/graph_read_tools.py:353-354`), which `RiskIgnoresTests` shows of
  `get_blast_radius`; the combined score of `batch_blast_radius` (719-733) counts every caller.

### Seen while modelling, and not stated as properties

Each of these is in a model or in a formula beside it; no document of the
repository promises otherwise, or a unit test would show it.

*Index and registry.* A snapshot that comes while a semantic rebuild runs is passed over.
A shadow whose deletion failed is published with its old documents. A rebuild that failed
leaves its shadow set, and syncs then write where nobody searches. A rollback during a
rebuild can serve the shadow. After a rebuild to a smaller tree a restart resumes the
older, fuller collection. With overlapping transactions two builds complete into two
active rows, a rollback that races a completion leaves two, and two overlapping rollbacks
pop graph and collection twice. A rollback without a parent marks its row and raises, and
no active build is left. A restart undoes a rollback of the graph. Incremental and
semantic-only builds have rows without history entries.

*Ranking weights* (`feedback_store.py`). The INSERT of a first vote stores weight 0,
so it moves nothing, while the docstring speaks of 1/6; a positive vote after a
negative one lowers the weight from 0 to -1/8; the bulk recomputation (210-229)
uses the unweighted formula although a comment asks to keep both in sync. An
overlapping evaluation can reject a consumed entry, and file an issue twice; a
rerank refresh votes again for entries already applied (against
`agent.py:149`-150).

*Ingest.* The diff is filtered to `.rs`, so SQL migrations never sync while the pointer
moves on. An id that two files share is removed from the graph by id. A moved file leaves
rows. A call of an unchanged caller is not resolved again when its name has come to mean
another symbol. When a deleted file comes back while an ingest runs, `_remove_file_chunks`
drops the rows read of it and keeps the edges into them; ids do not start with a path, so
that it never drops an edge. A commit pulled during a full index is taken as indexed,
since the head is read after the files (`IS` 908). A crash between the store and the
upserts leaves a pointer at the head, and the next ingest says up to date. The observation
pass of a sync is given the chunks of before, so new warnings get old line ranges; a full
index never deletes observations of files that are gone. SCIP lines count from 0, chunk
lines from 1; ties on a module suffix take the first candidate; of two callees of one
short name, the one that SCIP cannot resolve gives way to the one it can.

*Read tools.* The in-memory `traverse` does not know `max_neighborhoods`, and the
proxy's fallback then drops `exclude` too. Time-outs still wait for the executor to
shut down. Cached blast radii outlive an in-place sync by up to an hour; a tag
set's life shrinks to that of the entry registered last; a call that overlaps a
swap stores the old answer under the new key. In a diff, `foo` finds `foo_bar`; a
deleted file is in no list of changed files; only `pub ` declarations are seen.

*Around.* Existing buckets keep their shape after retuning. An outage of the store
caches a good key as bad for 60 s. A new client's mail is sent on the event loop of
the MCP server. Background classification asks as a waiter, with the priority of an
agent. Any failure counts towards "unhealthy" in the watchdog, and overlapping runs
undo each other's counts. A mail that is refused, or cut by a restart, is never
sent again, since the note comes first; with an unwritable marker there is one per
restart.

## 4. Proofs

`tlapm` checks eight proof modules: `GraphGenerationsProofs`, `ShadowCollectionsProofs`,
`BuildRegistryProofs`, and `SourceProofs`, `ServingProofs`, `LimitsProofs`,
`OperationsProofs`, `QueryProofs`, each of which takes two to four smaller components. Every
safety and action property that a passing run checks is stated by a theorem.

What a theorem assumes of the constants is a named `ASSUME` of the component's module
(index, registry, feedback) or, where components are composed for TLC, a definition of that
module that is the hypothesis of the theorem; `MCService!WorldsAreLegal` has TLC
evaluate those on the instance.

| Hypothesis | Says of the constants |
|---|---|
| `SlotTimes` | `Patience < Yield`, as 100 s and 120 s are |
| `CacheLimits`, `HasHotspots` | bounds and TTLs are numbers; there is a tool with the tag "git" |
| `FirstTree` | the first tree is a tree, no symbol in two files |
| `SourceWorld` | ids are non-empty paths, a chunk lies in the file that names it, mentions lie in a chunk |
| `GateTimes` | durations are positive, the lock lasts no shorter than a window |
| `BucketShapes` | callers are finitely many, shapes have a largest capacity and a highest rate |
| `DiffWorld` | paths and names are finite sets, a name contains itself; the limits are numbers, no more kept of a name that is gone than of a changed one (3 and 5) |
| `RiskWorld` | symbols are a finite set, thresholds and factors are numbers |
| `QueryWorld` | symbols are a finite set, a path is asked for between two different ones, depths are 1 or more, as the tools clamp them, and the cap on neighborhoods is a number |
| `WatchLimits`, `AlertLimits` | bounds are numbers, containers a sequence, a boot no client |

| Theorem | Holds under | Statement |
|---|---|---|
| `GraphGenerationsProofs!TypeCorrect` | all faults | `Spec => []TypeOK` |
| `MutualExclusion` | all faults | `Spec => []BuildersExclude` |
| `PrivateGenerations` | no overlap, no failing probe | `Spec => []PrivateGeneration` |
| `BuildsSurviveCleanups` | no overlap, no failing probe | `Spec => CleanupSparesBuilds` |
| `GraphGenerationsProofs!ZeroDowntime` | only failures of builds and clean-ups | `Spec => PublishesAtomically` |
| `LeaksCollected` | crashes and failing probes only | `Spec => []NoLeakedGenerations` |
| `BuildsHeal` | crashes and failing probes only | `Spec => []ServesSnapshot` |
| `ShadowCollectionsProofs!TypeCorrect` | all faults | `Spec => []TypeOK` |
| `ShadowNeverSearched` | no restart, no rollback | `Spec => []ShadowUnseen` |
| `ShadowCollectionsProofs!ZeroDowntime` | only failures of rebuilds | `Spec => PublishesAtomically` |
| `SearchesConverge` | only failures of uploads and statistics | `Spec => []SearchesSnapshot` |
| `BuildRegistryProofs!ParentsRestorable` | all faults | `Spec => []ParentRestorable` |
| `BuildRegistryProofs!AtMostOneActive` | no overlap | `Spec => []OneActive` |
| `BuildRegistryProofs!RollbacksAgree` | no faults, as the property says | `Spec => []RollbackAgrees` |
| `OperationsProofs!EachEntryAppliedOnce` | per conjunct, as the property says | `Spec => []AppliedOnce` |
| `OperationsProofs!ConsumedStays` | no overlap | `Spec => ConsumedFinal` |
| `OperationsProofs!DecisionsGoFirst` | `SlotTimes` | `SlotSpec => DecisionsFirst` |
| `SourceProofs!SnapshotOfHead` | no move; crashes, shared ids, or pulls during an ingest that bring nothing back | `SyncSpec => []RowsOfHead` |
| `SourceProofs!NoEdgeTooMany` | no pull during an ingest; crashes, moves, shared ids | `SyncSpec => []NoPhantomEdges` |
| `SourceProofs!GraphFollows` | per conjunct, as the property says | `SyncSpec => []GraphOfSnapshot` |
| `SourceProofs!NoEdgeTooFew` | no condition | `SyncSpec => NoEdgeLost` |
| `SourceProofs!ScipIsSafe` | `SourceWorld` | `NameSpec => []ScipKeepsCallees` |
| `ServingProofs!HitsAreServed` | no overlap | `CacheSpec => []HitsServedGeneration` |
| `ServingProofs!GitAnswersAreFresh` | no overlap, no Redis failure | `CacheSpec => []GitAnswersFresh` |
| `ServingProofs!MemoryCovers` | - | `BackendSpec => []MemoryCoversNeo4j` |
| `ServingProofs!DiffsAccount` | `DiffWorld` | `DiffSpec => []DiffAccounts` |
| `ServingProofs!RiskStaysUp` | `RiskWorld` | `QuerySpec => []RiskIgnoresTests` |
| `QueryProofs!TestsAreExact` | `QueryWorld` | `ToolSpec => []TestsExact` |
| `QueryProofs!ReachesAgree` | `QueryWorld` | `ToolSpec => []ReachesNested` |
| `QueryProofs!TraverseIsExact` | `QueryWorld` | `ToolSpec => []TraverseExact` |
| `QueryProofs!SccsAreExact` | `QueryWorld` | `ToolSpec => []SccsExact` |
| `LimitsProofs!KeysAnswered` | outages included | `GateSpec => []KeyAnswers` |
| `LimitsProofs!WindowsBounded` | `GateTimes` | `GateSpec => []WindowBound` |
| `LimitsProofs!BucketsBounded` | `BucketShapes` | `BucketSpec => []BucketBound` |
| `OperationsProofs!EscalationEarned` | no overlap | `WatchSpec => HealingEarned` |
| `OperationsProofs!AnnouncementsOnce` | all conditions, as the property says | `AlertSpec => []AnnouncedOnce` |

**Generation numbers.** `PrivateGeneration` says of a rebuild's number that it
is not reachable *now*; it is not inductive, because nothing in it says that a
number given out next is new. `NumberingInv` adds what the code relies on: a
stored snapshot has `Root` and nobody works before there is one (`RootKept`); every number in
use, reachable by the proxy or with nodes, is at most that of a generation
which has `Root`, so that the probe's answer is never below it (`Dominated`);
a clean-up that has not run belongs to a generation above all others in use,
so that it only deletes what is below (`CleanupsOnTop`); and the number of a
rebuild under way is above all others in use (`BuildOnTop`). From these, the
maximum plus one is a number without nodes outside the reach of the proxy
(`FreshNumber`), and rollback, which moves the proxy *down*, leaves them intact.

**Zero downtime of the graph.** `PublishInv` adds that a thread's `todo`,
together with what it has already written, is the stored snapshot, and that a
sync removes nothing that is in it. A swap is then a `Converge` step of
`PublishedIndex`, an upsert into a private generation a stutter (by
`NumberingInv`), a commit of a snapshot a `Record`.

**Healing of the graph.** After a crash, or with a probe that answers 0, numbers are
not new and neither invariant above holds. `HealInv` shows what does not depend on
them: a build starts from a generation that `reset` has just emptied, so that what
it has written and its `todo` are the snapshot (`Approaches`); no clean-up is
pending while it builds, and a pending one belongs to the served generation. From
the first swap of a process on, each phase of a sync is a known way from the
snapshot.

**Semantic index.** Typing needs one strengthening that is part of `TypeOK`: a
thread that uploads has a shadow, and a batch in flight a target. For
`ShadowUnseen`, `Cold` says that an unconnected client faces empty collections
and the default name, so that detection changes nothing (`NothingDetected`);
this is what a restart destroys, and what `semantic_cold` exploits. For the
refinement, `OneAtATime` says that a request and the thread exclude each
other, `Complete` that what is in the shadow and what is left to upload make
up the stored snapshot, `SyncSound` that a sync deletes nothing of the snapshot
and writes nothing else. For `SearchesSnapshot`, `ConvergeInv` adds how far from the
snapshot the searched collection is: equal when a rebuild that is not forced may
skip (`RebuildsNeeded`), and short of exactly the rest of a sync, whose batch in
flight goes where searches look (`SyncOnItsWay`). A rebuild that fails before its
shadow is set would leave a stale collection without a trace, so that
"beginfail" is excluded here; the next forced rebuild repairs it.

**Registry rows.** `RowInv` says which rows belong to operations under way (`Owned`) and
that whatever is about to be rolled back, or was read as the active build, has
completed (`Completed`): from there a new row's parent has completed and is older,
whatever overlaps. It needs that the active build, chosen as the row with the
latest stamp, exists (`Least`, by well-foundedness of the natural numbers). For
`OneActive`, `Serial` adds that one thread is at work and that a commit has seen
every active row before it makes its own active.

**Registry and rollback.** `RollbackAgrees` relates three stores after any number of
builds and rollbacks, and says nothing of the histories they go back along.
`Lineage` gives them a shape: the layers of the proxy, from the bottom to what is
served, are builds in the order they began, each the parent of the next. `InStep`
says, for each point of a build and of a rollback, by how many layers the collection's
history is ahead of or behind the proxy's (`Ahead`), so that at rest they are equally
deep. Depth alone does not say what a collection *holds*, since two names serve all
builds: `Placed` says that a collection that holds the build of some layer is the name
the collection's history has at that layer, and `Kept` that the last two builds are
held. The proof is where the property got its condition: a third rollback in a row
reaches a collection that was filled again since, so that the objects of the active
build exist nowhere, which the code cannot avoid with two collections.

**Feedback.** `FeedbackInv` counts votes against the point where the agent is: an entry
that is neither fetched nor marked has counted nothing, one in the list under way is
counted up to its symbol, a marked one at least once (`VotesCounted`, `VotesKept`); the
rows an evaluation holds are pending and nobody else's, so that an issue is filed once
(`HeldPending`, `JudgedOnceOnly`). `ConsumedFinal` follows from the same: no verdict is
under way about an entry that is no longer pending.

**Model slot.** `SlotInv` says that a wait is no longer than `Patience`, that whoever
a gater lets go first has waited at least as long as it yields (`Yielding`), so that
with `Patience < Yield` nobody is left when the yield times out, and that a gater
which judged during a wait is busy or idle until it ends (`JudgedOnce`): the next
entry is only begun when nobody waits.

**Ingest.** What a name resolves to is an entry of the index of its name (`NearestAmong`),
which is all that `NoPhantomEdges` needs of it: an edge goes from a caller that says a
name to a symbol that has it. A step drops the edges of the files it reads, extracts them
from the rows it writes, and drops those into what is gone. The last step that writes rows
is `DropFile`; `DropInv` says that a file git named as deleted is absent from the tree as
long as nobody pulls, hence among the files read, and has no rows left to drop. For
`RowsOfHead` there are two arguments. Without pulls, `RowInv` says that the rows are
always those of the commit the pointer names, that the files of a sync are at least those
that differ from the head, and that what was read of them is the head's; a crash anywhere
leaves it true. With pulls, `PullInv` says that each row is that of some commit, no
earlier than the pointer (`RowsFrom`), that what a sync leaves alone is the same at the
pointer and at the head it read (`Covered`), and that what it read is of a commit no
earlier than that head: when the pointer says the head, no later commit is left for a row
to be of. That needs `NoReturns`: a file that is back to what it was at the pointer is not
in the diff, while the row may have been read in between. `GraphInv` follows the graph
between the store and the last upsert: what the removal and the upsert will make of it is
what the snapshot has; `CallersTaken` says that the files that call what is rewritten are
among those read, from which `NoEdgeLost`.

**Name resolution.** Nothing is inductive about the tree: it is chosen anew at each step.
The theorem is about the operators, through lemmas: a symbol lies where the walk meets it
(`PresentIsPlaced`), the last segments of a path end the id they were taken from
(`TailEnds`), a reference resolves to what was meant up to namesakes (`TargetIsMeant`),
and the references on the lines of a function are its own (`ReferencesAreOwn`). The
attempt showed what the instance had missed: a function that calls two symbols of one
short name, of which the SCIP index resolves one only; the union then drops the right
callee the patterns had found for the other. TLC confirms it with a symbol added for it.
The property now exempts such calls by name (`Overloaded`); the short name, which the
first conjunct is about, is still kept.

**Cache.** `CacheInv`: a call under way computed from
the served generation (`AnswersServed`), an entry answers from the generation of
its key (`KeyedByGeneration`). For `GitAnswersFresh`, `FreshInv` adds that an entry with
the tag is of the content served or about to be deleted (`EntriesFresh`), and that it is
in the set of its tag, which lives as long as the entry (`EntriesIndexed`): with a set
that expired before, an invalidation would not find it. A call between its answer and
its registration is the exception, and is current (`CallsCurrent`).

**Backends, diffs, risk.** `BackendInv` is the property with types; the lemmas
`MirrorAdds` and `MirrorClears` carry both directions of an edge through a write.
`DiffInv` adds that two files never come from one (`OneOrigin`) and that a changed
signature belongs to a symbol on both sides (`ResignedStays`); what git pairs as
renamed, which hits a search returns, and in which order names are reviewed, is arbitrary.
`SearchAnswers` says that a search that cuts nothing off answers with the symbol in the
file, `ReviewsAll` that a list within `max_symbols` is reviewed whole. For `RiskIgnoresTests` the
graph is arbitrary, and the lemmas say that the two sides only differ in edges from
tests: the other ends stay, the set of god types can only shrink (`GodsFromTests`), rounding
half to even keeps order (`EffectiveGrows`), and the thresholds do (`RiskGrows`).

**Read tools: loops.** The graph is arbitrary and finite (`ToolInv`); the theorems are
about what a loop computes on it. A definition by recursion on the turns has its
equations by `Iterates`: a function on the numbers with a given first value and a given
step exists. `Induct`, from the well-foundedness of the natural numbers, says that a set
that holds 0 and with a number the next one holds all numbers; taken for the turns after
which an invariant holds, it is the induction over the loop (`WalkInduct`, `PathInduct`,
`CycleTurns`). That a loop ends within the turns at which its operator reads it is a
count: a turn of a traversal takes one entry off the queue, and `visited` admits a
symbol once in each direction (`WalkEnds`); a symbol ends one path in the queue
(`PathEnds`); an edge is followed once, a node entered once and left once, and `Passes`
counts them (`CycleEnds`).

**Read tools: reaches.** `TestsLoop` and `ScanLoop` show a frontier to give a reach,
although it leaves out what was seen. `Traced` says that what a traversal emits, and
what its queue holds, lies on a path through what it emitted, no longer than its depth,
also where the neighborhood at hand is another symbol's: so what it visits its summary
counts, around cycles and at its cap too. `Searched` says that the queued paths are
shortest ones in order of length, that the ball as far as the first of them has been
met, and that a symbol met ends a queued path or has had its neighbors met: when the
goal is met, the path to it is a shortest one, and when the queue runs out, the goal is
not in the ball. The directed paths of Neo4j are walks in the ball (`DependencyInBall`;
backward ones by `ReachFront` and `ReachBack`), hence no shorter.

**Read tools: traversals.** `Walked` treats a traversal as two searches, each of the
cone of its direction, that share a queue and a list: an entry is in its cone at its
distance (`EntriesPlaced`) and there is one for a symbol and a direction
(`EntriesOnce`); what is emitted is in a cone (`EmittedPlaced`); what has been met
waits, is left out, or was emitted and its neighbors met (`Opened`), and the cones as
far as the first entry have been met (`Covered`). It rests on one fact about the local
variable `neighborhood`, which is not fetched again for an emitted symbol: when the
cones meet in the root only, the root alone is taken from the queue after it was
emitted, and its two entries come first (`RootFirst`), so that the neighborhood at hand
is that of the entry taken (`HeldIsCurrent`). Where another symbol is in both cones it
is not, and `graph_traverse` shows what follows.

**Read tools: cycles.** `Shape` says that `work` and the stack are in the order in which
nodes were met, and that what is at work is on the stack. `Cycled` is why the algorithm
is right: a followed edge leads to a known node, and out of a settled one to settled
ones only (`FollowedKnown`); a node at work leads to those above it on the stack, and a
stacked node to one at work below it (`StackLinked`); a lowlink bounds the indices that
followed edges lead to from the part of the stack between its node and the next one at
work, and is itself the index of a stacked node that its node leads to (`LowKept`); the
components so far are the classes of the settled nodes (`CompsExact`). When a node is
left with its own index as its lowlink, the stack from it upwards is its class
(`RootClass`): every member leads to it and it to them, and no edge leads from there to
what is below. When it is left with a lower one, its parent inherits the bound; this is
the step that the mutant of the property takes away.

**Limits.** `KeyInv` dates an entry of the negative cache: as long as the key is not
revoked, only an outage made it. `WinInv` says that the lists remember enough:
what is forgotten is older than a window (`ServedRemembered`, `DeniedRemembered`), where
`SinceSplits` says what `popleft` leaves of a list in order. `BucketInv` is an
accounting argument over all intervals at once: what an identity was granted since
`s`, and what its bucket still holds, is covered by the widest capacity and the sustained
rate since `s` (`Funded`); buckets out of the registry that somebody still holds are
at most as many as there are other callers (`Spared`), and each gives one more token at
most (`OneEach`, `Stragglers`). A bucket that a sweep drops was idle for `SweepPeriod`
ticks, in which the sustained rate pays for the full bucket made in its place
(`ShapesBounded`), whether or not the old one had filled.

**Watchdog and mails.** `WatchInv`: the file never claims more failures than there were
checks in a row (`SavedEarned`), a run works on what the file says and has one more check
behind it (`LoadedEarned`). `AlertInv`: a subject costs nothing before it is noted and an
attempt at most one mail (`Counted`), and a noted one was mailed, is being mailed, or was
cut (`NotForgotten`).

The invariants of the index's two modules were also checked by TLC on the
instances of the runs before they were proved; of the others, the properties were.

**Model-checked only.** `MutexReleased`, `RebuildEnds`, `RegressionEnds`: liveness, which
needs fairness and ENABLED and is out of the prover's reach. The refutations of the five
runs that expect a violation. Every other property of the runs has a theorem above.

## 5. Not modelled

* Observation store: rows derived from chunks, advisory, read by two tools.
* Tree-sitter walk, SQL schema, crate graph, the protobuf decoder: text to values.
* Boost weight, golden queries, embeddings and reranker: formulas and numerical
  services without state between calls.
* Weaviate branch collections and objects that a batch rejects; the relation
  column that a reload loses; list endpoints.
* Search and listing tools of the MCP server, the wording of mails, metrics, logs,
  traces, health: output only.
* Two ingests at once, and a pull within a full index: one thread ingests in `TreeSync`,
  and a full index is one step of it.
* Configuration and the test guard: constants of a process. Deployment scripts:
  what they do to the service (restart it at any time, call it twice) is in the
  conditions of the models.

## 6. Plan

1. `SearchesSnapshot` under "overlap", once it is decided what a skipped snapshot
   should mean; the read side of a rollback during a rebuild.
2. Branch collections as a second instance of `ShadowCollections`, and objects that a
   batch rejects.
