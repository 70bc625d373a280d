------------------------- MODULE ShadowCollections -------------------------
(***************************************************************************)
(* The semantic half of the index: two Weaviate collections, of which one  *)
(* is active and the other is filled by the background rebuild thread as   *)
(* the shadow, the flag that keeps two rebuild threads apart, the requests *)
(* that start a rebuild, the incremental sync that writes next to it,      *)
(* rollback, and the restart of the backend, after which the client is     *)
(* created lazily and the active collection is guessed from object counts. *)
(*                                                                         *)
(* A document is abstracted to its symbol.  Branch collections and the     *)
(* embedding progress are left out.                                        *)
(*                                                                         *)
(* Faults names what may happen besides requests that come one by one and  *)
(* succeed:                                                                *)
(*   "beginfail"  begin_rebuild raises                                     *)
(*   "deletefail" begin_rebuild cannot delete the shadow and goes on       *)
(*   "buildfail"  embedding or uploading raises                            *)
(*   "statsfail"  get_stats raises inside, swallows it and answers 0        *)
(*   "overlap"    a request comes while a rebuild thread still runs        *)
(*   "rollback"   rollback_last_build reaches rollback_collection          *)
(*   "restart"    the process restarts, at any point                       *)
(***************************************************************************)
EXTENDS Naturals, Sequences, FiniteSets

CONSTANTS
    Symbols,    \* symbols of any source tree
    MaxHistory, \* bound: no rebuild is asked for at this depth of the history
    Faults      \* what the environment may do, see above

FaultKinds ==
    {"beginfail", "deletefail", "buildfail", "statsfail", "overlap", "rollback", "restart"}

ASSUME SymbolsAssumption == IsFiniteSet(Symbols)
ASSUME MaxHistoryAssumption == MaxHistory \in Nat
ASSUME FaultsAssumption == Faults \subseteq FaultKinds

Names == {"CodeChunk", "CodeChunkB"}
NoShadow == "none"

(* The request that holds the rebuild mutex, and a semantic-only rebuild   *)
(* (the agent's or POST /api/index/semantic/rebuild), which takes no mutex.*)
Callers == {"locked", "semantic"}

VARIABLES
    snapshot,   \* symbols of the active snapshot in Postgres, {} when none
    docs,       \* collection -> symbols it has a document for
    connected,  \* the client exists, detection has run
    active,     \* _active_collection
    shadow,     \* _shadow_collection
    past,       \* _collection_history
    busy,       \* _semantic_rebuild_in_progress
    job,        \* the rebuild thread: phase, snapshot, what is left, force
    call,       \* caller -> phase, the snapshot it has in hand, force
    sync        \* the sync of the locked caller: drop, todo, batch, into

collections == <<docs, connected, active, shadow, past>>
vars == <<snapshot, collections, busy, job, call, sync>>

NoJob == [phase |-> "none", want |-> {}, todo |-> {}, force |-> FALSE]
NoCall == [phase |-> "idle", want |-> {}, force |-> FALSE]
NoSync == [drop |-> {}, todo |-> {}, batch |-> {}, into |-> NoShadow]

Init ==
    /\ snapshot = {}
    /\ docs = [n \in Names |-> {}]
    /\ connected = FALSE
    /\ active = "CodeChunk"
    /\ shadow = NoShadow
    /\ past = <<>>
    /\ busy = FALSE
    /\ job = NoJob
    /\ call = [c \in Callers |-> NoCall]
    /\ sync = NoSync

-----------------------------------------------------------------------------
(* The client.  The first call that needs it connects, makes sure that     *)
(* CodeChunk exists and replaces the default by the fuller collection.     *)

Detected ==
    IF Cardinality(docs["CodeChunkB"]) > Cardinality(docs["CodeChunk"])
    THEN "CodeChunkB" ELSE "CodeChunk"

(* The collection readers get: they connect before they look up the name.  *)
Served == IF connected THEN active ELSE Detected

Other(name) == IF name = "CodeChunk" THEN "CodeChunkB" ELSE "CodeChunk"

(* What a call through _get_client leaves behind. *)
Connect ==
    /\ connected' = TRUE
    /\ active' = Served

(* begin_rebuild deletes a collection and creates it unless it exists.  A  *)
(* deletion that fails is swallowed: the old documents stay.               *)
Recreate(name) ==
    \/ docs' = [docs EXCEPT ![name] = {}]
    \/ "deletefail" \in Faults /\ UNCHANGED docs

(* Where upsert_chunks and delete_chunks write: the name is picked before  *)
(* the client is asked for.                                                *)
WriteName == IF shadow # NoShadow THEN shadow ELSE active

(* A search, or any other first use of the client. *)
Query ==
    /\ ~ connected
    /\ Connect
    /\ UNCHANGED <<snapshot, docs, shadow, past, busy, job, call, sync>>

-----------------------------------------------------------------------------
(* Requests *)

Quiet == ~ busy /\ \A c \in Callers : call[c].phase = "idle"

MayCome(c) ==
    /\ call[c].phase = "idle"
    /\ "overlap" \in Faults \/ Quiet

(* The history grows by one per rebuild; those on their way count. *)
Room ==
    Len(past) + Cardinality({c \in Callers : call[c].phase = "loaded"})
              + (IF job.phase \in {"waiting", "uploading"} THEN 1 ELSE 0)
        < MaxHistory

Load(c, want, force) ==
    call' = [call EXCEPT ![c] = [phase |-> "loaded", want |-> want, force |-> force]]

(* index_rust_repository, up to the write of the new snapshot. *)
Index(tree) ==
    /\ MayCome("locked") /\ Room
    /\ snapshot' = tree
    /\ Load("locked", tree, TRUE)
    /\ UNCHANGED <<collections, busy, job, sync>>

(* replay_indexes_from_storage with a snapshot to replay. *)
Replay ==
    /\ MayCome("locked") /\ Room
    /\ snapshot # {}
    /\ Load("locked", snapshot, FALSE)
    /\ UNCHANGED <<snapshot, collections, busy, job, sync>>

(* Replay with nothing stored: reset_documents is a begin_rebuild that no  *)
(* commit follows.                                                         *)
ReplayEmpty ==
    /\ MayCome("locked")
    /\ snapshot = {}
    /\ Recreate(Other(active))
    /\ shadow' = Other(active)
    /\ Connect
    /\ UNCHANGED <<snapshot, past, busy, job, call, sync>>

(* reindex_semantic_only. *)
SemanticOnly ==
    /\ MayCome("semantic") /\ Room
    /\ snapshot # {}
    /\ Load("semantic", snapshot, TRUE)
    /\ UNCHANGED <<snapshot, collections, busy, job, sync>>

(* _start_semantic_rebuild_background: test and set under its lock.  When  *)
(* a rebuild is in progress the request's snapshot is passed over.         *)
Start(c) ==
    /\ call[c].phase = "loaded"
    /\ IF busy
       THEN UNCHANGED <<busy, job>>
       ELSE /\ busy' = TRUE
            /\ job' = [phase |-> "waiting", want |-> call[c].want,
                       todo |-> call[c].want, force |-> call[c].force]
    /\ call' = [call EXCEPT ![c] = NoCall]
    /\ UNCHANGED <<snapshot, collections, sync>>

-----------------------------------------------------------------------------
(* The rebuild thread *)

(* Forced, or the served collection has no documents, or get_stats says so *)
(* because it cannot reach Weaviate.                                       *)
StatsMissing == "statsfail" \in Faults /\ docs[Served] # {}
Rebuilds == job.force \/ docs[Served] = {} \/ StatsMissing

(* Nothing to do; get_stats connects. *)
Skip ==
    /\ job.phase = "waiting"
    /\ ~ job.force
    /\ docs[Served] # {}
    /\ Connect
    /\ job' = [job EXCEPT !.phase = "ending"]
    /\ UNCHANGED <<snapshot, docs, shadow, past, busy, call, sync>>

(* The shadow is the collection that is searched. *)
BeginOnActive ==
    /\ job.phase = "waiting"
    /\ Rebuilds
    /\ Recreate(Served)
    /\ shadow' = Served
    /\ Connect
    /\ job' = [job EXCEPT !.phase = "uploading"]
    /\ UNCHANGED <<snapshot, past, busy, call, sync>>

(* The name begin_rebuild works out before it asks for the client, unless  *)
(* get_stats has done so.                                                  *)
ShadowName == Other(IF job.force \/ StatsMissing THEN active ELSE Served)

(* begin_rebuild *)
Begin ==
    /\ job.phase = "waiting"
    /\ Rebuilds
    /\ Recreate(ShadowName)
    /\ shadow' = ShadowName
    /\ Connect
    /\ job' = [job EXCEPT !.phase = "uploading"]
    /\ UNCHANGED <<snapshot, past, busy, call, sync>>

(* upsert_chunks into the shadow, a batch at a time. *)
Upload(s) ==
    /\ job.phase = "uploading"
    /\ s \in job.todo
    /\ docs' = [docs EXCEPT ![shadow] = @ \cup {s}]
    /\ job' = [job EXCEPT !.todo = @ \ {s}]
    /\ UNCHANGED <<snapshot, connected, active, shadow, past, busy, call, sync>>

CommitTail ==
    /\ job.phase = "uploading"
    /\ past' = Append(past, active)
    /\ active' = shadow
    /\ job' = [job EXCEPT !.phase = "ending"]
    /\ UNCHANGED <<snapshot, docs, connected, busy, call, sync>>

(* A commit before the last batch. *)
CommitEarly ==
    /\ CommitTail
    /\ shadow' = NoShadow

(* commit_rebuild *)
Commit ==
    /\ job.todo = {}
    /\ CommitTail
    /\ shadow' = NoShadow

(* The finally clause. *)
End ==
    /\ job.phase = "ending"
    /\ job' = NoJob
    /\ busy' = FALSE
    /\ UNCHANGED <<snapshot, collections, call, sync>>

(* The thread leaves through the exception handler.  Either begin_rebuild  *)
(* raised, without a client or between the deletion and the creation, and  *)
(* the shadow is what it was; or upsert_chunks raised, and it stays set.   *)
Raise ==
    \/ /\ "beginfail" \in Faults
       /\ job.phase = "waiting"
       /\ Rebuilds
       /\ \/ UNCHANGED collections
          \/ /\ Recreate(ShadowName)
             /\ Connect
             /\ UNCHANGED <<shadow, past>>
    \/ /\ "buildfail" \in Faults
       /\ job.phase = "uploading"
       /\ UNCHANGED collections

(* The flag is cleared on the way out that succeeds only. *)
FailBusy ==
    /\ Raise
    /\ job' = NoJob
    /\ UNCHANGED <<snapshot, busy, call, sync>>

(* except and finally: logged, notified, the flag cleared. *)
Fail ==
    /\ Raise
    /\ job' = NoJob
    /\ busy' = FALSE
    /\ UNCHANGED <<snapshot, call, sync>>

-----------------------------------------------------------------------------
(* The incremental sync: the new snapshot is committed, then the gone      *)
(* symbols are deleted and those of the re-read files written, each call   *)
(* into the collection that is the write target at that moment.            *)

SyncPhase(p) == call' = [call EXCEPT !["locked"].phase = p]

BeginSync(tree, touched) ==
    /\ MayCome("locked")
    /\ snapshot # {}
    /\ tree \ snapshot \subseteq touched
    /\ touched \subseteq tree
    /\ snapshot' = tree
    /\ sync' = [NoSync EXCEPT !.drop = snapshot \ tree, !.todo = touched]
    /\ SyncPhase("removing")
    /\ UNCHANGED <<collections, busy, job>>

(* A sync that only upserts: gone symbols stay searchable forever. *)
DeleteNothing ==
    /\ call["locked"].phase = "removing"
    /\ SyncPhase("patching")
    /\ sync' = [sync EXCEPT !.drop = {}]
    /\ UNCHANGED <<snapshot, collections, busy, job>>

(* delete_chunks; without removed symbols it is not called. *)
DeleteGone ==
    /\ call["locked"].phase = "removing"
    /\ IF sync.drop = {}
       THEN UNCHANGED <<docs, connected, active>>
       ELSE /\ docs' = [docs EXCEPT ![WriteName] = @ \ sync.drop]
            /\ Connect
    /\ SyncPhase("patching")
    /\ sync' = [sync EXCEPT !.drop = {}]
    /\ UNCHANGED <<snapshot, shadow, past, busy, job>>

(* upsert_chunks picks its target, then embeds for a while ... *)
Embed(s) ==
    /\ call["locked"].phase = "patching"
    /\ s \in sync.todo
    /\ sync.batch = {}
    /\ sync' = [sync EXCEPT !.todo = @ \ {s}, !.batch = {s}, !.into = WriteName]
    /\ Connect
    /\ UNCHANGED <<snapshot, docs, shadow, past, busy, job, call>>

(* ... and inserts. *)
Insert ==
    /\ sync.batch # {}
    /\ docs' = [docs EXCEPT ![sync.into] = @ \cup sync.batch]
    /\ sync' = [sync EXCEPT !.batch = {}, !.into = NoShadow]
    /\ UNCHANGED <<snapshot, connected, active, shadow, past, busy, job, call>>

EndSync ==
    /\ call["locked"].phase = "patching"
    /\ sync.todo = {} /\ sync.batch = {}
    /\ call' = [call EXCEPT !["locked"] = NoCall]
    /\ UNCHANGED <<snapshot, collections, busy, job, sync>>

-----------------------------------------------------------------------------
(* A rollback that also forgets the collection being filled. *)
RollbackResetting ==
    /\ "rollback" \in Faults
    /\ past # <<>>
    /\ active' = past[Len(past)]
    /\ past' = SubSeq(past, 1, Len(past) - 1)
    /\ shadow' = NoShadow
    /\ UNCHANGED <<snapshot, docs, connected, busy, job, call, sync>>

(* rollback_collection: neither the mutex nor the flag is looked at. *)
Rollback ==
    /\ "rollback" \in Faults
    /\ past # <<>>
    /\ active' = past[Len(past)]
    /\ past' = SubSeq(past, 1, Len(past) - 1)
    /\ UNCHANGED <<snapshot, docs, connected, shadow, busy, job, call, sync>>

(* The collections survive, everything else starts over. *)
Restart ==
    /\ "restart" \in Faults
    /\ connected' = FALSE
    /\ active' = "CodeChunk"
    /\ shadow' = NoShadow
    /\ past' = <<>>
    /\ busy' = FALSE
    /\ job' = NoJob
    /\ call' = [c \in Callers |-> NoCall]
    /\ sync' = NoSync
    /\ UNCHANGED <<snapshot, docs>>

Trees == (SUBSET Symbols) \ {{}}

Request ==
    \/ \E tree \in Trees : Index(tree)
    \/ Replay \/ ReplayEmpty
    \/ SemanticOnly
    \/ \E tree \in Trees, touched \in SUBSET Symbols : BeginSync(tree, touched)

Thread ==
    \/ Skip \/ Begin
    \/ \E s \in Symbols : Upload(s)
    \/ Commit \/ End

SyncStep ==
    \/ DeleteGone
    \/ \E s \in Symbols : Embed(s)
    \/ Insert \/ EndSync

Next ==
    \/ Query
    \/ Request
    \/ \E c \in Callers : Start(c)
    \/ Thread
    \/ Fail
    \/ SyncStep
    \/ Rollback
    \/ Restart

Spec == Init /\ [][Next]_vars

(* The rebuild thread runs to its end; nothing else has to happen. *)
FairSpec == Spec /\ WF_vars(Thread)

-----------------------------------------------------------------------------
(* Properties                                                              *)

(* Every variable holds a value the code can put there. *)
TypeOK ==
    /\ snapshot \in SUBSET Symbols
    /\ docs \in [Names -> SUBSET Symbols]
    /\ connected \in BOOLEAN
    /\ active \in Names
    /\ shadow \in Names \cup {NoShadow}
    /\ past \in Seq(Names)
    /\ busy \in BOOLEAN
    /\ job \in [phase : {"none", "waiting", "uploading", "ending"},
                want : SUBSET Symbols, todo : SUBSET Symbols, force : BOOLEAN]
    /\ call \in [Callers -> [phase : {"idle", "loaded", "removing", "patching"},
                             want : SUBSET Symbols, force : BOOLEAN]]
    /\ sync \in [drop : SUBSET Symbols, todo : SUBSET Symbols,
                 batch : SUBSET Symbols, into : Names \cup {NoShadow}]
    /\ sync.batch # {} => sync.into \in Names
    /\ job.phase = "uploading" => shadow \in Names

(* The collection being filled is never the one that is searched           *)
(* (ADR-003), as long as nobody rolls back or restarts.                    *)
ShadowUnseen == shadow # active

(* Zero-downtime rebuild of the semantic index (docs/operations.md,        *)
(* ADR-003): searches see the old collection until the new one is          *)
(* complete, and every change they see goes towards the snapshot.          *)
View == INSTANCE PublishedIndex WITH view <- docs[Served], truth <- snapshot

PublishesAtomically == View!Spec

(* Once a rebuild has been committed, and as long as none that failed has  *)
(* left its shadow behind, the searched documents are, at rest, those of   *)
(* the snapshot: the sync's deletions and writes reach the collection that *)
(* is searched (delete_chunks: no symbol stays "searchable forever").      *)
SearchesSnapshot ==
    Quiet /\ past # <<>> /\ shadow = NoShadow => docs[Served] = snapshot

(* A rebuild in progress ends whatever happens to it, so that later ones   *)
(* are not passed over for good.                                           *)
RebuildEnds == busy ~> ~ busy

(* ADR-003: "Queries must not return empty results during rebuild": no     *)
(* step of the rebuild thread empties what is searched.                    *)
RebuildKeepsServing ==
    [][Thread /\ docs[Served] # {} => docs'[Served'] # {}]_vars
=============================================================================
