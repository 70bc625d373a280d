------------------------------ MODULE TreeSync ------------------------------
(***************************************************************************)
(* The incremental ingest of a repository (git_ingestor.py and             *)
(* incremental_update_symbols): from the commits of the working tree to    *)
(* the snapshot's rows, its edges and its commit pointer, and from there   *)
(* to the live graph.  The content of a file is the symbols it defines,    *)
(* each with the names it calls; a file that defines none is as absent.    *)
(* What a name resolves to depends on every file of the snapshot.          *)
(***************************************************************************)
EXTENDS ResolutionScope, Sequences

CONSTANTS
    Files,
    NameIn,      \* symbol -> the name it is called by
    Contents,    \* the contents a file may have: symbol -> the names it calls
    First,       \* the tree the first index finds
    CommitsIn    \* bound: for each set of conditions considered, the commits

SyncConditions ==
    {"pull",    \* the working tree moves while an incremental ingest runs
     "crash",   \* an ingest dies between two of its writes
     "rename",  \* commits that move a file
     "shared"}  \* two files that define the same symbol

VARIABLES
    given,  \* the conditions of this behavior
    tree,   \* the commits pulled so far: what each file contains
    snap,   \* the active snapshot: rows by file, edges, last_indexed_commit
    live,   \* the graph that is served: ids with metadata, edges
    job     \* the ingest under way

syncVars == <<given, tree, snap, live, job>>

Head1 == Len(tree)  \* git rev-parse HEAD
Absent == [s \in {} |-> {}]
Defined(rows) == UNION {DOMAIN rows[f] : f \in Files}
\* _build_name_index: the entries of a name
NameIndex(n, rows) == {e \in Files \X Defined(rows) : e[2] \in DOMAIN rows[e[1]] /\ NameIn[e[2]] = n}
\* extraction, for the symbols of some files: a name called becomes edges to what it
\* resolves to, which is always a symbol of the rows
EdgesOf(fs, rows) ==
    {e \in Defined(rows) \X Defined(rows) :
        e[1] # e[2] /\ \E f \in fs : e[1] \in DOMAIN rows[f] /\
            \E n \in rows[f][e[1]] : e[2] \in Nearest(NameIndex(n, rows), f)}

NoJob == [at |-> "idle", to |-> 0, files |-> {}, new |-> [f \in {} |-> Absent],
          gone |-> {}, deleted |-> {}]

Trees == [Files -> Contents]
OneFile(t) == \A f, g \in Files : f # g => DOMAIN t[f] \cap DOMAIN t[g] = {}
\* The first commit is a tree, with no symbol in two files.
FirstTree == First \in Trees /\ OneFile(First)

Legal(t) == "shared" \in given \/ OneFile(t)

SyncInit ==
    /\ given \in DOMAIN CommitsIn
    /\ tree = <<First>>
    /\ snap = [rows |-> [f \in Files |-> Absent], edges |-> {}, commit |-> 0]
    /\ live = [ids |-> {}, edges |-> {}]
    /\ job = NoJob

Moved(t, u, f, g) ==
    f # g /\ t[f] # Absent /\ t[g] = Absent /\ u[g] = t[f] /\ u[f] = Absent

\* git pull
Pull ==
    /\ Head1 <= CommitsIn[given]
    /\ job = NoJob \/ "pull" \in given
    /\ \E t \in [Files -> Contents] :
          /\ Cardinality({f \in Files : t[f] # tree[Head1][f]}) \in 1 .. 2
          /\ Legal(t)
          /\ "rename" \in given \/ ~\E i \in 1 .. Head1, f, g \in Files : Moved(tree[i], t, f, g)
          /\ tree' = Append(tree, t)
    /\ UNCHANGED <<given, snap, live, job>>

\* get_changed_files: git diff --name-only, which names a moved file by its new name only
Diff(a, b) ==
    {f \in Files : tree[a][f] # tree[b][f] /\ ~\E g \in Files : Moved(tree[a], tree[b], f, g)}
\* get_deleted_files: --diff-filter=D
Deletions(a, b) == {f \in Diff(a, b) : tree[b][f] = Absent}

DirectOnly(changed) == {changed}
\* _expand_with_dependents: the files of the callers in the graph of what changed; of a
\* symbol in two files one is known.
Expand(changed) ==
    LET hit     == UNION {DOMAIN snap.rows[f] : f \in changed}
        callers == {s \in Defined(snap.rows) : \E t \in hit : <<s, t>> \in live.edges}
        fileOf  == {p \in [callers -> Files] : \A s \in callers : s \in DOMAIN snap.rows[p[s]]}
    IN  {changed \cup {p[s] : s \in callers} : p \in fileOf}

\* _index_rust_repository_locked: the snapshot of the whole tree
IndexOf(t) == [rows |-> t, edges |-> EdgesOf(Files, t), commit |-> Head1]

\* No commit is known: everything is indexed.
FullIndex ==
    /\ job = NoJob /\ snap.commit = 0
    /\ snap' = IndexOf(tree[Head1])
    /\ live' = [ids |-> Defined(tree[Head1]), edges |-> EdgesOf(Files, tree[Head1])]
    /\ UNCHANGED <<given, tree, job>>

\* ingest_incremental reads the head; when it is the last one indexed there is nothing to do.
ReadHead ==
    /\ job = NoJob /\ snap.commit # 0 /\ snap.commit # Head1
    /\ job' = [NoJob EXCEPT !.at = "diff", !.to = Head1]
    /\ UNCHANGED <<given, tree, snap, live>>

ReadDiff ==
    /\ job.at = "diff"
    /\ job' = [job EXCEPT !.at = "deleted", !.files = Diff(snap.commit, Head1)]
    /\ UNCHANGED <<given, tree, snap, live>>

\* The second call of git, which may see another head than the first.
ReadDeleted ==
    /\ job.at = "deleted"
    /\ LET gone == Deletions(snap.commit, Head1)
       IN  IF job.files = {} /\ gone = {}
           THEN snap' = [snap EXCEPT !.commit = job.to] /\ job' = NoJob
           ELSE /\ \E fs \in Expand(job.files) :
                      job' = [job EXCEPT !.at = IF fs = {} THEN "point" ELSE "read",
                                         !.files = fs, !.deleted = gone]
                /\ UNCHANGED snap
    /\ UNCHANGED <<given, tree, live>>

\* Symbols a modified file used to define; the unit of removal is the symbol in that file.
GoneFrom(f) == DOMAIN snap.rows[f] \ DOMAIN job.new[f]
Gone == UNION {GoneFrom(f) : f \in job.files}
Rewritten == UNION {DOMAIN job.new[f] : f \in job.files}
NewRows == [f \in Files |-> IF f \in job.files THEN job.new[f] ELSE snap.rows[f]]

\* The files are read one after the other.
ReadFile ==
    /\ job.at = "read"
    /\ \E f \in job.files \ DOMAIN job.new :
          LET read == DOMAIN job.new \cup {f}
          IN  job' = [job EXCEPT !.at = IF read = job.files THEN "store" ELSE "read",
                                 !.new = [p \in read |-> IF p = f THEN tree[Head1][f] ELSE job.new[p]]]
    /\ UNCHANGED <<given, tree, snap, live>>

KeptAll == {e \in snap.edges : e[1] \notin Rewritten \cup Gone}
\* Edges into modified symbols survive: their callers did not change.
Kept == {e \in snap.edges : e[1] \notin Rewritten \cup Gone /\ e[2] \notin Gone}

\* update_incremental, with the head as it is by now
StoreSnapshot ==
    /\ job.at = "store"
    /\ snap' = [rows |-> NewRows, edges |-> Kept \cup EdgesOf(job.files, NewRows), commit |-> Head1]
    /\ job' = [job EXCEPT !.at = "remove", !.gone = Gone]
    /\ UNCHANGED <<given, tree, live>>

UpsertOnly ==
    /\ job.at = "remove"
    /\ job' = [job EXCEPT !.at = "upsert"]
    /\ UNCHANGED <<given, tree, snap, live>>
\* graph_index.remove_symbols: by id, in whatever file
RemoveGone ==
    /\ job.at = "remove"
    /\ live' = [ids |-> live.ids \ job.gone,
                edges |-> {e \in live.edges : {e[1], e[2]} \cap job.gone = {}}]
    /\ job' = [job EXCEPT !.at = "upsert"]
    /\ UNCHANGED <<given, tree, snap>>

UpsertLive ==
    /\ job.at = "upsert"
    /\ live' = [ids |-> live.ids \cup Rewritten,
                edges |-> {e \in live.edges : e[1] \notin Rewritten} \cup EdgesOf(job.files, snap.rows)]
    /\ job' = [job EXCEPT !.at = "point"]
    /\ UNCHANGED <<given, tree, snap>>

\* _remove_file_chunks of a file git named as deleted: the rows it has by now go; of the
\* edges those whose source id starts with the file's path, which no id does.
DropFile ==
    /\ job.at = "point"
    /\ \E f \in job.deleted :
          /\ snap' = [snap EXCEPT !.rows[f] = Absent]
          /\ job' = [job EXCEPT !.deleted = @ \ {f}]
    /\ UNCHANGED <<given, tree, live>>

PointAtHead ==
    /\ job.at = "point" /\ job.deleted = {}
    /\ snap' = [snap EXCEPT !.commit = Head1]
    /\ job' = NoJob
    /\ UNCHANGED <<given, tree, live>>
\* _update_last_commit, with the head that was read at the start
Point ==
    /\ job.at = "point" /\ job.deleted = {}
    /\ snap' = [snap EXCEPT !.commit = job.to]
    /\ job' = NoJob
    /\ UNCHANGED <<given, tree, live>>

IngestDies ==
    /\ "crash" \in given /\ job # NoJob
    /\ job' = NoJob
    /\ UNCHANGED <<given, tree, snap, live>>

\* get_index_meta: up_to_date compares the pointer with the head, and hashes of the symbols
\* of the snapshot and of the graph; no edges.
UpToDate == snap.commit = Head1 /\ live.ids = Defined(snap.rows)

SyncNext ==
    \/ Pull \/ FullIndex
    \/ ReadHead \/ ReadDiff \/ ReadDeleted \/ ReadFile
    \/ StoreSnapshot \/ RemoveGone \/ UpsertLive \/ DropFile \/ Point
    \/ IngestDies

SyncSpec == SyncInit /\ [][SyncNext]_syncVars

(***************************************************************************)
(* Properties                                                              *)
(***************************************************************************)
\* "a pathless id shared by two files loses only the row for the file it disappeared from"
\* (indexing_service.py:1085), and no other row is lost or left behind: a snapshot that
\* says it is of the head has the rows a full index would have, as long as no file moves:
\* after a crash, and after commits pulled between any two steps of an incremental ingest,
\* when these do not bring a file back to what it was and no ingest dies as well.
NoReturns ==
    \A i, j, k \in 1 .. Head1 : i < j /\ j < k =>
        \A f \in Files : tree[i][f] = tree[k][f] => tree[j][f] = tree[i][f]
Steady == "rename" \notin given /\ ("pull" \in given => "crash" \notin given /\ NoReturns)
RowsOfHead == (job = NoJob /\ snap.commit = Head1 /\ Steady) => snap.rows = tree[Head1]

\* Of an unchanged caller the edges are those of an earlier tree, in which its names may
\* have resolved otherwise.  Yet no edge is left to a symbol that is gone, or from a caller
\* that no longer calls a symbol of that name, wherever an ingest dies and whatever files
\* move or share symbols; unless the tree moves under an ingest, which may then drop the
\* rows of a file that is back and keep the edges into them.
EdgesByName(rows) ==
    {e \in Defined(rows) \X Defined(rows) :
        \E f \in Files : e[1] \in DOMAIN rows[f] /\ NameIn[e[2]] \in rows[f][e[1]]}
NoPhantomEdges == "pull" \notin given => snap.edges \subseteq EdgesByName(snap.rows)

\* An ingest never loses an edge it had and a full index would have, when its target is rewritten
\* or moves to another file: the callers are extracted again.
NoEdgeLost ==
    [][(given = {} /\ snap' # snap) =>
          snap.edges \cap EdgesOf(Files, snap'.rows) \subseteq snap'.edges]_syncVars

\* At rest the graph has the snapshot's symbols and its edges.  After a crash that may fail,
\* but up_to_date "makes 'up to date' mean the symbol set really matches"
\* (graph_read_tools.py:2189): it is never claimed of a graph without the head's symbols.
GraphOfSnapshot ==
    job = NoJob =>
        /\ given = {} => live.ids = Defined(snap.rows) /\ live.edges = snap.edges
        /\ UpToDate /\ Steady => live.ids = Defined(tree[Head1])
=============================================================================
