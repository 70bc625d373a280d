---------------------------- MODULE SourceProofs ----------------------------
(***************************************************************************)
(* What becomes of source code in the index.  An incremental ingest leaves *)
(* behind what a full index would: the rows of the head, no edge too many, *)
(* no edge too few, and the same in the graph that is served; for any      *)
(* files, contents and sequence of commits.  A SCIP index of whatever age  *)
(* neither empties what the patterns found nor leads astray.               *)
(***************************************************************************)
EXTENDS TreeSync, NameResolution, SequenceTheorems, TLAPS

Syms == UNION {DOMAIN c : c \in Contents}

Phases == {"idle", "diff", "deleted", "read", "store", "remove", "upsert", "point"}
Jobs == [at : Phases, to : Nat, files : SUBSET Files,
         new : UNION {[fs -> Contents] : fs \in SUBSET Files}, gone : SUBSET Syms,
         deleted : SUBSET Files]

SyncType ==
    /\ tree \in Seq(Trees) /\ Head1 >= 1
    /\ snap \in [rows : [Files -> Contents \cup {Absent}], edges : SUBSET (Syms \X Syms), commit : Nat]
    /\ live \in [ids : SUBSET Syms, edges : SUBSET (Syms \X Syms)]
    /\ job \in Jobs
    /\ job.at = "idle" <=> job = NoJob
    /\ job.at \in {"store", "remove", "upsert"} => DOMAIN job.new = job.files

(***************************************************************************)
(* Operators                                                               *)
(***************************************************************************)
LEMMA NearestAmong ==
    ASSUME NEW entries, NEW f
    PROVE  \A s \in Nearest(entries, f) : \E e \in entries : e[2] = s
BY DEF Nearest

LEMMA DefinedSyms ==
    ASSUME NEW rows \in [Files -> Contents \cup {Absent}]
    PROVE  /\ Defined(rows) \subseteq Syms
           /\ \A f \in Files : DOMAIN rows[f] \subseteq Defined(rows)
           /\ \A s \in Defined(rows) : \E f \in Files : s \in DOMAIN rows[f]
<1>1. DOMAIN Absent = {}
    BY DEF Absent
<1>2. \A f \in Files : DOMAIN rows[f] \subseteq Syms
  <2> TAKE f \in Files
  <2>1. rows[f] \in Contents \/ rows[f] = Absent
      OBVIOUS
  <2>2. QED BY <1>1, <2>1 DEF Syms
<1>3. Defined(rows) \subseteq Syms
    BY <1>2 DEF Defined
<1>4. QED BY <1>3 DEF Defined

LEMMA EdgesTyped ==
    ASSUME NEW rows \in [Files -> Contents \cup {Absent}], NEW fs \in SUBSET Files
    PROVE  /\ EdgesOf(fs, rows) \subseteq Syms \X Syms
           /\ EdgesOf(fs, rows) \subseteq EdgesOf(Files, rows)
BY DefinedSyms DEF EdgesOf

\* Whatever a name resolves to has that name.
LEMMA EdgesNamed ==
    ASSUME NEW rows, NEW fs \in SUBSET Files
    PROVE  EdgesOf(fs, rows) \subseteq EdgesByName(rows)
<1> SUFFICES ASSUME NEW e \in EdgesOf(fs, rows) PROVE e \in EdgesByName(rows)
    OBVIOUS
<1>1. PICK f \in fs : e[1] \in DOMAIN rows[f] /\
         \E n \in rows[f][e[1]] : e[2] \in Nearest(NameIndex(n, rows), f)
    BY DEF EdgesOf
<1>2. PICK n \in rows[f][e[1]] : e[2] \in Nearest(NameIndex(n, rows), f)
    BY <1>1
<1>3. NameIn[e[2]] = n
    BY <1>2, NearestAmong DEF NameIndex
<1>4. e \in Defined(rows) \X Defined(rows)
    BY DEF EdgesOf
<1>5. QED BY <1>1, <1>2, <1>3, <1>4 DEF EdgesByName

LEMMA ExpandFiles ==
    ASSUME NEW changed \in SUBSET Files, NEW fs \in Expand(changed)
    PROVE  changed \subseteq fs /\ fs \subseteq Files
<1> DEFINE hit == UNION {DOMAIN snap.rows[f] : f \in changed}
           callers == {s \in Defined(snap.rows) : \E t \in hit : <<s, t>> \in live.edges}
<1>1. \E p \in [callers -> Files] : fs = changed \cup {p[s] : s \in callers}
    BY DEF Expand
<1> HIDE DEF callers
<1>2. QED BY <1>1

\* The rows a sync is about to write, and the symbols they gain and lose.
LEMMA NewRowsTyped ==
    ASSUME SyncType, job.at = "store"
    PROVE  /\ NewRows \in [Files -> Contents \cup {Absent}]
           /\ \A f \in job.files : NewRows[f] = job.new[f]
           /\ \A f \in Files \ job.files : NewRows[f] = snap.rows[f]
BY DEF SyncType, Jobs, NewRows

\* A symbol that is neither modified nor gone is defined where it was, out of the sync.
LEMMA Untouched ==
    ASSUME SyncType, job.at = "store", NEW f \in Files, NEW s \in DOMAIN snap.rows[f],
           s \notin Rewritten \cup Gone
    PROVE  f \notin job.files
BY DEF Rewritten, Gone, GoneFrom

LEMMA NotGoneStays ==
    ASSUME SyncType, job.at = "store", NEW f \in Files, NEW s \in DOMAIN snap.rows[f],
           s \notin Gone
    PROVE  s \in DOMAIN NewRows[f]
BY NewRowsTyped DEF Gone, GoneFrom

\* A file is read after the others.
LEMMA FileRead ==
    ASSUME SyncType, ReadFile
    PROVE  \E f \in job.files \ DOMAIN job.new :
             LET read == DOMAIN job.new \cup {f}
             IN  /\ job'.new = [p \in read |-> IF p = f THEN tree[Head1][f] ELSE job.new[p]]
                 /\ DOMAIN job'.new = read
                 /\ job'.at = IF read = job.files THEN "store" ELSE "read"
                 /\ job'.to = job.to /\ job'.files = job.files /\ job'.gone = job.gone
                 /\ job'.deleted = job.deleted
                 /\ job.at = "read" /\ UNCHANGED <<given, tree, snap, live>>
BY DEF SyncType, Jobs, ReadFile

(***************************************************************************)
(* Types                                                                   *)
(***************************************************************************)
LEMMA NoJobTyped == NoJob \in Jobs /\ NoJob.at = "idle"
<1> DEFINE none == [f \in {} |-> Absent]
<1>1. none \in [{} -> Contents]
    OBVIOUS
<1>2. none \in UNION {[fs -> Contents] : fs \in SUBSET Files}
    BY <1>1
<1>3. NoJob = [at |-> "idle", to |-> 0, files |-> {}, new |-> none, gone |-> {}, deleted |-> {}]
    BY DEF NoJob
<1> HIDE DEF none
<1>4. QED BY <1>2, <1>3 DEF Jobs, Phases

LEMMA SyncTypeInit == FirstTree /\ SyncInit => SyncType
<1> SUFFICES ASSUME FirstTree, SyncInit PROVE SyncType
    OBVIOUS
<1>1. tree \in Seq(Trees) /\ Head1 >= 1
    BY DEF SyncInit, FirstTree, Head1
<1>2. NoJob \in Jobs /\ NoJob.at = "idle"
    BY NoJobTyped
<1>3. QED BY <1>1, <1>2 DEF SyncInit, SyncType

LEMMA TypeStep == SyncType /\ [SyncNext]_syncVars => SyncType'
<1> SUFFICES ASSUME SyncType, [SyncNext]_syncVars PROVE SyncType'
    OBVIOUS
<1>0. NoJob \in Jobs /\ NoJob.at = "idle"
    BY NoJobTyped
<1>a. ASSUME UNCHANGED <<tree, snap, live>>, job' \in Jobs, job'.at = "idle" <=> job' = NoJob,
             job'.at \in {"store", "remove", "upsert"} => DOMAIN job'.new = job'.files
      PROVE  SyncType'
    BY <1>a DEF SyncType, Head1
<1>1. CASE Pull
  <2>1. PICK t \in Trees : tree' = Append(tree, t)
      BY <1>1 DEF Pull, Trees
  <2>2. tree' \in Seq(Trees) /\ Len(tree') = Len(tree) + 1
      BY <2>1 DEF SyncType
  <2>3. UNCHANGED <<snap, live, job>>
      BY <1>1 DEF Pull
  <2>4. QED BY <2>2, <2>3 DEF SyncType, Head1
<1>2. CASE FullIndex
  <2>1. Head1 \in 1 .. Len(tree) /\ tree[Head1] \in Trees
      BY DEF SyncType, Head1
  <2>2. tree[Head1] \in [Files -> Contents \cup {Absent}]
      BY <2>1 DEF Trees
  <2>3. /\ Defined(tree[Head1]) \subseteq Syms
        /\ EdgesOf(Files, tree[Head1]) \subseteq Syms \X Syms
      BY <2>2, DefinedSyms, EdgesTyped
  <2>4. /\ snap' = [rows |-> tree[Head1], edges |-> EdgesOf(Files, tree[Head1]), commit |-> Head1]
        /\ live' = [ids |-> Defined(tree[Head1]), edges |-> EdgesOf(Files, tree[Head1])]
        /\ UNCHANGED <<tree, job>>
      BY <1>2 DEF FullIndex, IndexOf
  <2>5. QED BY <2>1, <2>2, <2>3, <2>4 DEF SyncType, Head1
<1>3. CASE ReadHead
  <2>1. job' = [NoJob EXCEPT !.at = "diff", !.to = Head1] /\ UNCHANGED <<tree, snap, live>>
      BY <1>3 DEF ReadHead
  <2>2. job' \in Jobs /\ job'.at = "diff"
    <3>1. Head1 \in Nat
        BY DEF SyncType, Head1
    <3>2. QED BY <1>0, <2>1, <3>1 DEF Jobs, Phases
  <2>3. QED BY <1>0, <1>a, <2>1, <2>2
<1>4. CASE ReadDiff
  <2>1. /\ job' = [job EXCEPT !.at = "deleted", !.files = Diff(snap.commit, Head1)]
        /\ UNCHANGED <<tree, snap, live>>
      BY <1>4 DEF ReadDiff
  <2>2. Diff(snap.commit, Head1) \subseteq Files
      BY DEF Diff
  <2>3. job' \in Jobs /\ job'.at = "deleted"
      BY <2>1, <2>2 DEF SyncType, Jobs, Phases
  <2>4. QED BY <1>0, <1>a, <2>1, <2>3
<1>5. CASE ReadDeleted
  <2> DEFINE gone == Deletions(snap.commit, Head1)
  <2>1. CASE job.files = {} /\ gone = {}
    <3>1. /\ snap' = [snap EXCEPT !.commit = job.to] /\ job' = NoJob
          /\ UNCHANGED <<tree, live>>
        BY <1>5, <2>1 DEF ReadDeleted
    <3>2. job.to \in Nat
        BY DEF SyncType, Jobs
    <3>3. QED BY <1>0, <3>1, <3>2 DEF SyncType, Head1
  <2>2. CASE ~(job.files = {} /\ gone = {})
    <3>1. PICK fs \in Expand(job.files) :
             job' = [job EXCEPT !.at = IF fs = {} THEN "point" ELSE "read",
                                !.files = fs, !.deleted = gone]
        BY <1>5, <2>2 DEF ReadDeleted
    <3>2. fs \subseteq Files /\ gone \subseteq Files
        BY ExpandFiles DEF Deletions, Diff, SyncType, Jobs
    <3> HIDE DEF gone
    <3>3. job' \in Jobs /\ job'.at \in {"read", "point"}
        BY <3>1, <3>2 DEF SyncType, Jobs, Phases
    <3>4. UNCHANGED <<tree, snap, live>>
        BY <1>5, <2>2 DEF ReadDeleted, gone
    <3>5. QED BY <1>0, <1>a, <3>3, <3>4
  <2>3. QED BY <2>1, <2>2
<1>6. CASE ReadFile
  <2> DEFINE new(f) == [p \in DOMAIN job.new \cup {f} |-> IF p = f THEN tree[Head1][f] ELSE job.new[p]]
  <2>1. PICK f \in job.files \ DOMAIN job.new :
             /\ job' = [job EXCEPT !.at = IF DOMAIN job.new \cup {f} = job.files THEN "store" ELSE "read",
                                   !.new = new(f)]
             /\ UNCHANGED <<tree, snap, live>>
      BY <1>6 DEF ReadFile
  <2>2. tree[Head1] \in Trees /\ f \in Files
      BY <2>1 DEF SyncType, Head1, Jobs
  <2>3. PICK fs \in SUBSET Files : job.new \in [fs -> Contents]
      BY DEF SyncType, Jobs
  <2>4. new(f) \in [fs \cup {f} -> Contents] /\ fs \cup {f} \in SUBSET Files
      BY <2>2, <2>3 DEF Trees
  <2>5. /\ new(f) \in UNION {[gs -> Contents] : gs \in SUBSET Files}
        /\ DOMAIN new(f) = DOMAIN job.new \cup {f}
      BY <2>4
  <2> HIDE DEF new
  <2>6. /\ job' \in Jobs /\ job'.at \in {"store", "read"}
        /\ job'.at = "store" => DOMAIN job'.new = job'.files
      BY <2>1, <2>5 DEF SyncType, Jobs, Phases
  <2>7. QED BY <1>0, <1>a, <2>1, <2>6
<1>7. CASE StoreSnapshot
  <2>1. /\ job.at = "store"
        /\ snap' = [rows |-> NewRows, edges |-> Kept \cup EdgesOf(job.files, NewRows), commit |-> Head1]
        /\ job' = [job EXCEPT !.at = "remove", !.gone = Gone]
        /\ UNCHANGED <<tree, live>>
      BY <1>7 DEF StoreSnapshot
  <2>2. NewRows \in [Files -> Contents \cup {Absent}]
      BY <2>1, NewRowsTyped
  <2>3. EdgesOf(job.files, NewRows) \subseteq Syms \X Syms
      BY <2>2, EdgesTyped DEF SyncType, Jobs
  <2>4. Gone \subseteq Syms
    <3>1. \A f \in Files : DOMAIN snap.rows[f] \subseteq Syms
        BY DefinedSyms DEF SyncType
    <3>2. QED BY <3>1 DEF Gone, GoneFrom, SyncType, Jobs
  <2>5. job' \in Jobs /\ job'.at = "remove" /\ job'.files = job.files /\ job'.new = job.new
      BY <2>1, <2>4 DEF SyncType, Jobs, Phases
  <2>6. Kept \cup EdgesOf(job.files, NewRows) \in SUBSET (Syms \X Syms) /\ Head1 \in Nat
      BY <2>3 DEF SyncType, Head1, Kept
  <2>7. snap' \in [rows : [Files -> Contents \cup {Absent}], edges : SUBSET (Syms \X Syms), commit : Nat]
      BY <2>1, <2>2, <2>6
  <2>8. QED BY <1>0, <2>1, <2>5, <2>7 DEF SyncType, Head1
<1>8. CASE RemoveGone
  <2>1. /\ live' = [ids |-> live.ids \ job.gone,
                    edges |-> {e \in live.edges : {e[1], e[2]} \cap job.gone = {}}]
        /\ job.at = "remove"
        /\ job' = [job EXCEPT !.at = "upsert"] /\ UNCHANGED <<tree, snap>>
      BY <1>8 DEF RemoveGone
  <2>2. job' \in Jobs /\ job'.at = "upsert" /\ job'.files = job.files /\ job'.new = job.new
      BY <2>1 DEF SyncType, Jobs, Phases
  <2>3. live' \in [ids : SUBSET Syms, edges : SUBSET (Syms \X Syms)]
      BY <2>1 DEF SyncType
  <2>4. QED BY <1>0, <2>1, <2>2, <2>3 DEF SyncType, Head1
<1>9. CASE UpsertLive
  <2>1. /\ live' = [ids |-> live.ids \cup Rewritten,
                    edges |-> {e \in live.edges : e[1] \notin Rewritten} \cup EdgesOf(job.files, snap.rows)]
        /\ job.at = "upsert"
        /\ job' = [job EXCEPT !.at = "point"] /\ UNCHANGED <<tree, snap>>
      BY <1>9 DEF UpsertLive
  <2>2. job' \in Jobs /\ job'.at = "point"
      BY <2>1 DEF SyncType, Jobs, Phases
  <2>3. Rewritten \subseteq Syms
    <3>1. \A f \in job.files : job.new[f] \in Contents
        BY <2>1 DEF SyncType, Jobs
    <3>2. QED BY <3>1 DEF Rewritten, Syms
  <2>4. EdgesOf(job.files, snap.rows) \subseteq Syms \X Syms
      BY EdgesTyped DEF SyncType, Jobs
  <2>5. live' \in [ids : SUBSET Syms, edges : SUBSET (Syms \X Syms)]
      BY <2>1, <2>3, <2>4 DEF SyncType
  <2>6. QED BY <1>0, <2>1, <2>2, <2>5 DEF SyncType, Head1
<1>10. CASE DropFile
  <2>1. PICK f \in job.deleted : /\ snap' = [snap EXCEPT !.rows[f] = Absent]
                                 /\ job' = [job EXCEPT !.deleted = @ \ {f}]
      BY <1>10 DEF DropFile
  <2>2. job' \in Jobs /\ job'.at = "point"
      BY <1>10, <2>1 DEF DropFile, SyncType, Jobs
  <2>3. snap' \in [rows : [Files -> Contents \cup {Absent}], edges : SUBSET (Syms \X Syms), commit : Nat]
      BY <2>1 DEF SyncType
  <2>4. UNCHANGED <<tree, live>>
      BY <1>10 DEF DropFile
  <2>5. QED BY <1>0, <2>2, <2>3, <2>4 DEF SyncType, Head1
<1>11. CASE Point
  <2>1. /\ snap' = [snap EXCEPT !.commit = job.to] /\ job' = NoJob
        /\ UNCHANGED <<tree, live>>
      BY <1>11 DEF Point
  <2>2. job.to \in Nat
      BY DEF SyncType, Jobs
  <2>3. QED BY <1>0, <2>1, <2>2 DEF SyncType, Head1
<1>12. CASE IngestDies
    BY <1>0, <1>a, <1>12 DEF IngestDies
<1>13. CASE UNCHANGED syncVars
    BY <1>a, <1>13 DEF syncVars, SyncType
<1>14. QED
    BY <1>1, <1>2, <1>3, <1>4, <1>5, <1>6, <1>7, <1>8, <1>9, <1>10, <1>11, <1>12, <1>13 DEF SyncNext

(***************************************************************************)
(* No edge too many                                                        *)
(***************************************************************************)
Alone == "pull" \notin given
\* Nobody pulls: a file named as deleted has no rows left by the time they are dropped.
DropInv ==
    /\ \A f \in job.deleted : tree[Head1][f] = Absent
    /\ job.at \in {"read", "store", "remove", "upsert"} => job.deleted \subseteq job.files
    /\ job.at \in {"read", "store"} => \A f \in DOMAIN job.new : job.new[f] = tree[Head1][f]
    /\ job.at \in {"remove", "upsert", "point"} => \A f \in job.deleted : snap.rows[f] = Absent
    /\ job.at = "deleted" => job.files = Diff(snap.commit, Head1)
    /\ job.at \in {"diff", "deleted"} => job.new = NoJob.new /\ job.deleted = {}
DropKept == Alone => DropInv

LEMMA DropInit == SyncInit => DropInv
BY DEF SyncInit, DropInv, NoJob

LEMMA DropStep == SyncType /\ DropKept /\ [SyncNext]_syncVars => DropKept'
<1> SUFFICES ASSUME SyncType, DropKept, [SyncNext]_syncVars, Alone' PROVE DropInv'
    BY DEF DropKept
<1>0. Alone /\ DropInv
    BY DEF DropKept, Alone, SyncNext, syncVars, Pull, FullIndex, ReadHead, ReadDiff, ReadDeleted, ReadFile,
           StoreSnapshot, RemoveGone, UpsertLive, DropFile, Point, IngestDies
<1>b. NoJob.at = "idle" /\ NoJob.deleted = {} /\ DOMAIN NoJob.new = {} /\ (job # NoJob => job.at # "idle")
    BY DEF NoJob, SyncType
<1> USE <1>0, <1>b
<1>a. ASSUME job' = NoJob PROVE DropInv'
    BY <1>a DEF DropInv
<1>1. CASE Pull
    BY <1>1, <1>a DEF Pull, Alone
<1>2. CASE FullIndex
    BY <1>2, <1>a DEF FullIndex
<1>3. CASE ReadHead
  <2>1. job' = [NoJob EXCEPT !.at = "diff", !.to = Head1]
      BY <1>3 DEF ReadHead
  <2>2. job'.at = "diff" /\ job'.new = NoJob.new /\ job'.deleted = {}
      BY <2>1 DEF NoJob
  <2>3. QED BY <2>2 DEF DropInv
<1>4. CASE ReadDiff
  <2>1. /\ job.at = "diff" /\ UNCHANGED <<tree, snap>>
        /\ job' = [job EXCEPT !.at = "deleted", !.files = Diff(snap.commit, Head1)]
      BY <1>4 DEF ReadDiff
  <2>2. /\ job'.at = "deleted" /\ job'.new = job.new /\ job'.deleted = job.deleted
        /\ job'.files = Diff(snap.commit, Head1)
      BY <2>1 DEF SyncType, Jobs
  <2>3. QED BY <2>1, <2>2 DEF DropInv, Diff, Head1
<1>5. CASE ReadDeleted
  <2> DEFINE gone == Deletions(snap.commit, Head1)
  <2>1. CASE job.files = {} /\ gone = {}
      BY <1>5, <1>a, <2>1 DEF ReadDeleted
  <2>2. CASE ~(job.files = {} /\ gone = {})
    <3>1. PICK fs \in Expand(job.files) :
             job' = [job EXCEPT !.at = IF fs = {} THEN "point" ELSE "read",
                                !.files = fs, !.deleted = gone]
        BY <1>5, <2>2 DEF ReadDeleted
    <3>2. job.files \subseteq fs
        BY ExpandFiles DEF SyncType, Jobs
    <3>3. gone \subseteq job.files /\ \A f \in gone : tree[Head1][f] = Absent
        BY <1>5 DEF ReadDeleted, DropInv, Deletions
    <3> HIDE DEF gone
    <3>4. /\ job'.at = IF fs = {} THEN "point" ELSE "read"
          /\ job'.files = fs /\ job'.deleted = gone /\ job'.new = job.new
        BY <3>1 DEF SyncType, Jobs
    <3>5. UNCHANGED <<tree, snap>> /\ DOMAIN job.new = {}
        BY <1>5, <2>2 DEF ReadDeleted, gone, DropInv
    <3>6. fs = {} => gone = {}
        BY <3>2, <3>3
    <3>7. QED BY <3>2, <3>3, <3>4, <3>5, <3>6 DEF DropInv, Head1
  <2>3. QED BY <2>1, <2>2
<1>6. CASE ReadFile
  <2>1. PICK f \in job.files \ DOMAIN job.new :
           LET read == DOMAIN job.new \cup {f}
           IN  /\ job'.new = [p \in read |-> IF p = f THEN tree[Head1][f] ELSE job.new[p]]
               /\ DOMAIN job'.new = read
               /\ job'.at = IF read = job.files THEN "store" ELSE "read"
               /\ job'.to = job.to /\ job'.files = job.files /\ job'.gone = job.gone
               /\ job'.deleted = job.deleted
               /\ job.at = "read" /\ UNCHANGED <<given, tree, snap, live>>
      BY <1>6, FileRead
  <2>2. \A p \in DOMAIN job'.new : job'.new[p] = tree[Head1][p]
      BY <2>1 DEF DropInv
  <2>3. job'.at \in {"store", "read"}
      BY <2>1
  <2>4. QED BY <2>1, <2>2, <2>3 DEF DropInv, Head1
<1>7. CASE StoreSnapshot
  <2>1. /\ job.at = "store" /\ snap'.rows = NewRows
        /\ job' = [job EXCEPT !.at = "remove", !.gone = Gone]
        /\ tree' = tree
      BY <1>7 DEF StoreSnapshot
  <2>2. job'.at = "remove" /\ job'.files = job.files /\ job'.new = job.new /\ job'.deleted = job.deleted
      BY <2>1 DEF SyncType, Jobs
  <2>3. \A f \in job.deleted : NewRows[f] = Absent
      BY <2>1, NewRowsTyped DEF DropInv, SyncType
  <2>4. QED BY <2>1, <2>2, <2>3 DEF DropInv, Head1
<1>8. CASE RemoveGone \/ UpsertLive
  <2>1. /\ job.at \in {"remove", "upsert"} /\ UNCHANGED <<tree, snap>>
        /\ job' = [job EXCEPT !.at = "upsert"] \/ job' = [job EXCEPT !.at = "point"]
      BY <1>8 DEF RemoveGone, UpsertLive
  <2>2. /\ job'.at \in {"upsert", "point"} /\ job'.files = job.files /\ job'.new = job.new
        /\ job'.deleted = job.deleted
      BY <2>1 DEF SyncType, Jobs
  <2>3. QED BY <2>1, <2>2 DEF DropInv, Head1
<1>9. CASE DropFile
  <2>1. PICK f \in job.deleted : /\ snap' = [snap EXCEPT !.rows[f] = Absent]
                                 /\ job' = [job EXCEPT !.deleted = @ \ {f}]
      BY <1>9 DEF DropFile
  <2>2. job'.at = "point" /\ job'.deleted \subseteq job.deleted /\ tree' = tree /\ job.at = "point"
      BY <1>9, <2>1 DEF DropFile, SyncType, Jobs
  <2>3. \A g \in job.deleted : snap'.rows[g] = Absent
      BY <2>1, <2>2 DEF SyncType, Jobs, DropInv
  <2>4. QED BY <2>2, <2>3 DEF DropInv, Head1
<1>10. CASE Point \/ IngestDies
    BY <1>10, <1>a DEF Point, IngestDies
<1>11. CASE UNCHANGED syncVars
    BY <1>11 DEF syncVars, DropInv, Head1, Diff
<1>12. QED
    BY <1>1, <1>2, <1>3, <1>4, <1>5, <1>6, <1>7, <1>8, <1>9, <1>10, <1>11 DEF SyncNext

\* Nobody pulls: the rows that are dropped are gone already.
LEMMA NothingDropped ==
    ASSUME SyncType, DropInv, DropFile
    PROVE  snap' = snap
<1>1. PICK f \in job.deleted : snap' = [snap EXCEPT !.rows[f] = Absent]
    BY DEF DropFile
<1>2. snap.rows[f] = Absent /\ f \in Files
    BY DEF DropInv, DropFile, SyncType, Jobs
<1>3. [snap.rows EXCEPT ![f] = Absent] = snap.rows
    BY <1>2 DEF SyncType
<1>4. QED BY <1>1, <1>3 DEF SyncType

LEMMA StoreNamed ==
    ASSUME SyncType, snap.edges \subseteq EdgesByName(snap.rows), job.at = "store"
    PROVE  Kept \cup EdgesOf(job.files, NewRows) \subseteq EdgesByName(NewRows)
<1>1. EdgesOf(job.files, NewRows) \subseteq EdgesByName(NewRows)
    BY EdgesNamed DEF SyncType, Jobs
<1>2. ASSUME NEW e \in Kept PROVE e \in EdgesByName(NewRows)
  <2>1. /\ e \in EdgesByName(snap.rows)
        /\ e[1] \notin Rewritten \cup Gone /\ e[2] \notin Gone
      BY <1>2 DEF Kept
  <2>2. PICK f \in Files : e[1] \in DOMAIN snap.rows[f] /\ NameIn[e[2]] \in snap.rows[f][e[1]]
      BY <2>1 DEF EdgesByName
  <2>3. NewRows[f] = snap.rows[f]
      BY <2>1, <2>2, Untouched, NewRowsTyped
  <2>4. PICK g \in Files : e[2] \in DOMAIN snap.rows[g]
      BY <2>1 DEF EdgesByName, Defined
  <2>5. e[2] \in DOMAIN NewRows[g]
      BY <2>1, <2>4, NotGoneStays
  <2>6. e[1] \in Defined(NewRows) /\ e[2] \in Defined(NewRows)
      BY <2>2, <2>3, <2>5 DEF Defined
  <2>7. e = <<e[1], e[2]>>
      BY <2>1 DEF EdgesByName
  <2>8. QED BY <2>2, <2>3, <2>6, <2>7 DEF EdgesByName
<1>3. QED BY <1>1, <1>2

LEMMA PhantomInit == SyncInit => NoPhantomEdges
BY DEF SyncInit, NoPhantomEdges

LEMMA PhantomStep ==
    SyncType /\ DropKept /\ NoPhantomEdges /\ [SyncNext]_syncVars => NoPhantomEdges'
<1> SUFFICES ASSUME SyncType, DropKept, NoPhantomEdges, [SyncNext]_syncVars, Alone'
             PROVE  snap'.edges \subseteq EdgesByName(snap'.rows)
    BY DEF NoPhantomEdges, Alone, EdgesByName, Defined
<1>0. Alone /\ DropInv /\ snap.edges \subseteq EdgesByName(snap.rows)
    BY DEF DropKept, NoPhantomEdges, Alone, SyncNext, syncVars, Pull, FullIndex, ReadHead, ReadDiff,
           ReadDeleted, ReadFile, StoreSnapshot, RemoveGone, UpsertLive, DropFile, Point, IngestDies
<1>a. ASSUME snap'.edges = snap.edges, snap'.rows = snap.rows
      PROVE  snap'.edges \subseteq EdgesByName(snap'.rows)
    BY <1>0, <1>a
<1>1. CASE FullIndex
    BY <1>1, EdgesNamed DEF FullIndex, IndexOf
<1>2. CASE StoreSnapshot
  <2>1. job.at = "store" /\ snap'.rows = NewRows /\ snap'.edges = Kept \cup EdgesOf(job.files, NewRows)
      BY <1>2 DEF StoreSnapshot
  <2>2. QED BY <1>0, <2>1, StoreNamed
<1>3. CASE DropFile
    BY <1>0, <1>3, <1>a, NothingDropped
<1>4. CASE ReadDeleted \/ Point
    BY <1>4, <1>a DEF ReadDeleted, Point, SyncType
<1>5. CASE \/ Pull \/ ReadHead \/ ReadDiff \/ ReadFile \/ RemoveGone \/ UpsertLive \/ IngestDies
           \/ UNCHANGED syncVars
    BY <1>5, <1>a DEF Pull, ReadHead, ReadDiff, ReadFile, RemoveGone, UpsertLive, IngestDies, syncVars
<1>6. QED BY <1>1, <1>2, <1>3, <1>4, <1>5 DEF SyncNext

\* The snapshot never has an edge to a symbol that is gone, or from a caller that calls nothing
\* of that name any more, whatever files move and wherever an ingest dies, as long as nobody
\* pulls during an ingest.
THEOREM NoEdgeTooMany == FirstTree /\ SyncSpec => []NoPhantomEdges
<1>1. FirstTree /\ SyncInit => SyncType /\ DropKept /\ NoPhantomEdges
    BY SyncTypeInit, DropInit, PhantomInit DEF DropKept
<1>2. SyncType /\ DropKept /\ NoPhantomEdges /\ [SyncNext]_syncVars
         => SyncType' /\ DropKept' /\ NoPhantomEdges'
    BY TypeStep, DropStep, PhantomStep
<1>3. QED BY <1>1, <1>2, PTL DEF SyncSpec

(***************************************************************************)
(* The rows of the head                                                    *)
(***************************************************************************)
Still == given \cap {"pull", "rename"} = {}
NoMoves ==
    \A i, j \in 1 .. Head1 : i < j => ~\E f, g \in Files : Moved(tree[i], tree[j], f, g)
RowInv ==
    /\ NoMoves
    /\ snap.commit \in 0 .. Head1
    /\ snap.commit # 0 => snap.rows = tree[snap.commit]
    /\ job # NoJob => job.to = Head1 /\ snap.commit # 0
    \* the files of a sync are at least those that differ from the head
    /\ job.at \in {"deleted", "read", "store"} => Diff(snap.commit, Head1) \subseteq job.files
    /\ job.at \in {"remove", "upsert", "point"} => snap.commit = Head1
RowKept == Still => RowInv

LEMMA Commits == SyncType => \A i \in 1 .. Head1 : tree[i] \in Trees
BY DEF SyncType, Head1

\* When no file moves, a file that git diff does not name is the same in both commits.
LEMMA DiffNames ==
    ASSUME NoMoves, NEW i \in 1 .. Head1, i # Head1, Head1 \in Nat, NEW f \in Files \ Diff(i, Head1)
    PROVE  tree[i][f] = tree[Head1][f]
<1>1. i < Head1 /\ Head1 \in 1 .. Head1
    OBVIOUS
<1>2. ~\E g \in Files : Moved(tree[i], tree[Head1], f, g)
    BY <1>1 DEF NoMoves
<1>3. QED BY <1>2 DEF Diff

LEMMA NewRowsOfHead ==
    ASSUME SyncType, DropInv, RowInv, job.at = "store"
    PROVE  NewRows = tree[Head1]
<1>1. Head1 \in Nat /\ snap.commit \in 1 .. Head1 /\ tree[Head1] \in Trees
  <2>1. job # NoJob
      BY DEF SyncType
  <2>2. QED BY <2>1, Commits DEF RowInv, SyncType, Head1
<1>2. \A f \in Files : NewRows[f] = tree[Head1][f]
  <2> TAKE f \in Files
  <2>1. CASE f \in job.files
      BY <2>1, NewRowsTyped DEF DropInv, SyncType
  <2>2. CASE f \notin job.files
    <3>1. NewRows[f] = tree[snap.commit][f]
        BY <1>1, <2>2, NewRowsTyped DEF RowInv
    <3>2. QED BY <1>1, <2>2, <3>1, DiffNames DEF RowInv
  <2>3. QED BY <2>1, <2>2
<1>3. NewRows \in [Files -> Contents \cup {Absent}]
    BY NewRowsTyped
<1>4. QED BY <1>1, <1>2, <1>3 DEF Trees

LEMMA RowInit == SyncInit => RowInv
BY DEF SyncInit, RowInv, NoMoves, Head1, NoJob

LEMMA RowStep == SyncType /\ DropKept /\ RowKept /\ [SyncNext]_syncVars => RowKept'
<1> SUFFICES ASSUME SyncType, DropKept, RowKept, [SyncNext]_syncVars, Still' PROVE RowInv'
    BY DEF RowKept
<1>0. Still /\ RowInv /\ DropInv
    BY DEF RowKept, Still, DropKept, Alone, SyncNext, syncVars, Pull, FullIndex, ReadHead, ReadDiff,
           ReadDeleted, ReadFile, StoreSnapshot, RemoveGone, UpsertLive, DropFile, Point, IngestDies
<1>a. Head1 \in Nat /\ Head1 >= 1 /\ snap.commit \in Nat
    BY DEF SyncType, Head1
<1>b. NoJob.at = "idle" /\ (job # NoJob => job.at # "idle")
    BY DEF NoJob, SyncType
<1> USE <1>0, <1>a, <1>b
<1>1. CASE Pull
  <2>1. PICK t \in Trees :
           /\ ~\E i \in 1 .. Head1, f, g \in Files : Moved(tree[i], t, f, g)
           /\ tree' = Append(tree, t)
      BY <1>1 DEF Pull, Trees, Still
  <2>2. /\ Head1' = Head1 + 1 /\ tree'[Head1 + 1] = t
        /\ \A i \in 1 .. Head1 : tree'[i] = tree[i]
      BY <2>1 DEF SyncType, Head1
  <2>3. job = NoJob /\ UNCHANGED <<snap, job>>
      BY <1>1 DEF Pull, Still
  <2>4. NoMoves'
    <3> SUFFICES ASSUME NEW i \in 1 .. Head1 + 1, NEW j \in 1 .. Head1 + 1, i < j,
                        NEW f \in Files, NEW g \in Files
                 PROVE  ~Moved(tree'[i], tree'[j], f, g)
        BY <2>2 DEF NoMoves, Moved
    <3>1. i \in 1 .. Head1 /\ tree'[i] = tree[i]
        BY <2>2
    <3>2. CASE j = Head1 + 1
        BY <2>1, <2>2, <3>1, <3>2
    <3>3. CASE j # Head1 + 1
        BY <2>2, <3>1, <3>3 DEF RowInv, NoMoves
    <3>4. QED BY <3>2, <3>3
  <2>5. QED BY <2>2, <2>3, <2>4 DEF RowInv
<1>2. CASE FullIndex
  <2>1. /\ snap'.rows = tree[Head1] /\ snap'.commit = Head1
        /\ job = NoJob /\ UNCHANGED <<tree, job>>
      BY <1>2 DEF FullIndex, IndexOf
  <2>2. QED BY <2>1 DEF RowInv, NoMoves, Head1
<1>3. CASE ReadHead
  <2>1. /\ job' = [NoJob EXCEPT !.at = "diff", !.to = Head1] /\ snap.commit # 0
        /\ UNCHANGED <<tree, snap>>
      BY <1>3 DEF ReadHead
  <2>2. job'.at = "diff" /\ job'.to = Head1
      BY <2>1 DEF NoJob
  <2>3. QED BY <2>1, <2>2 DEF RowInv, NoMoves, Head1
<1>4. CASE ReadDiff
  <2>1. /\ job.at = "diff" /\ job # NoJob /\ UNCHANGED <<tree, snap>>
        /\ job' = [job EXCEPT !.at = "deleted", !.files = Diff(snap.commit, Head1)]
      BY <1>4 DEF ReadDiff
  <2>2. job'.at = "deleted" /\ job'.files = Diff(snap.commit, Head1) /\ job'.to = job.to
      BY <2>1 DEF SyncType, Jobs
  <2>3. QED BY <2>1, <2>2 DEF RowInv, NoMoves, Head1, Diff
<1>5. CASE ReadDeleted
  <2> DEFINE gone == Deletions(snap.commit, Head1)
  <2>0. job.at = "deleted" /\ job # NoJob /\ snap.commit \in 1 .. Head1 /\ tree' = tree
    <3>1. job.at = "deleted" /\ job # NoJob /\ tree' = tree
        BY <1>5 DEF ReadDeleted
    <3>2. snap.commit \in 0 .. Head1 /\ snap.commit # 0
        BY <3>1 DEF RowInv
    <3>3. QED BY <3>1, <3>2
  <2>1. CASE job.files = {} /\ gone = {}
    <3>1. snap' = [snap EXCEPT !.commit = job.to] /\ job' = NoJob
        BY <1>5, <2>1 DEF ReadDeleted
    <3>2. snap'.commit = Head1 /\ snap'.rows = tree[snap.commit]
        BY <2>0, <3>1 DEF RowInv, SyncType
    <3>3. tree[snap.commit] = tree[Head1]
      <4>0. Diff(snap.commit, Head1) = {}
          BY <2>0, <2>1 DEF RowInv
      <4>1. \A f \in Files : tree[snap.commit][f] = tree[Head1][f]
          BY <2>0, <4>0, DiffNames DEF RowInv
      <4>2. tree[snap.commit] \in Trees /\ tree[Head1] \in Trees
          BY <2>0, Commits
      <4>3. QED BY <4>1, <4>2 DEF Trees
    <3>4. QED BY <2>0, <3>1, <3>2, <3>3 DEF RowInv, NoMoves, Head1
  <2>2. CASE ~(job.files = {} /\ gone = {})
    <3>1. PICK fs \in Expand(job.files) :
             job' = [job EXCEPT !.at = IF fs = {} THEN "point" ELSE "read",
                                !.files = fs, !.deleted = gone]
        BY <1>5, <2>2 DEF ReadDeleted
    <3>2. job.files \subseteq fs /\ Diff(snap.commit, Head1) \subseteq job.files
        BY <2>0, ExpandFiles DEF SyncType, Jobs, RowInv
    <3>3. fs # {}
        BY <2>2, <3>2 DEF Deletions
    <3> HIDE DEF gone
    <3>4. job'.at = "read" /\ job'.files = fs /\ job'.to = job.to
        BY <3>1, <3>3 DEF SyncType, Jobs
    <3>5. snap' = snap
        BY <1>5, <2>2 DEF ReadDeleted, gone
    <3>6. QED BY <2>0, <3>2, <3>4, <3>5 DEF RowInv, NoMoves, Head1, Diff
  <2>3. QED BY <2>1, <2>2
<1>6. CASE ReadFile
  <2>1. /\ job.at = "read" /\ job # NoJob /\ UNCHANGED <<tree, snap>>
        /\ job'.at \in {"read", "store"} /\ job'.to = job.to /\ job'.files = job.files
      BY <1>6, FileRead DEF ReadFile
  <2>2. QED BY <2>1 DEF RowInv, NoMoves, Head1, Diff
<1>7. CASE StoreSnapshot
  <2>1. /\ job.at = "store" /\ job # NoJob
        /\ snap'.rows = NewRows /\ snap'.commit = Head1
        /\ job' = [job EXCEPT !.at = "remove", !.gone = Gone]
        /\ tree' = tree
      BY <1>7 DEF StoreSnapshot
  <2>2. job'.at = "remove" /\ job'.to = job.to /\ job'.files = job.files /\ job'.new = job.new
      BY <2>1 DEF SyncType, Jobs
  <2>3. NewRows = tree[Head1]
      BY <2>1, NewRowsOfHead
  <2>4. QED BY <2>1, <2>2, <2>3 DEF RowInv, NoMoves, Head1
<1>8. CASE RemoveGone \/ UpsertLive
  <2>1. /\ job.at \in {"remove", "upsert"} /\ job # NoJob
        /\ \/ job.at = "remove" /\ job' = [job EXCEPT !.at = "upsert"]
           \/ job' = [job EXCEPT !.at = "point"]
        /\ UNCHANGED <<tree, snap>>
      BY <1>8 DEF RemoveGone, UpsertLive
  <2>2. /\ job'.at \in {"upsert", "point"} /\ (job'.at = "upsert" => job.at = "remove")
        /\ job'.to = job.to /\ job'.files = job.files /\ job'.new = job.new
      BY <2>1 DEF SyncType, Jobs
  <2>3. QED BY <2>1, <2>2 DEF RowInv, NoMoves, Head1
<1>9. CASE DropFile
  <2>1. snap' = snap
      BY <1>9, NothingDropped
  <2>2. /\ job.at = "point" /\ job # NoJob /\ tree' = tree
        /\ job'.at = job.at /\ job'.to = job.to
      BY <1>9 DEF DropFile, SyncType, Jobs
  <2>3. QED BY <2>1, <2>2 DEF RowInv, NoMoves, Head1
<1>10. CASE Point
  <2>1. /\ job.at = "point" /\ job # NoJob
        /\ snap' = [snap EXCEPT !.commit = job.to] /\ job' = NoJob /\ tree' = tree
      BY <1>10 DEF Point
  <2>2. snap' = snap
      BY <2>1 DEF RowInv, SyncType
  <2>3. QED BY <2>1, <2>2 DEF RowInv, NoMoves, Head1
<1>11. CASE IngestDies
    BY <1>11 DEF IngestDies, RowInv, NoMoves, Head1
<1>12. CASE UNCHANGED syncVars
    BY <1>12 DEF syncVars, RowInv, NoMoves, Head1, Diff
<1>13. QED
    BY <1>1, <1>2, <1>3, <1>4, <1>5, <1>6, <1>7, <1>8, <1>9, <1>10, <1>11, <1>12 DEF SyncNext

(***************************************************************************)
(* The rows of the head, when commits are pulled during an ingest          *)
(***************************************************************************)
Pulled == "rename" \notin given /\ "crash" \notin given /\ NoReturns
\* Each row is that of some commit from a on.
RowsFrom(rows, a) == \A f \in Files : \E j \in a .. Head1 : rows[f] = tree[j][f]
\* What a sync leaves alone is the same in the commits it goes from and to.
Covered == \A f \in Files \ job.files : tree[snap.commit][f] = tree[job.to][f]
PullInv ==
    /\ NoMoves
    /\ snap.commit \in 0 .. Head1
    /\ job # NoJob => snap.commit # 0 /\ job.to \in 1 .. Head1
    /\ job.at \in {"idle", "diff", "deleted", "read", "store"} /\ snap.commit # 0
          => RowsFrom(snap.rows, snap.commit)
    /\ job.at \in {"diff", "deleted", "read", "store"} => snap.commit <= job.to
    /\ job.at \in {"diff", "deleted"} => DOMAIN job.new = {}
    /\ job.at \in {"deleted", "read", "store"} => Covered
    /\ job.at \in {"read", "store"} =>
          \A f \in DOMAIN job.new : \E j \in job.to .. Head1 : job.new[f] = tree[j][f]
    /\ job.at \in {"remove", "upsert", "point"} => RowsFrom(snap.rows, job.to)
    /\ \A f \in job.deleted : \E j \in job.to .. Head1 : tree[j][f] = Absent
PullKept == Pulled => PullInv

LEMMA TreeGrows ==
    ASSUME SyncType, [SyncNext]_syncVars
    PROVE  /\ Head1 \in Nat /\ Head1' \in Nat /\ Head1 <= Head1'
           /\ \A i \in 1 .. Head1 : tree'[i] = tree[i]
<1>1. CASE Pull
  <2>1. PICK t \in Trees : tree' = Append(tree, t)
      BY <1>1 DEF Pull, Trees
  <2>2. QED BY <2>1 DEF SyncType, Head1
<1>2. CASE tree' = tree
    BY <1>2 DEF SyncType, Head1
<1>3. QED BY <1>1, <1>2 DEF SyncNext, syncVars, FullIndex, ReadHead, ReadDiff, ReadDeleted, ReadFile,
                            StoreSnapshot, RemoveGone, UpsertLive, DropFile, Point, IngestDies

LEMMA PulledBefore ==
    ASSUME SyncType, [SyncNext]_syncVars, Pulled'
    PROVE  Pulled
<1>1. given' = given
    BY DEF SyncNext, syncVars, Pull, FullIndex, ReadHead, ReadDiff, ReadDeleted, ReadFile, StoreSnapshot,
           RemoveGone, UpsertLive, DropFile, Point, IngestDies
<1>2. NoReturns
  <2> SUFFICES ASSUME NEW i \in 1 .. Head1, NEW j \in 1 .. Head1, NEW k \in 1 .. Head1, i < j, j < k,
                      NEW f \in Files, tree[i][f] = tree[k][f]
               PROVE  tree[j][f] = tree[i][f]
      BY DEF NoReturns
  <2>1. /\ tree'[i] = tree[i] /\ tree'[j] = tree[j] /\ tree'[k] = tree[k]
        /\ i \in 1 .. Head1' /\ j \in 1 .. Head1' /\ k \in 1 .. Head1'
      BY TreeGrows
  <2>2. QED BY <2>1 DEF Pulled, NoReturns
<1>3. QED BY <1>1, <1>2 DEF Pulled

\* A file that is the same in two commits is the same in those between.
LEMMA SameBetween ==
    ASSUME NoReturns, Head1 \in Nat, NEW i \in 1 .. Head1, NEW j \in 1 .. Head1, NEW k \in 1 .. Head1,
           i <= j, j <= k, NEW f \in Files, tree[i][f] = tree[k][f]
    PROVE  tree[j][f] = tree[i][f]
BY DEF NoReturns

\* A row that a sync leaves alone is that of the commit the sync is for, or of a later one.
LEMMA LeftAlone ==
    ASSUME SyncType, NoReturns, job # NoJob, job.to \in 1 .. Head1, snap.commit \in 1 .. Head1,
           RowsFrom(snap.rows, snap.commit), snap.commit <= job.to, Covered, NEW f \in Files \ job.files
    PROVE  \E j \in job.to .. Head1 : snap.rows[f] = tree[j][f]
<1>0. Head1 \in Nat
    BY DEF SyncType, Head1
<1>1. PICK j \in snap.commit .. Head1 : snap.rows[f] = tree[j][f]
    BY DEF RowsFrom
<1>2. CASE j >= job.to
    BY <1>0, <1>1, <1>2
<1>3. CASE j < job.to
  <2>1. tree[snap.commit][f] = tree[job.to][f]
      BY DEF Covered
  <2>2. tree[j][f] = tree[job.to][f]
      BY <1>0, <1>1, <1>3, <2>1, SameBetween
  <2>3. QED BY <1>0, <1>1, <2>2
<1>4. QED BY <1>0, <1>1, <1>2, <1>3

LEMMA PullInit == SyncInit => PullInv
BY DEF SyncInit, PullInv, NoMoves, Head1, NoJob

LEMMA PullStep == SyncType /\ PullKept /\ [SyncNext]_syncVars => PullKept'
<1> SUFFICES ASSUME SyncType, PullKept, [SyncNext]_syncVars, Pulled' PROVE PullInv'
    BY DEF PullKept
<1>0. Pulled /\ PullInv
    BY PulledBefore DEF PullKept
<1>a. Head1 \in Nat /\ Head1 >= 1 /\ snap.commit \in Nat /\ NoReturns
    BY <1>0 DEF SyncType, Head1, Pulled
<1>b. NoJob.at = "idle" /\ NoJob.deleted = {} /\ DOMAIN NoJob.new = {} /\ (job # NoJob => job.at # "idle")
    BY DEF NoJob, SyncType
<1> USE <1>0, <1>a, <1>b
<1>1. CASE Pull
  <2>1. PICK t \in Trees :
           /\ ~\E i \in 1 .. Head1, f, g \in Files : Moved(tree[i], t, f, g)
           /\ tree' = Append(tree, t)
      BY <1>1 DEF Pull, Trees, Pulled
  <2>2. /\ Head1' = Head1 + 1 /\ tree'[Head1 + 1] = t
        /\ \A i \in 1 .. Head1 : tree'[i] = tree[i]
      BY <2>1 DEF SyncType, Head1
  <2>3. UNCHANGED <<snap, job>>
      BY <1>1 DEF Pull
  <2>4. NoMoves'
    <3> SUFFICES ASSUME NEW i \in 1 .. Head1 + 1, NEW j \in 1 .. Head1 + 1, i < j,
                        NEW f \in Files, NEW g \in Files
                 PROVE  ~Moved(tree'[i], tree'[j], f, g)
        BY <2>2 DEF NoMoves, Moved
    <3>1. i \in 1 .. Head1 /\ tree'[i] = tree[i]
        BY <2>2
    <3>2. CASE j = Head1 + 1
        BY <2>1, <2>2, <3>1, <3>2
    <3>3. CASE j # Head1 + 1
        BY <2>2, <3>1, <3>3 DEF PullInv, NoMoves
    <3>4. QED BY <3>2, <3>3
  <2>5. \A k \in 1 .. Head1 : \A j \in k .. Head1 : j \in k .. Head1' /\ tree'[j] = tree[j]
      BY <2>2
  <2>6. snap.commit # 0 => (RowsFrom(snap.rows, snap.commit) => RowsFrom(snap.rows, snap.commit)')
    <3>1. snap.commit # 0 => snap.commit \in 1 .. Head1
        BY DEF PullInv
    <3>2. QED BY <2>3, <2>5, <3>1 DEF RowsFrom
  <2>7. CASE job = NoJob
    <3>1. snap'.commit \in 0 .. Head1' /\ job' = NoJob
        BY <2>2, <2>3, <2>7 DEF PullInv
    <3>2. QED BY <2>3, <2>4, <2>6, <2>7, <3>1 DEF PullInv
  <2>8. CASE job # NoJob
    <3>1. job.to \in 1 .. Head1 /\ snap.commit \in 1 .. Head1 /\ snap.commit # 0
      <4>1. job.to \in 1 .. Head1 /\ snap.commit \in 0 .. Head1 /\ snap.commit # 0
          BY <2>8 DEF PullInv
      <4>2. QED BY <4>1
    <3>2. job.deleted \subseteq Files /\ DOMAIN job.new \subseteq Files
        BY DEF SyncType, Jobs
    <3>3. /\ Covered => Covered'
          /\ RowsFrom(snap.rows, job.to) => RowsFrom(snap.rows, job.to)'
        BY <2>2, <2>3, <2>5, <3>1 DEF Covered, RowsFrom
    <3>4. ASSUME NEW f \in job.deleted, \E j \in job.to .. Head1 : tree[j][f] = Absent
          PROVE  \E j \in job.to .. Head1' : tree'[j][f] = Absent
        BY <2>5, <3>1, <3>2, <3>4
    <3>5. ASSUME NEW f \in DOMAIN job.new, \E j \in job.to .. Head1 : job.new[f] = tree[j][f]
          PROVE  \E j \in job.to .. Head1' : job.new[f] = tree'[j][f]
        BY <2>5, <3>1, <3>2, <3>5
    <3>6. job.to \in 1 .. Head1' /\ snap.commit \in 0 .. Head1'
        BY <2>2, <3>1
    <3>7. QED BY <2>3, <2>4, <2>6, <2>8, <3>1, <3>3, <3>4, <3>5, <3>6 DEF PullInv
  <2>9. QED BY <2>7, <2>8
<1>2. CASE FullIndex
  <2>1. /\ snap'.rows = tree[Head1] /\ snap'.commit = Head1
        /\ job = NoJob /\ UNCHANGED <<tree, job>>
      BY <1>2 DEF FullIndex, IndexOf
  <2>2. QED BY <2>1 DEF PullInv, NoMoves, Head1, RowsFrom
<1>3. CASE ReadHead
  <2>1. /\ job' = [NoJob EXCEPT !.at = "diff", !.to = Head1] /\ snap.commit # 0 /\ job = NoJob
        /\ UNCHANGED <<tree, snap>>
      BY <1>3 DEF ReadHead
  <2>2. job'.at = "diff" /\ job'.to = Head1 /\ job'.deleted = {} /\ DOMAIN job'.new = {}
      BY <2>1 DEF NoJob
  <2>3. QED BY <2>1, <2>2 DEF PullInv, NoMoves, Head1, RowsFrom
<1>c. job # NoJob => job.to \in 1 .. Head1 /\ snap.commit \in 1 .. Head1 /\ snap.commit # 0
  <2>1. job # NoJob => job.to \in 1 .. Head1 /\ snap.commit \in 0 .. Head1 /\ snap.commit # 0
      BY DEF PullInv
  <2>2. QED BY <2>1
<1>4. CASE ReadDiff
  <2>1. /\ job.at = "diff" /\ job # NoJob /\ UNCHANGED <<tree, snap>>
        /\ job' = [job EXCEPT !.at = "deleted", !.files = Diff(snap.commit, Head1)]
      BY <1>4 DEF ReadDiff
  <2>2. /\ job'.at = "deleted" /\ job'.files = Diff(snap.commit, Head1) /\ job'.to = job.to
        /\ job'.new = job.new /\ job'.deleted = job.deleted
      BY <2>1 DEF SyncType, Jobs
  <2>3. ASSUME NEW f \in Files \ Diff(snap.commit, Head1)
        PROVE  tree[snap.commit][f] = tree[job.to][f]
    <3>1. snap.commit \in 1 .. Head1 /\ job.to \in 1 .. Head1 /\ snap.commit <= job.to
        BY <1>c, <2>1 DEF PullInv
    <3>2. tree[snap.commit][f] = tree[Head1][f]
        BY <2>3, <3>1, DiffNames DEF PullInv
    <3>3. QED BY <3>1, <3>2, SameBetween
  <2>4. Covered'
      BY <2>1, <2>2, <2>3 DEF Covered
  <2>5. QED BY <1>c, <2>1, <2>2, <2>4 DEF PullInv, NoMoves, Head1, RowsFrom
<1>5. CASE ReadDeleted
  <2> DEFINE gone == Deletions(snap.commit, Head1)
  <2>0. job.at = "deleted" /\ job # NoJob /\ tree' = tree /\ Covered /\ snap.commit <= job.to
        /\ RowsFrom(snap.rows, snap.commit) /\ DOMAIN job.new = {}
      BY <1>5, <1>c DEF ReadDeleted, PullInv
  <2>a. ASSUME job.files = {} PROVE RowsFrom(snap.rows, job.to)
      BY <1>c, <2>0, <2>a, LeftAlone DEF RowsFrom
  <2>1. CASE job.files = {} /\ gone = {}
    <3>1. snap' = [snap EXCEPT !.commit = job.to] /\ job' = NoJob
        BY <1>5, <2>1 DEF ReadDeleted
    <3>2. snap'.commit = job.to /\ snap'.rows = snap.rows
        BY <3>1 DEF SyncType
    <3>3. QED BY <1>c, <2>0, <2>1, <2>a, <3>1, <3>2 DEF PullInv, NoMoves, Head1, RowsFrom
  <2>2. CASE ~(job.files = {} /\ gone = {})
    <3>1. PICK fs \in Expand(job.files) :
             job' = [job EXCEPT !.at = IF fs = {} THEN "point" ELSE "read",
                                !.files = fs, !.deleted = gone]
        BY <1>5, <2>2 DEF ReadDeleted
    <3>2. job.files \subseteq fs
        BY ExpandFiles DEF SyncType, Jobs
    <3>3. \A f \in gone : \E j \in job.to .. Head1 : tree[j][f] = Absent
        BY <1>c, <2>0 DEF Deletions
    <3>4. snap' = snap
        BY <1>5, <2>2 DEF ReadDeleted
    <3> HIDE DEF gone
    <3>5. /\ job'.at = IF fs = {} THEN "point" ELSE "read"
          /\ job'.files = fs /\ job'.to = job.to /\ job'.deleted = gone /\ job'.new = job.new
        BY <3>1 DEF SyncType, Jobs
    <3>6. Covered'
        BY <2>0, <3>2, <3>4, <3>5 DEF Covered
    <3>7. fs = {} => RowsFrom(snap.rows, job.to)
        BY <2>a, <3>2
    <3>8. job' # NoJob
        BY <3>5
    <3>9. CASE fs = {}
        BY <1>c, <2>0, <3>3, <3>4, <3>5, <3>6, <3>7, <3>9 DEF PullInv, NoMoves, Head1, RowsFrom
    <3>10. CASE fs # {}
        BY <1>c, <2>0, <3>3, <3>4, <3>5, <3>6, <3>10 DEF PullInv, NoMoves, Head1, RowsFrom
    <3>11. QED BY <3>9, <3>10
  <2>3. QED BY <2>1, <2>2
<1>6. CASE ReadFile
  <2>1. PICK f \in job.files \ DOMAIN job.new :
           LET read == DOMAIN job.new \cup {f}
           IN  /\ job'.new = [p \in read |-> IF p = f THEN tree[Head1][f] ELSE job.new[p]]
               /\ DOMAIN job'.new = read
               /\ job'.at = IF read = job.files THEN "store" ELSE "read"
               /\ job'.to = job.to /\ job'.files = job.files /\ job'.gone = job.gone
               /\ job'.deleted = job.deleted
               /\ job.at = "read" /\ UNCHANGED <<given, tree, snap, live>>
      BY <1>6, FileRead
  <2>2. job # NoJob /\ job'.at \in {"read", "store"}
      BY <2>1
  <2>3. \A p \in DOMAIN job'.new : \E j \in job.to .. Head1 : job'.new[p] = tree[j][p]
    <3>1. Head1 \in job.to .. Head1
        BY <1>c, <2>2
    <3>2. \A p \in DOMAIN job.new : \E j \in job.to .. Head1 : job.new[p] = tree[j][p]
        BY <2>1 DEF PullInv
    <3>3. QED BY <2>1, <3>1, <3>2
  <2>4. Covered'
      BY <2>1 DEF PullInv, Covered
  <2>5. QED BY <1>c, <2>1, <2>2, <2>3, <2>4 DEF PullInv, NoMoves, Head1, RowsFrom
<1>7. CASE StoreSnapshot
  <2>1. /\ job.at = "store" /\ job # NoJob
        /\ snap'.rows = NewRows /\ snap'.commit = Head1
        /\ job' = [job EXCEPT !.at = "remove", !.gone = Gone]
        /\ tree' = tree
      BY <1>7 DEF StoreSnapshot
  <2>2. /\ job'.at = "remove" /\ job'.to = job.to /\ job'.files = job.files /\ job'.new = job.new
        /\ job'.deleted = job.deleted
      BY <2>1 DEF SyncType, Jobs
  <2>3. ASSUME NEW f \in Files PROVE \E j \in job.to .. Head1 : NewRows[f] = tree[j][f]
    <3>1. CASE f \in job.files
        BY <2>1, <3>1, NewRowsTyped DEF PullInv, SyncType
    <3>2. CASE f \notin job.files
      <4>1. /\ RowsFrom(snap.rows, snap.commit) /\ snap.commit <= job.to /\ Covered
            /\ NewRows[f] = snap.rows[f]
          BY <1>c, <2>1, <3>2, NewRowsTyped DEF PullInv
      <4>2. QED BY <1>c, <2>1, <3>2, <4>1, LeftAlone
    <3>3. QED BY <3>1, <3>2
  <2>4. RowsFrom(snap.rows, job.to)'
      BY <2>1, <2>2, <2>3 DEF RowsFrom, Head1
  <2>5. QED BY <1>c, <2>1, <2>2, <2>4 DEF PullInv, NoMoves, Head1
<1>8. CASE RemoveGone \/ UpsertLive
  <2>1. /\ job.at \in {"remove", "upsert"} /\ job # NoJob
        /\ \/ job' = [job EXCEPT !.at = "upsert"]
           \/ job' = [job EXCEPT !.at = "point"]
        /\ UNCHANGED <<tree, snap>>
      BY <1>8 DEF RemoveGone, UpsertLive
  <2>2. /\ job'.at \in {"upsert", "point"}
        /\ job'.to = job.to /\ job'.files = job.files /\ job'.new = job.new /\ job'.deleted = job.deleted
      BY <2>1 DEF SyncType, Jobs
  <2>3. QED BY <1>c, <2>1, <2>2 DEF PullInv, NoMoves, Head1, RowsFrom
<1>9. CASE DropFile
  <2>1. PICK f \in job.deleted : /\ snap' = [snap EXCEPT !.rows[f] = Absent]
                                 /\ job' = [job EXCEPT !.deleted = @ \ {f}]
      BY <1>9 DEF DropFile
  <2>2. /\ job.at = "point" /\ job # NoJob /\ tree' = tree
        /\ job'.at = "point" /\ job'.to = job.to /\ job'.deleted \subseteq job.deleted
      BY <1>9, <2>1 DEF DropFile, SyncType, Jobs
  <2>3. snap'.commit = snap.commit /\ snap'.rows = [snap.rows EXCEPT ![f] = Absent] /\ f \in Files
      BY <2>1 DEF SyncType, Jobs
  <2>4. RowsFrom(snap.rows, job.to) /\ \E j \in job.to .. Head1 : tree[j][f] = Absent
      BY <2>1, <2>2 DEF PullInv
  <2>5. ASSUME NEW g \in Files PROVE \E j \in job.to .. Head1 : snap'.rows[g] = tree[j][g]
    <3>1. CASE g = f
        BY <2>3, <2>4, <3>1 DEF SyncType
    <3>2. CASE g # f
        BY <2>3, <2>4, <3>2 DEF RowsFrom, SyncType
    <3>3. QED BY <3>1, <3>2
  <2>6. RowsFrom(snap.rows, job.to)'
      BY <2>2, <2>5 DEF RowsFrom, Head1
  <2>7. QED BY <1>c, <2>2, <2>3, <2>6 DEF PullInv, NoMoves, Head1
<1>10. CASE Point
  <2>1. /\ job.at = "point" /\ job # NoJob
        /\ snap' = [snap EXCEPT !.commit = job.to] /\ job' = NoJob /\ tree' = tree
      BY <1>10 DEF Point
  <2>2. snap'.commit = job.to /\ snap'.rows = snap.rows /\ RowsFrom(snap.rows, job.to)
      BY <2>1 DEF PullInv, SyncType
  <2>3. QED BY <1>c, <2>1, <2>2 DEF PullInv, NoMoves, Head1, RowsFrom
<1>11. CASE IngestDies
    BY <1>11 DEF IngestDies, Pulled
<1>12. CASE UNCHANGED syncVars
    BY <1>12 DEF syncVars, PullInv, NoMoves, Head1, RowsFrom, Covered
<1>13. QED
    BY <1>1, <1>2, <1>3, <1>4, <1>5, <1>6, <1>7, <1>8, <1>9, <1>10, <1>11, <1>12 DEF SyncNext

SyncBasis == SyncType /\ DropKept /\ NoPhantomEdges /\ RowKept /\ PullKept

LEMMA BasisInductive ==
    /\ FirstTree /\ SyncInit => SyncBasis
    /\ SyncBasis /\ [SyncNext]_syncVars => SyncBasis'
BY SyncTypeInit, DropInit, PhantomInit, RowInit, PullInit,
   TypeStep, DropStep, PhantomStep, RowStep, PullStep DEF SyncBasis, DropKept, RowKept, PullKept

LEMMA RowsAgree == SyncBasis => RowsOfHead
<1> SUFFICES ASSUME SyncBasis, job = NoJob, snap.commit = Head1, Steady
             PROVE  snap.rows = tree[Head1]
    BY DEF RowsOfHead
<1>0. SyncType /\ Head1 \in Nat /\ Head1 >= 1 /\ NoJob.at = "idle"
    BY DEF SyncBasis, SyncType, Head1, NoJob
<1>1. CASE "pull" \notin given
    BY <1>0, <1>1 DEF SyncBasis, RowKept, Still, RowInv, Steady
<1>2. CASE "pull" \in given
  <2>1. PullInv
      BY <1>2 DEF SyncBasis, PullKept, Pulled, Steady
  <2>2. RowsFrom(snap.rows, Head1)
      BY <1>0, <2>1 DEF PullInv
  <2>3. \A f \in Files : snap.rows[f] = tree[Head1][f]
      BY <1>0, <2>2 DEF RowsFrom
  <2>4. tree[Head1] \in Trees
      BY <1>0, Commits
  <2>5. QED BY <1>0, <2>3, <2>4 DEF SyncType, Trees
<1>3. QED BY <1>1, <1>2

\* A snapshot that says it is of the head has the rows of a full index, wherever ingests died
\* and whatever symbols the files share, when no file moves; and when commits are pulled
\* during ingests, if none of these dies and no file goes back to what it was.
THEOREM SnapshotOfHead == FirstTree /\ SyncSpec => []RowsOfHead
<1>1. QED BY BasisInductive, RowsAgree, PTL DEF SyncSpec
(***************************************************************************)
(* No edge too few, and the graph that is served                           *)
(***************************************************************************)
Calm == given = {}
Served == live.ids = Defined(snap.rows) /\ live.edges = snap.edges
\* The files of everything that calls into a changed file are taken along.
CallersTaken ==
    \A f \in Diff(snap.commit, Head1), g \in Files :
        \A t \in DOMAIN snap.rows[f], s \in DOMAIN snap.rows[g] :
            <<s, t>> \in live.edges => g \in job.files
GraphInv ==
    /\ \A i \in 1 .. Head1 : OneFile(tree[i])
    /\ job.at \in {"idle", "diff", "deleted", "read", "store", "point"} => Served
    /\ job.at \in {"read", "store"} => CallersTaken
    \* what the removal and the upsert will make of the graph is what the snapshot has
    /\ job.at = "remove" =>
          /\ (live.ids \ job.gone) \cup Rewritten = Defined(snap.rows)
          /\ {e \in live.edges : {e[1], e[2]} \cap job.gone = {} /\ e[1] \notin Rewritten}
                \cup EdgesOf(job.files, snap.rows) = snap.edges
    /\ job.at = "upsert" =>
          /\ live.ids \cup Rewritten = Defined(snap.rows)
          /\ {e \in live.edges : e[1] \notin Rewritten}
                \cup EdgesOf(job.files, snap.rows) = snap.edges
GraphKept == Calm => GraphInv

LEMMA OneFileEach ==
    ASSUME SyncType, RowInv, GraphInv, job # NoJob
    PROVE  OneFile(snap.rows) /\ OneFile(tree[Head1])
BY DEF RowInv, GraphInv, SyncType, Head1

\* A symbol outside the files of a sync is in none of them, before and after.
LEMMA OutsideKept ==
    ASSUME SyncType, DropInv, RowInv, GraphInv, job.at = "store",
           NEW f \in Files \ job.files, NEW s \in DOMAIN snap.rows[f]
    PROVE  s \notin Rewritten \cup Gone
<1>1. job # NoJob
    BY DEF SyncType
<1>2. \A g \in Files : g # f => s \notin DOMAIN snap.rows[g]
    BY <1>1, OneFileEach DEF OneFile
<1>3. s \in DOMAIN tree[Head1][f]
    BY NewRowsTyped, NewRowsOfHead
<1>4. \A g \in Files : g # f => s \notin DOMAIN tree[Head1][g]
    BY <1>1, <1>3, OneFileEach DEF OneFile
<1>5. job.files \subseteq Files /\ \A g \in job.files : job.new[g] = tree[Head1][g]
    BY DEF SyncType, Jobs, DropInv
<1>6. QED BY <1>2, <1>4, <1>5 DEF Rewritten, Gone, GoneFrom

LEMMA NoneLost ==
    ASSUME SyncType, DropInv, RowInv, GraphInv, job.at = "store"
    PROVE  snap.edges \cap EdgesOf(Files, NewRows) \subseteq Kept \cup EdgesOf(job.files, NewRows)
<1> SUFFICES ASSUME NEW e \in snap.edges, e \in EdgesOf(Files, NewRows),
                    e \notin EdgesOf(job.files, NewRows)
             PROVE  e \in Kept
    OBVIOUS
<1>0. job # NoJob /\ job.files \subseteq Files
    BY DEF SyncType, Jobs
<1>1. PICK f \in Files : e[1] \in DOMAIN NewRows[f] /\
         \E n \in NewRows[f][e[1]] : e[2] \in Nearest(NameIndex(n, NewRows), f)
    BY DEF EdgesOf
<1>2. f \notin job.files
    BY <1>1 DEF EdgesOf
<1>3. e[1] \in DOMAIN snap.rows[f]
    BY <1>1, <1>2, NewRowsTyped
<1>4. e[1] \notin Rewritten \cup Gone
    BY <1>2, <1>3, OutsideKept
<1>5. ASSUME e[2] \in Gone PROVE FALSE
  <2>1. PICK g \in job.files : e[2] \in DOMAIN snap.rows[g] \ DOMAIN job.new[g]
      BY <1>5 DEF Gone, GoneFrom
  <2>2. snap.rows[g] # tree[Head1][g]
      BY <2>1 DEF DropInv, SyncType
  <2>3. g \in Diff(snap.commit, Head1)
    <3>1. snap.commit \in 1 .. Head1 /\ Head1 \in Nat /\ snap.rows = tree[snap.commit]
      <4>1. snap.commit \in 0 .. Head1 /\ snap.commit # 0 /\ snap.rows = tree[snap.commit]
          BY <1>0 DEF RowInv
      <4>2. QED BY <4>1 DEF SyncType, Head1
    <3>2. snap.commit # Head1
        BY <2>2, <3>1
    <3>3. QED BY <1>0, <2>1, <2>2, <3>1, <3>2, DiffNames DEF RowInv
  <2>4. <<e[1], e[2]>> \in live.edges
      BY DEF GraphInv, Served, SyncType
  <2>5. QED BY <1>2, <1>3, <2>1, <2>3, <2>4 DEF GraphInv, CallersTaken
<1>6. QED BY <1>4, <1>5 DEF Kept

LEMMA NewIds ==
    ASSUME SyncType, DropInv, RowInv, GraphInv, job.at = "store"
    PROVE  (Defined(snap.rows) \ Gone) \cup Rewritten = Defined(NewRows)
<1>0. job.files \subseteq Files /\ \A f \in job.files : NewRows[f] = job.new[f]
    BY NewRowsTyped DEF SyncType, Jobs
<1>1. ASSUME NEW s \in Defined(snap.rows) \ Gone PROVE s \in Defined(NewRows)
    BY NotGoneStays DEF Defined
<1>2. Rewritten \subseteq Defined(NewRows)
    BY <1>0 DEF Rewritten, Defined
<1>3. ASSUME NEW s \in Defined(NewRows) PROVE s \in (Defined(snap.rows) \ Gone) \cup Rewritten
  <2>1. PICK f \in Files : s \in DOMAIN NewRows[f]
      BY DEF Defined
  <2>2. CASE f \in job.files
      BY <1>0, <2>1, <2>2 DEF Rewritten
  <2>3. CASE f \notin job.files
    <3>1. s \in DOMAIN snap.rows[f]
        BY <2>1, <2>3, NewRowsTyped
    <3>2. QED BY <2>3, <3>1, OutsideKept DEF Defined
  <2>4. QED BY <2>2, <2>3
<1>4. QED BY <1>1, <1>2, <1>3

\* Of a symbol in one file, the file is known: its callers' files are in every expansion.
LEMMA ExpandTakes ==
    ASSUME OneFile(snap.rows), NEW changed \in SUBSET Files, NEW fs \in Expand(changed),
           NEW f \in changed, NEW g \in Files, NEW t \in DOMAIN snap.rows[f],
           NEW s \in DOMAIN snap.rows[g], <<s, t>> \in live.edges
    PROVE  g \in fs
<1> DEFINE hit == UNION {DOMAIN snap.rows[d] : d \in changed}
           callers == {r \in Defined(snap.rows) : \E u \in hit : <<r, u>> \in live.edges}
<1>1. PICK p \in [callers -> Files] :
         /\ fs = changed \cup {p[r] : r \in callers}
         /\ \A r \in callers : r \in DOMAIN snap.rows[p[r]]
    BY DEF Expand
<1>2. s \in callers
  <2>1. t \in hit /\ s \in Defined(snap.rows)
      BY DEF Defined
  <2>2. QED BY <2>1
<1> HIDE DEF callers
<1>3. p[s] \in Files /\ s \in DOMAIN snap.rows[p[s]]
    BY <1>1, <1>2
<1>4. p[s] = g
    BY <1>3 DEF OneFile
<1>5. QED BY <1>1, <1>2, <1>4

LEMMA GraphInit == FirstTree /\ SyncInit => GraphInv
<1> SUFFICES ASSUME FirstTree, SyncInit PROVE GraphInv
    OBVIOUS
<1>1. tree = <<First>> /\ Head1 = 1 /\ tree[1] = First
    BY DEF SyncInit, Head1
<1>2. Defined(snap.rows) = {}
    BY DEF SyncInit, Defined, Absent
<1>3. QED BY <1>1, <1>2 DEF SyncInit, GraphInv, FirstTree, Served, NoJob

GraphBasis == SyncBasis /\ GraphKept

LEMMA GraphStep == GraphBasis /\ [SyncNext]_syncVars => GraphKept'
<1> SUFFICES ASSUME GraphBasis, [SyncNext]_syncVars, Calm' PROVE GraphInv'
    BY DEF GraphKept
<1>0. Calm /\ SyncType /\ DropInv /\ RowInv /\ GraphInv
    BY DEF GraphBasis, SyncBasis, GraphKept, RowKept, Still, DropKept, Alone, Calm, SyncNext, syncVars, Pull,
           FullIndex, ReadHead, ReadDiff, ReadDeleted, ReadFile, StoreSnapshot, RemoveGone, UpsertLive,
           DropFile, Point, IngestDies
<1>a. Head1 \in Nat /\ Head1 >= 1
    BY <1>0 DEF SyncType, Head1
<1>b. NoJob.at = "idle" /\ (job # NoJob => job.at # "idle")
    BY <1>0 DEF NoJob, SyncType
<1> USE <1>0, <1>a, <1>b
<1>1. CASE Pull
  <2>1. PICK t \in Trees : OneFile(t) /\ tree' = Append(tree, t)
      BY <1>1 DEF Pull, Trees, Calm, Legal, OneFile
  <2>2. /\ Head1' = Head1 + 1 /\ tree'[Head1 + 1] = t
        /\ \A i \in 1 .. Head1 : tree'[i] = tree[i]
      BY <2>1 DEF SyncType, Head1
  <2>3. job = NoJob /\ UNCHANGED <<snap, live, job>>
      BY <1>1 DEF Pull, Calm
  <2>4. \A i \in 1 .. Head1 + 1 : i \in 1 .. Head1 \/ i = Head1 + 1
      OBVIOUS
  <2>5. \A i \in 1 .. Head1' : OneFile(tree'[i])
      BY <2>1, <2>2, <2>4 DEF GraphInv
  <2>6. QED BY <2>3, <2>5 DEF GraphInv, Served, OneFile
<1>2. CASE FullIndex
  <2>1. /\ snap' = [rows |-> tree[Head1], edges |-> EdgesOf(Files, tree[Head1]), commit |-> Head1]
        /\ live' = [ids |-> Defined(tree[Head1]), edges |-> EdgesOf(Files, tree[Head1])]
        /\ job = NoJob /\ UNCHANGED <<tree, job>>
      BY <1>2 DEF FullIndex, IndexOf
  <2>2. Served'
      BY <2>1 DEF Served, Defined, EdgesOf
  <2>3. QED BY <2>1, <2>2 DEF GraphInv, Head1, OneFile
<1>3. CASE ReadHead
  <2>1. /\ job' = [NoJob EXCEPT !.at = "diff", !.to = Head1] /\ job = NoJob
        /\ UNCHANGED <<tree, snap, live>>
      BY <1>3 DEF ReadHead
  <2>2. job'.at = "diff"
      BY <2>1 DEF NoJob
  <2>3. QED BY <2>1, <2>2 DEF GraphInv, Served, Head1, OneFile
<1>4. CASE ReadDiff
  <2>1. /\ job.at = "diff" /\ UNCHANGED <<tree, snap, live>>
        /\ job' = [job EXCEPT !.at = "deleted", !.files = Diff(snap.commit, Head1)]
      BY <1>4 DEF ReadDiff
  <2>2. job'.at = "deleted"
      BY <2>1 DEF SyncType, Jobs
  <2>3. QED BY <2>1, <2>2 DEF GraphInv, Served, Head1, OneFile
<1>5. CASE ReadDeleted
  <2> DEFINE gone == Deletions(snap.commit, Head1)
  <2>0. job.at = "deleted" /\ job # NoJob /\ UNCHANGED <<tree, live>>
      BY <1>5 DEF ReadDeleted
  <2>1. CASE job.files = {} /\ gone = {}
    <3>1. snap' = [snap EXCEPT !.commit = job.to] /\ job' = NoJob
        BY <1>5, <2>1 DEF ReadDeleted
    <3>2. snap'.rows = snap.rows /\ snap'.edges = snap.edges
        BY <3>1 DEF SyncType
    <3>3. QED BY <2>0, <3>1, <3>2 DEF GraphInv, Served, Head1, OneFile
  <2>2. CASE ~(job.files = {} /\ gone = {})
    <3>1. PICK fs \in Expand(job.files) :
             job' = [job EXCEPT !.at = IF fs = {} THEN "point" ELSE "read",
                                !.files = fs, !.deleted = gone]
        BY <1>5, <2>2 DEF ReadDeleted
    <3>2. /\ job'.at = IF fs = {} THEN "point" ELSE "read"
          /\ job'.files = fs /\ snap' = snap
        BY <1>5, <2>2, <3>1 DEF ReadDeleted, SyncType, Jobs
    <3>3. /\ job.files \in SUBSET Files /\ OneFile(snap.rows)
          /\ Diff(snap.commit, Head1) \subseteq job.files
        BY <2>0, OneFileEach DEF SyncType, Jobs, RowInv
    <3>4. \A f \in job.files, g \in Files : \A t \in DOMAIN snap.rows[f], s \in DOMAIN snap.rows[g] :
             <<s, t>> \in live.edges => g \in fs
        BY <3>1, <3>3, ExpandTakes
    <3>5. CallersTaken'
        BY <2>0, <3>2, <3>3, <3>4 DEF CallersTaken, Diff, Head1
    <3>6. Served'
        BY <2>0, <3>2 DEF GraphInv, Served
    <3>7. CASE fs = {}
        BY <2>0, <3>2, <3>5, <3>6, <3>7 DEF GraphInv, Head1, OneFile
    <3>8. CASE fs # {}
        BY <2>0, <3>2, <3>5, <3>6, <3>8 DEF GraphInv, Head1, OneFile
    <3>9. QED BY <3>7, <3>8
  <2>3. QED BY <2>1, <2>2
<1>6. CASE ReadFile
  <2>1. /\ job.at = "read" /\ UNCHANGED <<tree, snap, live>>
        /\ job'.at \in {"read", "store"} /\ job'.files = job.files
      BY <1>6, FileRead
  <2>2. QED BY <2>1 DEF GraphInv, Served, CallersTaken, Diff, Head1, OneFile
<1>7. CASE StoreSnapshot
  <2>1. /\ job.at = "store"
        /\ snap'.rows = NewRows /\ snap'.edges = Kept \cup EdgesOf(job.files, NewRows)
        /\ job' = [job EXCEPT !.at = "remove", !.gone = Gone]
        /\ UNCHANGED <<tree, live>>
      BY <1>7 DEF StoreSnapshot
  <2>2. /\ job'.at = "remove" /\ job'.files = job.files /\ job'.new = job.new /\ job'.gone = Gone
      BY <2>1 DEF SyncType, Jobs
  <2>3. Rewritten' = Rewritten
      BY <2>2 DEF Rewritten
  <2>4. live'.ids = Defined(snap.rows) /\ live'.edges = snap.edges
      BY <2>1 DEF GraphInv, Served
  <2>5. (live'.ids \ job'.gone) \cup Rewritten' = Defined(snap'.rows)
      BY <2>1, <2>2, <2>3, <2>4, NewIds
  <2>6. {e \in live'.edges : {e[1], e[2]} \cap job'.gone = {} /\ e[1] \notin Rewritten'} = Kept
      BY <2>2, <2>3, <2>4 DEF Kept
  <2>7. EdgesOf(job'.files, snap'.rows) = EdgesOf(job.files, NewRows)
      BY <2>1, <2>2
  <2>8. QED BY <2>1, <2>2, <2>5, <2>6, <2>7 DEF GraphInv, Head1, OneFile
<1>8. CASE RemoveGone
  <2>1. /\ job.at = "remove"
        /\ live'.ids = live.ids \ job.gone
        /\ live'.edges = {e \in live.edges : {e[1], e[2]} \cap job.gone = {}}
        /\ job' = [job EXCEPT !.at = "upsert"]
        /\ UNCHANGED <<tree, snap>>
      BY <1>8 DEF RemoveGone
  <2>2. job'.at = "upsert" /\ job'.files = job.files /\ job'.new = job.new
      BY <2>1 DEF SyncType, Jobs
  <2>3. Rewritten' = Rewritten
      BY <2>2 DEF Rewritten
  <2>4. {e \in live'.edges : e[1] \notin Rewritten'}
           = {e \in live.edges : {e[1], e[2]} \cap job.gone = {} /\ e[1] \notin Rewritten}
      BY <2>1, <2>3
  <2>5. live'.ids \cup Rewritten' = Defined(snap'.rows)
      BY <2>1, <2>3 DEF GraphInv
  <2>6. {e \in live'.edges : e[1] \notin Rewritten'} \cup EdgesOf(job'.files, snap'.rows) = snap'.edges
      BY <2>1, <2>2, <2>4 DEF GraphInv
  <2>7. QED BY <2>1, <2>2, <2>5, <2>6 DEF GraphInv, Head1, OneFile
<1>9. CASE UpsertLive
  <2>1. /\ job.at = "upsert"
        /\ live'.ids = live.ids \cup Rewritten
        /\ live'.edges = {e \in live.edges : e[1] \notin Rewritten} \cup EdgesOf(job.files, snap.rows)
        /\ job' = [job EXCEPT !.at = "point"]
        /\ UNCHANGED <<tree, snap>>
      BY <1>9 DEF UpsertLive
  <2>2. job'.at = "point"
      BY <2>1 DEF SyncType, Jobs
  <2>3. Served'
      BY <2>1 DEF GraphInv, Served
  <2>4. QED BY <2>1, <2>2, <2>3 DEF GraphInv, Head1, OneFile
<1>10. CASE DropFile
  <2>1. snap' = snap
      BY <1>10, NothingDropped
  <2>2. job.at = "point" /\ job'.at = "point" /\ UNCHANGED <<tree, live>>
      BY <1>10 DEF DropFile, SyncType, Jobs
  <2>3. QED BY <2>1, <2>2 DEF GraphInv, Served, Head1, OneFile
<1>11. CASE Point
  <2>1. /\ job.at = "point" /\ job' = NoJob /\ UNCHANGED <<tree, live>>
        /\ snap'.rows = snap.rows /\ snap'.edges = snap.edges
      BY <1>11 DEF Point, SyncType
  <2>2. QED BY <2>1 DEF GraphInv, Served, Head1, OneFile
<1>12. CASE IngestDies
    BY <1>12 DEF IngestDies, Calm
<1>13. CASE UNCHANGED syncVars
    BY <1>13 DEF syncVars, GraphInv, Served, CallersTaken, Diff, Head1, OneFile, Rewritten
<1>14. QED
    BY <1>1, <1>2, <1>3, <1>4, <1>5, <1>6, <1>7, <1>8, <1>9, <1>10, <1>11, <1>12, <1>13 DEF SyncNext

LEMMA SyncInductive ==
    /\ FirstTree /\ SyncInit => GraphBasis
    /\ GraphBasis /\ [SyncNext]_syncVars => GraphBasis'
BY BasisInductive, GraphInit, GraphStep DEF GraphBasis, GraphKept

\* At rest the graph has the snapshot's symbols and its edges, and after a crash up_to_date is
\* never claimed of a graph without the head's symbols (graph_read_tools.py:2189).
THEOREM GraphFollows == FirstTree /\ SyncSpec => []GraphOfSnapshot
<1>1. GraphBasis => GraphOfSnapshot
  <2> SUFFICES ASSUME GraphBasis, job = NoJob PROVE GraphOfSnapshot
      BY DEF GraphOfSnapshot
  <2>1. given = {} => Served
      BY DEF GraphBasis, GraphKept, Calm, GraphInv, NoJob
  <2>2. UpToDate /\ Steady => live.ids = Defined(tree[Head1])
      BY RowsAgree DEF GraphBasis, UpToDate, RowsOfHead
  <2>3. QED BY <2>1, <2>2 DEF GraphOfSnapshot, Served
<1>2. QED BY <1>1, SyncInductive, PTL DEF SyncSpec

EdgesStay ==
    [(given = {} /\ snap' # snap) =>
          snap.edges \cap EdgesOf(Files, snap'.rows) \subseteq snap'.edges]_syncVars

\* A sync loses no edge that a full index would have, when the target of the edge is rewritten
\* or moves to another file: the callers are extracted again.
THEOREM NoEdgeTooFew == FirstTree /\ SyncSpec => NoEdgeLost
<1>1. GraphBasis /\ [SyncNext]_syncVars => EdgesStay
  <2> SUFFICES ASSUME GraphBasis, SyncNext, given = {}, snap' # snap
               PROVE  snap.edges \cap EdgesOf(Files, snap'.rows) \subseteq snap'.edges
      BY DEF EdgesStay
  <2>0. SyncType /\ DropInv /\ RowInv /\ GraphInv
      BY DEF GraphBasis, SyncBasis, GraphKept, RowKept, Still, DropKept, Alone, Calm
  <2>1. CASE FullIndex
      BY <2>1 DEF FullIndex, IndexOf
  <2>2. CASE StoreSnapshot
    <3>1. /\ job.at = "store" /\ snap'.rows = NewRows
          /\ snap'.edges = Kept \cup EdgesOf(job.files, NewRows)
        BY <2>2 DEF StoreSnapshot
    <3>2. QED BY <2>0, <3>1, NoneLost
  <2>3. CASE ReadDeleted \/ Point
    <3>1. snap'.edges = snap.edges
        BY <2>0, <2>3 DEF ReadDeleted, Point, SyncType
    <3>2. QED BY <3>1
  <2>4. CASE DropFile
      BY <2>0, <2>4, NothingDropped
  <2>5. QED
      BY <2>1, <2>2, <2>3, <2>4 DEF SyncNext, Pull, ReadHead, ReadDiff, ReadFile, RemoveGone, UpsertLive, IngestDies
<1>2. QED BY <1>1, SyncInductive, PTL DEF SyncSpec, NoEdgeLost, EdgesStay

(***************************************************************************)
(* The calls of a rebuild                                                  *)
(***************************************************************************)

SourceInv == SourceWorld /\ layout \in Layouts

LEMMA PresentIsPlaced ==
    ASSUME SourceInv, NEW s \in Present
    PROVE  /\ s \in SourceSymbols /\ FileOf[s] \in DOMAIN layout
           /\ IndexIn(s) \in DOMAIN layout[FileOf[s]] /\ layout[FileOf[s]][IndexIn(s)] = s
           /\ IndexIn(s) \in Nat /\ IndexIn(s) >= 1
<1>1. PICK p \in DOMAIN layout : s \in ToSet(layout[p])
    BY DEF Present
<1>2. PICK i \in DOMAIN layout[p] : s = layout[p][i]
    BY <1>1 DEF ToSet
<1>3. layout[p] \in Seq(SourceSymbols) /\ FileOf[s] = p
    BY <1>1, <1>2 DEF SourceInv, SourceWorld
<1>4. IndexIn(s) \in DOMAIN layout[p] /\ layout[p][IndexIn(s)] = s
    BY <1>2, <1>3 DEF IndexIn
<1>5. s \in SourceSymbols /\ DOMAIN layout[p] = 1 .. Len(layout[p])
    BY <1>2, <1>3
<1>6. QED BY <1>1, <1>3, <1>4, <1>5

LEMMA Foremosts == \A S : \A k : Foremost(S, k) \subseteq S
BY DEF Foremost

LEMMA RegexInTree ==
    ASSUME NEW s
    PROVE  RegexCalls(s) \subseteq Present \ {s} /\ RegexUses(s) \subseteq Present \ {s}
<1>1. ASSUME NEW n, NEW p, NEW kinds, NEW imports PROVE Candidates(n, p, kinds, imports) \subseteq Present
  <2> DEFINE target == IF n \in DOMAIN imports THEN imports[n] ELSE <<n>>
             all == {t \in Present : Short(t) = Last(target) /\ KindOf[t] \in kinds}
  <2>1. all \subseteq Present
      OBVIOUS
  <2> HIDE DEF all
  <2>2. Nearest({<<FileOf[t], t>> : t \in all}, p) \subseteq all
      BY NearestAmong
  <2>3. Candidates(n, p, kinds, imports) \subseteq all
      BY <2>2 DEF Candidates, all
  <2>4. QED BY <2>1, <2>3
<1>2. \A path, imports : Qualified(path, imports) \subseteq Present
    BY Foremosts DEF Qualified
<1>3. \A m, p : Called(m, p) \subseteq Present
    BY <1>1, <1>2 DEF Called
<1>4. UNION {Called(m, FileOf[s]) : m \in Says[s]} \subseteq Present
    BY <1>3
<1>5. Declared(s) \subseteq Present
    BY <1>1 DEF Declared
<1>6. \A T, k : UNION {Candidates(m.path[1], FileOf[s], k, Imports[FileOf[s]]) : m \in T} \subseteq Present
    BY <1>1
<1>7. RegexCalls(s) \subseteq Present \ {s}
    BY <1>4, <1>5 DEF RegexCalls
<1>8. RegexUses(s) \subseteq Present \ {s}
    BY <1>6 DEF RegexUses
<1>9. QED BY <1>7, <1>8

LEMMA ScipInTree ==
    ASSUME NEW s
    PROVE  ScipEdges(s) \subseteq Present \ {s} /\ ScipCalls(s) \subseteq ScipEdges(s)
<1>1. \A t : Namesakes(t) \subseteq Present
    BY DEF Namesakes
<1>2. \A t : Suffixed(t) \subseteq Present
    BY <1>1, Foremosts DEF Suffixed
<1>3. \A p, t : ScipTarget(p, t) \subseteq Present
    BY <1>1, <1>2 DEF ScipTarget
<1>4. \A T, p : UNION {ScipTarget(p, o[2]) : o \in T} \subseteq Present
    BY <1>3
<1>5. ScipEdges(s) \subseteq Present \ {s}
    BY <1>4 DEF ScipEdges
<1>6. ScipCalls(s) \subseteq ScipEdges(s)
    BY DEF ScipCalls
<1>7. QED BY <1>5, <1>6

\* The last segments of an id end it.
LEMMA TailEnds ==
    ASSUME NEW S, NEW id \in Seq(S), id # <<>>, NEW path, path = Tail(id),
           NEW k \in 1 .. Len(path)
    PROVE  /\ path \in Seq(S) /\ IsSuffix(SubSeq(path, Len(path) - k + 1, Len(path)), id)
           /\ SubSeq(path, Len(path) - Len(path) + 1, Len(path)) = path
<1> DEFINE n == Len(path)
           e == SubSeq(path, n - k + 1, n)
<1>1. path \in Seq(S) /\ n \in Nat /\ Len(id) = n + 1 /\ \A i \in 1 .. n : path[i] = id[i + 1]
    OBVIOUS
<1>2. e \in Seq(S) /\ Len(e) = k /\ \A i \in 1 .. k : e[i] = path[n - k + i]
    BY <1>1
<1>3. SubSeq(path, 1, n) = path
    BY <1>1
<1> HIDE DEF e, n
<1>4. Reverse(e) = [i \in 1 .. k |-> id[(n + 1) - i + 1]]
  <2>1. Reverse(e) = [i \in 1 .. k |-> e[(k - i) + 1]]
      BY <1>2 DEF Reverse
  <2>2. \A i \in 1 .. k : e[(k - i) + 1] = id[(n + 1) - i + 1]
    <3> TAKE i \in 1 .. k
    <3>1. (k - i) + 1 \in 1 .. k /\ k <= n
        BY <1>1 DEF n
    <3>2. e[(k - i) + 1] = path[n - k + ((k - i) + 1)]
        BY <1>2, <3>1
    <3>3. n - k + ((k - i) + 1) = n - i + 1 /\ n - i + 1 \in 1 .. n
        BY <1>1, <3>1
    <3>4. path[n - i + 1] = id[(n - i + 1) + 1] /\ (n - i + 1) + 1 = (n + 1) - i + 1
        BY <1>1, <3>3
    <3>5. QED BY <3>2, <3>3, <3>4
  <2>3. QED BY <2>1, <2>2
<1>5. Reverse(id) \in Seq(S) /\ Len(Reverse(id)) = n + 1
      /\ \A i \in 1 .. n + 1 : Reverse(id)[i] = id[(n + 1) - i + 1]
    BY <1>1 DEF Reverse
<1>6. Reverse(e) \in Seq(S) /\ Len(Reverse(e)) = k
      /\ \A i \in 1 .. k : Reverse(e)[i] = id[(n + 1) - i + 1]
    BY <1>1, <1>2, <1>4 DEF Reverse, n
<1>7. k <= n + 1
    BY <1>1 DEF n
<1>8. SubSeq(Reverse(e), 1, k) = SubSeq(Reverse(id), 1, k)
    BY <1>1, <1>5, <1>6, <1>7
<1>9. IsPrefix(Reverse(e), Reverse(id))
    BY <1>1, <1>5, <1>6, <1>7, <1>8 DEF IsPrefix
<1>10. n - n + 1 = 1
    BY <1>1
<1>11. QED BY <1>1, <1>3, <1>9, <1>10 DEF IsSuffix, e, n

\* A reference is resolved to the symbol meant, unless another in the file has its name or
\* another id ends in its path.
LEMMA TargetIsMeant ==
    ASSUME SourceInv, NEW s \in Present, NEW to \in Present, NEW t \in ScipTarget(FileOf[s], to)
    PROVE  /\ t \in Present /\ Short(t) = Short(to)
           /\ t = to \/ Sharing(s, to) \/ Twins(to)
<1> DEFINE local == {u \in Namesakes(to) : FileOf[u] = FileOf[s]}
<1>1. CASE to \in Opaque
    BY <1>1 DEF ScipTarget
<1>2. CASE to \notin Opaque /\ Only(local)
  <2>1. t \in local
      BY <1>2 DEF ScipTarget
  <2>2. QED BY <2>1 DEF Namesakes, Sharing
<1>3. CASE to \notin Opaque /\ ~Only(local) /\ Only(Namesakes(to))
  <2>1. t \in Namesakes(to) /\ to \in Namesakes(to)
      BY <1>3 DEF ScipTarget, Namesakes
  <2>2. t = to
      BY <1>3, <2>1 DEF Only
  <2>3. QED BY <2>2
<1>4. CASE to \notin Opaque /\ ~Only(local) /\ ~Only(Namesakes(to))
  <2> DEFINE path == Tail(IdOf[to])
             ends(k) == SubSeq(path, Len(path) - k + 1, Len(path))
             fits(k) == {u \in Namesakes(to) : IsSuffix(ends(k), IdOf[u])}
             ks == {k \in 2 .. Len(path) : fits(k) # {}}
             best == CHOOSE k \in ks : \A j \in ks : j <= k
  <2>1. t \in Suffixed(to)
      BY <1>4 DEF ScipTarget
  <2>2. ks # {} /\ t \in Foremost(fits(best), 1)
      BY <2>1 DEF Suffixed
  <2>3. IdOf[to] \in Seq(Segments) /\ IdOf[to] # <<>>
      BY PresentIsPlaced DEF SourceInv, SourceWorld
  <2>4. path \in Seq(Segments) /\ Len(path) \in Nat
      BY <2>3
  <2>5. Len(path) \in 2 .. Len(path)
      BY <2>2, <2>4
  <2>6. IsSuffix(ends(Len(path)), IdOf[to]) /\ ends(Len(path)) = path
    <3> DEFINE id == IdOf[to]
    <3>1. id \in Seq(Segments) /\ id # <<>> /\ path = Tail(id)
        BY <2>3
    <3>2. Len(path) \in 1 .. Len(path)
        BY <2>4, <2>5
    <3> HIDE DEF id, path
    <3>3. /\ IsSuffix(SubSeq(path, Len(path) - Len(path) + 1, Len(path)), id)
          /\ SubSeq(path, Len(path) - Len(path) + 1, Len(path)) = path
        BY <3>1, <3>2, TailEnds
    <3>4. QED BY <3>3 DEF id, path
  <2>7. to \in Namesakes(to)
      BY DEF Namesakes
  <2> HIDE DEF ends
  <2>8. Len(path) \in ks
      BY <2>5, <2>6, <2>7
  <2>9. ks \subseteq 2 .. Len(path)
      OBVIOUS
  <2> HIDE DEF path, ks
  <2>10. \A j \in ks : j <= Len(path)
      BY <2>4, <2>9
  <2>11. best \in ks /\ \A j \in ks : j <= best
      BY <2>8, <2>10
  <2> HIDE DEF best
  <2>12. best = Len(path)
      BY <2>4, <2>8, <2>9, <2>10, <2>11
  <2>13. t \in fits(Len(path))
      BY <2>2, <2>12, Foremosts DEF best
  <2>14. t \in Namesakes(to) /\ IsSuffix(path, IdOf[t])
      BY <2>6, <2>13
  <2>15. QED BY <2>14 DEF Namesakes, Twins, path
<1>5. QED BY <1>1, <1>2, <1>3, <1>4

\* The references on the lines of a function are those its own body makes.
LEMMA ReferencesAreOwn ==
    ASSUME SourceInv, Fresh, NEW s \in Present, ~FirstLineRead(s), NEW t \in ScipEdges(s)
    PROVE  \E m \in Says[s] : m.to \in Present /\ t \in ScipTarget(FileOf[s], m.to)
<1> DEFINE p == FileOf[s]
           j == IndexIn(s)
<1>1. p \in DOMAIN layout /\ j \in DOMAIN layout[p] /\ layout[p][j] = s /\ j \in Nat
    BY PresentIsPlaced
<1>2. PICK o \in scip[p] : o[1] \in Lines(s) /\ t \in ScipTarget(p, o[2])
    BY DEF ScipEdges
<1>3. o \in References(p)
    BY <1>1, <1>2 DEF Fresh
<1>4. PICK i \in DOMAIN layout[p] :
         o \in {<<Height * (i - 1) + m.row - 1, m.to>> :
                m \in {q \in Says[layout[p][i]] : q.to \in Present}}
    BY <1>3 DEF References
<1>5. PICK m \in Says[layout[p][i]] :
         m.to \in Present /\ o = <<Height * (i - 1) + m.row - 1, m.to>>
    BY <1>4
<1>6. layout[p] \in Seq(SourceSymbols) /\ FileOf[layout[p][i]] = p
    BY <1>1, <1>4 DEF SourceInv, SourceWorld
<1>7. i \in Nat /\ layout[p][i] \in SourceSymbols
    BY <1>4, <1>6
<1>8. m.row \in 1 .. 2 /\ Height = 2
    BY <1>5, <1>7 DEF SourceInv, SourceWorld, Height
<1>9. o[1] = 2 * (i - 1) + m.row - 1 /\ o[2] = m.to
    BY <1>5, <1>8
<1>10. o[1] \in 2 * (j - 1) + 1 .. 2 * j
    BY <1>2, <1>8 DEF Lines
<1>11. m.row = 1 \/ i = j
    BY <1>1, <1>7, <1>8, <1>9, <1>10
<1>12. m.row # 1
  <2>1. layout[p][i] \in Present
      BY <1>1, <1>4 DEF Present, ToSet
  <2>2. QED BY <1>5, <1>6, <2>1 DEF FirstLineRead
<1>13. layout[p][i] = s
    BY <1>1, <1>11, <1>12
<1>14. QED BY <1>2, <1>5, <1>9, <1>13

\* Old as a SCIP index may be, the calls a rebuild loads for a function keep every name that
\* was seen in it and stay within the tree; a fresh one loses no right callee and adds none
\* that is not mentioned, up to namesakes and first lines: for any tree, imports and mentions.
THEOREM ScipIsSafe == SourceWorld /\ NameSpec => []ScipKeepsCallees
<1>1. SourceWorld /\ NameInit => SourceInv
    BY DEF NameInit, SourceInv
<1>2. SourceInv /\ [NameNext]_nameVars => SourceInv'
    BY DEF SourceInv, SourceWorld, NameNext, Commit, Generate, LoseScip, nameVars
<1>3. ASSUME SourceInv PROVE ScipKeepsCallees
  <2> SUFFICES ASSUME NEW s \in Present
               PROVE  /\ {Short(t) : t \in RegexCalls(s)} \subseteq {Short(t) : t \in Calls(s)}
                      /\ Calls(s) \cup Uses(s) \subseteq Present \ {s}
                      /\ Fresh /\ ~FirstLineRead(s) =>
                          /\ \A m \in Says[s] :
                                 m.to \in RegexCalls(s) =>
                                     m.to \in Calls(s) \/ Sharing(s, m.to) \/ Twins(m.to)
                                                       \/ Overloaded(s, m.to)
                          /\ \A t \in Calls(s) \ RegexCalls(s) :
                                 \E m \in Says[s] :
                                     /\ Short(t) = Short(m.to)
                                     /\ t = m.to \/ Sharing(s, m.to) \/ Twins(m.to)
      BY DEF ScipKeepsCallees
  <2>1. Calls(s) = RegexCalls(s) \/ Calls(s) = United(s, ScipCalls(s))
      BY DEF Calls
  <2>2. /\ \A t \in RegexCalls(s) :
              t \in Calls(s) \/ \E u \in ScipCalls(s) \cap Calls(s) : Short(u) = Short(t)
        /\ Calls(s) \subseteq RegexCalls(s) \cup ScipCalls(s)
      BY <2>1 DEF United
  <2>3. {Short(t) : t \in RegexCalls(s)} \subseteq {Short(t) : t \in Calls(s)}
    <3> DEFINE C == Calls(s)
    <3>1. \A t \in RegexCalls(s) : \E u \in C : Short(u) = Short(t)
        BY <2>2
    <3> HIDE DEF C
    <3>2. {Short(t) : t \in RegexCalls(s)} \subseteq {Short(t) : t \in C}
        BY <3>1
    <3>3. QED BY <3>2 DEF C
  <2>4. Calls(s) \subseteq Present \ {s}
      BY <2>2, RegexInTree, ScipInTree
  <2>5. Uses(s) \subseteq Present \ {s}
      BY RegexInTree, ScipInTree DEF Uses
  <2>6. ASSUME Fresh, ~FirstLineRead(s), NEW u \in ScipCalls(s)
        PROVE  \E m \in Says[s] : /\ Short(u) = Short(m.to)
                                  /\ u = m.to \/ Sharing(s, m.to) \/ Twins(m.to)
    <3>1. u \in ScipEdges(s)
        BY <2>6, ScipInTree
    <3>2. PICK m \in Says[s] : m.to \in Present /\ u \in ScipTarget(FileOf[s], m.to)
        BY <1>3, <2>6, <3>1, ReferencesAreOwn
    <3>3. QED BY <1>3, <3>2, TargetIsMeant
  <2>7. ASSUME Fresh, ~FirstLineRead(s), NEW m \in Says[s], m.to \in RegexCalls(s),
               m.to \notin Calls(s)
        PROVE  Sharing(s, m.to) \/ Twins(m.to) \/ Overloaded(s, m.to)
    <3>1. PICK u \in ScipCalls(s) : u \in Calls(s) /\ Short(u) = Short(m.to)
        BY <2>2, <2>7
    <3>2. PICK q \in Says[s] : /\ Short(u) = Short(q.to)
                               /\ u = q.to \/ Sharing(s, q.to) \/ Twins(q.to)
        BY <2>6, <2>7
    <3>3. CASE q.to = m.to
        BY <2>7, <3>1, <3>2, <3>3
    <3>4. CASE q.to # m.to
        BY <3>1, <3>2, <3>4 DEF Overloaded
    <3>5. QED BY <3>3, <3>4
  <2>8. ASSUME Fresh, ~FirstLineRead(s), NEW t \in Calls(s) \ RegexCalls(s)
        PROVE  \E m \in Says[s] : /\ Short(t) = Short(m.to)
                                  /\ t = m.to \/ Sharing(s, m.to) \/ Twins(m.to)
      BY <2>2, <2>6, <2>8
  <2>9. QED BY <2>3, <2>4, <2>5, <2>7, <2>8
<1>4. QED BY <1>1, <1>2, <1>3, PTL DEF NameSpec
=============================================================================
