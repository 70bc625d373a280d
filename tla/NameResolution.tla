--------------------------- MODULE NameResolution ---------------------------
(***************************************************************************)
(* From the names a function mentions to the edges of the graph            *)
(* (indexing_service.py), and the refinement of these edges by an index of *)
(* rust-analyzer (scip_ingestor.py) that may be of an earlier tree.  The   *)
(* state is the tree and the SCIP index on disk; the graph a rebuild would *)
(* make of both is an operator over them.                                  *)
(*                                                                         *)
(* An identifier is the sequence of its path's segments.  A mention is     *)
(*   [form, path, to, row]: how it is written (a "path" a::b(), a "plain"  *)
(*   call, a "method" call, a "type"), the segments written, the symbol    *)
(*   the compiler resolves it to, and the line of the body it is on.       *)
(* Every symbol takes Height lines of its file and follows the one before  *)
(* it without a blank line; impl blocks, whose lines enclose those of      *)
(* their methods, are left out, so that regions never nest.                *)
(***************************************************************************)
EXTENDS ResolutionScope, Sequences, SequencesExt

CONSTANTS
    IdOf,       \* symbol -> the segments of its id
    KindOf,     \* symbol -> "fn", "struct", "const" or "mod"
    FileOf,     \* symbol -> file
    Imports,    \* file -> name -> the path a use statement gives it
    Says,       \* symbol -> mentions in its body
    Opaque,     \* symbols whose SCIP descriptor is no plain name: methods, types
    Layouts,    \* the trees: file -> sequence of its symbols
    Order       \* file -> when the walk visits it

VARIABLES layout,   \* the tree
          scip      \* file -> occurrences <<line, symbol>>; no file: no index

nameVars == <<layout, scip>>

Height == 2
Skipped == {"mod"}                  \* GRAPH_SKIP_KINDS
Callable == {"fn"}                  \* _CALLABLE_KINDS
Typed == {"struct", "const", "fn"}           \* _TYPE_KINDS

SourceSymbols == DOMAIN IdOf
Segments == UNION {{IdOf[s][i] : i \in DOMAIN IdOf[s]} : s \in SourceSymbols}
\* A tree gives every file a sequence of symbols of that file; the id of a symbol has a
\* segment; a mention is on a line of its function.
SourceWorld ==
    /\ \A s \in SourceSymbols : IdOf[s] \in Seq(Segments) /\ IdOf[s] # <<>>
    /\ \A t \in Layouts : \A p \in DOMAIN t :
          /\ t[p] \in Seq(SourceSymbols)
          /\ \A i \in DOMAIN t[p] : FileOf[t[p][i]] = p
    /\ \A s \in SourceSymbols : \A m \in Says[s] : m.row \in 1 .. Height

Short(s) == Last(IdOf[s])
Present == UNION {ToSet(layout[f]) : f \in DOMAIN layout}
IndexIn(s) == CHOOSE i \in DOMAIN layout[FileOf[s]] : layout[FileOf[s]][i] = s
\* the order of the chunks: of files, and within a file
Before(s, t) ==
    \/ Order[FileOf[s]] < Order[FileOf[t]]
    \/ FileOf[s] = FileOf[t] /\ IndexIn(s) < IndexIn(t)
Foremost(S, k) == {s \in S : Cardinality({t \in S : Before(t, s)}) < k}
Only(S) == \E s \in S : S = {s}

(***************************************************************************)
(* Resolution of a name                                                    *)
(***************************************************************************)
\* _resolve_candidates: import > what is nearest
Candidates(n, f, kinds, imports) ==
    LET target == IF n \in DOMAIN imports THEN imports[n] ELSE <<n>>
        all == {s \in Present : Short(s) = Last(target) /\ KindOf[s] \in kinds}
        exact == {s \in all : n \in DOMAIN imports /\ IsSuffix(target, IdOf[s])}
    IN  IF exact # {} THEN exact ELSE Nearest({<<FileOf[s], s>> : s \in all}, f)

LastTwo(p) == SubSeq(p, Len(p) - 1, Len(p))

\* A call a::b(): the path index, after the import map has expanded the prefix
Qualified(path, imports) ==
    LET full == IF path[1] \in DOMAIN imports THEN imports[path[1]] \o Tail(path) ELSE path
    IN  Foremost({s \in Present : Len(IdOf[s]) >= 2 /\ LastTwo(IdOf[s]) = LastTwo(full)}, HubLimit)

\* CALL_PATTERN also matches the name in .name(), so that the import map is
\* consulted for a method call too, and the name in a declaration fn name().
Called(m, f) ==
    CASE m.form = "path" -> Qualified(m.path, Imports[f])
      [] m.form = "plain" -> Candidates(m.path[1], f, Callable, Imports[f])
      [] m.form = "method" -> Candidates(m.path[1], f, Callable, Imports[f])
                              \cup Candidates(m.path[1], f, Callable, <<>>)
      [] OTHER -> {}
Declared(s) == Candidates(Short(s), FileOf[s], Callable, Imports[FileOf[s]])

RegexCalls(s) ==
    IF KindOf[s] \in Skipped THEN {}
    ELSE ((UNION {Called(m, FileOf[s]) : m \in Says[s]}) \cup Declared(s)) \ {s}
RegexUses(s) ==
    IF KindOf[s] \in Skipped THEN {}
    ELSE (UNION {Candidates(m.path[1], FileOf[s], Typed, Imports[FileOf[s]]) :
                 m \in {q \in Says[s] : q.form = "type"}}) \ {s}

(***************************************************************************)
(* The SCIP index, and its references mapped onto the tree                 *)
(***************************************************************************)
\* rust-analyzer counts lines from 0.
References(f) ==
    UNION {{<<Height * (i - 1) + m.row - 1, m.to>> :
            m \in {q \in Says[layout[f][i]] : q.to \in Present}} : i \in DOMAIN layout[f]}

\* A chunk counts them from 1.
Lines(s) == Height * (IndexIn(s) - 1) + 1 .. Height * IndexIn(s)

\* _resolve_target: same file, if one > the only one > the longest common suffix
Namesakes(t) == {s \in Present : Short(s) = Short(t)}
Suffixed(t) ==
    LET path == Tail(IdOf[t])       \* the path within the crate
        fits(k) == {s \in Namesakes(t) :
            IsSuffix(SubSeq(path, Len(path) - k + 1, Len(path)), IdOf[s])}
        ks == {k \in 2 .. Len(path) : fits(k) # {}}
    IN  IF ks = {} THEN {} ELSE Foremost(fits(CHOOSE k \in ks : \A j \in ks : j <= k), 1)
ScipTarget(f, t) ==
    LET local == {s \in Namesakes(t) : FileOf[s] = f}
    IN  CASE t \in Opaque -> {}
          [] t \notin Opaque /\ Only(local) -> local
          [] OTHER -> IF Only(Namesakes(t)) THEN Namesakes(t) ELSE Suffixed(t)

\* build_scip_edges, for one source
ScipEdges(s) ==
    IF FileOf[s] \notin DOMAIN scip \/ KindOf[s] # "fn" THEN {}
    ELSE (UNION {ScipTarget(FileOf[s], o[2]) :
                 o \in {q \in scip[FileOf[s]] : q[1] \in Lines(s)}}) \ {s}
ScipCalls(s) == {t \in ScipEdges(s) : KindOf[t] = "fn"}

(***************************************************************************)
(* The edges a rebuild loads                                               *)
(***************************************************************************)
\* Under half of the covered sources known to the index: it is too old.
ScipSources == {s \in Present : FileOf[s] \in DOMAIN scip /\ RegexCalls(s) \cup RegexUses(s) # {}}
TooStale == 2 * Cardinality({s \in ScipSources : ScipEdges(s) # {}}) < Cardinality(ScipSources)

ReplacedBy(s, new) == IF new = {} THEN RegexCalls(s) ELSE new
\* A regex target gives way only to a SCIP target of its short name.
United(s, new) == {t \in RegexCalls(s) : \A u \in new : Short(u) # Short(t)} \cup new

Calls(s) == IF TooStale THEN RegexCalls(s) ELSE United(s, ScipCalls(s))
Uses(s) == IF TooStale THEN RegexUses(s) ELSE RegexUses(s) \cup (ScipEdges(s) \ ScipCalls(s))

(***************************************************************************)
(* Commits, and runs of rust-analyzer                                      *)
(***************************************************************************)
NameInit == layout \in Layouts /\ scip = <<>>

Commit == layout' \in Layouts \ {layout} /\ UNCHANGED scip
Generate == scip' = [f \in DOMAIN layout |-> References(f)] /\ UNCHANGED layout
\* missing, empty or unreadable: the regex edges stand
LoseScip == scip # <<>> /\ scip' = <<>> /\ UNCHANGED layout

NameNext == Commit \/ Generate \/ LoseScip

NameSpec == NameInit /\ [][NameNext]_nameVars

(***************************************************************************)
(* Properties                                                              *)
(***************************************************************************)
Fresh == scip = [f \in DOMAIN layout |-> References(f)]

Sharing(s, t) == \E n \in Present : FileOf[n] = FileOf[s] /\ Short(n) = Short(t) /\ n # t
FirstLineRead(s) == \E n \in Present : FileOf[n] = FileOf[s] /\ \E m \in Says[n] : m.row = 1
Overloaded(s, t) == \E m \in Says[s] : m.to # t /\ Short(m.to) = Short(t)
Twins(t) == \E n \in Present \ {t} : IsSuffix(Tail(IdOf[t]), IdOf[n])

\* However old the SCIP index is, a rebuild leaves a function every name it was
\* seen to call, with targets that exist, and no call of itself.  An index of
\* this very tree neither loses a right callee that the patterns found nor adds
\* one the function does not mention, except in a file that holds another symbol
\* of the callee's name or a call on the first line of a function (which is read
\* as the last line of the function before), or where two crates hold its path;
\* and a callee may be lost to another one of its name in the same function.
ScipKeepsCallees ==
    \A s \in Present :
        /\ {Short(t) : t \in RegexCalls(s)} \subseteq {Short(t) : t \in Calls(s)}
        /\ Calls(s) \cup Uses(s) \subseteq Present \ {s}
        /\ Fresh /\ ~FirstLineRead(s) =>
            /\ \A m \in Says[s] :
                   m.to \in RegexCalls(s) =>
                       m.to \in Calls(s) \/ Sharing(s, m.to) \/ Twins(m.to) \/ Overloaded(s, m.to)
            /\ \A t \in Calls(s) \ RegexCalls(s) :
                   \E m \in Says[s] :
                       /\ Short(t) = Short(m.to)
                       /\ t = m.to \/ Sharing(s, m.to) \/ Twins(m.to)
=============================================================================
