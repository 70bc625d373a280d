---------------------------- MODULE DiffSymbols ----------------------------
(***************************************************************************)
(* What a diff changes (diff_parser.py, for analyze_pr_diff): from the     *)
(* declaration lines of each file to added, deleted, modified and renamed  *)
(* names, and from these to symbols of the index.  The state is the tree   *)
(* the index knows and the branch under review; a step is one edit of the  *)
(* branch, and the parser's answers are operators over both.  A symbol is  *)
(* a file and a name; a file that declares nothing is absent.              *)
(***************************************************************************)
EXTENDS Naturals, FiniteSetsExt

CONSTANTS
    Paths, Names,
    Within,     \* <<q, n>>: a search for q finds the name n
    Alike,      \* <<d, a>>: their declarations are similar enough for a rename
    Masters,    \* the trees the index may hold
    HitLimit,   \* symbols kept of a search for a changed name: 5
    GoneLimit,  \* and for a deleted or a renamed one: 3
    Overfetch,  \* a search asks for so many times what is kept: 4
    MaxSymbols, \* max_symbols: 10
    MaxEdits    \* bound: edits of the branch

VARIABLES
    master,     \* path -> names, as indexed
    branch,     \* path -> names, under review
    origin,     \* path -> the path in master of the file now there, or "none"
    resigned,   \* path -> names whose declaration line changed
    context,    \* path -> names in hunk headers, "none" for a header without one
    impl,       \* a line of a trait implementation changed
    edits

diffVars == <<master, branch, origin, resigned, context, impl, edits>>

\* A name is found by a search for it, and nothing is called "none".
DiffWorld ==
    /\ IsFiniteSet(Paths) /\ IsFiniteSet(Names) /\ "none" \notin Paths \cup Names
    /\ {HitLimit, GoneLimit, Overfetch, MaxSymbols} \subseteq Nat \ {0} /\ GoneLimit <= HitLimit
    /\ Masters \subseteq [Paths -> SUBSET Names]
    /\ \A n \in Names : <<n, n>> \in Within

DiffInit ==
    /\ master \in Masters
    /\ branch = master
    /\ origin = [f \in Paths |-> IF master[f] = {} THEN "none" ELSE f]
    /\ resigned = [f \in Paths |-> {}]
    /\ context = [f \in Paths |-> {}]
    /\ impl = FALSE
    /\ edits = 0

(***************************************************************************)
(* The edits of a developer                                                *)
(***************************************************************************)
Old(f) == IF origin[f] = "none" THEN {} ELSE master[origin[f]]
MovedAway(f) == \E g \in Paths \ {f} : origin[g] = f

\* The header of the hunk that an edit makes names the last declaration of the old file above
\* it.  That is the function a line is in for a change deep in its body, the function before
\* for one in its first lines, and the parser knows no other; a line that declares the name
\* itself is not attributed to it.
Hunk(f, declared) ==
    \E header \in (Old(f) \cup {"none"}) \ declared : context' = [context EXCEPT ![f] = @ \cup {header}]

Declare(f, n) ==
    /\ n \notin branch[f] /\ ~MovedAway(f)
    /\ branch' = [branch EXCEPT ![f] = @ \cup {n}]
    /\ Hunk(f, {n})
    /\ UNCHANGED <<origin, resigned, impl>>

\* A file that was moved and emptied would not be a rename for git.
Undeclare(f, n) ==
    /\ n \in branch[f]
    /\ branch[f] # {n} \/ origin[f] \in {f, "none"}
    /\ branch' = [branch EXCEPT ![f] = @ \ {n}]
    /\ resigned' = [resigned EXCEPT ![f] = @ \ {n}]
    /\ Hunk(f, {n})
    /\ UNCHANGED <<origin, impl>>

ChangeSignature(f, n) ==
    /\ n \in (branch[f] \cap Old(f)) \ resigned[f]
    /\ resigned' = [resigned EXCEPT ![f] = @ \cup {n}]
    /\ Hunk(f, {n})
    /\ UNCHANGED <<branch, origin, impl>>

\* Which function it is shows nowhere but in the header.
ChangeBody(f) ==
    /\ branch[f] # {}
    /\ Hunk(f, {})
    /\ UNCHANGED <<branch, origin, resigned, impl>>

MoveFile(f, g) ==
    /\ origin[f] = f /\ branch[f] # {} /\ master[g] = {} /\ branch[g] = {}
    /\ branch' = [branch EXCEPT ![g] = branch[f], ![f] = {}]
    /\ origin' = [origin EXCEPT ![g] = f, ![f] = "none"]
    /\ resigned' = [resigned EXCEPT ![g] = resigned[f], ![f] = {}]
    /\ context' = [context EXCEPT ![g] = context[f], ![f] = {}]
    /\ UNCHANGED impl

ChangeImpl ==
    /\ ~impl /\ impl' = TRUE
    /\ UNCHANGED <<branch, origin, resigned, context>>

DiffNext ==
    /\ edits < MaxEdits /\ edits' = edits + 1
    /\ UNCHANGED master
    /\ \E f \in Paths :
          \/ ChangeImpl \/ ChangeBody(f)
          \/ \E n \in Names : Declare(f, n) \/ Undeclare(f, n) \/ ChangeSignature(f, n)
          \/ \E g \in Paths : MoveFile(f, g)

DiffSpec == DiffInit /\ [][DiffNext]_diffVars

(***************************************************************************)
(* extract_symbols_from_diff                                               *)
(***************************************************************************)
AddedIn(f) == (branch[f] \ Old(f)) \cup resigned[f]
DeletedIn(f) == (Old(f) \ branch[f]) \cup resigned[f]
AddedNames == UNION {AddedIn(f) : f \in Paths}
DeletedNames == UNION {DeletedIn(f) : f \in Paths}

\* Declared on a line of either sign, in whatever file
Both == AddedNames \cap DeletedNames
Matching(M) == \A p, q \in M : p[1] = q[1] <=> p[2] = q[2]
\* Greedy pairing by similarity, which is any order here: no pair can be added.
Pairings(f) ==
    LET pairs == Alike \cap ((DeletedIn(f) \ Both) \X (AddedIn(f) \ Both))
    IN  {M \in SUBSET pairs : Matching(M) /\ \A p \in pairs \ M : ~Matching(M \cup {p})}
Renames == {M \in [Paths -> UNION {Pairings(f) : f \in Paths}] : \A f \in Paths : M[f] \in Pairings(f)}
Pairs(M) == UNION {M[f] : f \in Paths}

Added(M) == (AddedNames \ Both) \ {p[2] : p \in Pairs(M)}
Deleted(M) == (DeletedNames \ Both) \ {p[1] : p \in Pairs(M)}
HunkContext(f) == IF branch[f] = {} THEN {} ELSE context[f] \ {"none"}
Modified == Both \cup UNION {HunkContext(f) : f \in Paths}

\* _classify_change, of a function: it is given the changed lines of all files, and a line is
\* one of the function when the name occurs in it.
Mentioned(n, lines) == \E q \in lines : <<n, q>> \in Within
\* added_sigs # deleted_sigs; a function that moves keeps its signature.
SignatureChanged(n) ==
    \E q \in AddedNames \cup DeletedNames :
        /\ <<n, q>> \in Within
        /\ \/ \E f \in Paths : q \in resigned[f]
           \/ Cardinality({f \in Paths : q \in AddedIn(f)}) # Cardinality({f \in Paths : q \in DeletedIn(f)})
ChangeType(n) ==
    IF impl THEN "trait_impl"
    ELSE IF Mentioned(n, AddedNames) /\ ~Mentioned(n, DeletedNames) THEN "new"
    ELSE IF Mentioned(n, DeletedNames) /\ ~Mentioned(n, AddedNames) THEN "deleted"
    ELSE IF SignatureChanged(n) THEN "signature_change" ELSE "body_only"

(***************************************************************************)
(* resolve_diff_symbols                                                    *)
(***************************************************************************)
IndexedIn(tree) == {s \in Paths \X Names : s[2] \in tree[s[1]]}

\* changed_files: the paths on "+++ b/" lines; a removed file has none, nor has a file that
\* was moved as it was.
ChangedFiles == {f \in Paths : branch[f] # {} /\ AddedIn(f) \cup DeletedIn(f) \cup context[f] # {}}
Scope == ChangedFiles \cup {f \in Paths : MovedAway(f)}

Hits(n) == {s \in IndexedIn(master) : <<n, s[2]>> \in Within}
Near(hits) == {s \in hits : s[1] \in Scope}
\* some k of S, or all of them
Some(S, k) == kSubset(Min({k, Cardinality(S)}), S)

\* _diff_scoped: the answers a search for n may give, which returns its hits in some order
Search(n, limit) ==
    UNION {LET near == Near(found)
           IN  Some(IF near = {} /\ Scope # {} THEN found ELSE near, limit) :
           found \in Some(Hits(n), Overfetch * limit)}
Answers(names, limit) ==
    {A \in [names -> UNION {Search(n, limit) : n \in names}] : \A n \in names : A[n] \in Search(n, limit)}
InAnswers(A, names) == UNION {A[n] : n \in names}

QueriedNew(M) == {p[2] : p \in Pairs(M)}
Queried(M) == {p[1] : p \in Pairs(M)}
\* all_names
Sought(M) == Added(M) \cup Modified
\* What callers refer to until the branch is merged: the old name of a renamed symbol.
Missed(M) == Deleted(M) \cup Queried(M)

(***************************************************************************)
(* analyze_pr_diff                                                         *)
(***************************************************************************)
\* changed_symbols: an entry for each name and each of its hits, so a symbol that two names
\* find is there twice
Listing(changed) == UNION {{n} \X changed[n] : n \in DOMAIN changed}
\* The first max_symbols of them.  The names are in no order; the entries of one stay together.
Reviewed(changed) ==
    {L \in Some(Listing(changed), MaxSymbols) :
        Cardinality({p[1] : p \in L} \cap {p[1] : p \in Listing(changed) \ L}) <= 1}

\* pr_breakdown, for the entries that are first
PrBreakdown(M, changed, gone, first) ==
    [removed_from_master |-> InAnswers(gone, Deleted(M)),
     renamed             |-> InAnswers(gone, Queried(M)),
     added_not_in_index  |-> {n \in Sought(M) : changed[n] = {}},
     modified_in_master  |-> {p[2] : p \in first}]

(***************************************************************************)
(* Properties                                                              *)
(***************************************************************************)
\* Where the file of s is in the branch, absent when it was removed.
Lives(s) == {f \in Paths : origin[f] = s[1] /\ branch[f] # {}}
Alone(s) ==
    \A t \in IndexedIn(master) \cup IndexedIn(branch) :
        t = s \/ (t[2] = s[2] /\ origin[t[1]] = s[1] /\ t \notin IndexedIn(master))
              \/ (<<t[2], s[2]>> \notin Within /\ <<s[2], t[2]>> \notin Within)

\* No limit of the search for n cuts anything off.
Fits(n, limit) ==
    Cardinality(Hits(n)) <= Overfetch * limit /\ Cardinality(Near(Hits(n))) <= limit

\* "PR mode (default) classifies every symbol" (graph_read_tools.py:1928), which holds with
\* three reservations.  What the branch takes out of a file it keeps is reported, as removed,
\* renamed or modified, and what it redeclares or a hunk header names, as modified, whatever
\* names the files share and wherever the file moved: if the searches for the name cut nothing
\* off, and if the list of changed symbols, duplicates included, is not longer than max_symbols.
\* And unless another symbol has its name or a part of it, a symbol that stays is not reported
\* gone or new, and its change is told from one of its body, when no trait implementation
\* changes, whatever is cut off.
DiffAccounts ==
    \A M \in Renames :
    \A changed \in Answers(Sought(M), HitLimit), gone \in Answers(Missed(M), GoneLimit) :
    \A first \in Reviewed(changed), s \in IndexedIn(master), f \in Paths :
        LET pr      == PrBreakdown(M, changed, gone, first)
            missing == pr.removed_from_master \cup pr.renamed
            n       == s[2]
        IN  f \in Lives(s) =>
            /\ Cardinality(Listing(changed)) <= MaxSymbols =>
                  /\ (n \notin branch[f] /\ Fits(n, GoneLimit)) =>
                        s \in pr.modified_in_master \cup missing
                  /\ (n \in resigned[f] \cup context[f] /\ Fits(n, HitLimit)) =>
                        s \in pr.modified_in_master
            /\ (Alone(s) /\ n \in branch[f]) =>
                  /\ s \notin missing /\ n \notin pr.added_not_in_index
                  /\ (n \in resigned[f] /\ ~impl) => ChangeType(n) = "signature_change"
                  /\ (n \in context[f] \ resigned[f] /\ ~impl) => ChangeType(n) = "body_only"
=============================================================================
