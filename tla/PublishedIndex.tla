--------------------------- MODULE PublishedIndex ---------------------------
(***************************************************************************)
(* What a served index promises its readers, whatever store is behind it:  *)
(*                                                                         *)
(*   truth   the symbols of the snapshot that the metadata store holds     *)
(*           (the "source of truth" of docs/operations.md);                *)
(*   view    the symbols that a reader of the index can find.              *)
(*                                                                         *)
(* A new snapshot is recorded without touching what readers see.  Readers  *)
(* then only ever see the view move towards the truth: a symbol that is    *)
(* served and still in the snapshot is never withdrawn, and nothing enters *)
(* the view that is not in the snapshot.  How many steps the view takes is *)
(* left open: a full rebuild publishes in one step (a swap), an            *)
(* incremental sync symbol by symbol.                                      *)
(***************************************************************************)
CONSTANT Symbols

VARIABLES view, truth

vars == <<view, truth>>

Init ==
    /\ view = {}
    /\ truth = {}

(* A snapshot is recorded: readers notice nothing. *)
Record ==
    /\ truth' \in SUBSET Symbols
    /\ UNCHANGED view

(* The view moves towards the truth and nowhere else. *)
Converge ==
    /\ view \cap truth \subseteq view'
    /\ view' \subseteq view \cup truth
    /\ UNCHANGED truth

Next == Record \/ Converge

Spec == Init /\ [][Next]_vars
=============================================================================
