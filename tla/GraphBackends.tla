---------------------------- MODULE GraphBackends ----------------------------
(***************************************************************************)
(* The two implementations of the symbol graph side by side, given the     *)
(* same operations: one generation of Neo4jGraphIndex and the maps of      *)
(* InMemoryGraphIndex, which the tests run against.                        *)
(***************************************************************************)
EXTENDS Naturals, FiniteSets

CONSTANTS Ids, MaxOut   \* symbols; bound: targets per upsert

VARIABLES
    neo,  \* nodes, those with a kind, CALLS and USES relationships
    mem   \* the four maps as sets of pairs, their keys, the ids with metadata

backendVars == <<neo, mem>>

Mirror(E) == {<<e[2], e[1]>> : e \in E}

BackendInit ==
    /\ neo = [nodes |-> {}, kinds |-> {}, calls |-> {}, uses |-> {}]
    /\ mem = [keys |-> {}, metadata |-> {}, downstream |-> {}, upstream |-> {},
              uses |-> {}, usedBy |-> {}]

\* MERGE the node with its metadata, delete its outgoing relationships, MERGE each target
\* as a bare node and the relationship to it.
Merge(s, C, U) ==
    [nodes |-> neo.nodes \cup {s} \cup C \cup U,
     kinds |-> neo.kinds \cup {s},
     calls |-> {e \in neo.calls : e[1] # s} \cup ({s} \X C),
     uses |-> {e \in neo.uses : e[1] # s} \cup ({s} \X U)]

\* In memory the targets are added to those that are there.
UpdateOneSided(s, C, U) ==
    [keys |-> mem.keys \cup {s} \cup C \cup U,
     metadata |-> mem.metadata \cup {s},
     downstream |-> mem.downstream \cup ({s} \X C),
     upstream |-> mem.upstream,
     uses |-> mem.uses \cup ({s} \X U),
     usedBy |-> mem.usedBy \cup (U \X {s})]
Update(s, C, U) ==
    [keys |-> mem.keys \cup {s} \cup C \cup U,
     metadata |-> mem.metadata \cup {s},
     downstream |-> mem.downstream \cup ({s} \X C),
     upstream |-> mem.upstream \cup (C \X {s}),
     uses |-> mem.uses \cup ({s} \X U),
     usedBy |-> mem.usedBy \cup (U \X {s})]

UpsertSymbol(s) ==
    \E C, U \in SUBSET Ids :
        /\ Cardinality(C) + Cardinality(U) <= MaxOut
        /\ neo' = Merge(s, C, U)
        /\ mem' = Update(s, C, U)

Clear(E, gone) == {e \in E : e[1] \notin gone /\ e[2] \notin gone}

\* DETACH DELETE against popping the keys and subtracting from every value
RemoveSymbols(gone) ==
    /\ neo' = [nodes |-> neo.nodes \ gone, kinds |-> neo.kinds \ gone,
               calls |-> Clear(neo.calls, gone), uses |-> Clear(neo.uses, gone)]
    /\ mem' = [keys |-> mem.keys \ gone, metadata |-> mem.metadata \ gone,
               downstream |-> Clear(mem.downstream, gone),
               upstream |-> Clear(mem.upstream, gone),
               uses |-> Clear(mem.uses, gone), usedBy |-> Clear(mem.usedBy, gone)]

Reset ==
    /\ neo' = [nodes |-> {}, kinds |-> {}, calls |-> {}, uses |-> {}]
    /\ mem' = [keys |-> {}, metadata |-> {}, downstream |-> {}, upstream |-> {},
               uses |-> {}, usedBy |-> {}]

BackendNext ==
    \/ \E s \in Ids : UpsertSymbol(s)
    \/ \E gone \in (SUBSET Ids) \ {{}} : RemoveSymbols(gone)
    \/ Reset

BackendSpec == BackendInit /\ [][BackendNext]_backendVars

(***************************************************************************)
(* Properties                                                              *)
(***************************************************************************)
\* Whatever the history of upserts and removals, the in-memory graph answers has_symbol
\* and get_symbol_ids as Neo4j does (up_to_date compares these with the snapshot), has at
\* least its edges, and reports every edge from both of its ends.
MemoryCoversNeo4j ==
    /\ mem.keys = neo.nodes /\ mem.metadata = neo.kinds
    /\ neo.calls \subseteq mem.downstream /\ neo.uses \subseteq mem.uses
    /\ mem.upstream = Mirror(mem.downstream) /\ mem.usedBy = Mirror(mem.uses)
==============================================================================
