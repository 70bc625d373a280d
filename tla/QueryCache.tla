----------------------------- MODULE QueryCache -----------------------------
(***************************************************************************)
(* The Redis cache of the read tools (query_cache.py) beside the swaps,    *)
(* rollbacks and syncs of the graph it answers from.  Time passes in units *)
(* of the shorter TTL; a call is a miss, a computation, a store and a      *)
(* registration of the entry under its tags.                               *)
(***************************************************************************)
EXTENDS Naturals, FiniteSets

CONSTANTS
    Callers,     \* concurrent tool calls
    TtlOf,       \* TTL of each tool's entries: blast_radius 1 h, hotspots 4 h
    MaxGen,      \* bound: generations
    MaxVersion,  \* bound: contents of a generation
    CallersIn    \* bound: for each set of faults considered, the callers

CacheFaults ==
    {"overlap",  \* the graph changes, or tags are invalidated, while calls are under way
     "redis"}    \* Redis fails between the write of an entry and its registration

VARIABLES
    trouble,  \* the faults of this behavior
    gen,      \* the served generation
    top,      \* the highest generation built
    content,  \* version of the content of each generation
    entry,    \* <<generation in the key, tool>>: what it answers from, time left; or None
    index,    \* <<generation in the key, tag>>: member keys, time left
    call,     \* what each caller is doing
    clearing  \* tags still to invalidate after a change, with the members read

cacheVars == <<trouble, gen, top, content, entry, index, call, clearing>>

Tools == DOMAIN TtlOf
TagsOf(tool) == IF tool = "hotspots" THEN {"graph", "git"} ELSE {"graph"}
\* Constants are numbers, and find_hotspots is one of the tools.
CacheLimits == MaxGen \in Nat /\ MaxVersion \in Nat /\ TtlOf \in [Tools -> Nat]
HasHotspots == "hotspots" \in Tools

Gens == 0 .. MaxGen
None == [of |-> <<0, 0>>, left |-> 0]
Idle == [at |-> "idle", tool |-> "none", of |-> <<0, 0>>, key |-> <<0, "none">>]
NotClearing == [tag |-> "none", members |-> {}, read |-> FALSE]

Live(e) == e.left > 0
OneKey == 0
\* the generation that keys embed, looked up whenever a key is built
CurrentGen == gen

CacheInit ==
    /\ trouble \in DOMAIN CallersIn
    /\ gen = 0 /\ top = 0
    /\ content = [g \in Gens |-> 0]
    /\ entry = [k \in Gens \X Tools |-> None]
    /\ index = [k \in Gens \X {"graph", "git"} |-> [members |-> {}, left |-> 0]]
    /\ call = [c \in Callers |-> Idle]
    /\ clearing = NotClearing

Quiet == "overlap" \in trouble \/ (\A c \in Callers : call[c].at = "idle")
Settled == "overlap" \in trouble \/ clearing = NotClearing

\* cache_get misses and the tool computes its answer from the graph being served.
Compute(c, tool) ==
    /\ call[c].at = "idle" /\ c \in CallersIn[trouble] /\ Settled
    /\ ~Live(entry[<<CurrentGen, tool>>])
    /\ call' = [call EXCEPT ![c] = [Idle EXCEPT !.at = "answering", !.tool = tool,
                                                !.of = <<gen, content[gen]>>]]
    /\ UNCHANGED <<trouble, gen, top, content, entry, index, clearing>>

\* cache_set builds the key anew.
Store(c) ==
    /\ call[c].at = "answering"
    /\ LET k == <<CurrentGen, call[c].tool>>
       IN  /\ entry' = [entry EXCEPT ![k] = [of |-> call[c].of, left |-> TtlOf[call[c].tool]]]
           /\ call' = [call EXCEPT ![c].at = "registering", ![c].key = k]
    /\ UNCHANGED <<trouble, gen, top, content, index, clearing>>

TimeLeftKept(i, tool) == IF Live(i) THEN i.left ELSE TtlOf[tool]
\* expire: the tag index gets the TTL of the last entry registered.
TimeLeft(i, tool) == TtlOf[tool]

\* sadd and expire for each of its tags; an error is swallowed and leaves the entry alone.
Register(c) ==
    /\ call[c].at = "registering"
    /\ LET keys == {CurrentGen} \X TagsOf(call[c].tool)
       IN  index' = [k \in DOMAIN index |->
               IF k \notin keys THEN index[k]
               ELSE [members |-> (IF Live(index[k]) THEN index[k].members ELSE {}) \cup {call[c].key},
                     left |-> TimeLeft(index[k], call[c].tool)]]
    /\ call' = [call EXCEPT ![c] = Idle]
    /\ UNCHANGED <<trouble, gen, top, content, entry, clearing>>

RedisFails(c) ==
    /\ "redis" \in trouble /\ call[c].at = "registering"
    /\ call' = [call EXCEPT ![c] = Idle]
    /\ UNCHANGED <<trouble, gen, top, content, entry, index, clearing>>

(***************************************************************************)
(* Changes of the graph, each followed by an invalidation                  *)
(***************************************************************************)
Invalidate(tag) == clearing' = [tag |-> tag, members |-> {}, read |-> FALSE]

Swap ==
    /\ top < MaxGen /\ Quiet /\ clearing = NotClearing
    /\ gen' = top + 1 /\ top' = top + 1
    /\ Invalidate("graph")
    /\ UNCHANGED <<trouble, content, entry, index, call>>

\* A rollback returns to an older generation and invalidates nothing.
Rollback ==
    /\ gen > 0 /\ Quiet /\ clearing = NotClearing
    /\ gen' = gen - 1
    /\ UNCHANGED <<trouble, top, content, entry, index, call, clearing>>

\* An ingest changes the served generation in place and invalidates "git" only.
Ingest ==
    /\ content[gen] < MaxVersion /\ Quiet /\ clearing = NotClearing
    /\ content' = [content EXCEPT ![gen] = @ + 1]
    /\ Invalidate("git")
    /\ UNCHANGED <<trouble, gen, top, entry, index, call>>

\* invalidate_tags: the members of the tag's sets in every generation are read and deleted,
ReadMembers ==
    /\ clearing # NotClearing /\ ~clearing.read
    /\ clearing' = [clearing EXCEPT !.read = TRUE,
           !.members = UNION {index[<<g, clearing.tag>>].members :
                              g \in {h \in Gens : Live(index[<<h, clearing.tag>>])}}]
    /\ UNCHANGED <<trouble, gen, top, content, entry, index, call>>

\* and then the sets themselves, with what they have by then.
DeleteMembers ==
    /\ clearing.read
    /\ entry' = [k \in DOMAIN entry |-> IF k \in clearing.members THEN None ELSE entry[k]]
    /\ index' = [k \in DOMAIN index |-> IF k[2] = clearing.tag
                                        THEN [members |-> {}, left |-> 0] ELSE index[k]]
    /\ clearing' = NotClearing
    /\ UNCHANGED <<trouble, gen, top, content, call>>

\* A unit of time passes; calls and invalidations take less.
Expire ==
    /\ \A c \in Callers : call[c].at = "idle"
    /\ clearing = NotClearing
    /\ \E k \in DOMAIN entry : Live(entry[k])
    /\ entry' = [k \in DOMAIN entry |->
           IF entry[k].left > 1 THEN [entry[k] EXCEPT !.left = @ - 1] ELSE None]
    /\ index' = [k \in DOMAIN index |->
           IF index[k].left > 1 THEN [index[k] EXCEPT !.left = @ - 1]
           ELSE [members |-> {}, left |-> 0]]
    /\ UNCHANGED <<trouble, gen, top, content, call, clearing>>

\* flush_all, from the admin endpoint: entries and indexes share the prefix.
Flush ==
    /\ Quiet /\ clearing = NotClearing
    /\ entry' = [k \in DOMAIN entry |-> None]
    /\ index' = [k \in DOMAIN index |-> [members |-> {}, left |-> 0]]
    /\ UNCHANGED <<trouble, gen, top, content, call, clearing>>

CacheNext ==
    \/ \E c \in Callers :
          \/ \E tool \in Tools : Compute(c, tool)
          \/ Store(c)
          \/ Register(c) \/ RedisFails(c)
    \/ Swap \/ Rollback \/ Ingest \/ ReadMembers \/ DeleteMembers \/ Expire \/ Flush

CacheSpec == CacheInit /\ [][CacheNext]_cacheVars

(***************************************************************************)
(* Properties                                                              *)
(***************************************************************************)
\* "a rebuild invalidates every graph-derived answer with no explicit flush"
\* (query_cache.py:8): when calls do not overlap changes, a hit was computed from the
\* generation that is served, after any sequence of swaps and rollbacks.
HitsServedGeneration ==
    "overlap" \notin trouble =>
        \A tool \in Tools :
            Live(entry[<<gen, tool>>]) => entry[<<gen, tool>>].of[1] = gen

\* An entry tagged "git" does not survive an ingest of its generation, whatever
\* registrations and expiries came before, when calls do not overlap and Redis answers.
GitAnswersFresh ==
    (trouble = {} /\ clearing = NotClearing /\ Live(entry[<<gen, "hotspots">>])) =>
        entry[<<gen, "hotspots">>].of = <<gen, content[gen]>>
=============================================================================
