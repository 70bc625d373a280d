---------------------------- MODULE ServingProofs ---------------------------
(***************************************************************************)
(* What the read tools serve.  A cached answer is of the generation that is *)
(* served and, when tagged "git", of its content (HitsServedGeneration,    *)
(* GitAnswersFresh), for any number of calls, tools and generations; the   *)
(* graph in memory covers the graph in Neo4j (MemoryCoversNeo4j) for any   *)
(* symbols; a review accounts for every change (DiffAccounts), and tests   *)
(* do not raise the risk of one (RiskIgnoresTests).                        *)
(***************************************************************************)
EXTENDS QueryCache, GraphBackends, DiffSymbols, RiskScores, Sequences,
        FiniteSetTheorems, NaturalsInduction, WellFoundedInduction, TLAPS

(***************************************************************************)
(* The query cache: generations                                            *)
(***************************************************************************)

Entries == [of : Nat \X Nat, left : Nat]
Doing == {"idle", "answering", "registering"}

CacheType ==
    /\ gen \in Gens /\ top \in Gens /\ gen <= top
    /\ content \in [Gens -> Nat]
    /\ entry \in [Gens \X Tools -> Entries]
    /\ \A c \in Callers :
          /\ call[c].at \in Doing
          /\ call[c].at = "answering" => call[c].tool \in Tools /\ call[c].of \in Nat \X Nat
    /\ DOMAIN call = Callers
\* An answer on its way was computed from the generation that is served.
AnswersServed == \A c \in Callers : call[c].at = "answering" => call[c].of[1] = gen
\* An entry answers from the generation in its key.
KeyedByGeneration ==
    \A k \in Gens \X Tools : Live(entry[k]) => entry[k].of[1] = k[1]
CacheInv == CacheLimits /\ CacheType /\ AnswersServed /\ KeyedByGeneration
Kept == "overlap" \notin trouble => CacheInv

LEMMA CacheInvInit == CacheLimits /\ CacheInit => Kept
BY DEF CacheLimits, CacheInit, Kept, CacheInv, CacheType, Entries, Doing, AnswersServed,
       KeyedByGeneration, Idle, None, Gens, Live

LEMMA CacheInvStep == Kept /\ [CacheNext]_cacheVars => Kept'
<1> SUFFICES ASSUME Kept, [CacheNext]_cacheVars, "overlap" \notin trouble' PROVE CacheInv'
    BY DEF Kept
<1>0. "overlap" \notin trouble /\ CacheInv
    BY DEF Kept, CacheNext, cacheVars, Compute, Store, Register, RedisFails, Swap, Rollback,
           Ingest, ReadMembers, DeleteMembers, Expire, Flush
<1>a. CacheLimits'
    BY <1>0 DEF CacheInv, CacheLimits, Tools
<1> USE DEF CacheInv, CacheType, AnswersServed, KeyedByGeneration
<1>1. ASSUME NEW c \in Callers, NEW tool \in Tools, Compute(c, tool) PROVE CacheInv'
  <2>1. /\ DOMAIN call' = Callers
        /\ call'[c].at = "answering" /\ call'[c].tool = tool
        /\ call'[c].of = <<gen, content[gen]>>
        /\ \A d \in Callers \ {c} : call'[d] = call[d]
        /\ UNCHANGED <<gen, top, content, entry>>
      BY <1>0, <1>1 DEF Compute, Idle
  <2>2. <<gen, content[gen]>> \in Nat \X Nat /\ <<gen, content[gen]>>[1] = gen
      BY <1>0 DEF Gens, CacheLimits
  <2>3. QED BY <1>0, <1>a, <2>1, <2>2 DEF Doing, Gens
<1>2. ASSUME NEW c \in Callers, Store(c) PROVE CacheInv'
  <2> DEFINE k == <<gen, call[c].tool>>
             e == [of |-> call[c].of, left |-> TtlOf[call[c].tool]]
  <2>1. /\ entry' = [entry EXCEPT ![k] = e]
        /\ k \in Gens \X Tools /\ k[1] = gen /\ e \in Entries /\ e.of[1] = gen
        /\ UNCHANGED <<gen, top, content>>
      BY <1>0, <1>2 DEF Store, CurrentGen, CacheLimits, Entries
  <2>2. /\ DOMAIN call' = Callers
        /\ \A d \in Callers : call'[d].at \in Doing /\ (call'[d].at = "answering" => call'[d] = call[d])
      BY <1>0, <1>2 DEF Store, Doing
  <2>3. QED BY <1>0, <1>a, <2>1, <2>2 DEF Gens
<1>3. ASSUME NEW c \in Callers, Register(c) \/ RedisFails(c) PROVE CacheInv'
  <2>1. /\ DOMAIN call' = Callers
        /\ call'[c].at = "idle"
        /\ \A d \in Callers \ {c} : call'[d] = call[d]
        /\ UNCHANGED <<gen, top, content, entry>>
      BY <1>0, <1>3 DEF Register, RedisFails, Idle
  <2>2. QED BY <1>0, <1>a, <2>1 DEF Doing, Gens
<1>4. CASE Swap \/ Rollback \/ Ingest
  <2>1. \A c \in Callers : call[c].at = "idle"
      BY <1>0, <1>4 DEF Swap, Rollback, Ingest, Quiet
  <2>2. gen' \in Gens /\ top' \in Gens /\ gen' <= top'
      BY <1>0, <1>4 DEF Swap, Rollback, Ingest, Gens, CacheLimits
  <2>3. content' \in [Gens -> Nat]
      BY <1>0, <1>4 DEF Swap, Rollback, Ingest, Gens
  <2>4. UNCHANGED <<entry, call>>
      BY <1>4 DEF Swap, Rollback, Ingest
  <2>5. QED BY <1>0, <1>a, <2>1, <2>2, <2>3, <2>4 DEF Gens
<1>5. CASE ReadMembers
    BY <1>0, <1>a, <1>5 DEF ReadMembers, Gens
<1>6. CASE DeleteMembers \/ Flush
  <2>1. None \in Entries /\ ~Live(None)
      BY DEF None, Entries, Live
  <2>2. entry' \in [Gens \X Tools -> Entries]
      BY <1>0, <1>6, <2>1 DEF DeleteMembers, Flush
  <2>3. \A k \in Gens \X Tools : entry'[k] \in {entry[k], None}
      BY <1>0, <1>6 DEF DeleteMembers, Flush
  <2>4. UNCHANGED <<gen, top, content, call>>
      BY <1>6 DEF DeleteMembers, Flush
  <2>5. QED BY <1>0, <1>a, <2>1, <2>2, <2>3, <2>4 DEF Gens
<1>7. CASE Expire
  <2>1. None \in Entries /\ ~Live(None)
      BY DEF None, Entries, Live
  <2>2. \A k \in Gens \X Tools :
           /\ entry'[k] \in Entries
           /\ Live(entry'[k]) => Live(entry[k]) /\ entry'[k].of = entry[k].of
      BY <1>0, <1>7, <2>1 DEF Expire, Entries, Live
  <2>3. DOMAIN entry' = Gens \X Tools /\ entry' \in [Gens \X Tools -> Entries]
      BY <1>0, <1>7, <2>2 DEF Expire
  <2>4. UNCHANGED <<gen, top, content, call>>
      BY <1>7 DEF Expire
  <2>5. QED BY <1>0, <1>a, <2>2, <2>3, <2>4 DEF Gens
<1>8. CASE UNCHANGED cacheVars
    BY <1>0, <1>a, <1>8 DEF cacheVars, Gens
<1>9. QED BY <1>1, <1>2, <1>3, <1>4, <1>5, <1>6, <1>7, <1>8 DEF CacheNext

\* "a rebuild invalidates every graph-derived answer with no explicit flush"
\* (query_cache.py:8), and so does a rollback, as long as no call overlaps it.
THEOREM HitsAreServed == CacheLimits /\ CacheSpec => []HitsServedGeneration
<1>1. CacheLimits /\ CacheInit => Kept
    BY CacheInvInit
<1>2. Kept /\ [CacheNext]_cacheVars => Kept'
    BY CacheInvStep
<1>3. Kept => HitsServedGeneration
  <2> SUFFICES ASSUME Kept, "overlap" \notin trouble, NEW tool \in Tools,
                      Live(entry[<<gen, tool>>])
               PROVE  entry[<<gen, tool>>].of[1] = gen
      BY DEF HitsServedGeneration
  <2>1. <<gen, tool>> \in Gens \X Tools /\ <<gen, tool>>[1] = gen
      BY DEF Kept, CacheInv, CacheType
  <2>2. QED BY <2>1 DEF Kept, CacheInv, KeyedByGeneration
<1>4. QED BY <1>1, <1>2, <1>3, PTL DEF CacheSpec

(***************************************************************************)
(* The query cache: an answer tagged "git" never outlives its content      *)
(***************************************************************************)
Hotspots(g) == <<g, "hotspots">>
Indexes == [members : SUBSET (Gens \X Tools), left : Nat]
Clearings ==
    {NotClearing} \cup
    [tag : {"graph", "git"}, members : SUBSET (Gens \X Tools), read : BOOLEAN]

FreshType ==
    /\ gen \in Gens /\ top \in Gens /\ content \in [Gens -> Nat]
    /\ DOMAIN entry = Gens \X Tools
    /\ \A k \in Gens \X Tools : entry[k].left \in Nat
    /\ index \in [Gens \X {"graph", "git"} -> Indexes]
    /\ DOMAIN call = Callers
    /\ clearing \in Clearings
\* A call under way is answered from the content served now, and no invalidation runs.
CallsCurrent ==
    \A c \in Callers : call[c].at # "idle" =>
        /\ clearing = NotClearing
        /\ call[c].tool \in Tools
        /\ call[c].of = <<gen, content[gen]>>
        /\ call[c].at = "registering" => call[c].key = <<gen, call[c].tool>>
\* Between an ingest and its last deletion an entry may be stale.
EntriesFresh ==
    clearing.tag # "git" =>
        \A g \in Gens : Live(entry[Hotspots(g)]) => entry[Hotspots(g)].of = <<g, content[g]>>
\* An entry is a member of the set of "git" for as long as it lives, except while the
\* call that wrote it has not registered it.
Indexed(g) ==
    /\ Hotspots(g) \in index[<<g, "git">>].members
    /\ index[<<g, "git">>].left >= entry[Hotspots(g)].left
Awaited(g) == \E c \in Callers : call[c].at = "registering" /\ call[c].key = Hotspots(g)
EntriesIndexed ==
    \A g \in Gens : Live(entry[Hotspots(g)]) =>
        /\ entry[Hotspots(g)].left <= TtlOf["hotspots"]
        /\ Indexed(g) \/ Awaited(g)
\* What an invalidation has read holds every entry it has to delete.
ReadAll ==
    (clearing.tag = "git" /\ clearing.read) =>
        \A g \in Gens : Live(entry[Hotspots(g)]) => Hotspots(g) \in clearing.members
FreshInv ==
    /\ CacheLimits /\ HasHotspots
    /\ FreshType /\ CallsCurrent /\ EntriesFresh /\ EntriesIndexed /\ ReadAll
FreshKept == trouble = {} => FreshInv

LEMMA HotspotsKey == HasHotspots => \A g \in Gens : Hotspots(g) \in Gens \X Tools
BY DEF HasHotspots, Hotspots

LEMMA FreshInvInit == CacheLimits /\ HasHotspots /\ CacheInit => FreshKept
<1> SUFFICES ASSUME CacheLimits, HasHotspots, CacheInit PROVE FreshInv
    BY DEF FreshKept
<1>1. \A g \in Gens : ~Live(entry[Hotspots(g)])
    BY HotspotsKey DEF CacheInit, None, Live
<1>2. FreshType
    BY DEF CacheInit, FreshType, CacheLimits, Gens, None, Indexes, NotClearing, Clearings
<1>3. QED BY <1>1, <1>2 DEF FreshInv, CallsCurrent, EntriesFresh, EntriesIndexed, ReadAll,
               CacheInit, Idle, NotClearing

LEMMA FreshInvStep == FreshKept /\ [CacheNext]_cacheVars => FreshKept'
<1> SUFFICES ASSUME FreshKept, [CacheNext]_cacheVars, trouble' = {} PROVE FreshInv'
    BY DEF FreshKept
<1>0. trouble = {} /\ FreshInv
    BY DEF FreshKept, CacheNext, cacheVars, Compute, Store, Register, RedisFails, Swap, Rollback,
           Ingest, ReadMembers, DeleteMembers, Expire, Flush
<1>a. CacheLimits' /\ HasHotspots' /\ \A g \in Gens : Hotspots(g) \in Gens \X Tools
    BY <1>0, HotspotsKey DEF FreshInv, CacheLimits, HasHotspots, Tools
<1>b. None.left = 0 /\ ~Live(None)
    BY DEF None, Live
<1> USE DEF FreshInv, FreshType
<1>1. ASSUME NEW c \in Callers, NEW tool \in Tools, Compute(c, tool) PROVE FreshInv'
  <2>1. /\ DOMAIN call' = Callers
        /\ call'[c].at = "answering" /\ call'[c].tool = tool
        /\ call'[c].of = <<gen, content[gen]>>
        /\ \A d \in Callers \ {c} : call'[d] = call[d]
        /\ UNCHANGED <<gen, top, content, entry, index, clearing>>
        /\ clearing = NotClearing
        /\ call[c].at = "idle"
      BY <1>0, <1>1 DEF Compute, Idle, Settled
  <2>2. FreshType'
      BY <1>0, <2>1
  <2>3. CallsCurrent'
      BY <1>0, <2>1 DEF CallsCurrent
  <2>4. \A g \in Gens : Awaited(g) => Awaited(g)'
      BY <2>1 DEF Awaited
  <2>5. EntriesFresh' /\ EntriesIndexed' /\ ReadAll'
      BY <1>0, <2>1, <2>4 DEF EntriesFresh, EntriesIndexed, ReadAll, Indexed, Live, Hotspots
  <2>6. QED BY <1>a, <2>2, <2>3, <2>5
<1>2. ASSUME NEW c \in Callers, Store(c) PROVE FreshInv'
  <2> DEFINE k == <<gen, call[c].tool>>
             e == [of |-> call[c].of, left |-> TtlOf[call[c].tool]]
  <2>1. /\ clearing = NotClearing /\ clearing' = NotClearing
        /\ call[c].tool \in Tools /\ call[c].of = <<gen, content[gen]>>
        /\ k \in Gens \X Tools
      BY <1>0, <1>2 DEF Store, CallsCurrent
  <2>2. /\ entry' = [entry EXCEPT ![k] = e]
        /\ DOMAIN call' = Callers
        /\ call'[c].at = "registering" /\ call'[c].key = k
        /\ call'[c].tool = call[c].tool /\ call'[c].of = call[c].of
        /\ \A d \in Callers \ {c} : call'[d] = call[d]
        /\ UNCHANGED <<gen, top, content, index>>
      BY <1>0, <1>2 DEF Store, CurrentGen
  <2>3. FreshType'
      BY <1>0, <2>1, <2>2 DEF CacheLimits
  <2>4. CallsCurrent'
      BY <1>0, <2>1, <2>2 DEF CallsCurrent
  <2>5. \A g \in Gens : \/ entry'[Hotspots(g)] = entry[Hotspots(g)] /\ (Awaited(g) => Awaited(g)')
                        \/ g = gen /\ entry'[Hotspots(g)] = e /\ k = Hotspots(g) /\ Awaited(g)'
    <3> TAKE g \in Gens
    <3>1. CASE k = Hotspots(g)
      <4>1. g = gen
          BY <3>1 DEF Hotspots
      <4>2. entry'[k] = e
          BY <1>0, <2>1, <2>2
      <4>3. Awaited(g)'
          BY <2>2, <3>1 DEF Awaited, Hotspots
      <4>4. QED BY <3>1, <4>1, <4>2, <4>3 DEF Hotspots
    <3>2. CASE k # Hotspots(g)
      <4>1. entry'[Hotspots(g)] = entry[Hotspots(g)]
          BY <1>0, <1>a, <2>1, <2>2, <3>2
      <4>2. call[c].at = "answering"
          BY <1>2 DEF Store
      <4>3. Awaited(g) => Awaited(g)'
          BY <2>2, <4>2 DEF Awaited, Hotspots
      <4>4. QED BY <4>1, <4>3
    <3>3. QED BY <3>1, <3>2
  <2>6. EntriesFresh' /\ ReadAll'
      BY <1>0, <1>a, <2>1, <2>2, <2>5 DEF EntriesFresh, ReadAll, NotClearing
  <2>7. k = Hotspots(gen) => e.left = TtlOf["hotspots"]
      BY DEF Hotspots
  <2>8. EntriesIndexed'
    <3> SUFFICES ASSUME NEW g \in Gens, Live(entry'[Hotspots(g)])
                 PROVE  /\ entry'[Hotspots(g)].left <= TtlOf["hotspots"]
                        /\ Indexed(g)' \/ Awaited(g)'
        BY <2>2 DEF EntriesIndexed, Gens, Hotspots
    <3>1. CASE entry'[Hotspots(g)] = entry[Hotspots(g)] /\ (Awaited(g) => Awaited(g)')
        BY <1>0, <2>2, <3>1 DEF EntriesIndexed, Indexed, Hotspots
    <3>2. CASE g = gen /\ entry'[Hotspots(g)] = e /\ k = Hotspots(g) /\ Awaited(g)'
        BY <1>0, <2>7, <3>2 DEF CacheLimits, HasHotspots
    <3>3. QED BY <2>5, <3>1, <3>2
  <2>9. QED BY <1>a, <2>3, <2>4, <2>6, <2>8
<1>3. ASSUME NEW c \in Callers, Register(c) PROVE FreshInv'
  <2>1. /\ call[c].at = "registering"
        /\ clearing = NotClearing /\ call[c].tool \in Tools
        /\ call[c].key = <<gen, call[c].tool>>
      BY <1>0, <1>3 DEF Register, CallsCurrent
  <2>2. /\ DOMAIN call' = Callers
        /\ call'[c].at = "idle"
        /\ \A d \in Callers \ {c} : call'[d] = call[d]
        /\ UNCHANGED <<gen, top, content, entry, clearing>>
      BY <1>0, <1>3 DEF Register, Idle
  <2> DEFINE keys == {gen} \X TagsOf(call[c].tool)
             New(k) == [members |-> (IF Live(index[k]) THEN index[k].members ELSE {}) \cup {call[c].key},
                        left |-> TtlOf[call[c].tool]]
  <2>3. index' = [k \in Gens \X {"graph", "git"} |-> IF k \notin keys THEN index[k] ELSE New(k)]
      BY <1>0, <1>3 DEF Register, CurrentGen, TimeLeft
  <2>4. \A k \in Gens \X {"graph", "git"} : New(k) \in Indexes
      BY <1>0, <2>1 DEF Indexes, CacheLimits
  <2>5. FreshType'
      BY <1>0, <2>2, <2>3, <2>4
  <2>6. CallsCurrent' /\ EntriesFresh' /\ ReadAll'
      BY <1>0, <2>2 DEF CallsCurrent, EntriesFresh, ReadAll, Hotspots
  <2>7. EntriesIndexed'
    <3> SUFFICES ASSUME NEW g \in Gens, Live(entry[Hotspots(g)])
                 PROVE  Indexed(g)' \/ Awaited(g)'
        BY <1>0, <2>2 DEF EntriesIndexed, Hotspots
    <3>0. entry[Hotspots(g)].left <= TtlOf["hotspots"] /\ (Indexed(g) \/ Awaited(g))
        BY <1>0 DEF EntriesIndexed
    <3>k. <<g, "git">> \in Gens \X {"graph", "git"}
        OBVIOUS
    <3>1. CASE <<g, "git">> \notin keys
      <4>1. index'[<<g, "git">>] = index[<<g, "git">>]
          BY <2>3, <3>1, <3>k
      <4>2. call[c].key # Hotspots(g)
          BY <2>1, <3>1 DEF TagsOf, Hotspots
      <4>3. QED BY <2>1, <2>2, <3>0, <4>1, <4>2 DEF Indexed, Awaited, Hotspots
    <3>2. CASE <<g, "git">> \in keys
      <4>1. index'[<<g, "git">>] = New(<<g, "git">>)
          BY <2>3, <3>2, <3>k
      <4>2. call[c].tool = "hotspots" /\ g = gen /\ call[c].key = Hotspots(g)
          BY <2>1, <3>2 DEF TagsOf, Hotspots
      <4>3. QED BY <2>2, <3>0, <4>1, <4>2 DEF Indexed, Hotspots
    <3>3. QED BY <3>1, <3>2
  <2>8. QED BY <1>a, <2>5, <2>6, <2>7
<1>4. ASSUME NEW c \in Callers, RedisFails(c) PROVE FreshInv'
    BY <1>0, <1>4 DEF RedisFails
<1>5. CASE Swap \/ Rollback \/ Ingest
  <2>1. clearing = NotClearing /\ \A c \in Callers : call[c].at = "idle"
      BY <1>0, <1>5 DEF Swap, Rollback, Ingest, Quiet
  <2>2. gen' \in Gens /\ top' \in Gens
      BY <1>0, <1>5 DEF Swap, Rollback, Ingest, Gens, CacheLimits
  <2>3. content' \in [Gens -> Nat] /\ UNCHANGED <<entry, index, call>>
      BY <1>0, <1>5 DEF Swap, Rollback, Ingest, Gens
  <2>4. /\ (clearing'.tag = "git" \/ content' = content)
        /\ clearing'.read = FALSE /\ clearing' \in Clearings
    <3>1. CASE Rollback
        BY <1>0, <2>1, <3>1 DEF Rollback, NotClearing, Clearings
    <3>2. \A tag \in {"graph", "git"} :
             [tag |-> tag, members |-> {}, read |-> FALSE] \in Clearings
        BY DEF Clearings
    <3>3. CASE Swap
        BY <3>2, <3>3 DEF Swap, Invalidate
    <3>4. CASE Ingest
        BY <3>2, <3>4 DEF Ingest, Invalidate
    <3>5. QED BY <1>5, <3>1, <3>3, <3>4
  <2>5. FreshType'
      BY <1>0, <2>2, <2>3, <2>4
  <2>6. CallsCurrent' /\ ReadAll'
      BY <2>1, <2>3, <2>4 DEF CallsCurrent, ReadAll
  <2>7. EntriesFresh'
      BY <1>0, <2>1, <2>3, <2>4 DEF EntriesFresh, NotClearing, Hotspots
  <2>8. EntriesIndexed'
      BY <1>0, <2>3 DEF EntriesIndexed, Indexed, Awaited, Hotspots
  <2>9. QED BY <1>a, <2>5, <2>6, <2>7, <2>8
<1>6. CASE ReadMembers
  <2> DEFINE read == UNION {index[<<g, clearing.tag>>].members :
                            g \in {h \in Gens : Live(index[<<h, clearing.tag>>])}}
  <2>1. /\ clearing'.read = TRUE /\ clearing'.tag = clearing.tag /\ clearing'.members = read
        /\ clearing # NotClearing
        /\ UNCHANGED <<gen, top, content, entry, index, call>>
      <3>1. clearing # NotClearing /\ clearing \in Clearings
          BY <1>0, <1>6 DEF ReadMembers
      <3>2. clearing' = [clearing EXCEPT !.read = TRUE, !.members = read]
          BY <1>6 DEF ReadMembers
      <3>3. UNCHANGED <<gen, top, content, entry, index, call>>
          BY <1>6 DEF ReadMembers
      <3> HIDE DEF read
      <3>4. QED BY <3>1, <3>2, <3>3 DEF Clearings
  <2>2. \A c \in Callers : call[c].at = "idle"
      BY <1>0, <2>1 DEF CallsCurrent
  <2>3. FreshType'
    <3>1. clearing.tag \in {"graph", "git"}
        BY <1>0, <2>1 DEF Clearings
    <3>2. \A g \in Gens : index[<<g, clearing.tag>>].members \in SUBSET (Gens \X Tools)
        BY <1>0, <3>1 DEF Indexes
    <3>6. read \in SUBSET (Gens \X Tools)
        BY <3>2
    <3>3. clearing' = [clearing EXCEPT !.read = TRUE, !.members = read]
        BY <1>6 DEF ReadMembers
    <3> HIDE DEF read
    <3>4. clearing' \in Clearings
        BY <1>0, <2>1, <3>6, <3>3 DEF Clearings
    <3>5. QED BY <1>0, <2>1, <3>4
  <2>4. CallsCurrent' /\ EntriesFresh' /\ EntriesIndexed'
      BY <1>0, <2>1, <2>2 DEF CallsCurrent, EntriesFresh, EntriesIndexed, Indexed, Awaited, Hotspots
  <2>5. ReadAll'
    <3> SUFFICES ASSUME clearing.tag = "git", NEW g \in Gens, Live(entry[Hotspots(g)])
                 PROVE  Hotspots(g) \in read
        BY <2>1 DEF ReadAll, Hotspots, Gens
    <3>1. Indexed(g)
        BY <1>0, <2>2 DEF EntriesIndexed, Awaited
    <3>2. Live(index[<<g, "git">>])
        BY <1>0, <1>a, <3>1 DEF Indexed, Live, Indexes
    <3>3. QED BY <3>1, <3>2 DEF Indexed
  <2>6. QED BY <1>a, <2>3, <2>4, <2>5
<1>7. CASE DeleteMembers \/ Flush
  <2>1. \A c \in Callers : call[c].at = "idle"
      BY <1>0, <1>7 DEF DeleteMembers, Flush, CallsCurrent, NotClearing, Quiet
  <2>2. clearing' = NotClearing
      BY <1>7 DEF DeleteMembers, Flush
  <2>3. /\ DOMAIN entry' = Gens \X Tools
        /\ \A k \in Gens \X Tools : entry'[k] \in {entry[k], None}
        /\ UNCHANGED <<gen, top, content, call>>
      BY <1>0, <1>7 DEF DeleteMembers, Flush
  <2>4. /\ index' \in [Gens \X {"graph", "git"} -> Indexes]
        /\ Flush \/ \A g \in Gens : clearing.tag # "git" => index'[<<g, "git">>] = index[<<g, "git">>]
    <3>1. [members |-> {}, left |-> 0] \in Indexes
        BY DEF Indexes
    <3>2. QED BY <1>0, <1>7, <3>1 DEF DeleteMembers, Flush
  <2>5. Flush \/ clearing.tag = "git" => \A g \in Gens : ~Live(entry'[Hotspots(g)])
    <3>1. CASE Flush
        BY <1>0, <1>a, <1>b, <3>1 DEF Flush
    <3>2. CASE DeleteMembers /\ clearing.tag = "git"
        BY <1>0, <1>a, <1>b, <3>2 DEF DeleteMembers, ReadAll
    <3>3. QED BY <1>7, <3>1, <3>2
  <2>6. FreshType'
      BY <1>0, <1>b, <2>2, <2>3, <2>4 DEF NotClearing, Clearings
  <2>7. CallsCurrent' /\ ReadAll'
      BY <2>1, <2>2, <2>3 DEF CallsCurrent, ReadAll, NotClearing
  <2>8. EntriesFresh'
      BY <1>0, <1>a, <1>b, <2>3, <2>5 DEF EntriesFresh, Hotspots
  <2>9. EntriesIndexed'
      BY <1>0, <1>a, <1>b, <2>1, <2>3, <2>4, <2>5 DEF EntriesIndexed, Indexed, Awaited, Hotspots
  <2>10. QED BY <1>a, <2>6, <2>7, <2>8, <2>9
<1>8. CASE Expire
  <2>1. clearing = NotClearing /\ \A c \in Callers : call[c].at = "idle"
      BY <1>8 DEF Expire
  <2>2. UNCHANGED <<gen, top, content, call, clearing>>
      BY <1>8 DEF Expire
  <2>3. DOMAIN entry' = Gens \X Tools
      BY <1>0, <1>8 DEF Expire
  <2>4. \A k \in Gens \X Tools :
           /\ entry'[k].left \in Nat /\ entry'[k].left <= entry[k].left
           /\ Live(entry'[k]) => /\ entry'[k].left = entry[k].left - 1
                                 /\ entry'[k].of = entry[k].of
      BY <1>0, <1>8, <1>b DEF Expire, Live
  <2>5. \A k \in Gens \X {"graph", "git"} :
           /\ index'[k] \in Indexes
           /\ index[k].left > 1 => /\ index'[k].members = index[k].members
                                   /\ index'[k].left = index[k].left - 1
      BY <1>0, <1>8 DEF Expire, Indexes
  <2>6. index' \in [Gens \X {"graph", "git"} -> Indexes]
      BY <1>0, <1>8, <2>5 DEF Expire
  <2>7. FreshType'
      BY <1>0, <2>2, <2>3, <2>4, <2>6
  <2>8. \A g \in Gens : Live(entry'[Hotspots(g)]) => Live(entry[Hotspots(g)])
      BY <1>0, <1>a, <2>4 DEF Live
  <2>9. CallsCurrent' /\ ReadAll'
      BY <1>0, <2>1, <2>2 DEF CallsCurrent, ReadAll, NotClearing
  <2>10. EntriesFresh'
      BY <1>0, <1>a, <2>2, <2>4, <2>8 DEF EntriesFresh, Hotspots
  <2>11. EntriesIndexed'
    <3> SUFFICES ASSUME NEW g \in Gens, Live(entry'[Hotspots(g)])
                 PROVE  entry'[Hotspots(g)].left <= TtlOf["hotspots"] /\ Indexed(g)'
        BY DEF EntriesIndexed, Hotspots
    <3>1. Indexed(g) /\ entry[Hotspots(g)].left <= TtlOf["hotspots"]
        BY <1>0, <2>1, <2>8 DEF EntriesIndexed, Awaited
    <3>2. index[<<g, "git">>].left \in Nat /\ index[<<g, "git">>].left > 1
        BY <1>0, <1>a, <2>4, <3>1 DEF Indexed, Live, Indexes
    <3>3. /\ entry'[Hotspots(g)].left = entry[Hotspots(g)].left - 1
          /\ entry[Hotspots(g)].left \in Nat
        BY <1>0, <1>a, <2>4
    <3>4. QED BY <1>0, <2>5, <3>1, <3>2, <3>3 DEF Indexed, Hotspots, CacheLimits, HasHotspots
  <2>12. QED BY <1>a, <2>7, <2>9, <2>10, <2>11
<1>9. CASE UNCHANGED cacheVars
    BY <1>0, <1>a, <1>9 DEF cacheVars, Gens, CallsCurrent, EntriesFresh, EntriesIndexed, Indexed,
       Awaited, ReadAll, Hotspots
<1>10. QED BY <1>1, <1>2, <1>3, <1>4, <1>5, <1>6, <1>7, <1>8, <1>9 DEF CacheNext

\* When calls do not overlap changes and Redis answers, an answer tagged "git" is of the
\* content that is served: the set of its tag outlives it, whatever registers and expires.
THEOREM GitAnswersAreFresh ==
    CacheLimits /\ HasHotspots /\ CacheSpec => []GitAnswersFresh
<1>1. CacheLimits /\ HasHotspots /\ CacheInit => FreshKept
    BY FreshInvInit
<1>2. FreshKept /\ [CacheNext]_cacheVars => FreshKept'
    BY FreshInvStep
<1>3. FreshKept => GitAnswersFresh
    BY DEF FreshKept, FreshInv, FreshType, EntriesFresh, GitAnswersFresh, NotClearing, Hotspots
<1>4. QED BY <1>1, <1>2, <1>3, PTL DEF CacheSpec

(***************************************************************************)
(* The graph backends                                                      *)
(***************************************************************************)

EdgeSets == SUBSET (Ids \X Ids)

BackendType ==
    /\ neo \in [nodes : SUBSET Ids, kinds : SUBSET Ids, calls : EdgeSets, uses : EdgeSets]
    /\ mem \in [keys : SUBSET Ids, metadata : SUBSET Ids, downstream : EdgeSets,
                upstream : EdgeSets, uses : EdgeSets, usedBy : EdgeSets]
BackendInv == BackendType /\ MemoryCoversNeo4j

\* Adding the edges of a symbol at both ends keeps the two directions mirrored.
LEMMA MirrorAdds ==
    ASSUME NEW E \in EdgeSets, NEW s \in Ids, NEW C \in SUBSET Ids
    PROVE  Mirror(E \cup ({s} \X C)) = Mirror(E) \cup (C \X {s})
<1>1. Mirror({s} \X C) = C \X {s}
  <2>1. ASSUME NEW t \in Mirror({s} \X C) PROVE t \in C \X {s}
      BY DEF Mirror
  <2>2. ASSUME NEW t \in C \X {s} PROVE t \in Mirror({s} \X C)
    <3>1. PICK c \in C : t = <<c, s>>
        OBVIOUS
    <3>2. <<s, c>> \in {s} \X C
        OBVIOUS
    <3>3. QED BY <3>1, <3>2 DEF Mirror
  <2>3. QED BY <2>1, <2>2
<1>2. Mirror(E \cup ({s} \X C)) = Mirror(E) \cup Mirror({s} \X C)
    BY DEF Mirror
<1>3. QED BY <1>1, <1>2

\* Removing symbols from both directions keeps them mirrored.
LEMMA MirrorClears ==
    ASSUME NEW E \in EdgeSets, NEW gone \in SUBSET Ids
    PROVE  Mirror(Clear(E, gone)) = Clear(Mirror(E), gone)
BY DEF Mirror, EdgeSets, Clear

LEMMA UpsertCovers ==
    ASSUME BackendInv, NEW s \in Ids, NEW C \in SUBSET Ids, NEW U \in SUBSET Ids,
           neo' = Merge(s, C, U), mem' = Update(s, C, U)
    PROVE  BackendInv'
<1> USE DEF BackendInv, BackendType
<1>0. /\ {s} \X C \in EdgeSets /\ {s} \X U \in EdgeSets
      /\ C \X {s} \in EdgeSets /\ U \X {s} \in EdgeSets
      /\ \A E, F \in EdgeSets : E \cup F \in EdgeSets
      /\ \A E \in EdgeSets : {e \in E : e[1] # s} \in EdgeSets
    BY DEF EdgeSets
<1>1. BackendType'
    BY <1>0 DEF Merge, Update
<1>2. mem'.keys = neo'.nodes /\ mem'.metadata = neo'.kinds
    BY DEF MemoryCoversNeo4j, Merge, Update
<1>3. neo'.calls \subseteq mem'.downstream /\ neo'.uses \subseteq mem'.uses
    BY DEF MemoryCoversNeo4j, Merge, Update
<1>4. mem'.upstream = Mirror(mem'.downstream)
  <2>1. mem'.downstream = mem.downstream \cup ({s} \X C)
      BY DEF Update
  <2>2. mem'.upstream = Mirror(mem.downstream) \cup (C \X {s})
      BY DEF Update, MemoryCoversNeo4j
  <2>3. mem.downstream \in EdgeSets
      OBVIOUS
  <2>4. Mirror(mem.downstream \cup ({s} \X C)) = Mirror(mem.downstream) \cup (C \X {s})
      BY <2>3, MirrorAdds
  <2>5. QED BY <2>1, <2>2, <2>4
<1>5. mem'.usedBy = Mirror(mem'.uses)
  <2>1. mem'.uses = mem.uses \cup ({s} \X U)
      BY DEF Update
  <2>2. mem'.usedBy = Mirror(mem.uses) \cup (U \X {s})
      BY DEF Update, MemoryCoversNeo4j
  <2>3. mem.uses \in EdgeSets
      OBVIOUS
  <2>4. Mirror(mem.uses \cup ({s} \X U)) = Mirror(mem.uses) \cup (U \X {s})
      BY <2>3, MirrorAdds
  <2>5. QED BY <2>1, <2>2, <2>4
<1>6. QED
    BY <1>1, <1>2, <1>3, <1>4, <1>5 DEF MemoryCoversNeo4j, Mirror

LEMMA RemovalCovers ==
    ASSUME BackendInv, NEW gone \in SUBSET Ids, RemoveSymbols(gone)
    PROVE  BackendInv'
<1> USE DEF BackendInv, BackendType, RemoveSymbols
<1>1. BackendType'
    BY DEF EdgeSets, Clear
<1>2. mem'.keys = neo'.nodes /\ mem'.metadata = neo'.kinds
    BY DEF MemoryCoversNeo4j
<1>3. neo'.calls \subseteq mem'.downstream /\ neo'.uses \subseteq mem'.uses
    BY DEF MemoryCoversNeo4j, Clear
<1>4. mem'.upstream = Mirror(mem'.downstream) /\ mem'.usedBy = Mirror(mem'.uses)
    BY MirrorClears DEF MemoryCoversNeo4j
<1>5. QED
    BY <1>1, <1>2, <1>3, <1>4 DEF MemoryCoversNeo4j, Mirror

\* The in-memory graph that the tests run against answers has_symbol and get_symbol_ids as
\* Neo4j does and has at least its edges, from both ends, for any set of symbols.
THEOREM MemoryCovers == BackendSpec => []MemoryCoversNeo4j
<1>1. BackendInit => BackendInv
    BY DEF BackendInit, BackendInv, BackendType, EdgeSets, MemoryCoversNeo4j, Mirror
<1>2. BackendInv /\ [BackendNext]_backendVars => BackendInv'
  <2> SUFFICES ASSUME BackendInv, [BackendNext]_backendVars PROVE BackendInv'
      OBVIOUS
  <2>1. ASSUME NEW s \in Ids, UpsertSymbol(s) PROVE BackendInv'
      BY <2>1, UpsertCovers DEF UpsertSymbol
  <2>2. ASSUME NEW gone \in SUBSET Ids, RemoveSymbols(gone) PROVE BackendInv'
      BY <2>2, RemovalCovers
  <2>3. CASE Reset
      BY <2>3 DEF Reset, BackendInv, BackendType, EdgeSets, MemoryCoversNeo4j, Mirror
  <2>4. CASE UNCHANGED backendVars
      BY <2>4 DEF backendVars, BackendInv, BackendType, MemoryCoversNeo4j, Mirror
  <2>5. QED BY <2>1, <2>2, <2>3, <2>4 DEF BackendNext
<1>3. BackendInv => MemoryCoversNeo4j
    BY DEF BackendInv
<1>4. QED BY <1>1, <1>2, <1>3, PTL DEF BackendSpec

(***************************************************************************)
(* The symbols of a diff                                                   *)
(***************************************************************************)

DeclaredNames == [Paths -> SUBSET Names]
DiffType ==
    /\ DiffWorld
    /\ master \in DeclaredNames /\ branch \in DeclaredNames
    /\ resigned \in DeclaredNames /\ context \in [Paths -> SUBSET (Names \cup {"none"})]
    /\ origin \in [Paths -> Paths \cup {"none"}]
OneOrigin ==
    /\ \A e, h \in Paths : origin[e] # "none" /\ origin[e] = origin[h] => e = h
    /\ \A e \in Paths : origin[e] # "none" => master[origin[e]] # {}
    /\ \A e \in Paths : MovedAway(e) => branch[e] = {}
ResignedStays == \A e \in Paths : resigned[e] \subseteq branch[e] \cap Old(e)
DiffInv == DiffType /\ OneOrigin /\ ResignedStays

LEMMA DiffInvInit == DiffWorld /\ DiffInit => DiffInv
<1> SUFFICES ASSUME DiffWorld, DiffInit PROVE DiffInv
    OBVIOUS
<1>1. DiffType
    BY DEF DiffWorld, DiffInit, DiffType, DeclaredNames
<1>2. \A e \in Paths : origin[e] \in {e, "none"} /\ (origin[e] = e => master[e] # {})
    BY DEF DiffInit, DiffWorld
<1>3. OneOrigin
    BY <1>2 DEF OneOrigin, MovedAway, DiffWorld
<1>4. ResignedStays
    BY DEF DiffInit, ResignedStays
<1>5. QED BY <1>1, <1>3, <1>4 DEF DiffInv

LEMMA EditKeeps ==
    ASSUME DiffInv, master' = master, NEW f \in Paths,
           \/ \E n \in Names : Declare(f, n) \/ Undeclare(f, n) \/ ChangeSignature(f, n)
           \/ ChangeBody(f)
           \/ ChangeImpl
    PROVE  DiffInv'
<1>1. DiffType /\ OneOrigin /\ ResignedStays /\ origin' = origin
    BY DEF DiffInv, Declare, Undeclare, ChangeSignature, ChangeBody, ChangeImpl
<1>2. context' \in [Paths -> SUBSET (Names \cup {"none"})]
  <2>1. ASSUME NEW declared, Hunk(f, declared) PROVE context' \in [Paths -> SUBSET (Names \cup {"none"})]
    <3>1. PICK m \in Old(f) \cup {"none"} : context' = [context EXCEPT ![f] = @ \cup {m}]
        BY <2>1 DEF Hunk
    <3>2. m \in Names \cup {"none"}
        BY <1>1, <3>1 DEF Old, DiffType, DeclaredNames
    <3>3. QED BY <1>1, <3>1, <3>2 DEF DiffType
  <2>2. context' = context \/ \E declared \in SUBSET Names : Hunk(f, declared)
      BY DEF Declare, Undeclare, ChangeSignature, ChangeBody, ChangeImpl
  <2>3. QED BY <1>1, <2>1, <2>2 DEF DiffType
<1>3. /\ branch' \in DeclaredNames /\ resigned' \in DeclaredNames
      /\ \A e \in Paths : branch'[e] \subseteq branch[e] \/ ~MovedAway(e)
      /\ \A e \in Paths : resigned'[e] \subseteq branch'[e] \cap Old(e)
  <2>1. ASSUME NEW n \in Names, Declare(f, n) \/ Undeclare(f, n) \/ ChangeSignature(f, n)
        PROVE  /\ branch' \in DeclaredNames /\ resigned' \in DeclaredNames
               /\ \A e \in Paths : branch'[e] \subseteq branch[e] \/ ~MovedAway(e)
               /\ \A e \in Paths : resigned'[e] \subseteq branch'[e] \cap Old(e)
      BY <1>1, <2>1 DEF DiffType, DeclaredNames, ResignedStays, Declare, Undeclare, ChangeSignature
  <2>2. CASE ChangeBody(f) \/ ChangeImpl
      BY <1>1, <2>2 DEF DiffType, ResignedStays, ChangeBody, ChangeImpl
  <2>3. QED BY <2>1, <2>2
<1>4. DiffType'
    BY <1>1, <1>2, <1>3 DEF DiffType, DiffWorld
<1>5. \A e \in Paths : Old(e)' = Old(e) /\ MovedAway(e)' = MovedAway(e)
    BY <1>1 DEF Old, MovedAway
<1>6. OneOrigin'
    BY <1>1, <1>3, <1>5 DEF OneOrigin
<1>7. ResignedStays'
    BY <1>3, <1>5 DEF ResignedStays
<1>8. QED BY <1>4, <1>6, <1>7 DEF DiffInv

LEMMA MoveKeeps ==
    ASSUME DiffInv, master' = master, NEW f \in Paths, NEW g \in Paths, MoveFile(f, g)
    PROVE  DiffInv'
<1>1. DiffType /\ OneOrigin /\ ResignedStays /\ f # g
    BY DEF DiffInv, MoveFile
<1>2. /\ origin[f] = f /\ branch[f] # {} /\ master[g] = {} /\ branch[g] = {}
      /\ branch' = [branch EXCEPT ![g] = branch[f], ![f] = {}]
      /\ origin' = [origin EXCEPT ![g] = f, ![f] = "none"]
      /\ resigned' = [resigned EXCEPT ![g] = resigned[f], ![f] = {}]
      /\ context' = [context EXCEPT ![g] = context[f], ![f] = {}]
    BY DEF MoveFile
<1>3. DiffType'
    BY <1>1, <1>2 DEF DiffType, DiffWorld, DeclaredNames
<1>4. \A e \in Paths :
         /\ origin'[e] = IF e = f THEN "none" ELSE IF e = g THEN f ELSE origin[e]
         /\ branch'[e] = IF e = f THEN {} ELSE IF e = g THEN branch[f] ELSE branch[e]
         /\ resigned'[e] = IF e = f THEN {} ELSE IF e = g THEN resigned[f] ELSE resigned[e]
    BY <1>1, <1>2 DEF DiffType, DeclaredNames
<1>5. f # "none" /\ master[f] # {} /\ \A e \in Paths : origin[e] = f => e = f
    BY <1>1, <1>2 DEF OneOrigin, DiffType, DiffWorld
<1>6. OneOrigin'
  <2>1. \A e, h \in Paths : origin'[e] # "none" /\ origin'[e] = origin'[h] => e = h
      BY <1>1, <1>4, <1>5 DEF OneOrigin
  <2>2. \A e \in Paths : origin'[e] # "none" => master[origin'[e]] # {}
      BY <1>1, <1>4, <1>5 DEF OneOrigin
  <2>3. ASSUME NEW e \in Paths, NEW h \in Paths \ {e}, origin'[h] = e
        PROVE  branch'[e] = {}
    <3>1. CASE h = g
        BY <1>4, <1>5, <2>3, <3>1, <1>1
    <3>2. CASE h # g
      <4>1. h # f /\ origin[h] = e
          BY <1>1, <1>4, <2>3, <3>2 DEF DiffType, DiffWorld
      <4>2. branch[e] = {} /\ e # g
          BY <1>1, <1>2, <2>3, <4>1 DEF OneOrigin, MovedAway, DiffType, DiffWorld
      <4>3. QED BY <1>4, <4>2
    <3>3. QED BY <3>1, <3>2
  <2>4. QED BY <1>2, <2>1, <2>2, <2>3 DEF OneOrigin, MovedAway
<1>7. ResignedStays'
  <2>1. \A e \in Paths : Old(e)' = IF e = f THEN {} ELSE IF e = g THEN Old(f) ELSE Old(e)
    <3> SUFFICES ASSUME NEW e \in Paths
                 PROVE  Old(e)' = IF e = f THEN {} ELSE IF e = g THEN Old(f) ELSE Old(e)
        OBVIOUS
    <3>1. Old(f) = master[f]
        BY <1>2, <1>5 DEF Old
    <3>2. Old(e)' = IF origin'[e] = "none" THEN {} ELSE master[origin'[e]]
        BY DEF Old
    <3>3. Old(e) = IF origin[e] = "none" THEN {} ELSE master[origin[e]]
        BY DEF Old
    <3>4. QED BY <1>4, <1>5, <3>1, <3>2, <3>3
  <2>2. QED BY <1>1, <1>4, <2>1 DEF ResignedStays
<1>8. QED BY <1>3, <1>6, <1>7 DEF DiffInv

LEMMA DiffInvStep == DiffInv /\ [DiffNext]_diffVars => DiffInv'
<1> SUFFICES ASSUME DiffInv, [DiffNext]_diffVars PROVE DiffInv'
    OBVIOUS
<1>1. CASE UNCHANGED diffVars
    BY <1>1 DEF diffVars, DiffInv, DiffType, DiffWorld, OneOrigin, MovedAway, ResignedStays, Old
<1>2. ASSUME DiffNext PROVE DiffInv'
  <2>1. master' = master
      BY <1>2 DEF DiffNext
  <2>2. PICK f \in Paths :
           \/ \E n \in Names : Declare(f, n) \/ Undeclare(f, n) \/ ChangeSignature(f, n)
           \/ ChangeBody(f)
           \/ ChangeImpl
           \/ \E g \in Paths : MoveFile(f, g)
      BY <1>2 DEF DiffNext
  <2>3. CASE \E g \in Paths : MoveFile(f, g)
      BY <2>1, <2>3, MoveKeeps
  <2>4. QED BY <2>1, <2>2, <2>3, EditKeeps
<1>3. QED BY <1>1, <1>2

LEMMA BranchSide ==
    ASSUME DiffInv, NEW f \in Paths
    PROVE  /\ Old(f) \subseteq Names /\ AddedIn(f) \subseteq branch[f] /\ branch[f] \subseteq Names
           /\ DeletedIn(f) \subseteq Old(f) /\ resigned[f] \subseteq Both
           /\ AddedIn(f) \subseteq AddedNames /\ DeletedIn(f) \subseteq DeletedNames
<1>1. Old(f) \subseteq Names /\ branch[f] \subseteq Names
    BY DEF DiffInv, DiffType, DeclaredNames, Old
<1>2. resigned[f] \subseteq branch[f] \cap Old(f)
    BY DEF DiffInv, ResignedStays
<1>3. AddedIn(f) \subseteq branch[f] /\ DeletedIn(f) \subseteq Old(f)
    BY <1>2 DEF AddedIn, DeletedIn
<1>4. AddedIn(f) \subseteq AddedNames /\ DeletedIn(f) \subseteq DeletedNames
    BY DEF AddedNames, DeletedNames
<1>5. resigned[f] \subseteq Both
    BY <1>4 DEF Both, AddedIn, DeletedIn
<1>6. QED BY <1>1, <1>3, <1>4, <1>5

\* What is reported gone was declared in a file of the branch that declares it no more.
LEMMA GoneFromBranch ==
    ASSUME DiffInv, NEW M \in Renames, NEW d \in Deleted(M) \cup Queried(M)
    PROVE  \E g \in Paths : d \in Old(g) \ branch[g]
<1>1. \E g \in Paths : d \in DeletedIn(g) /\ d \notin Both
  <2>1. CASE d \in Deleted(M)
      BY <2>1 DEF Deleted, DeletedNames
  <2>2. CASE d \in Queried(M)
    <3>1. PICK p \in Pairs(M) : d = p[1]
        BY <2>2 DEF Queried
    <3>2. PICK g \in Paths : p \in M[g]
        BY <3>1 DEF Pairs
    <3>3. M[g] \in Pairings(g)
        BY <3>2 DEF Renames
    <3>4. p \in (DeletedIn(g) \ Both) \X (AddedIn(g) \ Both)
        BY <3>2, <3>3 DEF Pairings
    <3>5. QED BY <3>1, <3>4
  <2>3. QED BY <2>1, <2>2
<1>2. PICK g \in Paths : d \in DeletedIn(g) /\ d \notin Both
    BY <1>1
<1>3. d \notin resigned[g]
    BY <1>2, BranchSide
<1>4. QED BY <1>2, <1>3 DEF DeletedIn

LEMMA IndexedSymbol ==
    ASSUME DiffInv, NEW s \in IndexedIn(master)
    PROVE  /\ s[1] \in Paths /\ s[2] \in Names /\ s[2] \in master[s[1]] /\ s = <<s[1], s[2]>>
           /\ s \in Hits(s[2])
<1>1. s[1] \in Paths /\ s[2] \in Names /\ s[2] \in master[s[1]] /\ s = <<s[1], s[2]>>
    BY DEF IndexedIn
<1>2. <<s[2], s[2]>> \in Within
    BY <1>1 DEF DiffInv, DiffType, DiffWorld
<1>3. QED BY <1>1, <1>2 DEF Hits

LEMMA FiniteHits ==
    ASSUME DiffInv, NEW n
    PROVE  Hits(n) \subseteq Paths \X Names /\ IsFiniteSet(Hits(n)) /\ IsFiniteSet(Paths \X Names)
<1>1. IsFiniteSet(Paths \X Names)
    BY FS_Product DEF DiffInv, DiffType, DiffWorld
<1>2. Hits(n) \subseteq Paths \X Names
    BY DEF Hits, IndexedIn
<1>3. QED BY <1>1, <1>2, FS_Subset

\* A cut keeps some, and all when they are not too many.
LEMMA SomeOfThem ==
    ASSUME NEW S, IsFiniteSet(S), NEW k \in Nat \ {0}, NEW T \in Some(S, k)
    PROVE  /\ T \subseteq S
           /\ Cardinality(S) <= k => T = S
           /\ S # {} => T # {}
<1>1. T \in SUBSET S /\ Cardinality(T) = Min({k, Cardinality(S)})
    BY DEF Some, kSubset
<1>2. Cardinality(S) \in Nat
    BY FS_CardinalityType
<1>3. Min({k, Cardinality(S)}) = IF Cardinality(S) <= k THEN Cardinality(S) ELSE k
  <2>1. CASE Cardinality(S) <= k
      BY <1>2, <2>1 DEF Min
  <2>2. CASE ~(Cardinality(S) <= k)
      BY <1>2, <2>2 DEF Min
  <2>3. QED BY <2>1, <2>2
<1>4. Cardinality(S) <= k => T = S
    BY <1>1, <1>3, FS_Subset
<1>5. T = {} => Cardinality(T) = 0
    BY FS_EmptySet
<1>6. S # {} => Cardinality(S) # 0
    BY FS_EmptySet
<1>7. QED BY <1>1, <1>2, <1>3, <1>4, <1>5, <1>6

\* An answer has hits only; it has some if there are any and a file changed, and those of the
\* changed files, if there are any, when nothing is cut off.
LEMMA SearchAnswers ==
    ASSUME DiffInv, NEW n, NEW limit \in {HitLimit, GoneLimit}, NEW R \in Search(n, limit)
    PROVE  /\ R \subseteq Hits(n)
           /\ Fits(n, limit) /\ Near(Hits(n)) # {} => R = Near(Hits(n))
           /\ Scope # {} /\ Hits(n) # {} => R # {}
<1>1. limit \in Nat \ {0} /\ Overfetch * limit \in Nat \ {0}
  <2>1. limit \in Nat \ {0} /\ Overfetch \in Nat \ {0}
      BY DEF DiffInv, DiffType, DiffWorld
  <2>2. QED BY <2>1
<1>2. PICK found \in Some(Hits(n), Overfetch * limit) :
         R \in Some(IF Near(found) = {} /\ Scope # {} THEN found ELSE Near(found), limit)
    BY DEF Search
<1>3. /\ found \subseteq Hits(n)
      /\ Cardinality(Hits(n)) <= Overfetch * limit => found = Hits(n)
      /\ Hits(n) # {} => found # {}
    BY <1>1, <1>2, FiniteHits, SomeOfThem
<1> DEFINE pool == IF Near(found) = {} /\ Scope # {} THEN found ELSE Near(found)
<1>4. pool \subseteq found /\ Near(found) \subseteq found
    BY DEF Near
<1>5. IsFiniteSet(pool)
  <2>1. pool \subseteq Hits(n)
      BY <1>3, <1>4
  <2> HIDE DEF pool
  <2>2. QED BY <2>1, FiniteHits, FS_Subset
<1>6. /\ R \subseteq pool
      /\ Cardinality(pool) <= limit => R = pool
      /\ pool # {} => R # {}
  <2>1. R \in Some(pool, limit)
      BY <1>2
  <2> HIDE DEF pool
  <2>2. QED BY <1>1, <1>5, <2>1, SomeOfThem
<1>7. Fits(n, limit) /\ Near(Hits(n)) # {} => pool = Near(Hits(n)) /\ Cardinality(pool) <= limit
    BY <1>3 DEF Fits
<1>8. Scope # {} /\ Hits(n) # {} => pool # {}
    BY <1>3
<1>9. QED BY <1>3, <1>4, <1>6, <1>7, <1>8

LEMMA ScopeCovers ==
    ASSUME DiffInv, NEW s \in IndexedIn(master), NEW f \in Lives(s),
           AddedIn(f) \cup DeletedIn(f) \cup context[f] # {}
    PROVE  s[1] \in Scope
<1>1. f \in Paths /\ origin[f] = s[1] /\ branch[f] # {} /\ s[1] \in Paths
    BY IndexedSymbol DEF Lives
<1>2. f \in ChangedFiles
    BY <1>1 DEF ChangedFiles
<1>3. CASE f = s[1]
    BY <1>2, <1>3 DEF Scope
<1>4. CASE f # s[1]
    BY <1>1, <1>4 DEF Scope, MovedAway
<1>5. QED BY <1>3, <1>4

LEMMA Reviewable ==
    ASSUME DiffInv, NEW M \in Renames
    PROVE  Sought(M) \subseteq Names
<1>1. AddedNames \subseteq Names
    BY BranchSide DEF AddedNames
<1>2. \A f \in Paths : HunkContext(f) \subseteq Names
    BY DEF HunkContext, DiffInv, DiffType
<1>3. QED BY <1>1, <1>2 DEF Sought, Added, Modified, Both

LEMMA ReviewsAll ==
    ASSUME DiffInv, NEW M \in Renames, NEW changed \in Answers(Sought(M), HitLimit),
           NEW first \in Reviewed(changed), Cardinality(Listing(changed)) <= MaxSymbols
    PROVE  first = Listing(changed)
<1>1. DOMAIN changed \subseteq Names /\ \A n \in DOMAIN changed : changed[n] \subseteq Paths \X Names
  <2>1. DOMAIN changed = Sought(M) /\ \A n \in Sought(M) : changed[n] \in Search(n, HitLimit)
      BY DEF Answers
  <2>2. \A n \in Sought(M) : changed[n] \subseteq Hits(n)
      BY <2>1, SearchAnswers
  <2>3. QED BY <2>1, <2>2, FiniteHits, Reviewable
<1>2. Listing(changed) \subseteq Names \X (Paths \X Names)
    BY <1>1 DEF Listing
<1>3. IsFiniteSet(Names \X (Paths \X Names))
    BY FS_Product, FiniteHits DEF DiffInv, DiffType, DiffWorld
<1>4. IsFiniteSet(Listing(changed))
    BY <1>2, <1>3, FS_Subset
<1>5. first \in Some(Listing(changed), MaxSymbols) /\ MaxSymbols \in Nat \ {0}
    BY DEF Reviewed, DiffInv, DiffType, DiffWorld
<1>6. QED BY <1>4, <1>5, SomeOfThem

\* Where a file that lives is changed, the symbols of it are in the answers that fit.
LEMMA NamedThenFound ==
    ASSUME DiffInv, NEW s \in IndexedIn(master), s[1] \in Scope,
           NEW names, s[2] \in names, NEW limit \in {HitLimit, GoneLimit}, Fits(s[2], limit),
           NEW A \in Answers(names, limit)
    PROVE  s \in A[s[2]]
<1>1. A[s[2]] \in Search(s[2], limit)
    BY DEF Answers
<1>2. s \in Near(Hits(s[2]))
    BY IndexedSymbol DEF Near
<1>3. QED BY <1>1, <1>2, SearchAnswers

LEMMA Fewer ==
    ASSUME DiffInv, NEW n, Fits(n, GoneLimit)
    PROVE  Fits(n, HitLimit)
<1>1. Overfetch \in Nat /\ GoneLimit \in Nat /\ HitLimit \in Nat /\ GoneLimit <= HitLimit
    BY DEF DiffInv, DiffType, DiffWorld
<1>2. Overfetch * GoneLimit <= Overfetch * HitLimit
    BY <1>1
<1>3. Cardinality(Hits(n)) \in Nat /\ Cardinality(Near(Hits(n))) \in Nat
  <2>1. Near(Hits(n)) \subseteq Hits(n)
      BY DEF Near
  <2>2. QED BY <2>1, FiniteHits, FS_Subset, FS_CardinalityType
<1>4. Overfetch * GoneLimit \in Nat /\ Overfetch * HitLimit \in Nat
    BY <1>1
<1> HIDE DEF Fits
<1>5. Cardinality(Hits(n)) <= Overfetch * GoneLimit /\ Cardinality(Near(Hits(n))) <= GoneLimit
    BY DEF Fits
<1>6. Cardinality(Hits(n)) <= Overfetch * HitLimit
    BY <1>2, <1>3, <1>4, <1>5
<1>7. Cardinality(Near(Hits(n))) <= HitLimit
    BY <1>1, <1>3, <1>5
<1>8. QED BY <1>6, <1>7 DEF Fits

\* Everything taken out of a file or named by its hunks is among what is reported.
LEMMA DiffReports ==
    ASSUME DiffInv, NEW M \in Renames, NEW changed \in Answers(Sought(M), HitLimit),
           NEW gone \in Answers(Missed(M), GoneLimit), NEW first \in Reviewed(changed),
           Cardinality(Listing(changed)) <= MaxSymbols,
           NEW s \in IndexedIn(master), NEW f \in Lives(s)
    PROVE  /\ s[2] \notin branch[f] /\ Fits(s[2], GoneLimit) =>
                 \/ s \in {p[2] : p \in first}
                 \/ s \in InAnswers(gone, Deleted(M)) \cup InAnswers(gone, Queried(M))
           /\ s[2] \in resigned[f] \cup context[f] /\ Fits(s[2], HitLimit) =>
                 s \in {p[2] : p \in first}
<1> DEFINE n == s[2]
<1>1. /\ f \in Paths /\ branch[f] # {} /\ Old(f) = master[s[1]] /\ n \in Old(f)
      /\ n \in Names /\ n # "none"
  <2>1. s[1] \in Paths /\ n \in Names /\ n \in master[s[1]]
        /\ f \in Paths /\ branch[f] # {} /\ origin[f] = s[1]
      BY IndexedSymbol DEF Lives
  <2>2. s[1] # "none" /\ n # "none"
      BY <2>1 DEF DiffInv, DiffType, DiffWorld
  <2>3. QED BY <2>1, <2>2 DEF Old
<1>2. n \in branch[f] \/ n \in DeletedIn(f)
    BY <1>1 DEF DeletedIn
<1>3. n \in resigned[f] => n \in DeletedIn(f) /\ n \in Both
    BY <1>1, BranchSide DEF DeletedIn
<1>4. ASSUME n \notin branch[f] \/ n \in resigned[f] \cup context[f] PROVE s[1] \in Scope
    BY <1>2, <1>3, <1>4, ScopeCovers
<1>5. ASSUME n \in Sought(M), Fits(n, HitLimit), s[1] \in Scope PROVE s \in {p[2] : p \in first}
  <2>1. s \in changed[n] /\ n \in DOMAIN changed
      BY <1>5, NamedThenFound DEF Answers
  <2>2. <<n, s>> \in Listing(changed)
      BY <2>1 DEF Listing
  <2>3. <<n, s>> \in first
      BY <2>2, ReviewsAll
  <2>4. <<n, s>>[2] = s
      OBVIOUS
  <2>5. QED BY <2>3, <2>4
<1>6. n \in resigned[f] \cup context[f] => n \in Sought(M)
    BY <1>1, <1>3 DEF Sought, Modified, HunkContext
<1>7. n \notin branch[f] => n \in Sought(M) \/ n \in Deleted(M) \/ n \in Queried(M)
    BY <1>1, <1>2, BranchSide DEF Sought, Modified, Deleted, Queried
<1>8. ASSUME n \in Deleted(M) \cup Queried(M), Fits(n, GoneLimit), s[1] \in Scope
      PROVE  s \in InAnswers(gone, Deleted(M)) \cup InAnswers(gone, Queried(M))
  <2>1. s \in gone[n]
      BY <1>8, NamedThenFound DEF Missed
  <2>2. QED BY <1>8, <2>1 DEF InAnswers
<1>9. Fits(n, GoneLimit) => Fits(n, HitLimit)
    BY Fewer
<1> HIDE DEF n
<1>10. QED BY <1>4, <1>5, <1>6, <1>7, <1>8, <1>9 DEF n

\* A name like no other in the diff: where it stays, it neither goes nor comes.
LEMMA AloneStays ==
    ASSUME DiffInv, NEW s \in IndexedIn(master), NEW f \in Lives(s), Alone(s), s[2] \in branch[f],
           NEW g \in Paths, NEW q \in Names
    PROVE  /\ q \in Old(g) \ branch[g] => <<q, s[2]>> \notin Within /\ <<s[2], q>> \notin Within
           /\ q \in branch[g] \ Old(g) => <<s[2], q>> \notin Within
           /\ q \in Old(g) \cap branch[g] /\ <<s[2], q>> \in Within => q = s[2] /\ g = f
<1> DEFINE n == s[2]
<1>1. s[1] \in Paths /\ n \in master[s[1]] /\ s = <<s[1], s[2]>> /\ n \in Names
      /\ f \in Paths /\ branch[f] # {} /\ origin[f] = s[1] /\ s[1] # "none"
  <2>1. "none" \notin Paths
      BY DEF DiffInv, DiffType, DiffWorld
  <2>2. QED BY <2>1, IndexedSymbol DEF Lives
<1>2. Old(f) = master[s[1]]
    BY <1>1 DEF Old
<1>3. origin[g] = s[1] => g = f
    BY <1>1 DEF DiffInv, OneOrigin
<1>4. ASSUME q \in Old(g)
      PROVE  \/ q = n /\ g = f
             \/ <<q, n>> \notin Within /\ <<n, q>> \notin Within
  <2> DEFINE t == <<origin[g], q>>
  <2>1. origin[g] \in Paths /\ q \in master[origin[g]]
      BY <1>4 DEF Old, DiffInv, DiffType
  <2>2. t \in IndexedIn(master) /\ t[1] = origin[g] /\ t[2] = q
      BY <2>1 DEF IndexedIn
  <2>3. t = s \/ (<<q, n>> \notin Within /\ <<n, q>> \notin Within)
      BY <2>2 DEF Alone
  <2>4. t = s => q = n /\ origin[g] = s[1]
      BY <2>2
  <2>5. QED BY <1>3, <2>3, <2>4
<1>5. ASSUME q \in branch[g] \ Old(g) PROVE <<n, q>> \notin Within
  <2> DEFINE t == <<g, q>>
  <2>1. t \in IndexedIn(branch) /\ t[1] = g /\ t[2] = q
      BY <1>5 DEF IndexedIn
  <2>2. \/ t = s
        \/ q = n /\ origin[g] = s[1]
        \/ <<n, q>> \notin Within
      BY <2>1 DEF Alone
  <2>3. ~(q = n /\ origin[g] = s[1])
      BY <1>1, <1>2, <1>3, <1>5
  <2>4. t # s
    <3>1. SUFFICES ASSUME g = s[1], q = n PROVE FALSE
        BY <2>1
    <3>2. CASE f = g
        BY <1>1, <1>2, <1>5, <3>1, <3>2
    <3>3. CASE f # g
      <4>1. MovedAway(g)
          BY <1>1, <3>1, <3>3 DEF MovedAway
      <4>2. QED BY <1>5, <4>1 DEF DiffInv, OneOrigin
    <3>4. QED BY <3>2, <3>3
  <2>5. QED BY <2>2, <2>3, <2>4
<1>6. QED BY <1>4, <1>5

LEMMA AloneKept ==
    ASSUME DiffInv, NEW M \in Renames, NEW s \in IndexedIn(master), NEW f \in Lives(s), Alone(s),
           s[2] \in branch[f], NEW changed \in Answers(Sought(M), HitLimit),
           NEW gone \in Answers(Missed(M), GoneLimit)
    PROVE  /\ s \notin InAnswers(gone, Deleted(M)) \cup InAnswers(gone, Queried(M))
           /\ s[2] \in Sought(M) => changed[s[2]] # {}
<1>1. ASSUME s \in InAnswers(gone, Deleted(M)) \cup InAnswers(gone, Queried(M)) PROVE FALSE
  <2>1. PICK d \in Deleted(M) \cup Queried(M) : s \in gone[d]
      BY <1>1 DEF InAnswers
  <2>2. gone[d] \in Search(d, GoneLimit)
      BY <2>1 DEF Answers, Missed
  <2>3. <<d, s[2]>> \in Within
      BY <2>1, <2>2, SearchAnswers DEF Hits
  <2>4. PICK g \in Paths : d \in Old(g) \ branch[g]
      BY GoneFromBranch
  <2>5. d \in Names
      BY <2>4, BranchSide
  <2>6. QED BY <2>3, <2>4, <2>5, AloneStays
<1>2. ASSUME s[2] \in Sought(M) PROVE changed[s[2]] # {}
  <2>1. \E g \in Paths : s[2] \in AddedIn(g) \/ s[2] \in HunkContext(g)
      BY <1>2 DEF Sought, Added, Modified, AddedNames, Both
  <2>2. PICK g \in Paths : s[2] \in AddedIn(g) \/ s[2] \in HunkContext(g)
      BY <2>1
  <2>3. g \in ChangedFiles
      BY <2>2, BranchSide DEF ChangedFiles, HunkContext
  <2>4. Scope # {} /\ Hits(s[2]) # {}
      BY <2>3, IndexedSymbol DEF Scope
  <2>5. changed[s[2]] \in Search(s[2], HitLimit)
      BY <1>2 DEF Answers
  <2>6. QED BY <2>4, <2>5, SearchAnswers
<1>3. QED BY <1>1, <1>2

LEMMA AloneClassified ==
    ASSUME DiffInv, NEW s \in IndexedIn(master), NEW f \in Lives(s), Alone(s), s[2] \in branch[f],
           ~impl
    PROVE  /\ s[2] \in resigned[f] => ChangeType(s[2]) = "signature_change"
           /\ s[2] \in context[f] \ resigned[f] => ChangeType(s[2]) = "body_only"
<1> DEFINE n == s[2]
<1>1. n \in Names /\ <<n, n>> \in Within /\ f \in Paths
    BY IndexedSymbol DEF DiffInv, DiffType, DiffWorld, Lives
<1>2. ASSUME n \in resigned[f] PROVE ChangeType(n) = "signature_change"
  <2>1. n \in AddedNames /\ n \in DeletedNames
      BY <1>1, <1>2, BranchSide DEF AddedIn, DeletedIn
  <2>2. Mentioned(n, AddedNames) /\ Mentioned(n, DeletedNames)
      BY <1>1, <2>1 DEF Mentioned
  <2>3. SignatureChanged(n)
      BY <1>1, <1>2, <2>1 DEF SignatureChanged
  <2>4. QED BY <2>2, <2>3 DEF ChangeType
<1>3. ASSUME n \notin resigned[f] PROVE ChangeType(n) = "body_only"
  <2>1. ASSUME NEW g \in Paths, NEW q \in AddedIn(g) \cup DeletedIn(g) PROVE <<n, q>> \notin Within
    <3>1. q \in Names
        BY <2>1, BranchSide
    <3>2. \/ q \in Old(g) \ branch[g] \/ q \in branch[g] \ Old(g)
          \/ q \in Old(g) \cap branch[g] /\ q \in resigned[g]
        BY <2>1, BranchSide DEF AddedIn, DeletedIn, DiffInv, ResignedStays
    <3>3. QED BY <1>3, <3>1, <3>2, AloneStays
  <2>2. \A q \in AddedNames \cup DeletedNames : <<n, q>> \notin Within
      BY <2>1 DEF AddedNames, DeletedNames
  <2>3. ~Mentioned(n, AddedNames) /\ ~Mentioned(n, DeletedNames) /\ ~SignatureChanged(n)
      BY <2>2 DEF Mentioned, SignatureChanged
  <2>4. QED BY <2>3 DEF ChangeType
<1>4. QED BY <1>2, <1>3

\* Over any tree and any edits of it, whatever is paired as renamed and in whatever order the
\* searches answer: a review misses nothing that the branch takes out of a file or that a hunk
\* header names, unless one of its limits is met, and of a symbol with a name of its own it says
\* rightly that it stays and how it changes.
THEOREM DiffsAccount == DiffWorld /\ DiffSpec => []DiffAccounts
<1>1. DiffWorld /\ DiffInit => DiffInv
    BY DiffInvInit
<1>2. DiffInv /\ [DiffNext]_diffVars => DiffInv'
    BY DiffInvStep
<1>3. DiffInv => DiffAccounts
  <2> SUFFICES ASSUME DiffInv, NEW M \in Renames,
                      NEW changed \in Answers(Sought(M), HitLimit),
                      NEW gone \in Answers(Missed(M), GoneLimit),
                      NEW first \in Reviewed(changed),
                      NEW s \in IndexedIn(master), NEW f \in Lives(s)
               PROVE  LET pr      == PrBreakdown(M, changed, gone, first)
                          missing == pr.removed_from_master \cup pr.renamed
                          n       == s[2]
                      IN  /\ Cardinality(Listing(changed)) <= MaxSymbols =>
                                /\ (n \notin branch[f] /\ Fits(n, GoneLimit)) =>
                                      s \in pr.modified_in_master \cup missing
                                /\ (n \in resigned[f] \cup context[f] /\ Fits(n, HitLimit)) =>
                                      s \in pr.modified_in_master
                          /\ (Alone(s) /\ n \in branch[f]) =>
                                /\ s \notin missing /\ n \notin pr.added_not_in_index
                                /\ (n \in resigned[f] /\ ~impl) =>
                                      ChangeType(n) = "signature_change"
                                /\ (n \in context[f] \ resigned[f] /\ ~impl) =>
                                      ChangeType(n) = "body_only"
      BY DEF DiffAccounts
  <2> DEFINE pr == PrBreakdown(M, changed, gone, first)
  <2>1. /\ pr.removed_from_master = InAnswers(gone, Deleted(M))
        /\ pr.renamed = InAnswers(gone, Queried(M))
        /\ pr.added_not_in_index = {n \in Sought(M) : changed[n] = {}}
        /\ pr.modified_in_master = {p[2] : p \in first}
      BY DEF PrBreakdown
  <2> HIDE DEF pr
  <2>2. Cardinality(Listing(changed)) <= MaxSymbols =>
           /\ s[2] \notin branch[f] /\ Fits(s[2], GoneLimit) =>
                 \/ s \in {p[2] : p \in first}
                 \/ s \in InAnswers(gone, Deleted(M)) \cup InAnswers(gone, Queried(M))
           /\ s[2] \in resigned[f] \cup context[f] /\ Fits(s[2], HitLimit) =>
                 s \in {p[2] : p \in first}
      BY DiffReports
  <2>3. Alone(s) /\ s[2] \in branch[f] =>
        /\ s \notin InAnswers(gone, Deleted(M)) \cup InAnswers(gone, Queried(M))
        /\ s[2] \in Sought(M) => changed[s[2]] # {}
      BY AloneKept
  <2>4. Alone(s) /\ s[2] \in branch[f] /\ ~impl =>
        /\ s[2] \in resigned[f] => ChangeType(s[2]) = "signature_change"
        /\ s[2] \in context[f] \ resigned[f] => ChangeType(s[2]) = "body_only"
      BY AloneClassified
  <2>5. QED BY <2>1, <2>2, <2>3, <2>4 DEF pr
<1>4. QED BY <1>1, <1>2, <1>3, PTL DEF DiffSpec

(***************************************************************************)
(* The risk of a change                                                    *)
(***************************************************************************)
RiskInv == RiskWorld /\ calls \subseteq Nodes \X Nodes /\ uses \subseteq Nodes \X Nodes

LEMMA RiskInvStep == RiskInv /\ [QueryNext]_queryVars => RiskInv'
<1> SUFFICES ASSUME RiskInv, [QueryNext]_queryVars PROVE RiskInv'
    OBVIOUS
<1>1. CASE UNCHANGED queryVars
    BY <1>1 DEF RiskInv, RiskWorld, queryVars
<1>2. CASE QueryNext
  <2>1. PICK n \in Nodes : Upsert(n)
      BY <1>2 DEF QueryNext
  <2>2. PICK C \in SUBSET (Nodes \ {n}), U \in SUBSET (Nodes \ {n}) :
           /\ calls' = (calls \ From(calls, n)) \cup ({n} \X C)
           /\ uses' = (uses \ From(uses, n)) \cup ({n} \X U)
      BY <2>1 DEF Upsert
  <2>3. {n} \X C \subseteq Nodes \X Nodes /\ {n} \X U \subseteq Nodes \X Nodes
      OBVIOUS
  <2>4. QED BY <2>2, <2>3 DEF RiskInv, RiskWorld
<1>3. QED BY <1>1, <1>2

\* The greatest of the numbers up to a bound
Below == OpToRel(<, Nat)

LEMMA Greatest ==
    ASSUME NEW n \in Nat, NEW S \in SUBSET (0 .. n), S # {}
    PROVE  Max(S) \in S /\ \A x \in S : x <= Max(S)
<1> DEFINE T == {n - x : x \in S}
<1>1. T \subseteq Nat /\ T # {}
  <2>1. \A x \in S : n - x \in Nat
      OBVIOUS
  <2>2. QED BY <2>1
<1>2. IsWellFoundedOn(Below, Nat)
    BY NatLessThanWellFounded DEF OpToRel, Below
<1>3. \E y \in T : \A z \in T : ~(<<z, y>> \in Below)
  <2> HIDE DEF T
  <2>1. QED BY <1>1, <1>2, WFMin
<1>4. PICK y \in T : \A z \in T : ~(<<z, y>> \in Below)
    BY <1>3
<1>5. \A z \in T : y <= z
  <2> TAKE z \in T
  <2>1. y \in Nat /\ z \in Nat /\ <<z, y>> \in Nat \X Nat
      BY <1>1
  <2>2. ~(<<z, y>>[1] < <<z, y>>[2])
      BY <1>4, <2>1 DEF Below, OpToRel
  <2>3. QED BY <2>1, <2>2
<1>6. PICK m \in S : y = n - m
    OBVIOUS
<1>7. \A x \in S : x <= m
  <2> TAKE x \in S
  <2>1. n - x \in T /\ x \in Int /\ m \in Int
      OBVIOUS
  <2>2. n - m <= n - x
      BY <1>5, <1>6, <2>1
  <2>3. QED BY <2>1, <2>2
<1>8. \E a \in S : \A x \in S : a >= x
    BY <1>7
<1>9. Max(S) \in S /\ \A x \in S : Max(S) >= x
    BY <1>8 DEF Max
<1>10. QED BY <1>9

LEMMA RiskGrows ==
    ASSUME RiskWorld, NEW a \in Nat, NEW b \in Nat, NEW c \in Nat, NEW d \in Nat,
           NEW v \in Nat, NEW w \in Nat, a <= v, c <= w, NEW e \in Nat, d <= e
    PROVE  Risk(a, b, c, d) <= Risk(v, b, w, e)
<1> DEFINE Passed(callers, total) ==
               {l \in DOMAIN Above : total > Above[l].total \/ callers > Above[l].callers}
           S == {0} \cup Passed(a + c, a + c + b + d)
           T == {0} \cup Passed(v + w, v + w + b + e)
           n == Len(Above)
<1>1. n \in Nat /\ DOMAIN Above = 1 .. n
      /\ \A l \in DOMAIN Above : Above[l].total \in Nat /\ Above[l].callers \in Nat
  <2> DEFINE Bounds == [total : Nat, callers : Nat]
  <2>1. Above \in Seq(Bounds)
      BY DEF RiskWorld
  <2>2. \A r \in Bounds : r.total \in Nat /\ r.callers \in Nat
      OBVIOUS
  <2> HIDE DEF Bounds
  <2>3. n \in Nat /\ DOMAIN Above = 1 .. n /\ \A l \in 1 .. n : Above[l] \in Bounds
      BY <2>1
  <2>4. QED BY <2>2, <2>3
<1>2. S \subseteq T
  <2>1. a + c <= v + w /\ a + c + b + d <= v + w + b + e
      OBVIOUS
  <2>2. QED BY <1>1, <2>1
<1>3. S \subseteq 0 .. n /\ T \subseteq 0 .. n /\ S # {} /\ T # {}
    BY <1>1
<1>4. Risk(a, b, c, d) = Max(S) /\ Risk(v, b, w, e) = Max(T)
    BY DEF Risk
<1> HIDE DEF S, T, n
<1>5. Max(S) \in S /\ \A x \in T : x <= Max(T)
    BY <1>1, <1>3, Greatest
<1>6. QED BY <1>2, <1>4, <1>5

\* Rounding to the nearest, halves to even, keeps the order.
LEMMA EffectiveGrows ==
    ASSUME NEW a \in Nat, NEW b \in Nat, a <= b, NEW factor \in Nat
    PROVE  /\ Effective(a, factor) \in Nat /\ Effective(b, factor) \in Nat
           /\ Effective(a, factor) <= Effective(b, factor)
<1> DEFINE p == a * factor
           q == b * factor
           Round(x) == IF x % 10 > 5 \/ (x % 10 = 5 /\ (x \div 10) % 2 = 1)
                       THEN (x \div 10) + 1 ELSE x \div 10
<1>1. p \in Nat /\ q \in Nat /\ p <= q
  <2>1. b - a \in Nat
      OBVIOUS
  <2>2. (b - a) * factor \in Nat /\ (b - a) * factor = b * factor - a * factor
      BY <2>1
  <2>3. p \in Nat /\ q \in Nat
      OBVIOUS
  <2>4. QED BY <2>2, <2>3
<1>2. Effective(a, factor) = Round(p) /\ Effective(b, factor) = Round(q)
    BY DEF Effective
<1> HIDE DEF p, q
<1>3. Round(p) \in Nat /\ Round(q) \in Nat
    BY <1>1
<1>4. Round(p) <= Round(q)
    BY <1>1
<1>5. QED BY <1>2, <1>3, <1>4

\* Taking the edges from tests away leaves the other ends as they were.
LEMMA OtherSources ==
    ASSUME NEW E \in SUBSET (Nodes \X Nodes), NEW n \in Nodes
    PROVE  /\ Sources(E \ FromTests, n) \subseteq Sources(E, n)
           /\ Sources(E \ FromTests, n) \ TestNodes = Sources(E, n) \ TestNodes
           /\ n \notin TestNodes => Targets(E \ FromTests, n) = Targets(E, n)
           /\ Sources(E, n) \subseteq Nodes /\ Targets(E, n) \subseteq Nodes
<1>1. \A e \in E : e[1] \in Nodes /\ e[2] \in Nodes /\ (e \in FromTests <=> e[1] \in TestNodes)
  <2> TAKE e \in E
  <2>1. PICK s \in Nodes, t \in Nodes : e = <<s, t>>
      OBVIOUS
  <2>2. QED BY <2>1 DEF FromTests
<1>2. QED BY <1>1 DEF Sources, Targets, From

LEMMA GodsFromTests ==
    ASSUME RiskWorld, NEW E \in SUBSET (Nodes \X Nodes)
    PROVE  Gods(E \ FromTests) \subseteq Gods(E)
<1> SUFFICES ASSUME NEW n \in Nodes, Cardinality(Sources(E \ FromTests, n)) > GodAt
             PROVE  Cardinality(Sources(E, n)) > GodAt
    BY DEF Gods
<1> DEFINE S == Sources(E \ FromTests, n)
           T == Sources(E, n)
<1>1. S \subseteq T /\ T \subseteq Nodes
    BY OtherSources
<1> HIDE DEF S, T
<1>2. IsFiniteSet(T)
    BY <1>1, FS_Subset DEF RiskWorld
<1>3. Cardinality(S) \in Nat /\ Cardinality(T) \in Nat /\ Cardinality(S) <= Cardinality(T)
    BY <1>1, <1>2, FS_Subset, FS_CardinalityType
<1>4. Cardinality(S) > GodAt
    BY DEF S
<1>5. Cardinality(T) > GodAt
    BY <1>3, <1>4 DEF RiskWorld
<1>6. QED BY <1>5 DEF T

\* A larger set of symbols counts for as much at least.
LEMMA CountsGrow ==
    ASSUME RiskWorld, NEW S \in SUBSET Nodes, NEW T \in SUBSET Nodes, S \subseteq T
    PROVE  /\ Cardinality(S) \in Nat /\ Cardinality(T) \in Nat
           /\ Cardinality(S) <= Cardinality(T)
<1>1. IsFiniteSet(T)
    BY FS_Subset DEF RiskWorld
<1>2. QED BY <1>1, FS_Subset, FS_CardinalityType

\* Without the edges from tests the callers and the downstream count the same, and the types that
\* are no god types any more only add to the others.
LEMMA RiskWithoutTests ==
    ASSUME RiskInv, NEW n \in Nodes \ TestNodes, NEW factor \in Factors
    PROVE  RiskOf(calls, uses, n, factor) <=
               RiskOf(calls \ FromTests, uses \ FromTests, n, factor)
<1> DEFINE up == Sources(calls, n) \ TestNodes
           down == Targets(calls, n)
           by == (Sources(uses, n) \ Gods(uses)) \ TestNodes
           byAlone == (Sources(uses \ FromTests, n) \ Gods(uses \ FromTests)) \ TestNodes
           used == Targets(uses, n) \ Gods(uses)
           usedAlone == Targets(uses, n) \ Gods(uses \ FromTests)
<1>1. RiskWorld /\ factor \in Nat /\ n \in Nodes /\ n \notin TestNodes
      /\ calls \in SUBSET (Nodes \X Nodes) /\ uses \in SUBSET (Nodes \X Nodes)
    BY DEF RiskInv, RiskWorld
<1>2. /\ Sources(calls \ FromTests, n) \ TestNodes = up
      /\ Targets(calls \ FromTests, n) = down
      /\ up \subseteq Nodes /\ down \subseteq Nodes
    BY <1>1, OtherSources
<1>3. /\ Sources(uses \ FromTests, n) \ TestNodes = Sources(uses, n) \ TestNodes
      /\ Targets(uses \ FromTests, n) = Targets(uses, n)
      /\ Sources(uses, n) \subseteq Nodes /\ Targets(uses, n) \subseteq Nodes
    BY <1>1, OtherSources
<1>4. by \subseteq byAlone /\ used \subseteq usedAlone
    BY <1>1, <1>3, GodsFromTests
<1>5. by \subseteq Nodes /\ byAlone \subseteq Nodes /\ used \subseteq Nodes /\ usedAlone \subseteq Nodes
    BY <1>3
<1>6. RiskOf(calls, uses, n, factor)
        = Risk(Effective(Cardinality(up), factor), Cardinality(down),
               Effective(Cardinality(by), factor), Cardinality(used))
    BY DEF RiskOf, Production
<1>7. RiskOf(calls \ FromTests, uses \ FromTests, n, factor)
        = Risk(Effective(Cardinality(up), factor), Cardinality(down),
               Effective(Cardinality(byAlone), factor), Cardinality(usedAlone))
    BY <1>2, <1>3 DEF RiskOf, Production
<1> HIDE DEF up, down, by, byAlone, used, usedAlone
<1>8. Cardinality(up) \in Nat /\ Cardinality(down) \in Nat
    BY <1>1, <1>2, CountsGrow
<1>9. /\ Cardinality(by) \in Nat /\ Cardinality(byAlone) \in Nat
      /\ Cardinality(by) <= Cardinality(byAlone)
    BY <1>1, <1>4, <1>5, CountsGrow
<1>10. /\ Cardinality(used) \in Nat /\ Cardinality(usedAlone) \in Nat
       /\ Cardinality(used) <= Cardinality(usedAlone)
    BY <1>1, <1>4, <1>5, CountsGrow
<1>11. Effective(Cardinality(up), factor) \in Nat
    BY <1>1, <1>8, EffectiveGrows
<1>12. /\ Effective(Cardinality(by), factor) \in Nat
       /\ Effective(Cardinality(byAlone), factor) \in Nat
       /\ Effective(Cardinality(by), factor) <= Effective(Cardinality(byAlone), factor)
    BY <1>1, <1>9, EffectiveGrows
<1> DEFINE a == Effective(Cardinality(up), factor)
           b == Cardinality(down)
           c == Effective(Cardinality(by), factor)
           w == Effective(Cardinality(byAlone), factor)
           d == Cardinality(used)
           e == Cardinality(usedAlone)
<1>13. a \in Nat /\ b \in Nat /\ c \in Nat /\ w \in Nat /\ d \in Nat /\ e \in Nat
       /\ a <= a /\ c <= w /\ d <= e
  <2>1. a \in Nat /\ b \in Nat
      BY <1>8, <1>11
  <2>2. c \in Nat /\ w \in Nat /\ c <= w
      BY <1>12
  <2>3. d \in Nat /\ e \in Nat /\ d <= e
      BY <1>10
  <2>4. a <= a
      BY <2>1
  <2>5. QED BY <2>1, <2>2, <2>3, <2>4
<1>14. /\ RiskOf(calls, uses, n, factor) = Risk(a, b, c, d)
       /\ RiskOf(calls \ FromTests, uses \ FromTests, n, factor) = Risk(a, b, w, e)
    BY <1>6, <1>7
<1> HIDE DEF a, b, c, d, e, w
<1>15. Risk(a, b, c, d) <= Risk(a, b, w, e)
    BY <1>1, <1>13, RiskGrows
<1>16. QED BY <1>14, <1>15

\* RiskIgnoresTests (get_blast_radius, graph_read_tools.py:353), for any graph, thresholds of risk
\* and factors of visibility: the references of tests never raise the risk of a production symbol.
THEOREM RiskStaysUp == RiskWorld /\ QuerySpec => []RiskIgnoresTests
<1>1. RiskWorld /\ QueryInit => RiskInv
    BY DEF RiskInv, QueryInit
<1>2. RiskInv /\ [QueryNext]_queryVars => RiskInv'
    BY RiskInvStep
<1>3. RiskInv => RiskIgnoresTests
    BY RiskWithoutTests DEF RiskIgnoresTests
<1>4. QED BY <1>1, <1>2, <1>3, PTL DEF QuerySpec
=============================================================================
