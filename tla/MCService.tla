------------------------------ MODULE MCService ------------------------------
(* Instances for TLC of the components beside the index.  They share no state,  *)
(* so one run checks them all: "part" names the component that moves in a       *)
(* behavior, the others stay in an initial state.                               *)
(*                                                                              *)
(* One constant is not as in the code: StatsLimit is BuildAt here, where the    *)
(* code has a LIMIT of 5 below a threshold of 10, so that its agent never comes *)
(* to Rebuild and Consume (feedback_threshold.cfg, where the limit is below).   *)
(* This instance asks whether what those steps do to the entries would be safe. *)
EXTENDS FeedbackLoop, ModelSlot, Watchdog, QueryCache, GraphBackends, Alerts, TreeSync,
        NameResolution, TokenBuckets, RequestGate, DiffSymbols, RiskScores, ImpactReports,
        SymbolCycles, TLC

CONSTANTS e1, e2, e3, e4, s1, s2, a, b, c, d, c1, c2, f, g, h, x, y, z, k1, i1

VARIABLE part

MCDepths == {1, 2}
MCTtlOf == "blast_radius" :> 1 @@ "hotspots" :> 2
MCCallersIn == {} :> {c1, c2} @@ {"redis"} :> {c1}
MCContainers == <<a, b>>
MCFailsIn == {} :> {a, b} @@ {"timeout"} :> {a, b} @@ {"overlap"} :> {b}
MCCases == {{}, {"crash"}, {"unwritable"}, {"crash", "refused"}, {"crash", "late"}}
MCAbout == e1 :> s1 @@ e2 :> s1 @@ e3 :> s2 @@ e4 :> s2
MCSubmitted ==
    {} :> {e1, e2, e3} @@ {"fail"} :> {e1, e2} @@ {"crash"} :> {e1, e2}
    @@ {"overlap"} :> {e1, e2} @@ {"overlap", "fail", "crash"} :> {e1}

MCAbove ==
    <<[total |-> 1, callers |-> 0], [total |-> 2, callers |-> 1], [total |-> 3, callers |-> 2]>>
MCNameIn == x :> "n" @@ y :> "m" @@ z :> "m"
MCContents == {<<>>, x :> {}, x :> {"m"}, y :> {}, y :> {"n"} @@ z :> {}, z :> {"n", "m"}}
MCFirst == f :> (x :> {"m"}) @@ g :> (y :> {}) @@ h :> (z :> {"n", "m"})
MCCommitsIn == {} :> 2 @@ {"pull"} :> 2 @@ {"crash"} :> 2 @@ {"rename"} :> 1 @@ {"shared"} :> 1
\* The second is not full again when a sweep drops it.
MCShapes == {[capacity |-> 4, refill |-> 2], [capacity |-> 14, refill |-> 1]}
MCLimitOf == "index" :> 1
MCWithin == {<<x, x>>, <<y, y>>, <<z, z>>, <<x, z>>}
MCAlike == {<<x, y>>, <<x, z>>, <<y, z>>, <<z, y>>}
MCMasters == {f :> {x, y} @@ g :> {}, f :> {x} @@ g :> {x, z}, f :> {x, z} @@ g :> {y}}
MCOrder == f :> 1 @@ g :> 2 @@ h :> 3
MCDirOf == f :> "near" @@ g :> "near" @@ h :> "far"
MCImports == f :> ("foo" :> <<"h", "foo">>) @@ g :> <<>> @@ h :> <<>>
MCFileOf == a :> f @@ b :> f @@ c :> f @@ d :> g @@ e1 :> g @@ e3 :> g @@ s1 :> h @@ s2 :> h @@ e2 :> h
MCKindOf == e1 :> "const" @@ [s \in {a, b, c, d, s1, s2, e2, e3} |-> "fn"]
MCIdOf ==
    a :> <<"k", "f", "main">> @@ b :> <<"k", "f", "other">> @@ c :> <<"k", "f", "foo">>
    @@ d :> <<"k", "g", "foo">> @@ e3 :> <<"k", "g", "Kind", "foo">> @@ e1 :> <<"k", "g", "LIMIT">>
    @@ s1 :> <<"k", "h", "foo">> @@ e2 :> <<"q", "h", "foo">> @@ s2 :> <<"k", "h", "bar">>
MCSays ==
    a :> {[form |-> "plain", path |-> <<"foo">>, to |-> s1, row |-> 2],
          [form |-> "method", path |-> <<"foo">>, to |-> e3, row |-> 2],
          [form |-> "method", path |-> <<"bar">>, to |-> s2, row |-> 2],
          [form |-> "type", path |-> <<"LIMIT">>, to |-> e1, row |-> 2]}
    @@ b :> {[form |-> "path", path |-> <<"g", "foo">>, to |-> d, row |-> 1],
             [form |-> "plain", path |-> <<"main">>, to |-> a, row |-> 2]}
    @@ e2 :> {[form |-> "path", path |-> <<"g", "foo">>, to |-> d, row |-> 2]}
    @@ [s \in {c, d, e1, e3, s1, s2} |-> {}]
NoTree == [p \in {f, g, h} |-> <<>>]
MCLayouts ==
    {NoTree} \cup {f :> p @@ g :> q @@ h :> r :
        p \in {<<a>>, <<b, a>>, <<c, a>>, <<b, c, a>>},
        q \in {<<>>, <<d>>, <<d, e1>>, <<e3, e1>>}, r \in {<<>>, <<s1, s2>>, <<e2, s1>>}}

\* What the theorems take as hypotheses holds of this instance.
ASSUME WorldsAreLegal ==
    /\ CacheLimits /\ HasHotspots /\ FirstTree /\ SourceWorld
    /\ GateTimes /\ BucketShapes /\ DiffWorld /\ RiskWorld /\ QueryWorld
    /\ SlotTimes /\ WatchLimits /\ AlertLimits

serviceVars ==
    <<part, feedbackVars, toolVars, backendVars, cacheVars, syncVars, bucketVars, gateVars,
      diffVars, nameVars, slotVars, watchVars, alertVars>>

ServiceInit ==
    /\ part \in {"feedback", "queries", "backends", "cache", "sync", "buckets", "gate", "diffs",
                "names", "slot", "watch", "alerts"}
    /\ Init /\ (part # "feedback" => faults = {})
    /\ ToolInit
    /\ BackendInit
    /\ CacheInit /\ (part # "cache" => trouble = {})
    /\ SyncInit /\ (part # "sync" => given = {})
    /\ BucketInit /\ (part # "buckets" => shape = [capacity |-> 4, refill |-> 2])
    /\ GateInit
    /\ DiffInit /\ (part # "diffs" => master[f] = {x})
    /\ SlotInit
    /\ WatchInit /\ (part # "watch" => hitch = {})
    /\ AlertInit /\ (part # "alerts" => odds = {})
    /\ NameInit
    /\ layout = IF part = "names" THEN f :> <<b, c, a>> @@ g :> <<d>> @@ h :> <<s1, s2>> ELSE NoTree

\* the variables of every component but one
AllBut(p) ==
    /\ UNCHANGED part
    /\ p = "feedback" \/ UNCHANGED feedbackVars
    /\ p = "queries" \/ UNCHANGED toolVars
    /\ p = "backends" \/ UNCHANGED backendVars
    /\ p = "cache" \/ UNCHANGED cacheVars
    /\ p = "sync" \/ UNCHANGED syncVars
    /\ p = "buckets" \/ UNCHANGED bucketVars
    /\ p = "gate" \/ UNCHANGED gateVars
    /\ p = "diffs" \/ UNCHANGED diffVars
    /\ p = "names" \/ UNCHANGED nameVars
    /\ p = "slot" \/ UNCHANGED slotVars
    /\ p = "watch" \/ UNCHANGED watchVars
    /\ p = "alerts" \/ UNCHANGED alertVars

ServiceNext ==
    \/ part = "feedback" /\ Next /\ AllBut("feedback")
    \/ part = "queries" /\ ToolNext /\ AllBut("queries")
    \/ part = "backends" /\ BackendNext /\ AllBut("backends")
    \/ part = "cache" /\ CacheNext /\ AllBut("cache")
    \/ part = "sync" /\ SyncNext /\ AllBut("sync")
    \/ part = "buckets" /\ BucketNext /\ AllBut("buckets")
    \/ part = "gate" /\ GateNext /\ AllBut("gate")
    \/ part = "diffs" /\ DiffNext /\ AllBut("diffs")
    \/ part = "names" /\ NameNext /\ AllBut("names")
    \/ part = "slot" /\ SlotNext /\ AllBut("slot")
    \/ part = "watch" /\ WatchNext /\ AllBut("watch")
    \/ part = "alerts" /\ AlertNext /\ AllBut("alerts")

ServiceSpec == ServiceInit /\ [][ServiceNext]_serviceVars

==============================================================================
