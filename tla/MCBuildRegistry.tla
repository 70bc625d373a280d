--------------------------- MODULE MCBuildRegistry ---------------------------
(* Instance of BuildRegistry for TLC: four builds one at a time, two when their  *)
(* transactions overlap.                                                         *)
EXTENDS BuildRegistry, TLC

MCScores == {0, 2}
MCBound ==
    {} :> 4 @@ {"fail"} :> 2 @@ {"patch"} :> 3 @@ {"overlap"} :> 2
    @@ {"overlap", "fail", "patch"} :> 1 @@ {"restart"} :> 2 @@ {"restart", "fail", "patch"} :> 2
==============================================================================
