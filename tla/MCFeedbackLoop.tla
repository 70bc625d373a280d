---------------------------- MODULE MCFeedbackLoop ----------------------------
(* Instance of FeedbackLoop for TLC: four entries about two symbols, with the     *)
(* thresholds 5 and 10 and the batch of 5 scaled down to 1 and 2.                 *)
EXTENDS FeedbackLoop, TLC

CONSTANTS e1, e2, e3, e4, s1, s2

MCAbout == e1 :> s1 @@ e2 :> s1 @@ e3 :> s2 @@ e4 :> s2
MCSubmitted ==
    {} :> Entries @@ {"fail"} :> {e1, e2} @@ {"crash"} :> {e1, e2}
    @@ {"overlap"} :> {e1, e2} @@ {"overlap", "fail", "crash"} :> {e1}
==============================================================================
