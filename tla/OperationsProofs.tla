-------------------------- MODULE OperationsProofs --------------------------
(***************************************************************************)
(* What becomes of a piece of feedback and of the decision that judges it, *)
(* and what the operators of the service see.  AppliedOnce and             *)
(* ConsumedFinal of FeedbackLoop hold for any entries, batch sizes and     *)
(* thresholds; DecisionsFirst of ModelSlot for any threads and any         *)
(* timeouts with Patience < Yield; the escalation of the watchdog          *)
(* (HealingEarned) for any containers and thresholds up to MaxFailures, as *)
(* long as runs do not overlap; the announcement of boots and clients      *)
(* (AnnouncedOnce) for any clients, boots and attempts.                    *)
(***************************************************************************)
EXTENDS FeedbackLoop, ModelSlot, Watchdog, Alerts, TLAPS

(***************************************************************************)
(* Feedback: an entry's status, type, votes and issue                      *)
(***************************************************************************)
Stages == {"asleep", "gate", "sync", "voting", "check", "refreshing", "building", "built"}
Statuses == {"new", "pending", "accepted", "rejected", "consumed"}

FeedbackType ==
    /\ status \in [Entries -> Statuses]
    /\ kind \in [Entries -> {"none", "ranking", "issue"}]
    /\ synced \subseteq Entries
    /\ issues \in [Entries -> Nat]
    /\ applied \in [Entries -> Nat]
    /\ reading \in [Evaluators -> SUBSET Entries]
    /\ agent \in [at : Stages, batch : SUBSET Entries, todo : SUBSET Symbols]

\* No step is cut short: an entry that is not behind the watermark has no vote, unless it
\* got it in the batch that is being voted on.
Whole == faults \cap {"fail", "crash"} = {}
VotedInBatch(e) == agent.at = "voting" /\ e \in agent.batch /\ About[e] \notin agent.todo
VotesCounted ==
    /\ \A e \in Entries : applied[e] <= 1
    /\ \A e \in Entries \ synced : applied[e] = 0 \/ VotedInBatch(e)
    /\ agent.at = "voting" => agent.batch \cap synced = {}

\* Evaluations do not overlap: whoever judges holds rows that are still pending.
HeldPending ==
    /\ reading["endpoint"] = {}
    /\ reading["agent"] \subseteq Pending
    /\ agent.at # "gate" => reading["agent"] = {}
\* An entry is judged once: before that it has no type, and its type is its issue.
JudgedOnceOnly ==
    \A e \in Entries :
        /\ status[e] \in {"new", "pending"} => kind[e] = "none"
        /\ issues[e] = IF kind[e] = "issue" THEN 1 ELSE 0
\* What is behind the watermark, or in the batch on its way there, was judged and voted on.
Classified(e) == status[e] \in {"accepted", "consumed"}
VotesKept ==
    /\ \A e \in synced : Classified(e) /\ (kind[e] = "ranking" => applied[e] >= 1)
    /\ agent.at = "voting" =>
          \A e \in agent.batch :
              Classified(e) /\ (kind[e] = "ranking" /\ About[e] \notin agent.todo => applied[e] >= 1)

FeedbackInv ==
    /\ FeedbackType
    /\ Whole => VotesCounted
    /\ "overlap" \notin faults => HeldPending /\ JudgedOnceOnly /\ VotesKept

LEMMA FeedbackInvInit == Init => FeedbackInv
BY FeedbackAssumption DEF Init, FeedbackInv, FeedbackType, Statuses, Stages, Evaluators, NoBatch,
   VotesCounted, HeldPending, JudgedOnceOnly, VotesKept

LEMMA FeedbackInvStep == FeedbackInv /\ [Next]_feedbackVars => FeedbackInv'
<1> SUFFICES ASSUME FeedbackInv, [Next]_feedbackVars PROVE FeedbackInv'
    OBVIOUS
<1> USE FeedbackAssumption DEF FeedbackInv, FeedbackType
<1>1. ASSUME NEW e \in Entries, Submit(e) PROVE FeedbackInv'
  <2>1. /\ status[e] = "new" /\ status' = [status EXCEPT ![e] = "pending"]
        /\ UNCHANGED <<faults, kind, synced, issues, applied, reading, agent>>
      BY <1>1 DEF Submit
  <2>2. FeedbackType'
      BY <2>1 DEF Statuses
  <2>3. Whole' => VotesCounted'
      BY <2>1 DEF Whole, VotesCounted, VotedInBatch
  <2>4. "overlap" \notin faults' => HeldPending' /\ JudgedOnceOnly' /\ VotesKept'
      BY <2>1 DEF HeldPending, Pending, JudgedOnceOnly, VotesKept, Classified, Statuses
  <2>5. QED BY <2>2, <2>3, <2>4
<1>2. ASSUME NEW v \in Evaluators, ReadPending(v) PROVE FeedbackInv'
  <2>1. PICK rows \in Top(Pending, GateBatch) : reading' = [reading EXCEPT ![v] = rows]
      BY <1>2 DEF ReadPending
  <2>2. rows \subseteq Pending /\ Pending \subseteq Entries
      BY DEF Top, Pending
  <2>3. /\ UNCHANGED <<faults, status, kind, synced, issues, applied>>
        /\ \/ v = "agent" /\ agent.at = "asleep" /\ agent' = [agent EXCEPT !.at = "gate"]
           \/ v = "endpoint" /\ "overlap" \in faults /\ agent' = agent
      BY <1>2 DEF ReadPending, store, Go, Evaluators
  <2>4. FeedbackType'
      BY <2>1, <2>2, <2>3 DEF Evaluators, Stages
  <2>5. Whole' => VotesCounted'
      BY <2>3 DEF Whole, VotesCounted, VotedInBatch, Stages
  <2>6. "overlap" \notin faults' => HeldPending' /\ JudgedOnceOnly' /\ VotesKept'
      BY <2>1, <2>2, <2>3 DEF HeldPending, Pending, JudgedOnceOnly, VotesKept, Classified, Stages, Evaluators
  <2>7. QED BY <2>4, <2>5, <2>6
<1>3. ASSUME NEW v \in Evaluators, CommitVerdicts(v) PROVE FeedbackInv'
  <2>0. PICK judged \in SUBSET reading[v] : \E verdict \in [judged -> Verdicts] :
           /\ status' = [e \in Entries |->
                 IF e \notin judged THEN status[e]
                 ELSE IF verdict[e] = "rejected" THEN "rejected" ELSE "accepted"]
           /\ kind' = [e \in Entries |->
                 IF e \in judged /\ verdict[e] # "rejected" THEN verdict[e] ELSE kind[e]]
           /\ issues' = [e \in Entries |->
                 IF e \in judged /\ verdict[e] = "issue" THEN issues[e] + 1 ELSE issues[e]]
      BY <1>3 DEF CommitVerdicts
  <2>1. PICK verdict \in [judged -> Verdicts] :
           /\ status' = [e \in Entries |->
                 IF e \notin judged THEN status[e]
                 ELSE IF verdict[e] = "rejected" THEN "rejected" ELSE "accepted"]
           /\ kind' = [e \in Entries |->
                 IF e \in judged /\ verdict[e] # "rejected" THEN verdict[e] ELSE kind[e]]
           /\ issues' = [e \in Entries |->
                 IF e \in judged /\ verdict[e] = "issue" THEN issues[e] + 1 ELSE issues[e]]
      BY <2>0
  <2>2. /\ judged \subseteq Entries
        /\ UNCHANGED <<faults, synced, applied>>
        /\ reading' = [reading EXCEPT ![v] = {}]
        /\ \/ v = "agent" /\ agent.at = "gate" /\ agent' = [agent EXCEPT !.at = "sync"]
           \/ v = "endpoint" /\ reading[v] # {} /\ agent' = agent
      BY <1>3 DEF CommitVerdicts, Go, Evaluators
  <2>3. FeedbackType'
      BY <2>1, <2>2 DEF Evaluators, Stages, Statuses, Verdicts
  <2>4. Whole' => VotesCounted'
      BY <2>2 DEF Whole, VotesCounted, VotedInBatch, Stages
  <2>5. ASSUME "overlap" \notin faults PROVE HeldPending' /\ JudgedOnceOnly' /\ VotesKept'
    <3>1. /\ v = "agent" /\ agent.at = "gate" /\ agent'.at = "sync"
          /\ \A e \in judged : status[e] = "pending"
        BY <2>2, <2>5 DEF HeldPending, Pending, Stages
    <3>2. HeldPending'
        BY <2>2, <2>5, <3>1 DEF HeldPending, Pending, Evaluators
    <3>3. JudgedOnceOnly'
        BY <2>1, <2>2, <2>5, <3>1 DEF JudgedOnceOnly, Verdicts
    <3>4. VotesKept'
      <4>1. \A e \in synced : e \notin judged
          BY <2>5, <3>1 DEF VotesKept, Classified
      <4>2. QED BY <2>1, <2>2, <2>5, <3>1, <4>1 DEF VotesKept, Classified
    <3>5. QED BY <3>2, <3>3, <3>4
  <2>6. QED BY <2>2, <2>3, <2>4, <2>5
<1>4. CASE FetchUnsynced
  <2>1. PICK rows \in Top(Unsynced, SyncBatch) :
           /\ UNCHANGED <<faults, status, kind, synced, issues, applied, reading>>
           /\ agent.at = "sync"
           /\ \/ agent' = [agent EXCEPT !.at = "check"]
              \/ agent' = [at |-> "voting", batch |-> rows, todo |-> SignalsOf(Ranking(rows))]
      BY <1>4, Zenon DEF FetchUnsynced, Go, store
  <2>2. /\ rows \subseteq Entries /\ rows \cap synced = {}
        /\ SignalsOf(Ranking(rows)) \subseteq Symbols
        /\ \A e \in rows : status[e] = "accepted"
        /\ \A e \in rows : kind[e] = "ranking" => About[e] \in SignalsOf(Ranking(rows))
    <3>1. rows \subseteq Unsynced
        BY DEF Top
    <3>2. QED BY <3>1 DEF Unsynced, Unconsumed, SignalsOf, Ranking
  <2>3. FeedbackType'
      BY <2>1, <2>2 DEF Stages
  <2>4. Whole' => VotesCounted'
      BY <2>1, <2>2 DEF Whole, VotesCounted, VotedInBatch
  <2>5. "overlap" \notin faults' => HeldPending' /\ JudgedOnceOnly' /\ VotesKept'
      BY <2>1, <2>2 DEF HeldPending, Pending, JudgedOnceOnly, VotesKept, Classified
  <2>6. QED BY <2>3, <2>4, <2>5
<1>5. ASSUME NEW s \in Symbols, Vote(s) PROVE FeedbackInv'
  <2>1. /\ agent.at = "voting" /\ s \in agent.todo
        /\ agent' = [agent EXCEPT !.todo = agent.todo \ {s}]
        /\ UNCHANGED <<faults, status, kind, synced, issues, reading>>
        /\ applied' = [e \in Entries |->
               IF e \in agent.batch /\ kind[e] = "ranking" /\ About[e] = s
               THEN Smaller(applied[e] + 1, MaxCount) ELSE applied[e]]
      BY <1>5 DEF Vote, store
  <2>2. \A e \in Entries :
           /\ Smaller(applied[e] + 1, MaxCount) \in Nat
           /\ Smaller(applied[e] + 1, MaxCount) <= applied[e] + 1
           /\ Smaller(applied[e] + 1, MaxCount) >= 1
      BY DEF Smaller
  <2>3. FeedbackType'
      BY <2>1, <2>2
  <2>4. Whole' => VotesCounted'
      BY <2>1, <2>2 DEF Whole, VotesCounted, VotedInBatch
  <2>5. "overlap" \notin faults' => HeldPending' /\ JudgedOnceOnly' /\ VotesKept'
      BY <2>1, <2>2 DEF HeldPending, Pending, JudgedOnceOnly, VotesKept, Classified
  <2>6. QED BY <2>3, <2>4, <2>5
<1>6. CASE MarkApplied
  <2>1. /\ agent.at = "voting" /\ agent.todo = {}
        /\ synced' = synced \cup agent.batch
        /\ agent' = [agent EXCEPT !.at = "check"]
        /\ UNCHANGED <<faults, status, kind, issues, applied, reading>>
      BY <1>6 DEF MarkApplied, Go
  <2>2. FeedbackType'
      BY <2>1 DEF Stages
  <2>3. Whole' => VotesCounted'
      BY <2>1 DEF Whole, VotesCounted, VotedInBatch
  <2>4. "overlap" \notin faults' => HeldPending' /\ JudgedOnceOnly' /\ VotesKept'
      BY <2>1 DEF HeldPending, Pending, JudgedOnceOnly, VotesKept, Classified
  <2>5. QED BY <2>2, <2>3, <2>4
<1>7. CASE Consume
  <2>1. /\ agent.at = "built" /\ agent' = NoBatch
        /\ UNCHANGED <<faults, kind, synced, issues, applied, reading>>
      BY <1>7 DEF Consume, EndTick
  <2>2. /\ status' \in [Entries -> Statuses]
        /\ \A e \in Entries : \/ status'[e] = status[e]
                              \/ status[e] = "accepted" /\ status'[e] = "consumed"
    <3> DEFINE gone == IF builds.active = 0 THEN {} ELSE agent.batch \cap Unconsumed
    <3>1. status' = [e \in Entries |-> IF e \in gone THEN "consumed" ELSE status[e]]
        BY <1>7 DEF Consume
    <3>2. \A e \in gone : status[e] = "accepted"
      <4>1. \A e \in Unconsumed : status[e] = "accepted"
          BY DEF Unconsumed
      <4>2. QED BY <4>1
    <3> HIDE DEF gone
    <3>3. status' \in [Entries -> Statuses]
        BY <3>1 DEF Statuses
    <3>4. \A e \in Entries : status'[e] = IF e \in gone THEN "consumed" ELSE status[e]
        BY <3>1
    <3>5. QED BY <3>2, <3>3, <3>4
  <2>3. FeedbackType'
      BY <2>1, <2>2 DEF Stages, NoBatch
  <2>4. Whole' => VotesCounted'
      BY <2>1 DEF Whole, VotesCounted, VotedInBatch, NoBatch
  <2>5. "overlap" \notin faults' => HeldPending' /\ JudgedOnceOnly' /\ VotesKept'
      BY <2>1, <2>2 DEF HeldPending, Pending, JudgedOnceOnly, VotesKept, Classified, NoBatch
  <2>6. QED BY <2>3, <2>4, <2>5
<1>8. CASE TickFails \/ Crash
  <2>1. /\ ~Whole
        /\ UNCHANGED <<faults, status, kind, synced, issues, applied>>
        /\ agent'.at # "voting" /\ agent'.at # "gate"
        /\ \/ reading' = [reading EXCEPT !["agent"] = {}]
           \/ agent.at # "gate" /\ reading' = reading
           \/ reading' = [v \in Evaluators |-> {}]
      BY <1>8 DEF TickFails, Crash, store, Go, EndTick, NoBatch, Whole
  <2>2. agent' \in [at : Stages, batch : SUBSET Entries, todo : SUBSET Symbols]
      BY <1>8 DEF TickFails, Crash, Go, EndTick, NoBatch, Stages
  <2>3. FeedbackType' /\ ~Whole'
      BY <2>1, <2>2 DEF Evaluators, Whole
  <2>4. "overlap" \notin faults' => HeldPending' /\ JudgedOnceOnly' /\ VotesKept'
      BY <2>1 DEF HeldPending, Pending, JudgedOnceOnly, VotesKept, Classified, Evaluators
  <2>5. QED BY <2>3, <2>4
<1>9. CASE CheckCount \/ (\E s \in Symbols : Refresh(s)) \/ RefreshDone \/ Rebuild
           \/ OtherBuild \/ CooldownEnds \/ UNCHANGED feedbackVars
  <2>1. UNCHANGED <<faults, status, kind, synced, issues, applied, reading>>
      BY <1>9 DEF CheckCount, Refresh, RefreshDone, Rebuild, OtherBuild, CooldownEnds, feedbackVars, store
  <2>2. \/ agent' = agent
        \/ agent.at \notin {"voting", "gate"} /\ agent'.at \notin {"voting", "gate"}
    <3>1. CASE CheckCount
      <4>1. \/ agent' = NoBatch
            \/ \E b : agent' = [at |-> "building", batch |-> b, todo |-> {}]
            \/ \E b : agent' = [at |-> "refreshing", batch |-> b, todo |-> SignalsOf(b)]
          BY <3>1, Zenon DEF CheckCount, EndTick
      <4>2. agent.at = "check" /\ agent'.at \in {"asleep", "building", "refreshing"}
          BY <3>1, <4>1 DEF CheckCount, NoBatch
      <4>3. QED BY <4>2
    <3>2. CASE (\E s \in Symbols : Refresh(s)) \/ RefreshDone \/ Rebuild
        BY <3>2 DEF Refresh, RefreshDone, Rebuild, Go, EndTick, NoBatch
    <3>3. CASE OtherBuild \/ CooldownEnds \/ UNCHANGED feedbackVars
        BY <3>3 DEF OtherBuild, CooldownEnds, feedbackVars
    <3>4. QED BY <1>9, <3>1, <3>2, <3>3
  <2>3. agent' \in [at : Stages, batch : SUBSET Entries, todo : SUBSET Symbols]
    <3>1. \A n : \A T \in Top(Unconsumed, n) : T \subseteq Entries /\ SignalsOf(T) \subseteq Symbols
        BY DEF Top, Unconsumed, SignalsOf
    <3>2. CASE CheckCount
        BY <3>1, <3>2 DEF CheckCount, EndTick, NoBatch, Stages
    <3>3. CASE \E s \in Symbols : Refresh(s)
        BY <3>3 DEF Refresh
    <3>4. CASE RefreshDone \/ Rebuild \/ OtherBuild \/ CooldownEnds \/ UNCHANGED feedbackVars
        BY <3>4 DEF RefreshDone, Rebuild, OtherBuild, CooldownEnds, feedbackVars, EndTick, Go, NoBatch, Stages
    <3>5. QED BY <1>9, <3>2, <3>3, <3>4
  <2>4. FeedbackType'
      BY <2>1, <2>3
  <2>5. Whole' => VotesCounted'
      BY <2>1, <2>2 DEF Whole, VotesCounted, VotedInBatch
  <2>6. "overlap" \notin faults' => HeldPending' /\ JudgedOnceOnly' /\ VotesKept'
      BY <2>1, <2>2 DEF HeldPending, Pending, JudgedOnceOnly, VotesKept, Classified
  <2>7. QED BY <2>4, <2>5, <2>6
<1>10. QED
    BY <1>1, <1>2, <1>3, <1>4, <1>5, <1>6, <1>7, <1>8, <1>9 DEF Next, Tick, Evaluators

\* The votes of an entry are counted at most once on the way to the watermark when no step is
\* cut short, and at least once behind it whatever crashed or raised; a bug report is filed
\* once.  For any entries, symbols and batch sizes ("each entry is applied exactly once via
\* boost_applied_at", agent.py:148).
THEOREM EachEntryAppliedOnce == Spec => []AppliedOnce
<1>1. Init => FeedbackInv
    BY FeedbackInvInit
<1>2. FeedbackInv /\ [Next]_feedbackVars => FeedbackInv'
    BY FeedbackInvStep
<1>3. FeedbackInv => AppliedOnce
    BY DEF FeedbackInv, AppliedOnce, Whole, VotesCounted, VotesKept, JudgedOnceOnly
<1>4. QED BY <1>1, <1>2, <1>3, PTL DEF Spec

Final ==
    [\A e \in Entries :
          (status[e] = "consumed" /\ "overlap" \notin faults)
              => status'[e] = "consumed" /\ by'[e] = by[e]]_feedbackVars

LEMMA ConsumedKept == FeedbackInv /\ [Next]_feedbackVars => Final
<1> SUFFICES ASSUME FeedbackInv, Next, NEW e \in Entries,
                    status[e] = "consumed", "overlap" \notin faults
             PROVE  status'[e] = "consumed" /\ by'[e] = by[e]
    BY DEF Final
<1> USE DEF FeedbackInv, FeedbackType
<1>1. ASSUME NEW d \in Entries, Submit(d) PROVE status'[e] = "consumed" /\ by'[e] = by[e]
    BY <1>1 DEF Submit
<1>2. ASSUME NEW v \in Evaluators, CommitVerdicts(v)
      PROVE  status'[e] = "consumed" /\ by'[e] = by[e]
  <2>1. e \notin reading[v]
      BY DEF HeldPending, Pending, Evaluators
  <2>2. QED BY <1>2, <2>1 DEF CommitVerdicts
<1>3. CASE Consume
    BY <1>3 DEF Consume, Unconsumed
<1>4. CASE UNCHANGED <<status, by>>
    BY <1>4
<1>5. QED
    BY <1>1, <1>2, <1>3, <1>4
       DEF Next, Tick, Evaluators, ReadPending, FetchUnsynced, Vote, MarkApplied, CheckCount,
           Refresh, RefreshDone, Rebuild, TickFails, OtherBuild, CooldownEnds, Crash, store

\* A consumed entry is history, for any entries, thresholds and builds, as long as evaluations
\* do not overlap.
THEOREM ConsumedStays == Spec => ConsumedFinal
<1>1. Init => FeedbackInv
    BY FeedbackInvInit
<1>2. FeedbackInv /\ [Next]_feedbackVars => FeedbackInv'
    BY FeedbackInvStep
<1>3. FeedbackInv /\ [Next]_feedbackVars => Final
    BY ConsumedKept
<1>4. QED BY <1>1, <1>2, <1>3, PTL DEF Spec, ConsumedFinal, Final

(***************************************************************************)
(* Decisions: the slot of the model                                        *)
(***************************************************************************)
States == {"idle", "waits", "asks", "due", "yields", "queues", "judges"}

SlotType ==
    /\ pc \in [Threads -> States]
    /\ age \in [Threads -> Nat]
    /\ ahead \in [Gaters -> SUBSET Threads]
    /\ begun \in [Threads -> SUBSET Gaters]
\* A waiter gives up in time.
Timely == \A p \in Threads : pc[p] = "waits" => age[p] <= Patience
\* Whoever is still ahead of a gater has waited at least as long as the gater yields.
Yielding ==
    \A g \in Gaters : \A p \in ahead[g] :
        pc[g] = "yields" /\ pc[p] = "waits" /\ age[p] >= age[g]
\* A gater that judged during a wait does not come back before the wait is over.
JudgedOnce ==
    \A p \in Threads : \A g \in begun[p] :
        pc[p] = "waits" /\ pc[g] \in {"judges", "idle", "waits", "asks"}
SlotInv == SlotTimes /\ SlotType /\ Timely /\ Yielding /\ JudgedOnce

Orderly ==
    [\A g \in Gaters : pc[g] = "queues" /\ pc'[g] = "judges" =>
          /\ ahead[g] = {}
          /\ \A p \in Waiting : g \notin begun[p]]_slotVars

LEMMA SlotInvInit == SlotTimes /\ SlotInit => SlotInv
BY DEF SlotTimes, SlotInit, SlotInv, SlotType, States, Timely, Yielding, JudgedOnce

LEMMA SlotInvStep == SlotInv /\ [SlotNext]_slotVars => SlotInv'
<1> SUFFICES ASSUME SlotInv, [SlotNext]_slotVars PROVE SlotInv'
    OBVIOUS
<1> USE DEF SlotInv, SlotTimes, SlotType, States, Threads, Goes
<1>1. ASSUME NEW p \in Askers, Ask(p) PROVE SlotInv'
    BY <1>1 DEF SlotTimes, Ask, Timely, Yielding, JudgedOnce
<1>2. ASSUME NEW p \in Threads, Enter(p) PROVE SlotInv'
    BY <1>2 DEF Enter, Leaves, Timely, Yielding, JudgedOnce
<1>3. ASSUME NEW p \in Threads, GiveUp(p) PROVE SlotInv'
    BY <1>3 DEF GiveUp, Leaves, Timely, Yielding, JudgedOnce
<1>4. ASSUME NEW p \in Threads, Answered(p) PROVE SlotInv'
    BY <1>4 DEF Answered, Timely, Yielding, JudgedOnce
<1>5. ASSUME NEW g \in Gaters, NextEntry(g) PROVE SlotInv'
    BY <1>5 DEF NextEntry, Waiting, Timely, Yielding, JudgedOnce
<1>6. ASSUME NEW g \in Gaters, BeginYield(g) PROVE SlotInv'
    BY <1>6 DEF BeginYield, Waiting, Timely, Yielding, JudgedOnce
<1>7. ASSUME NEW g \in Gaters, YieldEnds(g) PROVE SlotInv'
  <2>1. ahead[g] = {}
      BY <1>7 DEF YieldEnds, Waiting, Timely, Yielding
  <2>2. QED BY <1>7, <2>1 DEF YieldEnds, Timely, Yielding, JudgedOnce
<1>8. ASSUME NEW g \in Gaters, Judge(g) PROVE SlotInv'
    BY <1>8 DEF Judge, Waiting, Timely, Yielding, JudgedOnce
<1>9. ASSUME NEW g \in Gaters, Judged(g) PROVE SlotInv'
    BY <1>9 DEF Judged, Timely, Yielding, JudgedOnce
<1>10. CASE SlotTick
    BY <1>10 DEF SlotTick, Timed, Limit, Timely, Yielding, JudgedOnce
<1>11. CASE UNCHANGED slotVars
    BY <1>11 DEF slotVars, Timely, Yielding, JudgedOnce
<1>12. QED
    BY <1>1, <1>2, <1>3, <1>4, <1>5, <1>6, <1>7, <1>8, <1>9, <1>10, <1>11 DEF SlotNext

\* Background calls never overtake a decision that waited when they came, nor begin twice
\* during one wait (systemone.py:30-33), for every number of threads.
THEOREM DecisionsGoFirst ==
    SlotTimes /\ SlotSpec => DecisionsFirst
<1>1. SlotTimes /\ SlotInit => SlotInv
    BY SlotInvInit
<1>2. SlotInv /\ [SlotNext]_slotVars => SlotInv'
    BY SlotInvStep
<1>3. SlotInv => Orderly
    BY DEF SlotInv, Yielding, JudgedOnce, Waiting, Orderly
<1>4. QED
    BY <1>1, <1>2, <1>3, PTL DEF SlotSpec, DecisionsFirst, Orderly

(***************************************************************************)
(* The watchdog                                                            *)
(***************************************************************************)

WatchType ==
    /\ saved \in [ContainerNames -> Nat]
    /\ at \in [Runs -> Nat]
    /\ found \in [Runs -> BOOLEAN]
    /\ mine \in [Runs -> [ContainerNames -> Nat]]
    /\ streak \in [ContainerNames -> Nat]
\* One run at a time, and a run that has not begun found nothing.
OneRun ==
    /\ \A q, r \in Runs : at[q] # 0 /\ at[r] # 0 => q = r
    /\ \A r \in Runs : found[r] => at[r] \in DOMAIN Containers
\* The file never claims more failures than there were checks in a row,
SavedEarned == \A c \in ContainerNames : saved[c] <= streak[c] /\ saved[c] <= MaxFailures
\* a run under way works on what the file says, and the check at hand is one more.
LoadedEarned ==
    \A r \in Runs :
        /\ at[r] # 0 => mine[r] = saved
        /\ found[r] => saved[Here(r)] < streak[Here(r)] /\ saved[Here(r)] < MaxFailures
WatchInv == WatchLimits /\ WatchType /\ OneRun /\ SavedEarned /\ LoadedEarned
Earned == "overlap" \notin hitch => WatchInv

HealingInOrder ==
    [\A r \in Runs : "overlap" \notin hitch =>
          /\ Wipe(r) => streak[Here(r)] >= WipeAt
          /\ Recreate(r) => streak[Here(r)] >= RecreateAt]_watchVars

LEMMA HereIsName == \A r \in Runs : at[r] \in DOMAIN Containers => Here(r) \in ContainerNames
BY DEF Here, ContainerNames

LEMMA Positions == WatchLimits => DOMAIN Containers \subseteq Nat \ {0}
BY DEF WatchLimits

LEMMA WatchInvInit == WatchLimits /\ WatchInit => Earned
BY DEF WatchInit, Earned, WatchInv, WatchType, OneRun, SavedEarned, LoadedEarned, WatchLimits, NoFailures, ContainerNames

LEMMA SavesEarned ==
    ASSUME WatchInv, NEW r \in Runs, NEW n \in Nat, n <= mine[r][Here(r)] + 1, Saves(r, n)
    PROVE  WatchInv'
<1> USE DEF WatchInv, WatchType, Saves, Heals
<1> DEFINE h == Here(r)
<1>1. h \in ContainerNames /\ at[r] \in Nat \ {0} /\ found[r]
  <2>1. h \in ContainerNames
      BY HereIsName
  <2>2. at[r] \in Nat \ {0}
      BY Positions
  <2>3. QED BY <2>1, <2>2
<1>2. WatchLimits' /\ OneRun'
  <2>1. WatchLimits'
      BY DEF ContainerNames
  <2>2. OneRun'
      BY <1>1 DEF OneRun
  <2>3. QED BY <2>1, <2>2
<1>a. WatchType'
  <2>1. mine' \in [Runs -> [ContainerNames -> Nat]]
      BY <1>1
  <2>2. saved' \in [ContainerNames -> Nat] /\ at' \in [Runs -> Nat]
      BY <1>1, <2>1
  <2>3. QED BY <2>1, <2>2
<1>3. n <= streak[h] /\ n <= MaxFailures
  <2>1. mine[r][h] < streak[h] /\ mine[r][h] < MaxFailures
      BY <1>1 DEF LoadedEarned
  <2>2. mine[r][h] \in Nat /\ streak[h] \in Nat /\ MaxFailures \in Nat
      BY <1>1 DEF WatchLimits
  <2>3. n <= mine[r][h] + 1
      OBVIOUS
  <2>4. QED BY <2>1, <2>2, <2>3
<1>4. SavedEarned'
    BY <1>1, <1>3 DEF SavedEarned, LoadedEarned, ContainerNames
<1>5. LoadedEarned'
  <2>1. \A q \in Runs : at[q] # 0 => q = r
      BY <1>1 DEF OneRun
  <2>2. \A q \in Runs : ~found'[q]
      BY <1>1, <2>1, Positions DEF OneRun
  <2>3. \A q \in Runs : at'[q] # 0 => mine'[q] = saved'
      BY <1>1, <2>1
  <2>4. QED BY <2>2, <2>3 DEF LoadedEarned
<1>6. QED BY <1>2, <1>a, <1>4, <1>5

LEMMA WatchInvStep == Earned /\ [WatchNext]_watchVars => Earned'
<1> SUFFICES ASSUME Earned, [WatchNext]_watchVars, "overlap" \notin hitch' PROVE WatchInv'
    BY DEF Earned
<1>0. "overlap" \notin hitch /\ WatchInv
    BY DEF Earned, WatchNext, watchVars, Turns, Begin, FindWell, FindBad, Up, Wipe, Recreate,
           BreakLoop, RestartContainer, Saves, Timeout, End
<1>a. WatchLimits'
    BY <1>0 DEF WatchInv, WatchLimits, ContainerNames
<1> USE DEF WatchInv, WatchType
<1>1. ASSUME NEW c \in ContainerNames, Turns(c) PROVE WatchInv'
    BY <1>0, <1>1 DEF Turns, WatchLimits, ContainerNames, OneRun, SavedEarned, LoadedEarned, Here
<1>2. ASSUME NEW r \in Runs, Begin(r) PROVE WatchInv'
  <2>0. \A q \in Runs : at[q] = 0 /\ found[q] = FALSE
      BY <1>0, <1>2, Positions DEF Begin, OneRun
  <2>1. WatchLimits' /\ WatchType'
      BY <1>0, <1>2 DEF Begin, WatchLimits, ContainerNames
  <2>2. OneRun'
      BY <1>0, <1>2, <2>0 DEF Begin, OneRun
  <2>3. SavedEarned'
      BY <1>0, <1>2 DEF Begin, SavedEarned, ContainerNames
  <2>4. LoadedEarned'
      BY <1>0, <1>2, <2>0 DEF Begin, LoadedEarned
  <2>5. QED BY <2>1, <2>2, <2>3, <2>4
<1>3. ASSUME NEW r \in Runs, FindWell(r) PROVE WatchInv'
  <2> DEFINE h == Here(r)
  <2>0. h \in ContainerNames /\ at[r] \in Nat \ {0} /\ mine[r] = saved
    <3>1. h \in ContainerNames
        BY <1>0, <1>3, HereIsName DEF FindWell, Checks
    <3>2. at[r] \in Nat \ {0}
        BY <1>0, <1>3, Positions DEF FindWell, Checks
    <3>3. QED BY <1>0, <3>1, <3>2 DEF LoadedEarned
  <2>1. /\ mine' = [mine EXCEPT ![r] = [saved EXCEPT ![h] = 0]]
        /\ saved' = [saved EXCEPT ![h] = 0]
        /\ at' = [at EXCEPT ![r] = @ + 1]
        /\ streak' = [streak EXCEPT ![h] = 0]
        /\ found[r] = FALSE /\ UNCHANGED found
    <3>1. mine' = [mine EXCEPT ![r] = [saved EXCEPT ![h] = 0]]
        BY <1>3, <2>0 DEF FindWell
    <3>2. CASE saved[h] > 0
        BY <1>0, <1>3, <2>0, <3>1, <3>2 DEF FindWell, Checks
    <3>3. CASE ~(saved[h] > 0)
      <4>1. saved = [saved EXCEPT ![h] = 0]
          BY <1>0, <2>0, <3>3
      <4>2. saved' = saved
          BY <1>3, <2>0, <3>3 DEF FindWell
      <4>3. QED BY <1>0, <1>3, <2>0, <3>1, <4>1, <4>2 DEF FindWell, Checks
    <3>4. QED BY <3>2, <3>3
  <2>2. WatchLimits' /\ WatchType'
    <3>1. mine' \in [Runs -> [ContainerNames -> Nat]] /\ saved' \in [ContainerNames -> Nat]
        BY <1>0, <2>0, <2>1
    <3>2. QED BY <1>0, <1>a, <2>0, <2>1, <3>1
  <2>3. OneRun'
      BY <1>0, <2>0, <2>1 DEF OneRun
  <2>4. SavedEarned'
      BY <1>0, <2>0, <2>1 DEF SavedEarned, WatchLimits, ContainerNames
  <2>5. LoadedEarned'
      BY <1>0, <2>0, <2>1, Positions DEF OneRun, LoadedEarned
  <2>6. QED BY <2>2, <2>3, <2>4, <2>5
<1>4. ASSUME NEW r \in Runs, FindBad(r) PROVE WatchInv'
  <2> DEFINE h == Here(r)
  <2>0. h \in ContainerNames /\ at[r] \in Nat \ {0} /\ mine[r] = saved
    <3>1. h \in ContainerNames
        BY <1>0, <1>4, HereIsName DEF FindBad, Checks
    <3>2. at[r] \in Nat \ {0}
        BY <1>0, <1>4, Positions DEF FindBad, Checks
    <3>3. QED BY <1>0, <3>1, <3>2 DEF LoadedEarned
  <2>1. /\ saved[h] < MaxFailures
        /\ found' = [found EXCEPT ![r] = TRUE]
        /\ streak' = [streak EXCEPT ![h] = IF @ < MaxFailures THEN @ + 1 ELSE @]
        /\ UNCHANGED <<saved, at, mine>>
      BY <1>4, <2>0 DEF FindBad
  <2>2. WatchLimits' /\ WatchType'
    <3>1. streak' \in [ContainerNames -> Nat] /\ found' \in [Runs -> BOOLEAN]
        BY <1>0, <2>0, <2>1
    <3>2. QED BY <1>0, <1>a, <2>0, <2>1, <3>1
  <2>3. OneRun'
      BY <1>0, <1>4, <2>0, <2>1 DEF FindBad, Checks, OneRun
  <2>4. SavedEarned'
      BY <1>0, <2>0, <2>1 DEF SavedEarned, WatchLimits, ContainerNames
  <2>5. LoadedEarned'
    <3>1. h' = h
        BY <2>1 DEF Here
    <3>2. saved[h] < streak'[h]
        BY <1>0, <2>0, <2>1 DEF SavedEarned, WatchLimits
    <3>3. \A q \in Runs : found'[q] => q = r
        BY <1>0, <2>0, <2>1, Positions DEF OneRun
    <3>4. QED BY <1>0, <2>0, <2>1, <3>1, <3>2, <3>3 DEF LoadedEarned
  <2>6. QED BY <2>2, <2>3, <2>4, <2>5
<1>5. ASSUME NEW r \in Runs, Up(r) \/ Wipe(r) \/ Recreate(r) \/ BreakLoop(r) \/ RestartContainer(r)
      PROVE  WatchInv'
  <2>1. Here(r) \in ContainerNames
      BY <1>0, <1>5, HereIsName DEF Up, Wipe, Recreate, BreakLoop, RestartContainer, Saves, Heals
  <2>2. PICK n \in {0, Failures(r)} : Saves(r, n)
      BY <1>5 DEF Up, Wipe, Recreate, BreakLoop, RestartContainer
  <2>3. n \in Nat /\ n <= mine[r][Here(r)] + 1
      BY <1>0, <2>1, <2>2 DEF Failures
  <2>4. QED BY <1>0, <2>2, <2>3, SavesEarned
<1>6. ASSUME NEW r \in Runs, Timeout(r) PROVE WatchInv'
    BY <1>0, <1>6 DEF Timeout, NoFailures, WatchLimits, ContainerNames, OneRun, SavedEarned, LoadedEarned, Here
<1>7. ASSUME NEW r \in Runs, End(r) PROVE WatchInv'
  <2>1. at[r] \notin DOMAIN Containers
      BY <1>0, <1>7 DEF End, WatchLimits
  <2>2. found[r] = FALSE
      BY <1>0, <2>1 DEF OneRun
  <2>3. WatchType' /\ SavedEarned'
      BY <1>0, <1>7 DEF End, NoFailures, SavedEarned, ContainerNames
  <2>4. OneRun' /\ LoadedEarned'
      BY <1>0, <1>7, <2>2 DEF End, OneRun, LoadedEarned, Here
  <2>5. QED BY <1>a, <2>3, <2>4
<1>8. CASE UNCHANGED watchVars
    BY <1>0, <1>8 DEF watchVars, WatchLimits, ContainerNames, OneRun, SavedEarned, LoadedEarned, Here
<1>9. QED BY <1>1, <1>2, <1>3, <1>4, <1>5, <1>6, <1>7, <1>8 DEF WatchNext

\* "unhealthy 3+ times" recreates a container and six times wipes the volume of Weaviate
\* (container-watchdog.py:178-210): where runs do not overlap, no earlier, whatever dies.
THEOREM EscalationEarned == WatchLimits /\ WatchSpec => HealingEarned
<1>1. WatchLimits /\ WatchInit => Earned
    BY WatchInvInit
<1>2. Earned /\ [WatchNext]_watchVars => Earned'
    BY WatchInvStep
<1>3. ASSUME Earned, "overlap" \notin hitch, NEW r \in Runs, NEW n \in Nat, Saves(r, n)
      PROVE  streak[Here(r)] >= Failures(r) /\ Failures(r) \in Nat /\ streak[Here(r)] \in Nat
  <2>1. found[r] /\ at[r] \in Nat \ {0} /\ Here(r) \in ContainerNames
      BY <1>3, HereIsName, Positions DEF Earned, WatchInv, Saves, Heals
  <2>2. saved[Here(r)] < streak[Here(r)] /\ mine[r] = saved
      BY <1>3, <2>1 DEF Earned, WatchInv, LoadedEarned
  <2>3. QED BY <1>3, <2>1, <2>2 DEF Earned, WatchInv, WatchType, Failures
<1>4. Earned => HealingInOrder
  <2>1. SUFFICES ASSUME Earned, "overlap" \notin hitch, NEW r \in Runs
                 PROVE  /\ Wipe(r) => streak[Here(r)] >= WipeAt
                        /\ Recreate(r) => streak[Here(r)] >= RecreateAt
      BY DEF HealingInOrder
  <2>2. WatchLimits
      BY <2>1 DEF Earned, WatchInv
  <2>3. ASSUME Wipe(r) PROVE streak[Here(r)] >= WipeAt
      BY <1>3, <2>1, <2>2, <2>3 DEF Wipe, WatchLimits
  <2>4. ASSUME Recreate(r) PROVE streak[Here(r)] >= RecreateAt
    <3>1. found[r] /\ Here(r) \in ContainerNames
        BY <2>1, <2>4, HereIsName DEF Recreate, Saves, Heals
    <3>2. Failures(r) \in Nat
        BY <2>1, <3>1 DEF Earned, WatchInv, WatchType, Failures
    <3>3. QED BY <1>3, <2>1, <2>2, <2>4, <3>2 DEF Recreate, WatchLimits
  <2>5. QED BY <2>3, <2>4
<1>5. QED BY <1>1, <1>2, <1>4, PTL DEF WatchSpec, HealingEarned, HealingInOrder

(***************************************************************************)
(* Announcements                                                           *)
(***************************************************************************)

Places == {"settling", "free", "mailing", "done"}
AlertType ==
    /\ boot \in 1 .. MaxBoots /\ marker \in 0 .. boot
    /\ known \subseteq Visitors
    /\ DOMAIN mailing = Senders
    /\ \A t \in Senders : mailing[t].at \in Places
    /\ mails \in [Subjects -> Nat]
\* A thread sends what it has noted: the check the present boot, the event loop a client.
Sending ==
    \A t \in Senders : mailing[t].at = "mailing" =>
        /\ mailing[t].try \in 1 .. Retries
        /\ t = "check" => mailing[t].on = BootOf(boot) /\ (marker = boot \/ "unwritable" \in odds)
        /\ t = "loop" => mailing[t].on \in known
\* noted now or earlier
Ever(s) == s \in known \/ \E b \in 1 .. marker : s = BootOf(b)
Most == IF "late" \in odds THEN Retries ELSE 1
\* A subject costs nothing before it is noted, an attempt at most one mail, and only with
\* "late" is there an attempt after a mail.
Counted ==
    "unwritable" \notin odds =>
        /\ \A s \in Subjects : mails[s] <= Most /\ (~Ever(s) => mails[s] = 0)
        /\ \A t \in Senders : mailing[t].at = "mailing" =>
              mails[mailing[t].on] <= IF "late" \in odds THEN mailing[t].try - 1 ELSE 0
NotForgotten ==
    "refused" \notin odds => \A s \in Noted \ cut : mails[s] >= 1 \/ s \in Interrupted
AlertInv == AlertLimits /\ AlertType /\ Sending /\ Counted /\ NotForgotten

\* Boots and clients are different subjects, and so are two boots.
LEMMA SubjectsDiffer ==
    AlertLimits => \A a, b \in 1 .. MaxBoots : BootOf(a) \notin Visitors /\ (BootOf(a) = BootOf(b) => a = b)
<1>1. \A a, b \in 1 .. MaxBoots : BootOf(a).boot = a /\ BootOf(b).boot = b
    BY DEF BootOf
<1>2. QED BY <1>1 DEF AlertLimits

LEMMA EndedAt == Ended("check").at = "done" /\ Ended("loop").at = "free"
BY DEF Ended, Started

\* After an attempt that is not the last word, a thread tries again or ends.
LEMMA AgainAt ==
    ASSUME AlertType, NEW t \in Senders, NEW n, n = Again(t)
    PROVE  /\ DOMAIN n = Senders /\ n[t].at \in {mailing[t].at, "done", "free"}
           /\ \A u \in Senders \ {t} : n[u] = mailing[u]
           /\ n[t].at \notin {"done", "free"} =>
                  n[t].on = mailing[t].on /\ n[t].try = mailing[t].try + 1 /\ mailing[t].try < Retries
<1>1. CASE mailing[t].try < Retries
    BY <1>1 DEF AlertType, Again
<1>2. CASE ~(mailing[t].try < Retries)
    BY <1>2, EndedAt DEF AlertType, Again, Senders
<1>3. QED BY <1>1, <1>2

LEMMA AlertInvInit == AlertLimits /\ AlertInit => AlertInv
<1> SUFFICES ASSUME AlertLimits, AlertInit PROVE AlertInv
    OBVIOUS
<1>1. \A t \in Senders : mailing[t].at \in {"settling", "free"}
    BY DEF AlertInit, Started, Senders
<1>2. AlertType
    BY <1>1 DEF AlertInit, AlertType, AlertLimits, Places, Started, Senders
<1>3. Sending /\ Counted
    BY <1>1 DEF AlertInit, Sending, Counted, Most, AlertLimits
<1>4. NotForgotten
    BY DEF AlertInit, NotForgotten, Noted
<1>5. QED BY <1>2, <1>3, <1>4 DEF AlertInv

\* A restart or a power loss: nobody sends, and what was being sent is cut short.
LEMMA Restarted ==
    ASSUME AlertInv, boot' \in boot .. MaxBoots, mailing' = Started, cut' = cut \cup Interrupted,
           UNCHANGED <<odds, marker, known, mails>>
    PROVE  AlertInv'
<1> USE DEF AlertInv
<1>1. \A t \in Senders : mailing'[t].at \in {"settling", "free"}
    BY DEF Started, Senders
<1>2. AlertType'
    BY <1>1 DEF AlertType, Places, Started, Senders, Subjects, AlertLimits
<1>3. Sending' /\ Counted'
    BY <1>1 DEF Sending, Counted, Most, Ever, Subjects
<1>4. NotForgotten'
    BY DEF NotForgotten, Noted
<1>5. QED BY <1>2, <1>3, <1>4 DEF AlertLimits

\* One thread begins to send a subject, which it notes first unless it cannot.
LEMMA Begun ==
    ASSUME AlertInv, NEW t \in Senders, NEW s \in Subjects, ~Ever(s) \/ "unwritable" \in odds,
           mailing[t].at # "mailing", mailing' = [mailing EXCEPT ![t] = Mailing(s)],
           UNCHANGED <<odds, boot, mails, cut>>,
           \/ t = "check" /\ s = BootOf(boot) /\ UNCHANGED known
              /\ marker' = IF "unwritable" \in odds THEN marker ELSE boot
           \/ t = "loop" /\ s \in Visitors /\ known' = known \cup {s} /\ UNCHANGED marker
    PROVE  AlertInv'
<1> USE DEF AlertInv
<1>1. /\ DOMAIN mailing' = Senders
      /\ mailing'[t].at = "mailing" /\ mailing'[t].on = s /\ mailing'[t].try = 1
      /\ \A u \in Senders \ {t} : mailing'[u] = mailing[u]
    BY DEF AlertType, Mailing
<1>2. AlertType'
    BY <1>1 DEF AlertType, Places, Subjects, AlertLimits
<1>3. Sending'
    BY <1>1 DEF Sending, AlertLimits, Senders
<1>4. Counted'
  <2>1. SUFFICES ASSUME "unwritable" \notin odds PROVE Counted'
      BY DEF Counted
  <2>2. \A x \in Subjects : Ever(x) => Ever(x)'
      BY DEF AlertType, Ever
  <2>3. \A x \in Subjects : mails[x] <= Most /\ (~Ever(x)' => mails[x] = 0)
      BY <2>1, <2>2 DEF Counted
  <2>4. mails[s] = 0
      BY <2>1 DEF Counted
  <2>5. \A u \in Senders : mailing'[u].at = "mailing" =>
            mails[mailing'[u].on] <= IF "late" \in odds THEN mailing'[u].try - 1 ELSE 0
      BY <1>1, <2>1, <2>4 DEF Counted
  <2>6. QED BY <2>3, <2>5 DEF Counted, Most, Subjects
<1>5. NotForgotten'
  <2>1. Interrupted \subseteq Interrupted' /\ s \in Interrupted'
      BY <1>1 DEF Interrupted
  <2>2. Noted' \subseteq Noted \cup {s}
      BY DEF Noted
  <2>3. QED BY <2>1, <2>2 DEF NotForgotten
<1>6. QED BY <1>2, <1>3, <1>4, <1>5 DEF AlertLimits

\* One attempt of a thread: the mail is taken or not, and the thread tries again or ends.
LEMMA Attempted ==
    ASSUME AlertInv, NEW t \in Senders, Send(t)
    PROVE  AlertInv'
<1> USE DEF AlertInv
<1> DEFINE s == mailing[t].on
<1>1. s \in Subjects /\ ("unwritable" \notin odds => Ever(s)) /\ mails[s] \in Nat
    BY DEF Send, AlertType, Sending, Subjects, Ever, Senders
<1>2. \A u \in Senders \ {t} : mailing[u].at = "mailing" => mailing[u].on # s
    BY DEF Send, AlertType, AlertLimits, Sending, Senders
<1>0. \/ mailing' = [mailing EXCEPT ![t] = Ended(t)]
      \/ mailing' = Again(t)
    BY DEF Send
<1>3. /\ DOMAIN mailing' = Senders /\ mailing'[t].at \in Places
      /\ \A u \in Senders \ {t} : mailing'[u] = mailing[u]
    BY <1>0, AgainAt, EndedAt DEF AlertType, Senders, Places
<1>4. mailing'[t].at = "mailing" =>
          /\ mailing'[t].on = s /\ mailing'[t].try = mailing[t].try + 1
          /\ mailing[t].try < Retries
    BY <1>0, AgainAt, EndedAt DEF AlertType, Senders
<1>5. \/ mails' = [mails EXCEPT ![s] = @ + 1] /\ ("late" \in odds \/ mailing'[t].at # "mailing")
      \/ mails' = mails /\ "refused" \in odds
    BY EndedAt DEF Send, AlertType, Taken, Senders
<1>6. UNCHANGED <<odds, boot, marker, known, cut>> /\ mailing[t].at = "mailing"
    BY DEF Send
<1>7. AlertType'
    BY <1>1, <1>3, <1>5, <1>6 DEF AlertType, Subjects
<1>8. Sending'
    BY <1>3, <1>4, <1>6 DEF Sending, AlertLimits
<1>9. Counted'
  <2>1. SUFFICES ASSUME "unwritable" \notin odds PROVE Counted'
      BY <1>6 DEF Counted
  <2>2. /\ mailing[t].try \in 1 .. Retries
        /\ mails[s] <= IF "late" \in odds THEN mailing[t].try - 1 ELSE 0
      BY <1>6, <2>1 DEF Sending, Counted
  <2>3. mails'[s] <= Most
      BY <1>1, <1>5, <2>1, <2>2 DEF AlertType, AlertLimits, Counted, Most
  <2>4. mailing'[t].at = "mailing" =>
            mails'[s] <= IF "late" \in odds THEN mailing'[t].try - 1 ELSE 0
      BY <1>1, <1>4, <1>5, <2>2 DEF AlertType
  <2>5. \A x \in Subjects \ {s} : mails'[x] = mails[x]
      BY <1>5 DEF AlertType
  <2>6. \A x \in Subjects : mails'[x] <= Most /\ (~Ever(x)' => mails'[x] = 0)
      BY <1>1, <1>6, <2>1, <2>3, <2>5 DEF Counted, Ever
  <2>7. ASSUME NEW u \in Senders, mailing'[u].at = "mailing"
        PROVE  mails'[mailing'[u].on] <= IF "late" \in odds THEN mailing'[u].try - 1 ELSE 0
    <3>1. CASE u = t
        BY <1>4, <2>4, <2>7, <3>1
    <3>2. CASE u # t
      <4>1. mailing'[u] = mailing[u] /\ mailing[u].on \in Subjects \ {s}
          BY <1>2, <1>3, <2>7, <3>2 DEF AlertType, Sending, Subjects, Senders
      <4>2. QED BY <2>1, <2>5, <2>7, <4>1 DEF Counted
    <3>3. QED BY <3>1, <3>2
  <2>8. QED BY <1>6, <2>6, <2>7 DEF Counted, Most, Subjects
<1>10. NotForgotten'
  <2>1. SUFFICES ASSUME "refused" \notin odds, NEW x \in Noted \ cut
                 PROVE  mails'[x] >= 1 \/ x \in Interrupted'
      BY <1>6 DEF NotForgotten, Noted
  <2>2. x \in Subjects
    <3>1. \A b \in {marker} \ {0} : b \in 1 .. MaxBoots
        BY DEF AlertType, AlertLimits
    <3>2. QED BY <3>1 DEF Noted, AlertType, Subjects
  <2>3. CASE x = s
      BY <1>1, <1>5, <2>1, <2>3 DEF AlertType
  <2>4. CASE x # s
    <3>1. mails'[x] = mails[x]
        BY <1>5, <2>2, <2>4 DEF AlertType
    <3>2. x \in Interrupted => x \in Interrupted'
        BY <1>3, <2>4 DEF Interrupted
    <3>3. QED BY <2>1, <3>1, <3>2 DEF NotForgotten
  <2>5. QED BY <2>3, <2>4
<1>11. QED BY <1>6, <1>7, <1>8, <1>9, <1>10 DEF AlertLimits

\* A thread that sends nothing stops, or nothing happens but the passing of half an hour.
LEMMA Idled ==
    ASSUME AlertInv, UNCHANGED <<odds, boot, marker, known, mails, cut>>,
           \/ UNCHANGED mailing
           \/ mailing["check"].at # "mailing" /\ mailing' = [mailing EXCEPT !["check"] = Ended("check")]
    PROVE  AlertInv'
<1> USE DEF AlertInv
<1>1. /\ DOMAIN mailing' = Senders
      /\ \A u \in Senders : mailing'[u] = mailing[u]
              \/ (mailing'[u].at = "done" /\ mailing[u].at # "mailing")
  <2>1. CASE UNCHANGED mailing
      BY <2>1 DEF AlertType
  <2>2. CASE mailing["check"].at # "mailing" /\ mailing' = [mailing EXCEPT !["check"] = Ended("check")]
    <3>1. mailing'["check"].at = "done" /\ DOMAIN mailing' = Senders
        BY <2>2, EndedAt DEF AlertType, Senders
    <3>2. \A u \in Senders \ {"check"} : mailing'[u] = mailing[u]
        BY <2>2 DEF AlertType
    <3>3. QED BY <2>2, <3>1, <3>2
  <2>3. QED BY <2>1, <2>2
<1>2. AlertType'
    BY <1>1 DEF AlertType, Places, Subjects
<1>3. Sending' /\ Counted'
    BY <1>1 DEF Sending, Counted, Most, Ever, Subjects
<1>4. Interrupted' = Interrupted
    BY <1>1 DEF Interrupted
<1>5. NotForgotten'
    BY <1>4 DEF NotForgotten, Noted
<1>6. QED BY <1>2, <1>3, <1>5 DEF AlertLimits

LEMMA AlertInvStep == AlertInv /\ [AlertNext]_alertVars => AlertInv'
<1> SUFFICES ASSUME AlertInv, [AlertNext]_alertVars PROVE AlertInv'
    OBVIOUS
<1>1. CASE PowerLoss \/ Restart
  <2>1. boot' \in boot .. MaxBoots
      BY <1>1 DEF PowerLoss, Restart, AlertInv, AlertType, AlertLimits
  <2>2. QED BY <1>1, <2>1, Restarted DEF PowerLoss, Restart
<1>2. CASE BootSettled
    BY <1>2, Idled DEF BootSettled
<1>3. CASE Check
  <2>1. CASE recent /\ marker # boot
    <3>1. BootOf(boot) \in Subjects /\ (~Ever(BootOf(boot)) \/ "unwritable" \in odds)
      <4>1. BootOf(boot) \notin Visitors /\ \A b \in 1 .. marker : BootOf(b) # BootOf(boot)
          BY <2>1, SubjectsDiffer DEF AlertInv, AlertType, AlertLimits
      <4>2. QED BY <4>1 DEF AlertInv, AlertType, Subjects, Ever
    <3>2. QED BY <1>3, <2>1, <3>1, Begun DEF Check, Senders
  <2>2. CASE ~(recent /\ marker # boot)
      BY <1>3, <2>2, Idled DEF Check
  <2>3. QED BY <2>1, <2>2
<1>4. ASSUME NEW c \in Visitors, Admit(c) PROVE AlertInv'
  <2>1. CASE c \in known
    <3>1. known' = known
        BY <1>4, <2>1 DEF Admit
    <3>2. QED BY <1>4, <2>1, <3>1, Idled DEF Admit
  <2>2. CASE c \notin known
    <3>1. c \in Subjects /\ ~Ever(c)
        BY <2>2 DEF Subjects, Ever, AlertInv, AlertType, AlertLimits
    <3>2. QED BY <1>4, <2>2, <3>1, Begun DEF Admit, Senders
  <2>3. QED BY <2>1, <2>2
<1>5. ASSUME NEW t \in Senders, Send(t) PROVE AlertInv'
    BY <1>5, Attempted
<1>6. CASE UNCHANGED alertVars
    BY <1>6, Idled DEF alertVars
<1>7. QED BY <1>1, <1>2, <1>3, <1>4, <1>5, <1>6 DEF AlertNext

\* "deploys and backend restarts within the same boot never re-send" (power_events.py:10),
\* nor does a client get a second mail, and nobody who was noted is forgotten but by a
\* restart or a refusal: for any clients, boots, attempts and conditions.
THEOREM AnnouncementsOnce == AlertLimits /\ AlertSpec => []AnnouncedOnce
<1>1. AlertLimits /\ AlertInit => AlertInv
    BY AlertInvInit
<1>2. AlertInv /\ [AlertNext]_alertVars => AlertInv'
    BY AlertInvStep
<1>3. AlertInv => AnnouncedOnce
    BY DEF AlertInv, Counted, Most, NotForgotten, AnnouncedOnce
<1>4. QED BY <1>1, <1>2, <1>3, PTL DEF AlertSpec
=============================================================================
