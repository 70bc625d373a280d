------------------------------ MODULE ModelSlot ------------------------------
(***************************************************************************)
(* The one slot of the local decision model (systemone.py): decisions that *)
(* agents ask for (make_decision), and the judgements and classifications  *)
(* of the feedback gate, which are to let a waiting decision go first.     *)
(* Time passes in ticks; ages count them.                                  *)
(***************************************************************************)
EXTENDS Naturals, FiniteSets

CONSTANTS
    Askers,     \* threads in make_decision
    Gaters,     \* threads in the feedback gate
    CallTime,   \* systemone_timeout: 90 s
    Patience,   \* a decision gives up waiting for the slot: 100 s
    Yield       \* a judgement gives up yielding: 120 s

\* A judgement outlasts every decision it yields to.
SlotTimes == CallTime \in Nat /\ Patience \in Nat /\ Yield \in Nat /\ Patience < Yield

VARIABLES
    pc,      \* thread -> where it is
    age,     \* thread -> ticks it has been there
    asking,  \* the thread that holds _DECISION_LOCK, or "none"
    ahead,   \* gater -> threads that waited when it began to yield, and still do
    begun    \* thread that waits -> judgements begun since, by gater

slotVars == <<pc, age, asking, ahead, begun>>

Threads == Askers \cup Gaters
Waiting == {p \in Threads : pc[p] = "waits"}          \* _DECISION_WAITERS
Free == \A p \in Threads : pc[p] \notin {"asks", "judges"}   \* _INTERNAL_LOCK

SlotInit ==
    /\ pc = [p \in Threads |-> "idle"]
    /\ age = [p \in Threads |-> 0]
    /\ asking = "none"
    /\ ahead = [g \in Gaters |-> {}]
    /\ begun = [p \in Threads |-> {}]

Goes(p, to) == pc' = [pc EXCEPT ![p] = to] /\ age' = [age EXCEPT ![p] = 0]
\* p waits no longer
Leaves(p) ==
    /\ ahead' = [g \in Gaters |-> ahead[g] \ {p}]
    /\ begun' = [begun EXCEPT ![p] = {}]

(***************************************************************************)
(* make_decision and decide                                                *)
(***************************************************************************)
\* Malformed questions are refused before; a second agent is told "busy".
Ask(p) ==
    /\ pc[p] = "idle" /\ asking = "none"
    /\ asking' = p
    /\ Goes(p, "waits") /\ UNCHANGED <<ahead, begun>>

Enter(p) ==
    /\ pc[p] = "waits" /\ Free
    /\ Goes(p, "asks") /\ Leaves(p) /\ UNCHANGED asking

Returns(p) == asking' = IF asking = p THEN "none" ELSE asking

\* busy beyond 100 s; a classification is then "ranking"
GiveUp(p) ==
    /\ pc[p] = "waits" /\ age[p] = Patience
    /\ Goes(p, "idle") /\ Leaves(p) /\ Returns(p)

\* an answer, an error, or a timeout, after which a gater turns to the next entry
Answered(p) ==
    /\ pc[p] = "asks"
    /\ Goes(p, "idle") /\ Returns(p) /\ UNCHANGED <<ahead, begun>>

(***************************************************************************)
(* The feedback gate                                                       *)
(***************************************************************************)
\* Before each entry: with a decision waiting, the rest is deferred to the next cycle.
NextEntry(g) ==
    /\ pc[g] = "idle" /\ Waiting = {}
    /\ Goes(g, "due") /\ UNCHANGED <<asking, ahead, begun>>

\* _background_acquire
BeginYield(g) ==
    /\ pc[g] = "due"
    /\ Goes(g, "yields")
    /\ ahead' = [ahead EXCEPT ![g] = Waiting]
    /\ UNCHANGED <<asking, begun>>
YieldEndsEarly(g) ==
    /\ pc[g] = "yields" /\ (Waiting = {} \/ age[g] >= CallTime)
    /\ Goes(g, "queues") /\ UNCHANGED <<asking, ahead, begun>>
YieldEnds(g) ==
    /\ pc[g] = "yields" /\ (Waiting = {} \/ age[g] = Yield)
    /\ Goes(g, "queues") /\ UNCHANGED <<asking, ahead, begun>>

Judge(g) ==
    /\ pc[g] = "queues" /\ Free
    /\ Goes(g, "judges")
    /\ begun' = [p \in Threads |-> IF p \in Waiting THEN begun[p] \cup {g} ELSE begun[p]]
    /\ UNCHANGED <<asking, ahead>>

\* Rejected, or no answer and the heuristics decide; an accepted entry is classified by
\* decide, as a waiter with the priority of an agent.
Judged(g) ==
    /\ pc[g] = "judges"
    /\ \E to \in {"idle", "waits"} : Goes(g, to)
    /\ UNCHANGED <<asking, ahead, begun>>

\* Nobody outstays a timeout, and a free slot is taken.
Timed == {"asks", "judges", "waits", "yields"}
Limit(p) ==
    IF pc[p] \in {"asks", "judges"} THEN CallTime
    ELSE IF pc[p] = "waits" THEN Patience ELSE Yield
SlotTick ==
    /\ \A p \in Threads : pc[p] \in Timed => age[p] < Limit(p)
    /\ ~(Free /\ \E p \in Threads : pc[p] \in {"waits", "queues"})
    /\ age' = [p \in Threads |-> IF pc[p] \in Timed THEN age[p] + 1 ELSE 0]
    /\ UNCHANGED <<pc, asking, ahead, begun>>

SlotNext ==
    \/ \E p \in Askers : Ask(p)
    \/ \E p \in Threads : Enter(p) \/ GiveUp(p) \/ Answered(p)
    \/ \E g \in Gaters : NextEntry(g) \/ BeginYield(g) \/ YieldEnds(g) \/ Judge(g) \/ Judged(g)
    \/ SlotTick

SlotSpec == SlotInit /\ [][SlotNext]_slotVars

(***************************************************************************)
(* Properties                                                              *)
(***************************************************************************)
\* "background calls yield their next slot while a decision waits, and decisions can wait
\* ~one background call" (systemone.py:30-33): no judgement begins before a decision that
\* waited when it came, and none of the gate's threads begins two while one decision waits.
DecisionsFirst ==
    [][\A g \in Gaters : pc[g] = "queues" /\ pc'[g] = "judges" =>
          /\ ahead[g] = {}
          /\ \A p \in Waiting : g \notin begun[p]]_slotVars
==============================================================================
