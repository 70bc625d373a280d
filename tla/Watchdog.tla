------------------------------ MODULE Watchdog ------------------------------
(***************************************************************************)
(* The watchdog of the host (container-watchdog.py): a run by cron checks  *)
(* the containers in turn and heals the ones that are not well, harder the *)
(* more often it failed before.  The failure counts are a file that a run  *)
(* loads at its start and writes as a whole.                               *)
(***************************************************************************)
EXTENDS Naturals, Sequences

CONSTANTS
    Runs,
    Containers,   \* the sequence of the containers, in the order of the checks
    Weaviate,     \* the one whose volume may be wiped
    RecreateAt,   \* 3 failures
    WipeAt,       \* 6 failures
    MaxFailures,  \* bound: failures counted
    FailsIn       \* bound: for each set of conditions considered, the containers that fail

Hitch ==
    {"overlap",   \* a run begins while the one before still waits for docker
     "timeout"}   \* a docker command takes more than 120 s, and the run dies

VARIABLES
    hitch,     \* the conditions of this behavior
    state,     \* container -> "well", "unhealthy", "looping" (and unhealthy) or "down"
    saved,     \* watchdog-state.json: container -> failure_count
    at,        \* run -> position in Containers, 0 when it does not run
    found,     \* run -> it found that container not well
    mine,      \* run -> the counts it has loaded and changed
    streak     \* container -> checks in a row that found it not well

watchVars == <<hitch, state, saved, at, found, mine, streak>>

ContainerNames == {Containers[i] : i \in DOMAIN Containers}
WatchLimits ==
    /\ RecreateAt \in Nat /\ WipeAt \in Nat /\ MaxFailures \in Nat
    /\ Containers \in Seq(ContainerNames)

NoFailures == [c \in ContainerNames |-> 0]
Here(r) == Containers[at[r]]
Checks(r) == at[r] \in DOMAIN Containers /\ ~found[r]
Heals(r) == at[r] \in DOMAIN Containers /\ found[r]

WatchInit ==
    /\ hitch \in DOMAIN FailsIn
    /\ state = [c \in ContainerNames |-> "well"]
    /\ saved = NoFailures
    /\ at = [r \in Runs |-> 0]
    /\ found = [r \in Runs |-> FALSE]
    /\ mine = [r \in Runs |-> NoFailures]
    /\ streak = [c \in ContainerNames |-> 0]

Turns(c) ==
    /\ c \in FailsIn[hitch]
    /\ state' \in {[state EXCEPT ![c] = s] : s \in {"well", "unhealthy", "looping", "down"}}
    /\ UNCHANGED <<hitch, saved, at, found, mine, streak>>

Begin(r) ==
    /\ at[r] = 0
    /\ "overlap" \in hitch \/ \A q \in Runs : at[q] = 0
    /\ at' = [at EXCEPT ![r] = 1]
    /\ mine' = [mine EXCEPT ![r] = saved]
    /\ UNCHANGED <<hitch, state, saved, found, streak>>

(***************************************************************************)
(* main, for one container                                                 *)
(***************************************************************************)
FindWellKept(r) ==
    /\ Checks(r) /\ state[Here(r)] = "well"
    /\ at' = [at EXCEPT ![r] = @ + 1]
    /\ streak' = [streak EXCEPT ![Here(r)] = 0]
    /\ UNCHANGED <<hitch, state, saved, found, mine>>

\* A container that still starts counts as well.
FindWell(r) ==
    /\ Checks(r) /\ state[Here(r)] = "well"
    /\ at' = [at EXCEPT ![r] = @ + 1]
    /\ mine' = [mine EXCEPT ![r][Here(r)] = 0]
    /\ saved' = IF mine[r][Here(r)] > 0 THEN mine'[r] ELSE saved
    /\ streak' = [streak EXCEPT ![Here(r)] = 0]
    /\ UNCHANGED <<hitch, state, found>>

FindBad(r) ==
    /\ Checks(r) /\ state[Here(r)] # "well"
    /\ mine[r][Here(r)] < MaxFailures
    /\ found' = [found EXCEPT ![r] = TRUE]
    /\ streak' = [streak EXCEPT ![Here(r)] = IF @ < MaxFailures THEN @ + 1 ELSE @]
    /\ UNCHANGED <<hitch, state, saved, at, mine>>

(***************************************************************************)
(* heal_container, which looks at the container again                      *)
(***************************************************************************)
Failures(r) == mine[r][Here(r)] + 1
Saves(r, n) ==
    /\ Heals(r)
    /\ mine' = [mine EXCEPT ![r][Here(r)] = n]
    /\ saved' = mine'[r]
    /\ found' = [found EXCEPT ![r] = FALSE]
    /\ at' = [at EXCEPT ![r] = @ + 1]
    /\ UNCHANGED <<hitch, state, streak>>
Unhealthy(r) == Heals(r) /\ state[Here(r)] \in {"unhealthy", "looping"}

Up(r) == Heals(r) /\ state[Here(r)] = "down" /\ Saves(r, Failures(r))
Wipe(r) ==
    /\ Unhealthy(r) /\ Failures(r) >= WipeAt /\ Here(r) = Weaviate
    /\ Saves(r, 0)
Recreate(r) ==
    /\ Unhealthy(r) /\ Failures(r) >= RecreateAt
    /\ ~(Here(r) = Weaviate /\ Failures(r) >= WipeAt)
    /\ Saves(r, Failures(r))
\* a restart loop is recreated at once
BreakLoop(r) ==
    /\ Heals(r) /\ state[Here(r)] = "looping" /\ Failures(r) < RecreateAt
    /\ Saves(r, Failures(r))
\* also when it is well again by now
RestartContainer(r) ==
    /\ Heals(r)
    /\ \/ state[Here(r)] = "well"
       \/ state[Here(r)] = "unhealthy" /\ Failures(r) < RecreateAt
    /\ Saves(r, Failures(r))

\* The exception of docker() ends the run; what it counted last is lost.
Timeout(r) ==
    /\ "timeout" \in hitch /\ Heals(r)
    /\ at' = [at EXCEPT ![r] = 0]
    /\ found' = [found EXCEPT ![r] = FALSE]
    /\ mine' = [mine EXCEPT ![r] = NoFailures]
    /\ UNCHANGED <<hitch, state, saved, streak>>

\* after the check of the backend's own answer, which keeps no count
End(r) ==
    /\ at[r] = Len(Containers) + 1
    /\ at' = [at EXCEPT ![r] = 0]
    /\ mine' = [mine EXCEPT ![r] = NoFailures]
    /\ UNCHANGED <<hitch, state, saved, found, streak>>

WatchNext ==
    \/ \E c \in ContainerNames : Turns(c)
    \/ \E r \in Runs :
          \/ Begin(r) \/ FindWell(r) \/ FindBad(r)
          \/ Up(r) \/ Wipe(r) \/ Recreate(r) \/ BreakLoop(r) \/ RestartContainer(r)
          \/ Timeout(r) \/ End(r)

WatchSpec == WatchInit /\ [][WatchNext]_watchVars

(***************************************************************************)
(* Properties                                                              *)
(***************************************************************************)
\* The last resort is one: the volume of Weaviate is wiped, and a container recreated for
\* being unhealthy, only after as many checks in a row that found it not well, even if
\* earlier runs died; but not where runs overlap, when the file of one undoes what another
\* counted.
HealingEarned ==
    [][\A r \in Runs : "overlap" \notin hitch =>
          /\ Wipe(r) => streak[Here(r)] >= WipeAt
          /\ Recreate(r) => streak[Here(r)] >= RecreateAt]_watchVars
=============================================================================
