------------------------- MODULE BuildRegistryProofs -------------------------
(***************************************************************************)
(* What the build registry promises to a rollback, for any number of       *)
(* threads and builds: ParentRestorable under every fault, OneActive where *)
(* operations do not overlap, and RollbackAgrees, that graph and           *)
(* collection follow the rows back, where nothing fails either.            *)
(***************************************************************************)
EXTENDS BuildRegistry, FiniteSetTheorems, WellFoundedInduction, TLAPS

Done == {"active", "superseded", "rolled_back"}
Statuses == {"none", "building"} \cup Done
Building == {"looked", "filling", "built", "committing"}
Undoing == {"picked", "checked", "marked", "half"}

RegType ==
    /\ faults \in DOMAIN Bound
    /\ used \in 0 .. MaxBuilds
    /\ status \in [Builds -> Statuses]
    /\ parent \in [Builds -> {NoBuild} \cup Builds]
    /\ stamp \in [Builds -> 0 .. MaxBuilds + 1]
    /\ DOMAIN op = Threads
    /\ \A t \in Threads : op[t].at \in {"idle"} \cup Building \cup Undoing
\* A thread builds what nobody else does, and its row is where the thread is.
Owned ==
    /\ \A b \in Builds : b > used => status[b] = "none"
    /\ \A t \in Threads : op[t].at \in Building =>
          /\ op[t].build \in 1 .. used
          /\ op[t].at = "looked" => status[op[t].build] = "none"
          /\ op[t].at = "filling" => status[op[t].build] \in {"none", "building"}
          /\ op[t].at \in {"built", "committing"} => status[op[t].build] = "building"
    /\ \A t, u \in Threads :
          op[t].at \in Building /\ op[u].at \in Building /\ op[t].build = op[u].build => t = u
\* What is rolled back has completed, and so has the parent a build is about to get.
Completed ==
    \A t \in Threads :
        /\ op[t].at \in Undoing => op[t].build \in Builds /\ status[op[t].build] \in Done
        /\ op[t].at = "looked" /\ op[t].base # NoBuild =>
              /\ op[t].base \in Builds /\ op[t].base < op[t].build
              /\ status[op[t].base] \in Done
RowInv == RegType /\ Owned /\ Completed /\ ParentRestorable

(***************************************************************************)
(* The active build                                                        *)
(***************************************************************************)
Below == {p \in Nat \X Nat : p[1] < p[2]}

\* A set of natural numbers has a least element.
LEMMA Least == ASSUME NEW T \in SUBSET Nat, T # {} PROVE \E x \in T : \A y \in T : x <= y
<1>1. IsWellFoundedOn(Below, Nat)
    BY NatLessThanWellFounded DEF OpToRel, Below
<1>2. PICK x \in T : \A y \in T : ~(<<y, x>> \in Below)
    BY <1>1, WFMin
<1>3. ASSUME NEW y \in T PROVE x <= y
  <2>1. x \in Nat /\ y \in Nat /\ <<y, x>> \in Nat \X Nat
      OBVIOUS
  <2>2. ~(<<y, x>>[1] < <<y, x>>[2])
      BY <1>2, <2>1 DEF Below
  <2>3. QED BY <2>1, <2>2
<1>4. QED BY <1>3

\* get_active_build finds an active row if there is one.
LEMMA ActiveFound == RegType => GetActive = NoBuild \/ GetActive \in Ranked
<1> SUFFICES ASSUME RegType, Ranked # {} PROVE GetActive \in Ranked
    BY DEF GetActive
<1> DEFINE Left == {MaxBuilds + 1 - stamp[b] : b \in Ranked}
<1>1. \A b \in Ranked : stamp[b] \in 0 .. MaxBuilds + 1
    BY DEF RegType, Ranked
<1>2. Left \in SUBSET Nat /\ Left # {}
    BY <1>1, RegistryAssumption
<1>3. PICK x \in Left : \A y \in Left : x <= y
    BY <1>2, Least
<1>4. PICK b \in Ranked : x = MaxBuilds + 1 - stamp[b]
    OBVIOUS
<1>5. ASSUME NEW c \in Ranked PROVE stamp[c] <= stamp[b]
  <2>1. MaxBuilds + 1 - stamp[b] <= MaxBuilds + 1 - stamp[c]
      BY <1>3, <1>4
  <2>2. stamp[b] \in 0 .. MaxBuilds + 1 /\ stamp[c] \in 0 .. MaxBuilds + 1 /\ MaxBuilds \in Nat
      BY <1>1, RegistryAssumption
  <2>3. QED BY <2>1, <2>2
<1>6. QED BY <1>4, <1>5 DEF GetActive

\* The rank of a completion is within the number of builds.
LEMMA StampsBounded == 1 + Cardinality({b \in Builds : stamp[b] > 0}) \in 0 .. MaxBuilds + 1
<1>1. IsFiniteSet(Builds) /\ Cardinality(Builds) = MaxBuilds
    BY FS_Interval, RegistryAssumption DEF Builds
<1>2. /\ Cardinality({b \in Builds : stamp[b] > 0}) <= Cardinality(Builds)
      /\ IsFiniteSet({b \in Builds : stamp[b] > 0})
    BY <1>1, FS_Subset
<1>3. Cardinality({b \in Builds : stamp[b] > 0}) \in Nat
    BY <1>2, FS_CardinalityType
<1>4. QED BY <1>1, <1>2, <1>3, RegistryAssumption

LEMMA OpStops ==
    ASSUME DOMAIN op = Threads, NEW t \in Threads, Stop(t)
    PROVE  /\ DOMAIN op' = Threads /\ op'[t].at = "idle"
           /\ \A u \in Threads \ {t} : op'[u] = op[u]
BY DEF Stop, Idle

LEMMA OpGoes ==
    ASSUME DOMAIN op = Threads, NEW t \in Threads, NEW at, Go(t, at)
    PROVE  /\ DOMAIN op' = Threads /\ op'[t].at = at /\ op'[t].build = op[t].build
           /\ \A u \in Threads \ {t} : op'[u] = op[u]
BY DEF Go

(***************************************************************************)
(* The rows                                                                *)
(***************************************************************************)
LEMMA OwnBuild ==
    ASSUME RowInv, NEW t \in Threads, op[t].at \in Building
    PROVE  /\ op[t].build \in Builds /\ op[t].build \in 1 .. used
           /\ status[op[t].build] \in {"none", "building"}
<1>1. 1 .. used \subseteq Builds
    BY RegistryAssumption DEF RowInv, RegType, Builds
<1>2. op[t].build \in 1 .. used /\ status[op[t].build] \in {"none", "building"}
    BY DEF RowInv, Owned, Building
<1>3. QED BY <1>1, <1>2

\* A thread that stops, and nothing else of the rows changes.
LEMMA Stopped ==
    ASSUME RowInv, NEW t \in Threads, Stop(t), UNCHANGED <<faults, used, status, parent, stamp>>
    PROVE  RowInv'
<1>1. /\ DOMAIN op' = Threads /\ op'[t].at = "idle"
      /\ \A u \in Threads \ {t} : op'[u] = op[u]
    BY DEF RowInv, RegType, Stop, Idle
<1>2. RegType'
    BY <1>1 DEF RowInv, RegType, Builds
<1>3. Owned' /\ Completed'
    BY <1>1 DEF RowInv, Owned, Completed, Builds, Building, Undoing
<1>4. ParentRestorable'
    BY DEF RowInv, ParentRestorable, Builds
<1>5. QED BY <1>2, <1>3, <1>4 DEF RowInv

\* A thread that goes on to another place of the same kind.
LEMMA WentOn ==
    ASSUME RowInv, NEW t \in Threads, NEW at, Go(t, at),
           UNCHANGED <<faults, used, status, parent, stamp>>,
           \/ op[t].at \in Undoing /\ at \in Undoing
           \/ op[t].at = "looked" /\ at = "filling"
           \/ op[t].at = "filling" /\ at = "built" /\ status[op[t].build] # "none"
    PROVE  RowInv'
<1>1. /\ DOMAIN op' = Threads /\ op'[t].at = at /\ op'[t].build = op[t].build
      /\ op'[t].base = op[t].base
      /\ \A u \in Threads \ {t} : op'[u] = op[u]
    BY DEF RowInv, RegType, Go
<1>2. RegType'
    BY <1>1 DEF RowInv, RegType, Builds, Building, Undoing
<1>3. Owned'
    BY <1>1 DEF RowInv, Owned, Builds, Building, Undoing
<1>4. Completed'
    BY <1>1 DEF RowInv, Completed, Builds, Building, Undoing
<1>5. ParentRestorable'
    BY DEF RowInv, ParentRestorable, Builds
<1>6. QED BY <1>2, <1>3, <1>4, <1>5 DEF RowInv

LEMMA Looks ==
    ASSUME RowInv, NEW t \in Threads, NEW k \in Kinds, Look(t, k)
    PROVE  RowInv'
<1>1. /\ used' = used + 1 /\ used' \in 1 .. MaxBuilds
      /\ UNCHANGED <<faults, status, parent, stamp>>
  <2>1. Bound[faults] \in 0 .. MaxBuilds /\ used \in Nat /\ MaxBuilds \in Nat
      BY RegistryAssumption DEF RowInv, RegType
  <2>2. QED BY <2>1 DEF Look, rows
<1>2. /\ DOMAIN op' = Threads
      /\ op'[t].at = "looked" /\ op'[t].build = used + 1 /\ op'[t].base = GetActive
      /\ \A u \in Threads \ {t} : op'[u] = op[u]
    BY DEF RowInv, RegType, Look, Idle
<1>3. RegType'
    BY <1>1, <1>2 DEF RowInv, RegType, Builds, Building
<1>4. Owned'
  <2>1. used \in Nat /\ used + 1 \in Builds /\ status[used + 1] = "none"
      BY <1>1 DEF RowInv, RegType, Owned, Builds
  <2>2. \A b \in Builds : b > used' => status'[b] = "none"
      BY <1>1, <2>1 DEF RowInv, Owned, Builds
  <2>3. \A u \in Threads \ {t} : op[u].at \in Building =>
            op[u].build \in 1 .. used' /\ op[u].build # used + 1
      BY <1>1, <2>1 DEF RowInv, Owned
  <2>4. QED BY <1>1, <1>2, <2>1, <2>2, <2>3 DEF RowInv, Owned, Building
<1>5. Completed'
  <2>1. GetActive = NoBuild \/ (GetActive \in Builds /\ status[GetActive] = "active")
      BY ActiveFound DEF RowInv, Ranked
  <2>2. GetActive # NoBuild => GetActive <= used
      BY <2>1 DEF RowInv, RegType, Owned, Builds
  <2>3. GetActive # NoBuild => GetActive < used + 1
      BY <2>1, <2>2 DEF RowInv, RegType, Builds
  <2>4. QED BY <1>1, <1>2, <2>1, <2>3 DEF RowInv, Completed, Done, Building, Undoing
<1>6. ParentRestorable'
    BY <1>1 DEF RowInv, ParentRestorable
<1>7. QED BY <1>3, <1>4, <1>5, <1>6 DEF RowInv

LEMMA Registers ==
    ASSUME RowInv, NEW t \in Threads, Register(t)
    PROVE  RowInv'
<1> DEFINE b == op[t].build
           p == op[t].base
<1>1. b \in Builds /\ b \in 1 .. used /\ status[b] = "none" /\ op[t].at = "looked"
  <2>1. op[t].at = "looked" /\ op[t].at \in Building
      BY DEF Register, Building
  <2>2. QED BY <2>1, OwnBuild DEF RowInv, Owned
<1>2. /\ status' = [status EXCEPT ![b] = "building"]
      /\ parent' = [parent EXCEPT ![b] = p]
      /\ UNCHANGED <<faults, used, stamp>>
    BY DEF Register
<1>3. /\ DOMAIN op' = Threads /\ op'[t].at \in {"filling", "built"}
      /\ op'[t].build = b
      /\ \A u \in Threads \ {t} : op'[u] = op[u]
    BY DEF RowInv, RegType, Register, Go
<1>4. p = NoBuild \/ (p \in Builds /\ p < b /\ status[p] \in Done)
    BY <1>1 DEF RowInv, Completed
<1>5. RegType'
    BY <1>1, <1>2, <1>3, <1>4 DEF RowInv, RegType, Builds, Statuses, Building
<1>6. \A c \in Builds \ {b} : status'[c] = status[c]
    BY <1>1, <1>2 DEF RowInv, RegType
<1>7. status'[b] = "building"
    BY <1>1, <1>2 DEF RowInv, RegType
<1>8. Owned'
  <2>1. \A c \in Builds : c > used' => status'[c] = "none"
    <3>1. ASSUME NEW c \in Builds, c > used PROVE status'[c] = "none"
      <4>1. c # b /\ status[c] = "none"
          BY <1>1, <3>1 DEF RowInv, RegType, Owned, Builds
      <4>2. QED BY <1>6, <4>1
    <3>2. QED BY <1>2, <3>1
  <2>2. \A u \in Threads \ {t} : op[u].at \in Building =>
            op[u].build \in Builds \ {b}
      BY <1>1, OwnBuild DEF RowInv, Owned, Building
  <2>3. QED BY <1>1, <1>2, <1>3, <1>6, <1>7, <2>1, <2>2 DEF RowInv, Owned, Building
<1>9. \A c \in Builds : status[c] \in Done => status'[c] = status[c]
    BY <1>1, <1>6 DEF Done
<1>10. Completed'
    BY <1>3, <1>9 DEF RowInv, Completed, Done, Undoing
<1>11. ParentRestorable'
    BY <1>1, <1>2, <1>4, <1>9 DEF RowInv, RegType, ParentRestorable, Done
<1>12. QED BY <1>5, <1>8, <1>10, <1>11 DEF RowInv

\* The rows change among those completed, a build that becomes active aside.
LEMMA Restated ==
    ASSUME RowInv, NEW t \in Threads, NEW b \in Builds,
           status' \in [Builds -> Statuses],
           \A c \in Builds \ {b} : status'[c] = status[c]
                                   \/ (status[c] \in Done /\ status'[c] \in Done),
           status'[b] \in Done,
           status[b] \in Done \/ (op[t].at = "committing" /\ op[t].build = b),
           DOMAIN op' = Threads,
           \A u \in Threads \ {t} : op'[u] = op[u],
           \/ op'[t].at = "idle"
           \/ status[b] \in Done /\ op'[t].at \in Undoing /\ op'[t].build = b,
           UNCHANGED <<faults, used, parent, stamp>>
    PROVE  RowInv'
<1>1. RegType'
    BY DEF RowInv, RegType, Builds, Building, Undoing
<1>2. \A c \in Builds : status[c] \in Done => status'[c] \in Done
    OBVIOUS
<1>3. \A u \in Threads \ {t} : op[u].at \in Building =>
          op[u].build \in Builds \ {b} /\ status'[op[u].build] = status[op[u].build]
  <2> SUFFICES ASSUME NEW u \in Threads \ {t}, op[u].at \in Building
               PROVE  op[u].build \in Builds \ {b} /\ status'[op[u].build] = status[op[u].build]
      OBVIOUS
  <2>1. op[u].build \in Builds /\ status[op[u].build] \in {"none", "building"}
      BY OwnBuild
  <2>2. op[u].build # b
      BY <2>1 DEF RowInv, Owned, Building, Done
  <2>3. QED BY <2>1, <2>2 DEF Done
<1>4. \A c \in Builds : c > used => status'[c] = "none"
    BY DEF RowInv, RegType, Owned, Builds, Building, Done
<1>5. Owned'
    BY <1>3, <1>4 DEF RowInv, Owned, Building, Undoing
<1>6. Completed'
    BY <1>2 DEF RowInv, Completed, Undoing
<1>7. ParentRestorable'
    BY <1>2 DEF RowInv, RegType, ParentRestorable, Done, NoBuild
<1>8. QED BY <1>1, <1>5, <1>6, <1>7 DEF RowInv

LEMMA Supersedes ==
    ASSUME RowInv, NEW t \in Threads, Supersede(t)
    PROVE  RowInv'
<1>1. /\ DOMAIN op' = Threads /\ op'[t].at = "committing" /\ op'[t].build = op[t].build
      /\ \A u \in Threads \ {t} : op'[u] = op[u]
      /\ op[t].at = "built"
      /\ UNCHANGED <<faults, used, status, parent>>
    BY DEF RowInv, RegType, Supersede
<1>2. stamp' \in [Builds -> 0 .. MaxBuilds + 1]
    BY StampsBounded DEF RowInv, RegType, Supersede
<1>3. RegType'
    BY <1>1, <1>2 DEF RowInv, RegType, Builds, Building
<1>4. Owned' /\ Completed'
    BY <1>1 DEF RowInv, Owned, Completed, Builds, Building, Undoing
<1>5. ParentRestorable'
    BY <1>1 DEF RowInv, ParentRestorable, Builds
<1>6. QED BY <1>3, <1>4, <1>5 DEF RowInv

LEMMA Completes ==
    ASSUME RowInv, NEW t \in Threads, Complete(t)
    PROVE  RowInv'
<1> DEFINE b == op[t].build
<1>1. b \in Builds /\ op[t].at = "committing"
    BY OwnBuild DEF Complete, Building
<1>2. /\ status' \in [Builds -> Statuses] /\ status'[b] \in Done
      /\ \A c \in Builds \ {b} : status'[c] = status[c]
                                \/ (status[c] \in Done /\ status'[c] \in Done)
    BY <1>1 DEF RowInv, RegType, Complete, Statuses, Done
<1>3. /\ DOMAIN op' = Threads /\ op'[t].at = "idle"
      /\ \A u \in Threads \ {t} : op'[u] = op[u]
      /\ UNCHANGED <<faults, used, parent, stamp>>
  <2>1. Stop(t) /\ UNCHANGED <<faults, used, parent, stamp>>
      BY DEF Complete
  <2>2. QED BY <2>1, OpStops DEF RowInv, RegType
<1>4. QED BY <1>1, <1>2, <1>3, Restated

LEMMA MarksRolledBack ==
    ASSUME RowInv, NEW t \in Threads, MarkRolledBack(t)
    PROVE  RowInv'
<1> DEFINE b == op[t].build
<1>1. b \in Builds /\ status[b] \in Done
    BY DEF RowInv, Completed, MarkRolledBack, Undoing
<1>2. /\ status' \in [Builds -> Statuses] /\ status'[b] \in Done
      /\ \A c \in Builds \ {b} : status'[c] = status[c]
                                \/ (status[c] \in Done /\ status'[c] \in Done)
    BY <1>1 DEF RowInv, RegType, MarkRolledBack, Statuses, Done
<1>3. /\ DOMAIN op' = Threads
      /\ op'[t].at = "idle" \/ (op'[t].at \in Undoing /\ op'[t].build = b)
      /\ \A u \in Threads \ {t} : op'[u] = op[u]
      /\ UNCHANGED <<faults, used, parent, stamp>>
  <2>1. (Stop(t) \/ Go(t, "marked")) /\ UNCHANGED <<faults, used, parent, stamp>>
      BY DEF MarkRolledBack
  <2>2. QED BY <2>1, OpStops, OpGoes DEF RowInv, RegType, Undoing
<1>4. QED BY <1>1, <1>2, <1>3, Restated

LEMMA Picks ==
    ASSUME RowInv, NEW t \in Threads, PickRollback(t)
    PROVE  RowInv'
<1>1. GetActive \in Builds /\ status[GetActive] \in Done
    BY ActiveFound DEF RowInv, PickRollback, Ranked, Done
<1>2. /\ DOMAIN op' = Threads /\ op'[t].at = "picked" /\ op'[t].build = GetActive
      /\ \A u \in Threads \ {t} : op'[u] = op[u]
      /\ UNCHANGED <<faults, used, status, parent, stamp>>
    BY DEF RowInv, RegType, PickRollback, rows, Idle
<1>3. RegType'
    BY <1>2 DEF RowInv, RegType, Builds, Undoing
<1>4. Owned' /\ Completed'
    BY <1>1, <1>2 DEF RowInv, Owned, Completed, Builds, Building, Undoing
<1>5. ParentRestorable'
    BY <1>2 DEF RowInv, ParentRestorable, Builds
<1>6. QED BY <1>3, <1>4, <1>5 DEF RowInv

\* The process restarts, or a step changes nothing of the rows but scores.
LEMMA RowsKept ==
    ASSUME RowInv, UNCHANGED <<faults, used, status, parent, stamp>>,
           UNCHANGED op \/ op' = [t \in Threads |-> Idle]
    PROVE  RowInv'
<1>1. DOMAIN op' = Threads /\ \A t \in Threads : op'[t] = op[t] \/ op'[t].at = "idle"
    BY DEF RowInv, RegType, Idle
<1>2. RegType'
    BY <1>1 DEF RowInv, RegType, Builds
<1>3. Owned'
    BY <1>1 DEF RowInv, Owned, Builds, Building
<1>4. Completed'
    BY <1>1 DEF RowInv, Completed, Builds, Undoing
<1>5. ParentRestorable'
    BY DEF RowInv, ParentRestorable, Builds
<1>6. QED BY <1>2, <1>3, <1>4, <1>5 DEF RowInv

LEMMA RowInit == Init => RowInv
BY RegistryAssumption
   DEF Init, RowInv, RegType, Owned, Completed, ParentRestorable, Builds, NoBuild, Statuses,
       Building, Undoing, Idle

LEMMA RowStep == RowInv /\ [Next]_regVars => RowInv'
<1> SUFFICES ASSUME RowInv, [Next]_regVars PROVE RowInv'
    OBVIOUS
<1>1. ASSUME NEW t \in Threads, NEW k \in Kinds, Look(t, k) PROVE RowInv'
    BY <1>1, Looks
<1>2. ASSUME NEW t \in Threads, BuildStep(t) PROVE RowInv'
  <2>1. CASE Register(t)
      BY <2>1, Registers
  <2>2. CASE RegisterFails(t)
      BY <2>2, Stopped, WentOn DEF RegisterFails, rows
  <2>3. CASE SwapGraph(t)
      BY <2>3, Stopped, WentOn DEF SwapGraph, rows
  <2>4. CASE Supersede(t)
      BY <2>4, Supersedes
  <2>5. CASE Complete(t)
      BY <2>5, Completes
  <2>6. CASE BuildFails(t)
      BY <2>6, Stopped DEF BuildFails, rows
  <2>7. QED BY <1>2, <2>1, <2>2, <2>3, <2>4, <2>5, <2>6 DEF BuildStep
<1>3. ASSUME NEW t \in Threads, PickRollback(t) PROVE RowInv'
    BY <1>3, Picks
<1>4. ASSUME NEW t \in Threads, RollbackStep(t) PROVE RowInv'
  <2>1. CASE CheckRollback(t)
      BY <2>1, Stopped, WentOn DEF CheckRollback, rows, Undoing
  <2>2. CASE MarkRolledBack(t)
      BY <2>2, MarksRolledBack
  <2>3. CASE RollbackCollection(t)
      BY <2>3, WentOn DEF RollbackCollection, rows, Undoing
  <2>4. CASE RollbackGraph(t) \/ RollbackFails(t)
      BY <2>4, Stopped DEF RollbackGraph, RollbackFails, rows
  <2>5. QED BY <1>4, <2>1, <2>2, <2>3, <2>4 DEF RollbackStep
<1>5. CASE Upload
    BY <1>5, RowsKept DEF Upload, UploadDone, UploadFails, rows
<1>6. ASSUME NEW q \in Scores, Evaluate(q) PROVE RowInv'
    BY <1>6, RowsKept DEF Evaluate
<1>7. CASE Restart
    BY <1>7, RowsKept DEF Restart, rows
<1>8. CASE UNCHANGED regVars
    BY <1>8, RowsKept DEF regVars, rows
<1>9. QED BY <1>1, <1>2, <1>3, <1>4, <1>5, <1>6, <1>7, <1>8 DEF Next

\* A build's parent has completed and can be made active again, whatever builds, rollbacks,
\* failures and restarts overlap: the check of rollback_build (build_registry.py:241) for a
\* parent in another state never fails.
THEOREM ParentsRestorable == Spec => []ParentRestorable
<1>1. RowInv => ParentRestorable
    BY DEF RowInv
<1>2. QED BY RowInit, RowStep, <1>1, PTL DEF Spec

(***************************************************************************)
(* One at a time                                                           *)
(***************************************************************************)
\* One thread is at work, it supersedes what is active, it rolls back the active build.
AlreadyOne == \A b, c \in Ranked : b = c
Serial ==
    "overlap" \notin faults =>
        /\ \A t, u \in Threads : op[t].at # "idle" /\ op[u].at # "idle" => t = u
        /\ AlreadyOne
        /\ \A t \in Threads : op[t].at = "committing" => Ranked \subseteq op[t].seen
        /\ \A t \in Threads : op[t].at \in {"picked", "checked"} => Ranked = {op[t].build}
OneInv == RowInv /\ Serial

\* A thread at work goes on or stops, and the active rows stay as they are.
LEMMA SerialGoes ==
    ASSUME OneInv, NEW t \in Threads, UNCHANGED <<faults, status>>,
           op[t].at # "idle" \/ ("overlap" \notin faults => \A u \in Threads : op[u].at = "idle"),
           \A u \in Threads \ {t} : op'[u] = op[u],
           op'[t].at = "committing" => Ranked \subseteq op'[t].seen,
           op'[t].at \in {"picked", "checked"} =>
               \/ op[t].at \in {"picked", "checked"} /\ op'[t].build = op[t].build
               \/ op'[t].build \in Ranked
    PROVE  Serial'
<1> SUFFICES ASSUME "overlap" \notin faults PROVE Serial'
    BY DEF Serial
<1>1. Ranked' = Ranked
    BY DEF Ranked, Builds
<1>2. \A u, v \in Threads : op'[u].at # "idle" /\ op'[v].at # "idle" => u = v
    BY DEF OneInv, Serial
<1>3. AlreadyOne'
    BY <1>1 DEF OneInv, Serial, AlreadyOne
<1>4. \A u \in Threads : op'[u].at = "committing" => Ranked' \subseteq op'[u].seen
    BY <1>1 DEF OneInv, Serial
<1>5. \A u \in Threads : op'[u].at \in {"picked", "checked"} => Ranked' = {op'[u].build}
    BY <1>1 DEF OneInv, Serial, AlreadyOne
<1>6. QED BY <1>2, <1>3, <1>4, <1>5 DEF Serial

LEMMA SerialCompletes ==
    ASSUME OneInv, NEW t \in Threads, Complete(t)
    PROVE  Serial'
<1> SUFFICES ASSUME "overlap" \notin faults PROVE Serial'
    BY DEF Serial, Complete
<1>1. op[t].at = "committing" /\ Ranked \subseteq op[t].seen
    BY DEF Complete, OneInv, Serial
<1>2. \A u \in Threads : op'[u].at = "idle"
  <2>1. Stop(t)
      BY DEF Complete
  <2>2. QED BY <1>1, <2>1 DEF OneInv, RowInv, RegType, Serial, Stop, Idle
<1>3. \A c \in Builds : status'[c] = "active" => c = op[t].build
    BY <1>1 DEF Complete, Ranked
<1>4. AlreadyOne'
    BY <1>3 DEF AlreadyOne, Ranked, Builds
<1>5. QED BY <1>2, <1>4 DEF Serial

LEMMA SerialMarks ==
    ASSUME OneInv, NEW t \in Threads, MarkRolledBack(t)
    PROVE  Serial'
<1> SUFFICES ASSUME "overlap" \notin faults PROVE Serial'
    BY DEF Serial, MarkRolledBack
<1>1. op[t].at = "checked" /\ Ranked = {op[t].build}
    BY DEF MarkRolledBack, OneInv, Serial
<1>2. /\ \A u \in Threads \ {t} : op'[u] = op[u]
      /\ op'[t].at \in {"idle", "marked"}
    BY OpStops, OpGoes DEF MarkRolledBack, OneInv, RowInv, RegType
<1>3. \A u, v \in Threads : op'[u].at # "idle" /\ op'[v].at # "idle" => u = v
    BY <1>1, <1>2 DEF OneInv, Serial
<1>4. \A u \in Threads : op'[u].at \in {"idle", "marked"}
    BY <1>1, <1>2 DEF OneInv, Serial
<1>5. \A c \in Builds : status'[c] = "active" => c = parent[op[t].build]
    BY <1>1 DEF MarkRolledBack, Ranked
<1>6. AlreadyOne'
    BY <1>5 DEF AlreadyOne, Ranked, Builds
<1>7. QED BY <1>3, <1>4, <1>6 DEF Serial

LEMMA SerialStep == OneInv /\ [Next]_regVars => Serial'
<1> SUFFICES ASSUME OneInv, [Next]_regVars PROVE Serial'
    OBVIOUS
<1>0. DOMAIN op = Threads
    BY DEF OneInv, RowInv, RegType
<1>1. ASSUME NEW t \in Threads, NEW k \in Kinds, Look(t, k) PROVE Serial'
  <2>1. /\ \A u \in Threads \ {t} : op'[u] = op[u]
        /\ op'[t].at = "looked" /\ UNCHANGED <<faults, status>>
      BY <1>0, <1>1 DEF Look, Idle, rows
  <2>2. "overlap" \notin faults => \A u \in Threads : op[u].at = "idle"
      BY <1>1 DEF Look, Free, Idle
  <2>3. QED BY <2>1, <2>2, SerialGoes
<1>2. ASSUME NEW t \in Threads, BuildStep(t) PROVE Serial'
  <2>1. CASE Register(t) \/ RegisterFails(t) \/ SwapGraph(t) \/ BuildFails(t)
    <3>1. op[t].at # "idle" /\ UNCHANGED faults
        BY <2>1 DEF Register, RegisterFails, SwapGraph, BuildFails
    <3>2. /\ \A u \in Threads \ {t} : op'[u] = op[u]
          /\ op'[t].at \in {"idle", "filling", "built"}
        BY <1>0, <2>1, OpStops, OpGoes DEF Register, RegisterFails, SwapGraph, BuildFails
    <3>3. CASE UNCHANGED status
        BY <3>1, <3>2, <3>3, SerialGoes
    <3>4. CASE Register(t)
      <4>1. Ranked' = Ranked
        <5>1. op[t].build \in Builds /\ status[op[t].build] = "none"
            BY <3>4, OwnBuild DEF Register, Building, OneInv, RowInv, Owned
        <5>2. QED BY <3>4, <5>1 DEF Register, Ranked, Builds, OneInv, RowInv, RegType
      <4>2. QED BY <3>1, <3>2, <4>1 DEF OneInv, Serial, AlreadyOne
    <3>5. QED BY <2>1, <3>3, <3>4 DEF RegisterFails, SwapGraph, BuildFails, rows
  <2>2. CASE Supersede(t)
    <3>1. op[t].build \notin Ranked
        BY <2>2 DEF Supersede, OneInv, RowInv, Owned, Building, Ranked
    <3>2. /\ \A u \in Threads \ {t} : op'[u] = op[u]
          /\ op'[t].at = "committing" /\ op'[t].seen = Ranked
          /\ op[t].at # "idle" /\ UNCHANGED <<faults, status>>
        BY <1>0, <2>2, <3>1 DEF Supersede
    <3>3. QED BY <3>2, SerialGoes
  <2>3. CASE Complete(t)
      BY <2>3, SerialCompletes
  <2>4. QED BY <1>2, <2>1, <2>2, <2>3 DEF BuildStep
<1>3. ASSUME NEW t \in Threads, PickRollback(t) PROVE Serial'
  <2>1. GetActive \in Ranked
      BY <1>3, ActiveFound DEF PickRollback, OneInv, RowInv
  <2>2. /\ \A u \in Threads \ {t} : op'[u] = op[u]
        /\ op'[t].at = "picked" /\ op'[t].build = GetActive
        /\ UNCHANGED <<faults, status>>
      BY <1>0, <1>3 DEF PickRollback, Idle, rows
  <2>3. "overlap" \notin faults => \A u \in Threads : op[u].at = "idle"
      BY <1>3 DEF PickRollback, Free, Idle
  <2>4. QED BY <2>1, <2>2, <2>3, SerialGoes
<1>4. ASSUME NEW t \in Threads, RollbackStep(t) PROVE Serial'
  <2>1. CASE MarkRolledBack(t)
      BY <2>1, SerialMarks
  <2>2. CASE CheckRollback(t) \/ RollbackCollection(t) \/ RollbackGraph(t) \/ RollbackFails(t)
    <3>1. op[t].at # "idle" /\ UNCHANGED <<faults, status>>
        BY <2>2 DEF CheckRollback, RollbackCollection, RollbackGraph, RollbackFails, rows
    <3>2. /\ \A u \in Threads \ {t} : op'[u] = op[u]
          /\ op'[t].at \in {"idle", "checked", "half"}
          /\ op'[t].at = "checked" => op[t].at = "picked" /\ op'[t].build = op[t].build
        BY <1>0, <2>2, OpStops, OpGoes
           DEF CheckRollback, RollbackCollection, RollbackGraph, RollbackFails
    <3>3. QED BY <3>1, <3>2, SerialGoes
  <2>3. QED BY <1>4, <2>1, <2>2 DEF RollbackStep
<1>5. CASE Upload \/ Restart \/ UNCHANGED regVars \/ \E q \in Scores : Evaluate(q)
  <2>1. /\ UNCHANGED <<faults, status>>
        /\ \A t \in Threads : op'[t] = op[t] \/ op'[t].at = "idle"
      BY <1>5 DEF Upload, UploadDone, UploadFails, Restart, Evaluate, regVars, rows, Idle
  <2>2. Ranked' = Ranked
      BY <2>1 DEF Ranked, Builds
  <2>3. QED BY <2>1, <2>2 DEF OneInv, Serial, AlreadyOne
<1>6. QED BY <1>1, <1>2, <1>3, <1>4, <1>5 DEF Next

\* One at a time, operations leave at most one active build, whatever fails, is rolled back
\* or restarted in between, for any number of builds.
THEOREM AtMostOneActive == Spec => []OneActive
<1>1. Init => OneInv
  <2>1. Init => Serial
      BY DEF Init, Serial, AlreadyOne, Ranked, Idle
  <2>2. QED BY <2>1, RowInit DEF OneInv
<1>2. OneInv /\ [Next]_regVars => OneInv'
    BY RowStep, SerialStep DEF OneInv
<1>3. OneInv => OneActive
    BY DEF OneInv, Serial, AlreadyOne, OneActive
<1>4. QED BY <1>1, <1>2, <1>3, PTL DEF Spec

(***************************************************************************)
(* The graph and the collection follow                                     *)
(***************************************************************************)
\* An index as its history and what it serves on top: layer 1 is from before all builds.
Depth(h) == Len(h.past) + 1
Layer(h, i) == IF i = Depth(h) THEN h.now ELSE h.past[i]
Histories(S) == [now : S, past : Seq(S)]
Push(h, x) == [now |-> x, past |-> Append(h.past, h.now)]

LEMMA Pushed ==
    ASSUME NEW S, NEW h \in Histories(S), NEW x \in S,
           NEW g, g = Push(h, x)
    PROVE  /\ g \in Histories(S)
           /\ Depth(g) = Depth(h) + 1
           /\ Layer(g, Depth(g)) = x
           /\ \A i \in 1 .. Depth(h) : Layer(g, i) = Layer(h, i)
<1>1. h.past \in Seq(S) /\ h.now \in S /\ Len(h.past) \in Nat
    BY DEF Histories
<1>2. Append(h.past, h.now) \in Seq(S) /\ Len(Append(h.past, h.now)) = Len(h.past) + 1
    BY <1>1
<1>3. g \in Histories(S) /\ Depth(g) = Depth(h) + 1 /\ g.now = x
    BY <1>2 DEF Push, Histories, Depth
<1>4. ASSUME NEW i \in 1 .. Depth(h) PROVE Layer(g, i) = Layer(h, i)
  <2>1. i # Depth(g) /\ i \in 1 .. Len(h.past) + 1
      BY <1>1, <1>3 DEF Depth
  <2>2. Append(h.past, h.now)[i] = IF i = Len(h.past) + 1 THEN h.now ELSE h.past[i]
      BY <1>1, <2>1
  <2>3. QED BY <2>1, <2>2 DEF Push, Layer, Depth
<1>5. QED BY <1>1, <1>3, <1>4 DEF Layer, Depth

LEMMA Popped ==
    ASSUME NEW S, NEW h \in Histories(S), Depth(h) >= 2,
           NEW g, g = Back(h)
    PROVE  /\ g \in Histories(S)
           /\ Depth(g) = Depth(h) - 1
           /\ g.now = Layer(h, Depth(h) - 1)
           /\ \A i \in 1 .. Depth(g) : Layer(g, i) = Layer(h, i)
<1> DEFINE n == Len(h.past)
           past == SubSeq(h.past, 1, n - 1)
<1>1. h.past \in Seq(S) /\ n \in Nat /\ n >= 1 /\ n \in 1 .. n
    BY DEF Histories, Depth
<1>2. g = [now |-> h.past[n], past |-> past]
    BY <1>1 DEF Back
<1>3. past \in Seq(S) /\ Len(past) = n - 1 /\ \A i \in 1 .. n - 1 : past[i] = h.past[i]
    BY <1>1
<1>4. g \in Histories(S) /\ Depth(g) = n
    BY <1>1, <1>2, <1>3 DEF Histories, Depth
<1>5. ASSUME NEW i \in 1 .. n PROVE Layer(g, i) = Layer(h, i)
  <2>1. i # Depth(h) /\ (i = n \/ i \in 1 .. n - 1)
      BY <1>1 DEF Depth
  <2>2. QED BY <1>2, <1>3, <1>4, <2>1 DEF Layer
<1>6. g.now = Layer(h, n) /\ Depth(h) \in Nat /\ Depth(h) - 1 = n
    BY <1>1, <1>2 DEF Layer, Depth
<1> HIDE DEF n
<1>7. QED BY <1>2, <1>4, <1>5, <1>6

LEMMA TopLayer == \A h : Layer(h, Depth(h)) = h.now
BY DEF Layer

ServedType ==
    /\ graph \in Histories(Nat)
    /\ collection \in Histories(Names)
    /\ docs \in [Names -> 0 .. used]
\* The layers of the graph are builds in the order they began, each on its parent.
Lineage ==
    /\ Layer(graph, 1) = NoBuild
    /\ \A i \in 1 .. Depth(graph) : Layer(graph, i) \in 0 .. used
    /\ \A i, j \in 1 .. Depth(graph) : i < j => Layer(graph, i) < Layer(graph, j)
    /\ \A i \in 1 .. Depth(graph) - 1 :
          parent[Layer(graph, i + 1)] \in {NoBuild, Layer(graph, i)}

\* By how many layers the graph is ahead of the collection.
Ahead(k) == Depth(graph) = Depth(collection) + k
Swapped == IF upload = NoUpload THEN Ahead(0) ELSE Ahead(1) /\ graph.now = used
Beginning ==
    /\ IF upload = NoUpload THEN Ahead(-1) ELSE Ahead(0)
    /\ graph.now < used
    /\ Ranked \subseteq {graph.now}
    /\ \A n \in Names : docs[n] = used => n = collection.now
Undone ==
    /\ upload = NoUpload
    /\ Depth(graph) >= 2 /\ Ranked \subseteq {Layer(graph, Depth(graph) - 1)}
Uploading ==
    upload # NoUpload =>
        /\ upload.build = used /\ upload.name = Twin(collection.now)
        /\ docs[upload.name] = NoBuild /\ \A n \in Names : docs[n] # used
Resting == Swapped /\ Ranked \subseteq {graph.now}
Working(t) ==
    /\ op[t].at \in {"looked", "filling"} => Beginning /\ op[t].build = used
    /\ op[t].at = "looked" => op[t].kind = "both" /\ op[t].base \in {NoBuild, graph.now}
    /\ op[t].at = "filling" =>
          parent[used] \in {NoBuild, graph.now} /\ status[used] = "building"
    /\ op[t].at \in {"built", "committing"} => Swapped /\ graph.now = used /\ op[t].build = used
    /\ op[t].at \in {"picked", "checked"} =>
          upload = NoUpload /\ Ahead(0) /\ graph.now = op[t].build
    /\ op[t].at = "marked" => Ahead(0) /\ Undone
    /\ op[t].at = "half" => Ahead(1) /\ Undone
InStep ==
    /\ Uploading
    /\ (\A t \in Threads : op[t].at = "idle") => Resting
    /\ \A t \in Threads : Working(t)

\* What a collection holds belongs to it, and the last two builds are held.
Held(b) == \E n \in Names : docs[n] = b
Placed ==
    \A n \in Names : \A i \in 1 .. Depth(graph) :
        i <= Depth(collection) /\ docs[n] = Layer(graph, i) /\ docs[n] # NoBuild
            => n = Layer(collection, i)
Kept ==
    /\ Placed
    /\ upload = NoUpload /\ used # 0 => Held(used)
    /\ \A i \in 1 .. Depth(graph) :
          Layer(graph, i) = used - 1 /\ Layer(graph, i) # NoBuild => Held(used - 1)

Plain == ServedType /\ Lineage /\ InStep /\ Kept
Quiet == OneInv /\ faults = {} /\ Plain

LEMMA QuietFacts ==
    ASSUME Quiet
    PROVE  /\ used \in Nat /\ MaxBuilds \in Nat /\ used <= MaxBuilds
           /\ Depth(graph) \in Nat /\ Depth(graph) >= 1
           /\ Depth(collection) \in Nat /\ Depth(collection) >= 1
           /\ graph.now = Layer(graph, Depth(graph)) /\ graph.now \in 0 .. used
           /\ collection.now \in Names /\ Twin(collection.now) \in Names
           /\ Twin(collection.now) # collection.now
<1>1. used \in Nat /\ MaxBuilds \in Nat /\ used <= MaxBuilds
    BY RegistryAssumption DEF Quiet, OneInv, RowInv, RegType
<1>2. /\ Depth(graph) \in Nat /\ Depth(graph) >= 1
      /\ Depth(collection) \in Nat /\ Depth(collection) >= 1
    BY DEF Quiet, Plain, ServedType, Histories, Depth
<1>3. graph.now = Layer(graph, Depth(graph))
    BY TopLayer
<1>4. Depth(graph) \in 1 .. Depth(graph)
    BY <1>2
<1>5. graph.now \in 0 .. used
    BY <1>3, <1>4 DEF Quiet, Plain, Lineage
<1>6. collection.now \in {1, 2}
    BY DEF Quiet, Plain, ServedType, Histories, Names
<1>7. QED BY <1>1, <1>2, <1>3, <1>5, <1>6 DEF Names, Twin

\* While one thread is at work the others are idle.
LEMMA Alone ==
    ASSUME Quiet, NEW t \in Threads, op[t].at # "idle" \/ Free(t),
           \A u \in Threads \ {t} : op'[u] = op[u]
    PROVE  \A u \in Threads \ {t} : op[u].at = "idle" /\ op'[u].at = "idle"
BY DEF Quiet, OneInv, Serial, Free, Idle

LEMMA StepsIn ==
    ASSUME NEW t \in Threads, \A u \in Threads \ {t} : op'[u].at = "idle",
           Uploading', op'[t].at = "idle" => Resting', Working(t)'
    PROVE  InStep'
<1>1. \A u \in Threads \ {t} : Working(u)'
    BY DEF Working
<1>2. QED BY <1>1 DEF InStep

\* Steps that touch neither index.
LEMMA Framed ==
    ASSUME Quiet, UNCHANGED <<used, parent, graph, collection, docs, upload>>
    PROVE  ServedType' /\ Lineage' /\ Kept' /\ Uploading'
           /\ (\A k : Ahead(k)' <=> Ahead(k)) /\ (Swapped' <=> Swapped)
<1>1. ServedType' /\ Uploading'
    BY DEF Quiet, Plain, ServedType, InStep, Uploading
<1>2. Depth(graph)' = Depth(graph) /\ Depth(collection)' = Depth(collection)
    BY DEF Depth
<1>3. \A i : Layer(graph, i)' = Layer(graph, i) /\ Layer(collection, i)' = Layer(collection, i)
    BY DEF Layer, Depth
<1>4. Lineage'
    BY <1>2, <1>3 DEF Quiet, Plain, Lineage
<1>5. Kept'
    BY <1>2, <1>3 DEF Quiet, Plain, Kept, Placed, Held
<1>6. \A k : Ahead(k)' <=> Ahead(k)
    BY <1>2 DEF Ahead
<1>7. QED BY <1>1, <1>4, <1>5, <1>6 DEF Swapped

LEMMA PlainLooks ==
    ASSUME Quiet, NEW t \in Threads, NEW k \in Kinds, Look(t, k)
    PROVE  Plain'
<1> DEFINE other == Twin(collection.now)
<1>1. /\ Free(t) /\ k = "both" /\ used' = used + 1
      /\ upload = NoUpload /\ \A u \in Threads : op[u].at = "idle"
      /\ UNCHANGED <<faults, status, parent, graph, collection>>
    BY DEF Quiet, Look, Free, Idle, rows
<1>2. Ahead(0) /\ Ranked \subseteq {graph.now}
    BY <1>1 DEF Quiet, Plain, InStep, Resting, Swapped
<1>3. /\ docs' = [docs EXCEPT ![other] = NoBuild]
      /\ upload' = [build |-> used', name |-> other]
  <2>1. StartUpload(used + 1)
      BY <1>1 DEF Look
  <2>2. QED BY <1>1, <2>1 DEF StartUpload
<1>4. /\ used \in Nat /\ Depth(graph) \in Nat /\ Depth(graph) >= 1 /\ Depth(collection) \in Nat
      /\ graph.now = Layer(graph, Depth(graph)) /\ graph.now \in 0 .. used
      /\ other \in Names /\ other # collection.now
    BY QuietFacts
<1> HIDE DEF other
<1>5. /\ \A i : Layer(graph', i) = Layer(graph, i) /\ Layer(collection', i) = Layer(collection, i)
      /\ Depth(graph') = Depth(graph) /\ Depth(collection') = Depth(collection)
      /\ Ranked' = Ranked
    BY <1>1 DEF Ranked
<1>6. /\ docs' \in [Names -> 0 .. used'] /\ docs'[other] = NoBuild
      /\ \A n \in Names : n # other => docs'[n] = docs[n]
      /\ \A n \in Names : docs'[n] # used'
  <2>1. docs \in [Names -> 0 .. used] /\ NoBuild \in 0 .. used
      BY <1>4 DEF Quiet, Plain, ServedType, NoBuild
  <2>2. /\ docs' \in [Names -> 0 .. used] /\ docs'[other] = NoBuild
        /\ \A n \in Names : n # other => docs'[n] = docs[n]
      BY <1>3, <1>4, <2>1
  <2>3. used' \notin 0 .. used /\ 0 .. used \subseteq 0 .. used'
      BY <1>1, <1>4
  <2>4. QED BY <2>2, <2>3
<1>7. ServedType'
    BY <1>1, <1>6 DEF Quiet, Plain, ServedType
<1>8. Lineage'
    BY <1>1, <1>4, <1>5 DEF Quiet, Plain, Lineage
<1>9. upload' # NoUpload
    BY <1>1, <1>3, <1>4 DEF NoUpload, NoBuild
<1>10. InStep'
  <2>1. /\ \A u \in Threads \ {t} : op'[u] = op[u]
        /\ op'[t].at = "looked" /\ op'[t].kind = k /\ op'[t].build = used'
        /\ op'[t].base = GetActive
      BY <1>1 DEF Quiet, OneInv, RowInv, RegType, Look, Idle
  <2>2. GetActive \in {NoBuild, graph.now}
      BY <1>2, ActiveFound DEF Quiet, OneInv, RowInv
  <2>3. Uploading'
      BY <1>1, <1>3, <1>6 DEF Uploading, other
  <2>4. Beginning'
    <3>1. Ahead(0)'
        BY <1>2, <1>5 DEF Ahead
    <3>2. graph'.now < used'
        BY <1>1, <1>4
    <3>3. QED BY <1>1, <1>2, <1>5, <1>6, <1>9, <3>1, <3>2 DEF Beginning
  <2>5. Working(t)'
      BY <1>1, <2>1, <2>2, <2>4 DEF Working
  <2>6. QED BY <1>1, <2>1, <2>3, <2>5, StepsIn
<1>11. Placed'
    BY <1>4, <1>5, <1>6 DEF Quiet, Plain, Kept, Placed
<1>12. ASSUME NEW i \in 1 .. Depth(graph), Layer(graph, i) = used, Layer(graph, i) # NoBuild
       PROVE  \E n \in Names : docs'[n] = used
  <2>1. PICK n \in Names : docs[n] = used
      BY <1>1, <1>12 DEF Quiet, Plain, Kept, Held, NoBuild
  <2>2. i = Depth(graph)
    <3>1. Depth(graph) \in 1 .. Depth(graph)
        BY <1>4
    <3>2. i < Depth(graph) => Layer(graph, i) < Layer(graph, Depth(graph))
        BY <3>1 DEF Quiet, Plain, Lineage
    <3>3. QED BY <1>4, <1>12, <3>2
  <2>3. i <= Depth(collection)
      BY <1>2, <1>4, <2>2 DEF Ahead
  <2>4. n = Layer(collection, i)
      BY <1>12, <2>1, <2>3 DEF Quiet, Plain, Kept, Placed
  <2>5. n = collection.now
      BY <1>2, <1>4, <2>2, <2>4 DEF Ahead, Layer
  <2>6. QED BY <1>4, <1>6, <2>1, <2>5
<1>13. Kept'
  <2>1. used' - 1 = used
      BY <1>1, <1>4
  <2>2. QED BY <1>5, <1>9, <1>11, <1>12, <2>1 DEF Kept, Held
<1>14. QED BY <1>7, <1>8, <1>10, <1>13 DEF Plain

LEMMA PlainRegisters ==
    ASSUME Quiet, NEW t \in Threads, Register(t)
    PROVE  Plain'
<1>1. /\ op[t].at = "looked" /\ Beginning /\ op[t].build = used
      /\ op[t].kind = "both" /\ op[t].base \in {NoBuild, graph.now}
      /\ UNCHANGED <<faults, used, graph, collection, docs, upload>>
    BY DEF Quiet, Plain, InStep, Working, Register, served
<1>2. used \in Builds /\ status[used] = "none"
    BY <1>1, OwnBuild DEF Quiet, OneInv, RowInv, Owned, Building
<1>3. /\ status' = [status EXCEPT ![used] = "building"]
      /\ parent' = [parent EXCEPT ![used] = op[t].base]
      /\ Go(t, "filling")
    BY <1>1 DEF Register
<1>4. /\ \A u \in Threads \ {t} : op'[u] = op[u]
      /\ op'[t].at = "filling" /\ op'[t].build = used
    BY <1>1, <1>3, OpGoes DEF Quiet, OneInv, RowInv, RegType
<1>5. /\ status'[used] = "building" /\ parent'[used] = op[t].base
      /\ \A b \in Builds : b # used => parent'[b] = parent[b] /\ status'[b] = status[b]
    BY <1>2, <1>3 DEF Quiet, OneInv, RowInv, RegType
<1>6. Ranked' = Ranked
    BY <1>2, <1>5 DEF Ranked
<1>7. /\ used \in Nat /\ Depth(graph) \in Nat /\ Depth(graph) >= 1 /\ MaxBuilds \in Nat
      /\ used <= MaxBuilds /\ graph.now = Layer(graph, Depth(graph)) /\ graph.now \in 0 .. used
    BY QuietFacts
<1>8. /\ \A i : Layer(graph', i) = Layer(graph, i) /\ Layer(collection', i) = Layer(collection, i)
      /\ Depth(graph') = Depth(graph) /\ Depth(collection') = Depth(collection)
    BY <1>1
<1>9. ServedType' /\ Kept' /\ Uploading'
    BY <1>1, <1>8 DEF Quiet, Plain, ServedType, Kept, Placed, Held, InStep, Uploading
<1>10. Lineage'
  <2>1. ASSUME NEW i \in 1 .. Depth(graph) - 1
        PROVE  parent'[Layer(graph, i + 1)] = parent[Layer(graph, i + 1)]
    <3>1. i \in 1 .. Depth(graph) /\ i + 1 \in 1 .. Depth(graph) /\ i < i + 1
        BY <1>7
    <3>2. Layer(graph, i) \in 0 .. used /\ Layer(graph, i + 1) \in 0 .. used
          /\ Layer(graph, i) < Layer(graph, i + 1)
        BY <3>1 DEF Quiet, Plain, Lineage
    <3>3. Layer(graph, i + 1) <= graph.now
      <4>1. Depth(graph) \in 1 .. Depth(graph)
          BY <1>7
      <4>2. i + 1 < Depth(graph) => Layer(graph, i + 1) < Layer(graph, Depth(graph))
          BY <3>1, <4>1 DEF Quiet, Plain, Lineage
      <4>3. QED BY <1>7, <3>1, <3>2, <4>2
    <3>4. graph.now < used
        BY <1>1 DEF Beginning
    <3>5. Layer(graph, i + 1) \in Builds /\ Layer(graph, i + 1) # used
      <4>1. graph.now \in 0 .. used
          BY QuietFacts
      <4>2. QED BY <1>7, <3>2, <3>3, <3>4, <4>1 DEF Builds
    <3>6. QED BY <1>5, <3>5
  <2>2. QED BY <1>1, <1>8, <2>1 DEF Quiet, Plain, Lineage
<1>11. Beginning'
    BY <1>1, <1>6, <1>8 DEF Beginning, Ahead
<1>12. Working(t)'
    BY <1>1, <1>4, <1>5, <1>11 DEF Working
<1>13. InStep'
    BY <1>1, <1>4, <1>9, <1>12, Alone, StepsIn
<1>14. QED BY <1>9, <1>10, <1>13 DEF Plain

LEMMA PlainSwaps ==
    ASSUME Quiet, NEW t \in Threads, SwapGraph(t)
    PROVE  Plain'
<1>1. /\ op[t].at = "filling" /\ Beginning /\ op[t].build = used
      /\ parent[used] \in {NoBuild, graph.now} /\ status[used] = "building"
      /\ graph' = [now |-> used, past |-> Append(graph.past, graph.now)]
      /\ UNCHANGED <<faults, used, status, parent, collection, docs, upload>>
    BY DEF Quiet, Plain, InStep, Working, SwapGraph, rows
<1>2. Go(t, "built")
    BY <1>1 DEF SwapGraph
<1>3. /\ \A u \in Threads \ {t} : op'[u] = op[u]
      /\ op'[t].at = "built" /\ op'[t].build = used
    BY <1>1, <1>2, OpGoes DEF Quiet, OneInv, RowInv, RegType
<1>4. /\ used \in Nat /\ Depth(graph) \in Nat /\ Depth(graph) >= 1 /\ Depth(collection) \in Nat
      /\ graph.now = Layer(graph, Depth(graph)) /\ graph.now \in 0 .. used
    BY QuietFacts
<1> DEFINE d == Depth(graph)
<1>5. /\ graph' \in Histories(Nat) /\ Depth(graph') = d + 1 /\ Layer(graph', d + 1) = used
      /\ \A i \in 1 .. d : Layer(graph', i) = Layer(graph, i)
  <2>1. graph \in Histories(Nat) /\ used \in Nat
      BY <1>4 DEF Quiet, Plain, ServedType
  <2>2. /\ graph' \in Histories(Nat) /\ Depth(graph') = d + 1 /\ Layer(graph', Depth(graph')) = used
        /\ \A i \in 1 .. d : Layer(graph', i) = Layer(graph, i)
    <3>1. graph' = Push(graph, used)
        BY <1>1 DEF Push
    <3> HIDE DEF d
    <3>2. /\ graph' \in Histories(Nat) /\ Depth(graph') = Depth(graph) + 1
          /\ Layer(graph', Depth(graph')) = used
          /\ \A i \in 1 .. Depth(graph) : Layer(graph', i) = Layer(graph, i)
        BY <2>1, <3>1, Pushed
    <3>3. QED BY <3>2 DEF d
  <2>3. QED BY <2>2
<1>6. graph'.now = used
    BY <1>1
<1> HIDE DEF d
<1>7. d \in Nat /\ d >= 1 /\ d = Depth(graph)
    BY <1>4 DEF d
<1>8. ServedType'
    BY <1>1, <1>5 DEF Quiet, Plain, ServedType
<1>9. Lineage'
  <2>1. \A i \in 1 .. d : Layer(graph, i) \in 0 .. used /\ Layer(graph, i) < used
    <3>1. \A i \in 1 .. d : Layer(graph, i) \in 0 .. used
        BY <1>7 DEF Quiet, Plain, Lineage
    <3>2. d \in 1 .. d /\ graph.now < used /\ graph.now = Layer(graph, d)
        BY <1>1, <1>4, <1>7 DEF Beginning
    <3>3. \A i \in 1 .. d : i < d => Layer(graph, i) < Layer(graph, d)
        BY <1>7, <3>2 DEF Quiet, Plain, Lineage
    <3>4. QED BY <1>4, <1>7, <3>1, <3>2, <3>3
  <2>2. \A i \in 1 .. d + 1 : i = d + 1 \/ i \in 1 .. d
      BY <1>7
  <2>3. Layer(graph', 1) = NoBuild
      BY <1>5, <1>7 DEF Quiet, Plain, Lineage
  <2>4. \A i \in 1 .. d + 1 : Layer(graph', i) \in 0 .. used
      BY <1>4, <1>5, <2>1, <2>2
  <2>5. ASSUME NEW i \in 1 .. d + 1, NEW j \in 1 .. d + 1, i < j
        PROVE  Layer(graph', i) < Layer(graph', j)
    <3>1. i \in 1 .. d
        BY <1>7, <2>5
    <3>2. CASE j = d + 1
        BY <1>5, <2>1, <3>1, <3>2
    <3>3. CASE j \in 1 .. d
        BY <1>5, <1>7, <2>5, <3>1, <3>3 DEF Quiet, Plain, Lineage
    <3>4. QED BY <2>2, <3>2, <3>3
  <2>6. ASSUME NEW i \in 1 .. d
        PROVE  parent[Layer(graph', i + 1)] \in {NoBuild, Layer(graph', i)}
    <3>1. CASE i = d
        BY <1>1, <1>4, <1>5, <1>7, <3>1
    <3>2. CASE i # d
      <4>1. i \in 1 .. d - 1 /\ i + 1 \in 1 .. d
          BY <1>7, <3>2
      <4>2. QED BY <1>5, <1>7, <4>1 DEF Quiet, Plain, Lineage
    <3>3. QED BY <3>1, <3>2
  <2>7. (d + 1) - 1 = d
      BY <1>7
  <2>8. QED BY <1>1, <1>5, <2>3, <2>4, <2>5, <2>6, <2>7 DEF Lineage
<1>10. Swapped'
    BY <1>1, <1>4, <1>5, <1>6, <1>7 DEF Beginning, Ahead, Swapped
<1>11. Working(t)'
    BY <1>1, <1>3, <1>6, <1>10 DEF Working
<1>12. Uploading'
    BY <1>1 DEF Quiet, Plain, InStep, Uploading
<1>13. InStep'
    BY <1>1, <1>3, <1>11, <1>12, Alone, StepsIn
<1>14. \A i \in 1 .. d + 1 : i = d + 1 \/ i \in 1 .. d
    BY <1>7
<1>15. Placed'
  <2> SUFFICES ASSUME NEW n \in Names, NEW i \in 1 .. d + 1, i <= Depth(collection),
                      docs[n] = Layer(graph', i), docs[n] # NoBuild
               PROVE  n = Layer(collection, i)
      BY <1>1, <1>5 DEF Placed
  <2>1. CASE i \in 1 .. d
      BY <1>5, <1>7, <2>1 DEF Quiet, Plain, Kept, Placed
  <2>2. CASE i = d + 1
    <3>1. Depth(collection) = d + 1
        BY <1>1, <1>4, <1>7, <2>2 DEF Beginning, Ahead
    <3>2. n = collection.now
        BY <1>1, <1>5, <2>2 DEF Beginning
    <3>3. QED BY <2>2, <3>1, <3>2, TopLayer
  <2>3. QED BY <1>14, <2>1, <2>2
<1>16. Kept'
  <2>1. used # used - 1
      BY <1>4
  <2>2. QED BY <1>1, <1>5, <1>7, <1>14, <1>15, <2>1 DEF Quiet, Plain, Kept, Held
<1>17. QED BY <1>8, <1>9, <1>13, <1>16 DEF Plain

LEMMA PlainCompletes ==
    ASSUME Quiet, NEW t \in Threads, Supersede(t) \/ Complete(t)
    PROVE  Plain'
<1>1. UNCHANGED <<used, parent, graph, collection, docs, upload>>
    BY DEF Supersede, Complete, served
<1>2. ServedType' /\ Lineage' /\ Kept' /\ Uploading' /\ (Swapped' <=> Swapped)
    BY <1>1, Framed
<1>3. /\ op[t].at \in {"built", "committing"}
      /\ \A u \in Threads \ {t} : op'[u] = op[u]
    BY OpStops DEF Supersede, Complete, Quiet, OneInv, RowInv, RegType
<1>4. Swapped /\ graph.now = used /\ op[t].build = used
    BY <1>3 DEF Quiet, Plain, InStep, Working
<1>5. CASE Supersede(t)
  <2>1. op'[t].at = "committing" /\ op'[t].build = op[t].build
      BY <1>5 DEF Supersede, Quiet, OneInv, RowInv, RegType
  <2>2. Working(t)'
      BY <1>1, <1>2, <1>4, <2>1 DEF Working
  <2>3. QED BY <1>2, <1>3, <2>1, <2>2, Alone, StepsIn DEF Plain
<1>6. CASE Complete(t)
  <2>1. op'[t].at = "idle" /\ op[t].at = "committing"
      BY <1>6, OpStops DEF Complete, Quiet, OneInv, RowInv, RegType
  <2>2. \A b \in Builds : status'[b] = "active" => b = used
      BY <1>4, <1>6, <2>1 DEF Complete, Quiet, OneInv, Serial, Ranked
  <2>3. Resting'
      BY <1>1, <1>2, <1>4, <2>2 DEF Resting, Ranked
  <2>4. Working(t)'
      BY <2>1 DEF Working
  <2>5. QED BY <1>2, <1>3, <2>1, <2>3, <2>4, Alone, StepsIn DEF Plain
<1>7. QED BY <1>5, <1>6

LEMMA PlainPicks ==
    ASSUME Quiet, NEW t \in Threads, PickRollback(t) \/ CheckRollback(t)
    PROVE  Plain'
<1>1. UNCHANGED <<used, parent, graph, collection, docs, upload, status>>
    BY DEF PickRollback, CheckRollback, served, rows
<1>2. /\ ServedType' /\ Lineage' /\ Kept' /\ Uploading' /\ (Swapped' <=> Swapped)
      /\ (Ahead(0)' <=> Ahead(0))
    BY <1>1, Framed
<1>3. Ranked' = Ranked
    BY <1>1 DEF Ranked
<1>4. CASE PickRollback(t)
  <2>1. /\ \A u \in Threads : op[u].at = "idle"
        /\ upload = NoUpload /\ GetActive \in Ranked /\ Free(t)
      BY <1>4, ActiveFound DEF PickRollback, Free, Idle, Quiet, OneInv, RowInv
  <2>2. Ahead(0) /\ graph.now = GetActive
      BY <2>1 DEF Quiet, Plain, InStep, Resting, Swapped
  <2>3. /\ op'[t].at = "picked" /\ op'[t].build = GetActive
        /\ \A u \in Threads \ {t} : op'[u] = op[u]
      BY <1>4 DEF PickRollback, Idle, Quiet, OneInv, RowInv, RegType
  <2>4. Working(t)'
      BY <1>1, <1>2, <2>1, <2>2, <2>3 DEF Working
  <2>5. QED BY <1>2, <2>1, <2>3, <2>4, StepsIn DEF Plain
<1>5. CASE CheckRollback(t)
  <2>1. /\ op[t].at = "picked" /\ op'[t].at \in {"idle", "checked"}
        /\ op'[t].at = "checked" => op'[t].build = op[t].build
        /\ \A u \in Threads \ {t} : op'[u] = op[u]
      BY <1>5, OpStops, OpGoes DEF CheckRollback, Quiet, OneInv, RowInv, RegType
  <2>2. upload = NoUpload /\ Ahead(0) /\ graph.now = op[t].build /\ Ranked = {op[t].build}
      BY <2>1 DEF Quiet, Plain, InStep, Working, OneInv, Serial
  <2>3. op'[t].at = "idle" => Resting'
      BY <1>1, <1>2, <1>3, <2>2 DEF Resting, Swapped
  <2>4. Working(t)'
      BY <1>1, <1>2, <2>1, <2>2 DEF Working
  <2>5. QED BY <1>2, <2>1, <2>3, <2>4, Alone, StepsIn DEF Plain
<1>6. QED BY <1>4, <1>5

LEMMA PlainMarks ==
    ASSUME Quiet, NEW t \in Threads, MarkRolledBack(t)
    PROVE  Plain'
<1> DEFINE p == parent[op[t].build]
<1>1. UNCHANGED <<used, parent, graph, collection, docs, upload>>
    BY DEF MarkRolledBack, served
<1>2. /\ ServedType' /\ Lineage' /\ Kept' /\ Uploading' /\ (Swapped' <=> Swapped)
      /\ (Ahead(0)' <=> Ahead(0))
    BY <1>1, Framed
<1>3. /\ op[t].at = "checked"
      /\ upload = NoUpload /\ Ahead(0) /\ graph.now = op[t].build /\ Ranked = {op[t].build}
    BY DEF MarkRolledBack, Quiet, Plain, InStep, Working, OneInv, Serial
<1>4. Ranked' \subseteq {p} /\ (p = NoBuild => Ranked' = {})
  <2>1. \A c \in Builds : status'[c] = "active" => c = p
      BY <1>3 DEF MarkRolledBack, Ranked
  <2>2. NoBuild \notin Builds
      BY RegistryAssumption DEF Builds, NoBuild
  <2>3. QED BY <2>1, <2>2 DEF Ranked
<1>5. /\ \A u \in Threads \ {t} : op'[u] = op[u]
      /\ op'[t].at = IF p = NoBuild THEN "idle" ELSE "marked"
    BY OpStops, OpGoes DEF MarkRolledBack, Quiet, OneInv, RowInv, RegType
<1>6. CASE p = NoBuild
  <2>1. Resting'
      BY <1>1, <1>2, <1>3, <1>4, <1>6 DEF Resting, Swapped
  <2>2. Working(t)'
      BY <1>5, <1>6 DEF Working
  <2>3. QED BY <1>2, <1>3, <1>5, <1>6, <2>1, <2>2, Alone, StepsIn DEF Plain
<1>7. CASE p # NoBuild
  <2>1. /\ Depth(graph) \in Nat /\ Depth(graph) >= 1
        /\ graph.now = Layer(graph, Depth(graph))
      BY QuietFacts
  <2>2. graph.now # NoBuild
      BY <1>3, RegistryAssumption DEF Ranked, Builds, NoBuild
  <2>3. Depth(graph) >= 2
      BY <2>1, <2>2 DEF Quiet, Plain, Lineage
  <2>4. p = Layer(graph, Depth(graph) - 1)
    <3>1. Depth(graph) - 1 \in 1 .. Depth(graph) - 1 /\ (Depth(graph) - 1) + 1 = Depth(graph)
        BY <2>1, <2>3
    <3>2. parent[Layer(graph, Depth(graph))] \in {NoBuild, Layer(graph, Depth(graph) - 1)}
        BY <3>1 DEF Quiet, Plain, Lineage
    <3>3. QED BY <1>3, <1>7, <2>1, <3>2
  <2>5. Undone'
      BY <1>1, <1>3, <1>4, <2>3, <2>4 DEF Undone
  <2>6. Working(t)'
      BY <1>2, <1>3, <1>5, <1>7, <2>5 DEF Working
  <2>7. QED BY <1>2, <1>3, <1>5, <1>7, <2>6, Alone, StepsIn DEF Plain
<1>8. QED BY <1>6, <1>7

LEMMA PlainCollectionBack ==
    ASSUME Quiet, NEW t \in Threads, RollbackCollection(t)
    PROVE  Plain'
<1>1. /\ op[t].at = "marked" /\ collection' = Back(collection)
      /\ Ahead(0) /\ Undone
      /\ UNCHANGED <<faults, used, status, parent, graph, docs, upload>>
    BY DEF RollbackCollection, Quiet, Plain, InStep, Working, rows
<1>2. /\ \A u \in Threads \ {t} : op'[u] = op[u]
      /\ op'[t].at = "half"
    BY OpGoes DEF RollbackCollection, Quiet, OneInv, RowInv, RegType
<1>3. /\ Depth(graph) \in Nat /\ Depth(collection) \in Nat /\ Depth(collection) >= 2
    BY <1>1, QuietFacts DEF Ahead, Undone
<1>4. /\ collection' \in Histories(Names)
      /\ Depth(collection') = Depth(collection) - 1
      /\ \A i \in 1 .. Depth(collection') : Layer(collection', i) = Layer(collection, i)
    BY <1>1, <1>3, Popped DEF Quiet, Plain, ServedType
<1>5. /\ Depth(graph') = Depth(graph) /\ \A i : Layer(graph', i) = Layer(graph, i)
    BY <1>1
<1>6. ServedType' /\ Lineage'
    BY <1>1, <1>4, <1>5 DEF Quiet, Plain, ServedType, Lineage
<1>7. Kept'
  <2>1. Placed'
    <3>1. \A i \in 1 .. Depth(graph) : i <= Depth(collection) - 1 =>
              i <= Depth(collection) /\ i \in 1 .. Depth(collection) - 1
        BY <1>3
    <3>2. QED BY <1>1, <1>4, <1>5, <3>1 DEF Quiet, Plain, Kept, Placed
  <2>2. QED BY <1>1, <1>5, <2>1 DEF Quiet, Plain, Kept, Held
<1>8. Uploading'
    BY <1>1 DEF Undone, Uploading
<1>9. Ahead(1)'
    BY <1>1, <1>3, <1>4 DEF Ahead
<1>10. Working(t)'
    BY <1>1, <1>2, <1>9 DEF Working, Undone, Ranked
<1>11. InStep'
    BY <1>1, <1>2, <1>8, <1>10, Alone, StepsIn
<1>12. QED BY <1>6, <1>7, <1>11 DEF Plain

LEMMA PlainGraphBack ==
    ASSUME Quiet, NEW t \in Threads, RollbackGraph(t)
    PROVE  Plain'
<1>1. /\ op[t].at = "half" /\ graph' = Back(graph)
      /\ Ahead(1) /\ Undone
      /\ UNCHANGED <<faults, used, status, parent, collection, docs, upload>>
    BY DEF RollbackGraph, Quiet, Plain, InStep, Working, rows
<1>2. /\ \A u \in Threads \ {t} : op'[u] = op[u]
      /\ op'[t].at = "idle"
    BY OpStops DEF RollbackGraph, Quiet, OneInv, RowInv, RegType
<1>3. /\ Depth(graph) \in Nat /\ Depth(collection) \in Nat /\ Depth(graph) >= 2
    BY <1>1, QuietFacts DEF Undone
<1> DEFINE d == Depth(graph) - 1
<1>4. /\ graph' \in Histories(Nat) /\ Depth(graph') = d
      /\ graph'.now = Layer(graph, d)
      /\ \A i \in 1 .. d : Layer(graph', i) = Layer(graph, i)
  <2>1. graph \in Histories(Nat)
      BY DEF Quiet, Plain, ServedType
  <2>2. /\ graph' \in Histories(Nat) /\ Depth(graph') = Depth(graph) - 1
        /\ graph'.now = Layer(graph, Depth(graph) - 1)
        /\ \A i \in 1 .. Depth(graph') : Layer(graph', i) = Layer(graph, i)
      BY <1>1, <1>3, <2>1, Popped
  <2>3. QED BY <2>2
<1>5. d \in Nat /\ d >= 1 /\ \A i \in 1 .. d : i \in 1 .. Depth(graph)
    BY <1>3
<1> HIDE DEF d
<1>6. ServedType'
    BY <1>1, <1>4 DEF Quiet, Plain, ServedType
<1>7. Lineage'
  <2>1. \A i \in 1 .. d - 1 : i \in 1 .. d /\ i + 1 \in 1 .. d /\ i \in 1 .. Depth(graph) - 1
      BY <1>5 DEF d
  <2>2. QED BY <1>1, <1>4, <1>5, <2>1 DEF Quiet, Plain, Lineage
<1>8. Kept'
    BY <1>1, <1>4, <1>5 DEF Quiet, Plain, Kept, Placed, Held
<1>9. Uploading'
    BY <1>1 DEF Undone, Uploading
<1>10. Resting'
  <2>1. Ahead(0)'
      BY <1>1, <1>3, <1>4 DEF Ahead, d
  <2>2. QED BY <1>1, <1>4, <2>1 DEF Resting, Swapped, Undone, Ranked, d
<1>11. Working(t)'
    BY <1>2 DEF Working
<1>12. InStep'
    BY <1>1, <1>2, <1>9, <1>10, <1>11, Alone, StepsIn
<1>13. QED BY <1>6, <1>7, <1>8, <1>12 DEF Plain

\* The upload ends before the graph is swapped, or after.
LEMMA UploadPhase ==
    ASSUME Quiet, upload # NoUpload
    PROVE  \/ Ahead(0) /\ graph.now < used
           \/ Ahead(1) /\ graph.now = used
<1>1. CASE \A t \in Threads : op[t].at = "idle"
    BY <1>1 DEF Quiet, Plain, InStep, Resting, Swapped
<1>2. ASSUME NEW t \in Threads, op[t].at # "idle"
      PROVE  \/ Ahead(0) /\ graph.now < used
             \/ Ahead(1) /\ graph.now = used
  <2>1. op[t].at \in Building \cup Undoing
      BY <1>2 DEF Quiet, OneInv, RowInv, RegType
  <2>2. Working(t)
      BY DEF Quiet, Plain, InStep
  <2>3. QED BY <2>1, <2>2 DEF Working, Building, Undoing, Beginning, Swapped, Undone
<1>3. QED BY <1>1, <1>2

LEMMA PlainUploaded ==
    ASSUME Quiet, UploadDone
    PROVE  Plain'
<1> DEFINE shadow == upload.name
           e == Depth(collection)
<1>1. /\ upload # NoUpload /\ upload.build = used /\ shadow = Twin(collection.now)
      /\ docs[shadow] = NoBuild /\ \A n \in Names : docs[n] # used
      /\ upload' = NoUpload
      /\ UNCHANGED <<faults, used, status, parent, op, graph>>
    BY DEF UploadDone, Quiet, Plain, InStep, Uploading, rows
<1>2. /\ docs' = [docs EXCEPT ![shadow] = used]
      /\ collection' = Push(collection, shadow)
    BY <1>1 DEF UploadDone, Push
<1>3. /\ used \in Nat /\ Depth(graph) \in Nat /\ Depth(graph) >= 1
      /\ graph.now = Layer(graph, Depth(graph)) /\ graph.now \in 0 .. used
      /\ e \in Nat /\ e >= 1 /\ shadow \in Names
    BY <1>1, QuietFacts
<1> HIDE DEF shadow, e
<1>4. /\ collection' \in Histories(Names) /\ Depth(collection') = e + 1
      /\ Layer(collection', e + 1) = shadow /\ collection'.now = shadow
      /\ \A i \in 1 .. e : Layer(collection', i) = Layer(collection, i)
  <2>1. collection \in Histories(Names)
      BY DEF Quiet, Plain, ServedType
  <2>2. /\ collection' \in Histories(Names) /\ Depth(collection') = Depth(collection) + 1
        /\ Layer(collection', Depth(collection')) = shadow
        /\ \A i \in 1 .. Depth(collection) : Layer(collection', i) = Layer(collection, i)
      BY <1>2, <1>3, <2>1, Pushed
  <2>3. QED BY <1>2, <2>2 DEF e, Push
<1>5. /\ docs' \in [Names -> 0 .. used] /\ docs'[shadow] = used
      /\ \A n \in Names : n # shadow => docs'[n] = docs[n]
  <2>1. docs \in [Names -> 0 .. used] /\ used \in 0 .. used
      BY <1>3 DEF Quiet, Plain, ServedType
  <2>2. QED BY <1>2, <1>3, <2>1
<1>6. Depth(graph') = Depth(graph) /\ \A i : Layer(graph', i) = Layer(graph, i)
    BY <1>1
<1>7. ServedType' /\ Lineage'
    BY <1>1, <1>4, <1>5, <1>6 DEF Quiet, Plain, ServedType, Lineage
<1>8. \/ Depth(graph) = e /\ graph.now < used
      \/ Depth(graph) = e + 1 /\ graph.now = used
    BY <1>1, <1>3, UploadPhase DEF Ahead, e
<1>9. (Ahead(0) => Ahead(-1)') /\ (Ahead(1) => Ahead(0)')
    BY <1>3, <1>4, <1>6 DEF Ahead, e
<1>10. Ranked' = Ranked
    BY <1>1 DEF Ranked
<1>11. Beginning => Beginning'
    BY <1>1, <1>4, <1>5, <1>9, <1>10 DEF Beginning
<1>12. Swapped => Swapped'
    BY <1>1, <1>9 DEF Swapped
<1>13. InStep'
  <2>1. Uploading'
      BY <1>1 DEF Uploading
  <2>2. Resting => Resting'
      BY <1>1, <1>10, <1>12 DEF Resting
  <2>3. ASSUME NEW t \in Threads PROVE Working(t)'
    <3>1. Working(t) /\ op[t].at \in {"idle"} \cup Building \cup Undoing
        BY DEF Quiet, Plain, InStep, OneInv, RowInv, RegType
    <3>2. op[t].at \notin Undoing
        BY <1>1, <3>1 DEF Working, Undoing, Undone
    <3>3. QED BY <1>1, <1>11, <1>12, <3>1, <3>2 DEF Working, Building, Undoing
  <2>4. QED BY <1>1, <2>1, <2>2, <2>3 DEF Quiet, Plain, InStep
<1>14. Placed'
  <2> SUFFICES ASSUME NEW n \in Names, NEW i \in 1 .. Depth(graph), i <= e + 1,
                      docs'[n] = Layer(graph, i), docs'[n] # NoBuild
               PROVE  n = Layer(collection', i)
      BY <1>4, <1>6 DEF Placed
  <2>1. i \in 1 .. e \/ i = e + 1
      BY <1>3
  <2>2. i \in 1 .. e => Layer(graph, i) # used
    <3> SUFFICES ASSUME i \in 1 .. e PROVE Layer(graph, i) # used
        OBVIOUS
    <3>1. Depth(graph) \in 1 .. Depth(graph)
        BY <1>3
    <3>2. i < Depth(graph) => Layer(graph, i) < Layer(graph, Depth(graph))
        BY <3>1 DEF Quiet, Plain, Lineage
    <3>3. Layer(graph, i) \in 0 .. used
        BY DEF Quiet, Plain, Lineage
    <3>4. QED BY <1>3, <1>8, <3>2, <3>3
  <2>3. i = e + 1 => Layer(graph, i) = used
      BY <1>3, <1>8
  <2>4. CASE n = shadow
      BY <1>4, <1>5, <2>1, <2>2, <2>4
  <2>5. CASE n # shadow
    <3>1. docs'[n] = docs[n] /\ docs[n] # used
        BY <1>1, <1>5, <2>5
    <3>2. i \in 1 .. e /\ i <= Depth(collection)
        BY <1>3, <2>1, <2>3, <3>1 DEF e
    <3>3. n = Layer(collection, i)
        BY <3>1, <3>2 DEF Quiet, Plain, Kept, Placed
    <3>4. QED BY <1>4, <3>2, <3>3
  <2>6. QED BY <2>4, <2>5
<1>15. Kept'
  <2>1. Held(used)'
      BY <1>1, <1>3, <1>5 DEF Held
  <2>2. ASSUME NEW i \in 1 .. Depth(graph), Layer(graph, i) = used - 1, Layer(graph, i) # NoBuild
        PROVE  Held(used - 1)'
    <3>1. PICK n \in Names : docs[n] = used - 1
        BY <2>2 DEF Quiet, Plain, Kept, Held
    <3>2. n # shadow
        BY <1>1, <2>2, <3>1 DEF shadow
    <3>3. QED BY <1>1, <1>5, <3>1, <3>2 DEF Held
  <2>3. QED BY <1>1, <1>6, <1>14, <2>1, <2>2 DEF Kept
<1>16. QED BY <1>7, <1>13, <1>15 DEF Plain

LEMMA PlainInit == Init /\ faults = {} => Plain
<1> SUFFICES ASSUME Init, faults = {} PROVE Plain
    OBVIOUS
<1>1. /\ graph = [now |-> NoBuild, past |-> <<>>] /\ collection = [now |-> 1, past |-> <<>>]
      /\ docs = [n \in Names |-> NoBuild] /\ upload = NoUpload /\ used = 0
      /\ \A t \in Threads : op[t].at = "idle"
      /\ Ranked = {}
    BY DEF Init, Idle, Ranked
<1>2. /\ Depth(graph) = 1 /\ Depth(collection) = 1
      /\ Layer(graph, 1) = NoBuild /\ Layer(collection, 1) = 1
    BY <1>1 DEF Depth, Layer
<1>3. ServedType
    BY <1>1 DEF ServedType, Histories, Names, NoBuild
<1>4. Lineage
    BY <1>1, <1>2 DEF Lineage, NoBuild
<1>5. InStep
    BY <1>1, <1>2 DEF InStep, Uploading, Resting, Swapped, Ahead, Working
<1>6. Kept
    BY <1>1, <1>2 DEF Kept, Placed, NoBuild
<1>7. QED BY <1>3, <1>4, <1>5, <1>6 DEF Plain

LEMMA PlainStep == Quiet /\ [Next]_regVars => Plain'
<1> SUFFICES ASSUME Quiet, [Next]_regVars PROVE Plain'
    OBVIOUS
<1>0. "fail" \notin faults /\ "restart" \notin faults
    BY DEF Quiet
<1>1. ASSUME NEW t \in Threads, NEW k \in Kinds, Look(t, k) PROVE Plain'
    BY <1>1, PlainLooks
<1>2. ASSUME NEW t \in Threads, BuildStep(t) PROVE Plain'
    BY <1>0, <1>2, PlainRegisters, PlainSwaps, PlainCompletes
       DEF BuildStep, RegisterFails, BuildFails
<1>3. ASSUME NEW t \in Threads, PickRollback(t) PROVE Plain'
    BY <1>3, PlainPicks
<1>4. ASSUME NEW t \in Threads, RollbackStep(t) PROVE Plain'
    BY <1>0, <1>4, PlainPicks, PlainMarks, PlainCollectionBack, PlainGraphBack
       DEF RollbackStep, RollbackFails
<1>5. CASE Upload
    BY <1>0, <1>5, PlainUploaded DEF Upload, UploadFails
<1>6. CASE UNCHANGED regVars \/ \E q \in Scores : Evaluate(q)
  <2>1. UNCHANGED <<faults, used, status, parent, op, graph, collection, docs, upload>>
      BY <1>6 DEF Evaluate, regVars, rows, served
  <2>2. /\ ServedType' /\ Lineage' /\ Kept' /\ Uploading' /\ (Swapped' <=> Swapped)
        /\ \A k : Ahead(k)' <=> Ahead(k)
      BY <2>1, Framed
  <2>3. Ranked' = Ranked
      BY <2>1 DEF Ranked
  <2>4. InStep'
      BY <2>1, <2>2, <2>3 DEF Quiet, Plain, InStep, Resting, Working, Beginning, Undone, Layer, Depth
  <2>5. QED BY <2>2, <2>4 DEF Plain
<1>7. QED BY <1>0, <1>1, <1>2, <1>3, <1>4, <1>5, <1>6 DEF Next, Restart

LEMMA PlainAgrees == Quiet => RollbackAgrees
<1> SUFFICES ASSUME Quiet, AtRest, GetActive # NoBuild
             PROVE  /\ graph.now = GetActive
                    /\ (GetActive >= used - 1 \/ \E n \in Names : docs[n] = GetActive) =>
                           docs[collection.now] = GetActive
    BY DEF RollbackAgrees
<1>1. Ahead(0) /\ Ranked \subseteq {graph.now} /\ upload = NoUpload
    BY DEF AtRest, Idle, Quiet, Plain, InStep, Resting, Swapped
<1>2. graph.now = GetActive
    BY <1>1, ActiveFound DEF Quiet, OneInv, RowInv
<1>3. /\ used \in Nat /\ Depth(graph) \in Nat /\ Depth(graph) >= 1
      /\ graph.now = Layer(graph, Depth(graph)) /\ graph.now \in 0 .. used
      /\ Depth(collection) \in Nat
    BY QuietFacts
<1>4. Depth(graph) \in 1 .. Depth(graph) /\ Depth(graph) = Depth(collection)
    BY <1>1, <1>3 DEF Ahead
<1>5. ASSUME NEW n \in Names, docs[n] = GetActive PROVE docs[collection.now] = GetActive
  <2>1. n = Layer(collection, Depth(graph))
      BY <1>2, <1>3, <1>4, <1>5 DEF Quiet, Plain, Kept, Placed
  <2>2. QED BY <1>4, <1>5, <2>1, TopLayer
<1>6. ASSUME GetActive >= used - 1 PROVE \E n \in Names : docs[n] = GetActive
  <2>1. GetActive = used \/ GetActive = used - 1
      BY <1>2, <1>3, <1>6
  <2>2. CASE GetActive = used
      BY <1>1, <2>2 DEF Quiet, Plain, Kept, Held, NoBuild
  <2>3. CASE GetActive = used - 1
      BY <1>2, <1>3, <1>4, <2>3 DEF Quiet, Plain, Kept, Held
  <2>4. QED BY <2>1, <2>2, <2>3
<1>7. QED BY <1>2, <1>5, <1>6

\* Whatever is built and rolled back, in any order and number, the proxy serves the generation
\* of the active build, and so does the collection as long as its objects are anywhere, which
\* they are until the second build after it (indexing_service.py:1033, build_registry.py:220).
THEOREM RollbacksAgree == Spec => []RollbackAgrees
<1> DEFINE Inv == OneInv /\ (faults = {} => Plain)
<1>1. Init => Inv
  <2>1. Init => Serial
      BY DEF Init, Serial, AlreadyOne, Ranked, Idle
  <2>2. QED BY <2>1, RowInit, PlainInit DEF OneInv
<1>2. Inv /\ [Next]_regVars => Inv'
  <2> SUFFICES ASSUME Inv, [Next]_regVars PROVE Inv'
      OBVIOUS
  <2>1. OneInv'
      BY RowStep, SerialStep DEF OneInv
  <2>2. faults' = faults
      BY DEF Next, regVars, Look, BuildStep, Register, RegisterFails, SwapGraph, Supersede, Complete,
             BuildFails, PickRollback, RollbackStep, CheckRollback, MarkRolledBack,
             RollbackCollection, RollbackGraph, RollbackFails, Upload, UploadDone, UploadFails,
             Evaluate, Restart
  <2>3. faults = {} => Plain'
      BY PlainStep DEF Quiet
  <2>4. QED BY <2>1, <2>2, <2>3
<1>3. Inv => RollbackAgrees
    BY PlainAgrees DEF Quiet, RollbackAgrees
<1>4. QED BY <1>1, <1>2, <1>3, PTL DEF Spec
=============================================================================
