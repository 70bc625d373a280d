---------------------------- MODULE LimitsProofs ----------------------------
(***************************************************************************)
(* Who is let in, and how often: KeyAnswers and WindowBound hold for any   *)
(* clients, any classes of paths with any limits, any windows no longer    *)
(* than the lockout, and any order of requests, outages and revocations;   *)
(* BucketBound for any callers, identities and settings, also those whose  *)
(* buckets are dropped before they are full.                               *)
(***************************************************************************)
EXTENDS RequestGate, TokenBuckets, TLAPS, NaturalsInduction, WellFoundedInduction,
        SequenceTheorems, FiniteSetTheorems

(***************************************************************************)
(* The cache of rejected keys                                              *)
(***************************************************************************)
KeyInv ==
    /\ GateTimes
    /\ wall \in Nat /\ lastDown \in Int /\ rejected \in Int
    /\ lastDown <= wall
    /\ down \in BOOLEAN /\ (down => lastDown = wall)
    /\ key \in {"none", "active", "revoked"}
    /\ key = "none" => rejected = Never
    /\ lastDown >= Never
    \* an active key is cached as bad only by an outage
    /\ key # "revoked" => rejected <= lastDown + NegativeFor
    /\ answer.credential \in {"none", "shared", "other", "key"}
    /\ KeyAnswers

LEMMA KeyInvInit == GateTimes /\ GateInit => KeyInv
<1> SUFFICES ASSUME GateTimes, GateInit PROVE KeyInv
    OBVIOUS
<1>1. Never \in Int /\ Never <= 0 /\ answer.credential = "none"
    BY DEF GateTimes, GateInit, Never, NoAnswer
<1>2. Never <= Never + NegativeFor
    BY <1>1 DEF GateTimes
<1>3. KeyAnswers
    BY <1>1 DEF KeyAnswers
<1>4. /\ wall = 0 /\ lastDown = Never /\ rejected = Never
      /\ key = "none"
    BY DEF GateInit
<1>5. down \in BOOLEAN /\ (down => lastDown = wall)
    BY DEF GateInit
<1>6. QED BY <1>1, <1>2, <1>3, <1>4, <1>5 DEF KeyInv

\* A request leaves the cache and the answer as the invariant wants them.
LEMMA AnswerKeeps ==
    ASSUME KeyInv, NEW credential \in Credentials \cup {"none"}, NEW outcome,
           Answer(credential, outcome),
           credential = "key" /\ outcome \in {"served", "limited"} => Good(credential),
           outcome = "unauthorized" => ~Good(credential),
           UNCHANGED <<wall, key, down, lastDown>>
    PROVE  KeyInv'
<1> USE DEF GateTimes, KeyInv
<1>1. answer'.credential = credential /\ answer'.outcome = outcome
    BY DEF Answer
<1>2. credential = "key" => key # "none"
    BY DEF Credentials
<1>3. CASE credential = "key"
  <2>1. rejected' = RejectedUntil(Good("key")) /\ (Good("key") <=> KeyResolved)
      BY <1>3 DEF Answer, Good
  <2>2. KeyResolved => key = "active" /\ rejected' = rejected
      BY <2>1 DEF KeyResolved, RejectedUntil
  <2>3. ~KeyResolved => \/ rejected' = rejected /\ wall < rejected
                        \/ rejected' = wall + NegativeFor /\ (down \/ key # "active")
      BY <2>1 DEF KeyResolved, RejectedUntil
  <2>4. rejected' \in Int /\ (key # "revoked" => rejected' <= lastDown + NegativeFor)
      BY <1>2, <1>3, <2>2, <2>3
  <2>5. KeyAnswers'
      BY <1>1, <1>3, <2>1, <2>2, <2>3 DEF KeyAnswers
  <2>6. QED BY <1>1, <1>2, <1>3, <2>4, <2>5
<1>4. CASE credential # "key"
  <2>1. rejected' = rejected /\ credential \in {"shared", "other", "none"}
      BY <1>4 DEF Answer, Credentials
  <2>2. QED BY <1>1, <1>4, <2>1 DEF KeyAnswers
<1>5. QED BY <1>3, <1>4

LEMMA KeyInvStep == KeyInv /\ [GateNext]_gateVars => KeyInv'
<1> SUFFICES ASSUME KeyInv, [GateNext]_gateVars PROVE KeyInv'
    OBVIOUS
<1>1. CASE GateTick
  <2>1. /\ wall' = wall + 1 /\ lastDown' = (IF down THEN wall' ELSE lastDown)
        /\ answer'.credential = "none"
        /\ UNCHANGED <<key, down, rejected>>
      BY <1>1 DEF GateTick, NoAnswer
  <2>2. lastDown' \in Int /\ lastDown' >= lastDown /\ Never \in Int
      BY <2>1 DEF KeyInv, GateTimes, Never
  <2>3. QED BY <2>1, <2>2 DEF GateTimes, KeyInv, KeyAnswers
<1>2. CASE Keys
    BY <1>2 DEF Keys, CreateUserKey, RevokeUserKey, GateTimes, KeyInv, KeyAnswers, NoAnswer, Never
<1>3. CASE Outage
    BY <1>3 DEF Outage, GateTimes, KeyInv, KeyAnswers, NoAnswer, Never
<1>4. ASSUME NEW c \in Clients, NEW credential \in Credentials, NEW class \in Classes,
             Rest(c, class, credential)
      PROVE  KeyInv'
  <2>1. UNCHANGED <<wall, key, down, lastDown>>
      BY <1>4 DEF Rest, Windowed
  <2>2. CASE ~Good(credential)
      BY <1>4, <2>1, <2>2, AnswerKeeps DEF Rest
  <2>3. CASE Good(credential)
      BY <1>4, <2>1, <2>3, AnswerKeeps DEF Rest, Windowed
  <2>4. QED BY <2>2, <2>3
<1>5. ASSUME NEW c \in Clients, NEW credential \in Credentials, Mcp(c, credential) PROVE KeyInv'
  <2>1. UNCHANGED <<wall, key, down, lastDown>>
      BY <1>5 DEF Mcp
  <2>2. CASE answer' = [credential |-> credential, outcome |-> "locked"] /\ rejected' = rejected
      BY <2>1, <2>2 DEF KeyInv, KeyAnswers, Credentials
  <2>3. CASE Good(credential) /\ Answer(credential, "served")
      BY <2>1, <2>3, AnswerKeeps
  <2>4. CASE ~Good(credential) /\ Answer(credential, "unauthorized")
      BY <2>1, <2>4, AnswerKeeps
  <2>5. QED BY <1>5, <2>2, <2>3, <2>4 DEF Mcp
<1>6. ASSUME NEW c \in Clients, NEW class \in Classes, RestOpen(c, class) PROVE KeyInv'
  <2>1. UNCHANGED <<wall, key, down, lastDown>>
      BY <1>6 DEF RestOpen, Windowed
  <2>2. CASE Answer("none", "limited")
      BY <2>1, <2>2, AnswerKeeps
  <2>3. CASE Answer("none", "served")
      BY <2>1, <2>3, AnswerKeeps
  <2>4. QED BY <1>6, <2>2, <2>3 DEF RestOpen, Windowed
<1>7. CASE UNCHANGED gateVars
    BY <1>7 DEF gateVars, KeyInv, KeyAnswers
<1>8. QED BY <1>1, <1>2, <1>3, <1>4, <1>5, <1>6, <1>7 DEF GateNext

\* A revoked key is not let in, and an active one is kept out no longer after an outage than
\* an entry of the cache lives, however often it is asked for (client_tokens.py:221).
THEOREM KeysAnswered == GateTimes /\ GateSpec => []KeyAnswers
<1>1. GateTimes /\ GateInit => KeyInv
    BY KeyInvInit
<1>2. KeyInv /\ [GateNext]_gateVars => KeyInv'
    BY KeyInvStep
<1>3. KeyInv => KeyAnswers
    BY DEF KeyInv
<1>4. QED BY <1>1, <1>2, <1>3, PTL DEF GateSpec

(***************************************************************************)
(* Windows                                                                 *)
(***************************************************************************)
Below == OpToRel(<, Nat)

LEMMA Least == ASSUME NEW T \in SUBSET Nat, T # {} PROVE \E x \in T : \A y \in T : x <= y
<1>1. IsWellFoundedOn(Below, Nat)
    BY NatLessThanWellFounded DEF OpToRel, Below
<1>2. PICK x \in T : \A y \in T : ~(<<y, x>> \in Below)
    BY <1>1, WFMin
<1>3. ASSUME NEW y \in T PROVE x <= y
  <2>1. x \in Nat /\ y \in Nat /\ <<y, x>> \in Nat \X Nat
      OBVIOUS
  <2>2. ~(<<y, x>>[1] < <<y, x>>[2])
      BY <1>2, <2>1 DEF Below, OpToRel
  <2>3. QED BY <2>1, <2>2
<1>4. QED BY <1>3

InOrder(s) == \A i, j \in 1 .. Len(s) : i <= j => s[i] <= s[j]
\* r is what is left of s when k times are dropped; those are the ones before t.
Split(s, t, k) ==
    /\ \A i \in 1 .. k : s[i] < t
    /\ \A i \in k + 1 .. Len(s) : s[i] >= t

\* Of times in order a window keeps a suffix, and the bound tells which.
LEMMA SinceSplits ==
    ASSUME NEW s \in Seq(Int), InOrder(s), NEW t \in Int
    PROVE  \E k \in 0 .. Len(s) : Split(s, t, k) /\ Since(s, t) = SubSeq(s, k + 1, Len(s))
<1> DEFINE T == {i \in DOMAIN s : s[i] >= t} \cup {Len(s) + 1}
<1>1. T \in SUBSET Nat /\ T # {} /\ T \subseteq 1 .. Len(s) + 1
    OBVIOUS
<1>2. \E x \in T : \A y \in T : x <= y
    BY <1>1, Least
<1>3. Min(T) \in T /\ \A y \in T : Min(T) <= y
    BY <1>2 DEF Min
<1>4. Since(s, t) = SubSeq(s, Min(T), Len(s))
    BY DEF Since
<1>5. \A i \in 1 .. Len(s) : i \in T <=> s[i] >= t
    OBVIOUS
<1> DEFINE m == Min(T)
<1>6. m \in T /\ (\A y \in T : m <= y) /\ m \in 1 .. Len(s) + 1
    BY <1>1, <1>3
<1> HIDE DEF m, T
<1>7. \A i \in 1 .. Len(s) : i < m => s[i] < t
  <2> SUFFICES ASSUME NEW i \in 1 .. Len(s), i < m, i \in T PROVE FALSE
      BY <1>5
  <2>1. m <= i
      BY <1>6
  <2>2. QED BY <1>6, <2>1
<1>8. \A i \in 1 .. Len(s) : i >= m => s[i] >= t
  <2> SUFFICES ASSUME NEW i \in 1 .. Len(s), i >= m PROVE s[i] >= t
      OBVIOUS
  <2>1. m \in 1 .. Len(s)
      BY <1>6
  <2>2. s[m] >= t
      BY <1>5, <1>6, <2>1
  <2>3. s[m] <= s[i] /\ s[m] \in Int /\ s[i] \in Int
      BY <2>1 DEF InOrder
  <2>4. QED BY <2>2, <2>3
<1>9. m - 1 \in 0 .. Len(s) /\ Split(s, t, m - 1) /\ (m - 1) + 1 = m
    BY <1>6, <1>7, <1>8 DEF Split
<1>10. Since(s, t) = SubSeq(s, (m - 1) + 1, Len(s))
    BY <1>4, <1>9 DEF m
<1>11. QED BY <1>9, <1>10

LEMMA SplitIsSince ==
    ASSUME NEW s \in Seq(Int), InOrder(s), NEW t \in Int, NEW k \in 0 .. Len(s), Split(s, t, k)
    PROVE  Since(s, t) = SubSeq(s, k + 1, Len(s))
<1>1. PICK j \in 0 .. Len(s) : Split(s, t, j) /\ Since(s, t) = SubSeq(s, j + 1, Len(s))
    BY SinceSplits
<1>2. j = k
  <2>1. ASSUME j < k PROVE FALSE
    <3>1. k \in 1 .. Len(s) /\ k \in j + 1 .. Len(s) /\ k \in 1 .. k
        BY <2>1
    <3>2. QED BY <1>1, <3>1 DEF Split
  <2>2. ASSUME k < j PROVE FALSE
    <3>1. j \in 1 .. Len(s) /\ j \in k + 1 .. Len(s) /\ j \in 1 .. j
        BY <2>2
    <3>2. QED BY <1>1, <3>1 DEF Split
  <2>3. QED BY <2>1, <2>2
<1>3. QED BY <1>1, <1>2

\* What is left of a sequence when its first k elements are dropped.
LEMMA KeptAt ==
    ASSUME NEW s \in Seq(Int), NEW k \in 0 .. Len(s)
    PROVE  LET r == SubSeq(s, k + 1, Len(s))
           IN  /\ r \in Seq(Int) /\ Len(r) = Len(s) - k
               /\ \A i \in 1 .. Len(s) - k : r[i] = s[k + i]
<1> DEFINE r == SubSeq(s, k + 1, Len(s))
<1>1. (\A i \in k + 1 .. Len(s) : s[i] \in Int) /\ k + 1 \in Int /\ Len(s) \in Int
    OBVIOUS
<1>2. /\ r \in Seq(Int)
      /\ Len(r) = IF k + 1 <= Len(s) THEN Len(s) - (k + 1) + 1 ELSE 0
      /\ \A i \in 1 .. Len(s) - (k + 1) + 1 : r[i] = s[(k + 1) + i - 1]
    BY <1>1, SubSeqProperties
<1>3. QED BY <1>2

\* What is kept is in order, and no longer.
LEMMA SinceKeeps ==
    ASSUME NEW s \in Seq(Int), InOrder(s), NEW t \in Int
    PROVE  Since(s, t) \in Seq(Int) /\ InOrder(Since(s, t))
<1>1. PICK k \in 0 .. Len(s) : Since(s, t) = SubSeq(s, k + 1, Len(s))
    BY SinceSplits
<1> DEFINE r == SubSeq(s, k + 1, Len(s))
<1>2. /\ r \in Seq(Int) /\ Len(r) = Len(s) - k
      /\ \A i \in 1 .. Len(s) - k : r[i] = s[k + i]
    BY KeptAt
<1> HIDE DEF r
<1>3. \A i \in 1 .. Len(s) - k : k + i \in 1 .. Len(s)
    OBVIOUS
<1>4. ASSUME NEW i \in 1 .. Len(r), NEW j \in 1 .. Len(r), i <= j PROVE r[i] <= r[j]
  <2>1. k + i \in 1 .. Len(s) /\ k + j \in 1 .. Len(s) /\ k + i <= k + j
      BY <1>2, <1>3, <1>4
  <2>2. s[k + i] <= s[k + j]
      BY <2>1 DEF InOrder
  <2>3. QED BY <1>2, <2>2
<1>5. QED BY <1>1, <1>2, <1>4 DEF r, InOrder

\* Forgetting twice is forgetting once, the older times first.
LEMMA SinceTwice ==
    ASSUME NEW s \in Seq(Int), InOrder(s), NEW t \in Int, NEW u \in Int, t <= u
    PROVE  Since(Since(s, t), u) = Since(s, u)
<1>1. PICK k \in 0 .. Len(s) : Split(s, t, k) /\ Since(s, t) = SubSeq(s, k + 1, Len(s))
    BY SinceSplits
<1>2. PICK j \in 0 .. Len(s) : Split(s, u, j) /\ Since(s, u) = SubSeq(s, j + 1, Len(s))
    BY SinceSplits
<1> DEFINE r == Since(s, t)
<1>3. /\ r \in Seq(Int) /\ InOrder(r) /\ Len(r) = Len(s) - k
      /\ \A i \in 1 .. Len(s) - k : r[i] = s[k + i]
    BY <1>1, SinceKeeps, KeptAt
<1>4. k <= j
  <2> SUFFICES ASSUME j < k PROVE FALSE
      OBVIOUS
  <2>1. k \in 1 .. k /\ k \in j + 1 .. Len(s) /\ s[k] \in Int
      OBVIOUS
  <2>2. s[k] < t /\ s[k] >= u
      BY <1>1, <1>2, <2>1 DEF Split
  <2>3. QED BY <2>1, <2>2
<1> HIDE DEF r
<1>5. Split(r, u, j - k)
  <2>1. \A i \in 1 .. j - k : k + i \in 1 .. j /\ i \in 1 .. Len(s) - k
      BY <1>4
  <2>2. \A i \in (j - k) + 1 .. Len(s) - k : k + i \in j + 1 .. Len(s) /\ i \in 1 .. Len(s) - k
      BY <1>4
  <2>3. QED BY <1>2, <1>3, <2>1, <2>2 DEF Split
<1>6. j - k \in 0 .. Len(r)
    BY <1>3, <1>4
<1>7. Since(r, u) = SubSeq(r, (j - k) + 1, Len(r))
    BY <1>3, <1>5, <1>6, SplitIsSince
<1>8. SubSeq(r, (j - k) + 1, Len(r)) = SubSeq(s, j + 1, Len(s))
  <2> DEFINE a == SubSeq(r, (j - k) + 1, Len(r))
             b == SubSeq(s, j + 1, Len(s))
  <2>1. a \in Seq(Int) /\ Len(a) = Len(s) - j /\ \A i \in 1 .. Len(s) - j : a[i] = r[(j - k) + i]
    <3>1. Len(r) - (j - k) = Len(s) - j
        BY <1>3
    <3>2. /\ a \in Seq(Int) /\ Len(a) = Len(r) - (j - k)
          /\ \A i \in 1 .. Len(r) - (j - k) : a[i] = r[(j - k) + i]
        BY <1>3, <1>6, KeptAt
    <3>3. QED BY <3>1, <3>2
  <2>2. b \in Seq(Int) /\ Len(b) = Len(s) - j /\ \A i \in 1 .. Len(s) - j : b[i] = s[j + i]
      BY KeptAt
  <2> HIDE DEF a, b
  <2>3. \A i \in 1 .. Len(s) - j : a[i] = b[i]
    <3> TAKE i \in 1 .. Len(s) - j
    <3>1. (j - k) + i \in 1 .. Len(s) - k /\ k + ((j - k) + i) = j + i
        BY <1>4
    <3>2. QED BY <1>3, <2>1, <2>2, <3>1
  <2>4. a = b
      BY <2>1, <2>2, <2>3, SeqEqual
  <2>5. QED BY <2>4 DEF a, b
<1>9. QED BY <1>2, <1>7, <1>8 DEF r

\* A time that counts, added at the end, is kept.
LEMMA SinceAppend ==
    ASSUME NEW s \in Seq(Int), InOrder(s), NEW t \in Int, NEW x \in Int, t <= x,
           \A i \in 1 .. Len(s) : s[i] <= x
    PROVE  /\ Append(s, x) \in Seq(Int) /\ InOrder(Append(s, x))
           /\ Since(Append(s, x), t) = Append(Since(s, t), x)
<1> DEFINE a == Append(s, x)
<1>1. /\ a \in Seq(Int) /\ Len(a) = Len(s) + 1 /\ a[Len(s) + 1] = x
      /\ \A i \in 1 .. Len(s) : a[i] = s[i]
    OBVIOUS
<1>2. PICK k \in 0 .. Len(s) : Split(s, t, k) /\ Since(s, t) = SubSeq(s, k + 1, Len(s))
    BY SinceSplits
<1> HIDE DEF a
<1>3. InOrder(a)
  <2> SUFFICES ASSUME NEW i \in 1 .. Len(a), NEW j \in 1 .. Len(a), i <= j PROVE a[i] <= a[j]
      BY DEF InOrder
  <2>1. CASE j = Len(s) + 1
    <3>1. i \in 1 .. Len(s) \/ i = j
        BY <1>1, <2>1
    <3>2. QED BY <1>1, <2>1, <3>1
  <2>2. CASE j # Len(s) + 1
    <3>1. i \in 1 .. Len(s) /\ j \in 1 .. Len(s)
        BY <1>1, <2>2
    <3>2. QED BY <1>1, <3>1 DEF InOrder
  <2>3. QED BY <2>1, <2>2
<1>4. Split(a, t, k)
  <2>1. \A i \in 1 .. k : i \in 1 .. Len(s)
      OBVIOUS
  <2>2. \A i \in k + 1 .. Len(s) + 1 : i = Len(s) + 1 \/ (i \in 1 .. Len(s) /\ i \in k + 1 .. Len(s))
      OBVIOUS
  <2>3. QED BY <1>1, <1>2, <2>1, <2>2 DEF Split
<1>5. k \in 0 .. Len(a)
    BY <1>1
<1>6. Since(a, t) = SubSeq(a, k + 1, Len(a))
    BY <1>1, <1>3, <1>4, <1>5, SplitIsSince
<1> DEFINE r == SubSeq(s, k + 1, Len(s))
           b == SubSeq(a, k + 1, Len(a))
<1>7. /\ r \in Seq(Int) /\ Len(r) = Len(s) - k
      /\ \A i \in 1 .. Len(s) - k : r[i] = s[k + i]
    BY KeptAt
<1>8. /\ b \in Seq(Int) /\ Len(b) = Len(a) - k
      /\ \A i \in 1 .. Len(a) - k : b[i] = a[k + i]
    BY <1>1, <1>5, KeptAt
<1> HIDE DEF r, b
<1>9. /\ Append(r, x) \in Seq(Int) /\ Len(Append(r, x)) = Len(r) + 1
      /\ Append(r, x)[Len(r) + 1] = x /\ \A i \in 1 .. Len(r) : Append(r, x)[i] = r[i]
    BY <1>7
<1>10. \A i \in 1 .. Len(b) : b[i] = Append(r, x)[i]
  <2> TAKE i \in 1 .. Len(b)
  <2>1. i \in 1 .. Len(s) - k \/ i = (Len(s) - k) + 1
      BY <1>1, <1>8
  <2>2. CASE i \in 1 .. Len(s) - k
    <3>1. k + i \in 1 .. Len(s)
        BY <2>2
    <3>2. QED BY <1>1, <1>7, <1>8, <1>9, <2>2, <3>1
  <2>3. CASE i = (Len(s) - k) + 1
    <3>1. k + i = Len(s) + 1
        BY <2>3
    <3>2. QED BY <1>1, <1>7, <1>8, <1>9, <2>3, <3>1
  <2>4. QED BY <2>1, <2>2, <2>3
<1>11. Len(b) = Len(Append(r, x))
    BY <1>1, <1>7, <1>8, <1>9
<1>12. b = Append(r, x)
    BY <1>8, <1>9, <1>10, <1>11, SeqEqual
<1>13. QED BY <1>1, <1>2, <1>3, <1>6, <1>12 DEF a, r, b

\* Times in order, none of them later than t.
Timed(s, t) == s \in Seq(Int) /\ InOrder(s) /\ \A i \in 1 .. Len(s) : s[i] <= t

LEMMA SinceTimed ==
    ASSUME NEW s, NEW t \in Int, Timed(s, t), NEW u \in Int
    PROVE  Timed(Since(s, u), t) /\ Len(Since(s, u)) \in Nat
<1>1. s \in Seq(Int) /\ InOrder(s)
    BY DEF Timed
<1>2. Since(s, u) \in Seq(Int) /\ InOrder(Since(s, u))
    BY <1>1, SinceKeeps
<1>3. PICK k \in 0 .. Len(s) : Since(s, u) = SubSeq(s, k + 1, Len(s))
    BY <1>1, SinceSplits
<1> DEFINE r == SubSeq(s, k + 1, Len(s))
<1>4. Len(r) = Len(s) - k /\ \A i \in 1 .. Len(s) - k : r[i] = s[k + i]
    BY <1>1, KeptAt
<1> HIDE DEF r
<1>5. \A i \in 1 .. Len(s) - k : k + i \in 1 .. Len(s)
    BY <1>1
<1>6. \A i \in 1 .. Len(r) : r[i] <= t
    BY <1>1, <1>4, <1>5 DEF Timed
<1>7. QED BY <1>2, <1>3, <1>6 DEF r, Timed

LEMMA AppendTimed ==
    ASSUME NEW s, NEW t \in Int, Timed(s, t), NEW u \in Int, u <= t
    PROVE  Timed(Append(s, t), t) /\ Since(Append(s, t), u) = Append(Since(s, u), t)
<1>1. s \in Seq(Int) /\ InOrder(s) /\ \A i \in 1 .. Len(s) : s[i] <= t
    BY DEF Timed
<1>2. /\ Append(s, t) \in Seq(Int) /\ InOrder(Append(s, t))
      /\ Since(Append(s, t), u) = Append(Since(s, u), t)
    BY <1>1, SinceAppend
<1>3. \A i \in 1 .. Len(Append(s, t)) : Append(s, t)[i] <= t
    BY <1>1
<1>4. QED BY <1>2, <1>3 DEF Timed

LEMMA SinceNothing == ASSUME NEW t \in Int PROVE Timed(<<>>, 0) /\ Since(<<>>, t) = <<>>
<1>1. <<>> \in Seq(Int) /\ Len(<<>>) = 0
    OBVIOUS
<1>2. Timed(<<>>, 0)
    BY <1>1 DEF Timed, InOrder
<1>3. Since(<<>>, t) \in Seq(Int) /\ \E k \in 0 .. Len(<<>>) : Since(<<>>, t) = SubSeq(<<>>, k + 1, Len(<<>>))
    BY <1>1, <1>2, SinceSplits, SinceKeeps DEF Timed
<1>4. Since(<<>>, t) = SubSeq(<<>>, 1, 0)
    BY <1>1, <1>3
<1>5. QED BY <1>1, <1>2, <1>4

(***************************************************************************)
(* What the two surfaces remember decides as the whole history would:      *)
(* their lists, cut to the window, are what was served and denied in it.   *)
(***************************************************************************)
ServedRemembered ==
    \A w \in Classes \X Clients :
        Timed(counts[w], wall) /\ passed[w] = Since(counts[w], wall - Window)

DeniedRemembered ==
    \A c \in Clients :
        Timed(attempts[c], wall) /\ denied[c] = Since(attempts[c], (wall - Window) + 1)

WinInv ==
    /\ GateTimes
    /\ wall \in Nat
    /\ counts \in [Classes \X Clients -> Seq(Int)] /\ passed \in [Classes \X Clients -> Seq(Int)]
    /\ attempts \in [Clients -> Seq(Int)] /\ denied \in [Clients -> Seq(Int)]
    /\ ServedRemembered
    /\ DeniedRemembered
    /\ WindowBound

LEMMA WinInvInit == GateTimes /\ GateInit => WinInv
<1> SUFFICES ASSUME GateTimes, GateInit PROVE WinInv
    OBVIOUS
<1> DEFINE none == <<>>
<1>1. wall = 0 /\ wall \in Nat /\ Window \in Nat
    BY DEF GateInit, GateTimes
<1>2. wall - Window \in Int /\ (wall - Window) + 1 \in Int
    BY <1>1
<1>3. /\ Timed(none, 0) /\ none \in Seq(Int) /\ Len(none) = 0
      /\ Since(none, wall - Window) = none /\ Since(none, (wall - Window) + 1) = none
    BY <1>2, SinceNothing
<1>4. /\ counts = [w \in Classes \X Clients |-> none] /\ passed = counts
      /\ attempts = [c \in Clients |-> none] /\ denied = attempts
    BY DEF GateInit
<1> HIDE DEF none
<1>5. ServedRemembered
    BY <1>1, <1>3, <1>4 DEF ServedRemembered
<1>6. DeniedRemembered
    BY <1>1, <1>3, <1>4 DEF DeniedRemembered
<1>7. WindowBound
  <2>1. \A w \in Classes \X Clients : LimitOf[w[1]] \in Nat
      BY DEF GateTimes
  <2>2. QED BY <1>3, <1>4, <2>1 DEF WindowBound, GateTimes
<1>8. QED BY <1>1, <1>3, <1>4, <1>5, <1>6, <1>7 DEF WinInv

LEMMA WinTick == ASSUME WinInv, GateTick PROVE WinInv'
<1>1. /\ wall \in Nat /\ wall' = wall + 1 /\ Window \in Nat /\ MaxAttempts \in Nat
      /\ counts' = counts /\ attempts' = attempts /\ DOMAIN passed = Classes \X Clients
      /\ passed' = [w \in DOMAIN passed |-> Since(passed[w], wall' - Window)]
      /\ denied' = [c \in Clients |-> Since(denied[c], (wall' - Window) + 1)]
    BY DEF WinInv, GateTimes, GateTick, After
<1>2. /\ wall - Window \in Int /\ wall' - Window \in Int /\ wall - Window <= wall' - Window
      /\ (wall - Window) + 1 \in Int /\ (wall' - Window) + 1 \in Int
      /\ (wall - Window) + 1 <= (wall' - Window) + 1
    BY <1>1
<1>3. \A s : Timed(s, wall) => Timed(s, wall')
    BY <1>1 DEF Timed
<1>4. ASSUME NEW s, Timed(s, wall), NEW t \in Int, NEW u \in Int, t <= u
      PROVE  /\ Since(Since(s, t), u) = Since(s, u)
             /\ Since(s, u) \in Seq(Int) /\ Len(Since(s, u)) <= Len(Since(s, t))
  <2>1. s \in Seq(Int) /\ InOrder(s)
      BY <1>4 DEF Timed
  <2>2. Since(Since(s, t), u) = Since(s, u)
      BY <1>4, <2>1, SinceTwice
  <2>3. Since(s, t) \in Seq(Int) /\ InOrder(Since(s, t)) /\ Since(s, u) \in Seq(Int)
      BY <1>4, <2>1, SinceKeeps
  <2> DEFINE r == Since(s, t)
  <2> HIDE DEF r
  <2>4. r \in Seq(Int) /\ InOrder(r)
      BY <2>3 DEF r
  <2>5. PICK k \in 0 .. Len(r) : Since(r, u) = SubSeq(r, k + 1, Len(r))
      BY <1>4, <2>4, SinceSplits
  <2>6. Len(SubSeq(r, k + 1, Len(r))) = Len(r) - k
      BY <2>4, KeptAt
  <2>7. QED BY <2>2, <2>3, <2>4, <2>5, <2>6 DEF r
<1>5. ASSUME NEW w \in Classes \X Clients
      PROVE  /\ Timed(counts'[w], wall') /\ passed'[w] = Since(counts'[w], wall' - Window)
             /\ passed'[w] \in Seq(Int) /\ Len(passed'[w]) <= LimitOf[w[1]]
  <2>1. /\ Timed(counts[w], wall) /\ passed[w] = Since(counts[w], wall - Window)
        /\ Len(passed[w]) <= LimitOf[w[1]] /\ LimitOf[w[1]] \in Nat
        /\ passed[w] \in Seq(Int)
      BY <1>1 DEF WinInv, ServedRemembered, WindowBound, GateTimes
  <2>2. passed'[w] = Since(passed[w], wall' - Window)
      BY <1>1
  <2>3. /\ passed'[w] = Since(counts[w], wall' - Window) /\ passed'[w] \in Seq(Int)
        /\ Len(passed'[w]) <= Len(passed[w])
      BY <1>2, <1>4, <2>1, <2>2
  <2>4. Len(passed'[w]) \in Nat /\ Len(passed[w]) \in Nat
      BY <2>1, <2>3
  <2>5. QED BY <1>1, <1>3, <2>1, <2>3, <2>4
<1>6. ASSUME NEW c \in Clients
      PROVE  /\ Timed(attempts'[c], wall')
             /\ denied'[c] = Since(attempts'[c], (wall' - Window) + 1)
             /\ denied'[c] \in Seq(Int) /\ Len(denied'[c]) <= MaxAttempts
  <2>1. /\ Timed(attempts[c], wall) /\ denied[c] = Since(attempts[c], (wall - Window) + 1)
        /\ Len(denied[c]) <= MaxAttempts /\ denied[c] \in Seq(Int)
      BY DEF WinInv, DeniedRemembered, WindowBound
  <2>2. denied'[c] = Since(denied[c], (wall' - Window) + 1)
      BY <1>1
  <2>3. /\ denied'[c] = Since(attempts[c], (wall' - Window) + 1) /\ denied'[c] \in Seq(Int)
        /\ Len(denied'[c]) <= Len(denied[c])
      BY <1>2, <1>4, <2>1, <2>2
  <2>4. Len(denied'[c]) \in Nat /\ Len(denied[c]) \in Nat
      BY <2>1, <2>3
  <2>5. QED BY <1>1, <1>3, <2>1, <2>3, <2>4
<1>7. passed' \in [Classes \X Clients -> Seq(Int)] /\ denied' \in [Clients -> Seq(Int)]
    BY <1>1, <1>5, <1>6
<1>8. WindowBound' /\ ServedRemembered' /\ DeniedRemembered'
    BY <1>5, <1>6, <1>7 DEF WindowBound, ServedRemembered, DeniedRemembered
<1>9. QED BY <1>1, <1>7, <1>8 DEF WinInv, GateTimes

\* A request that leaves one list of the REST surface as the invariant wants it.
LEMMA CountsKeep ==
    ASSUME WinInv, NEW w \in Classes \X Clients, NEW r, NEW p,
           counts' = [counts EXCEPT ![w] = r], passed' = [passed EXCEPT ![w] = p],
           Timed(r, wall), p = Since(r, wall - Window), p \in Seq(Int), Len(p) <= LimitOf[w[1]],
           UNCHANGED <<wall, attempts, denied>>
    PROVE  WinInv'
<1>1. /\ counts \in [Classes \X Clients -> Seq(Int)] /\ passed \in [Classes \X Clients -> Seq(Int)]
      /\ r \in Seq(Int)
    BY DEF WinInv, Timed
<1>2. /\ counts' \in [Classes \X Clients -> Seq(Int)] /\ passed' \in [Classes \X Clients -> Seq(Int)]
      /\ counts'[w] = r /\ passed'[w] = p
      /\ \A v \in Classes \X Clients : v # w => counts'[v] = counts[v] /\ passed'[v] = passed[v]
    BY <1>1
<1>3. ServedRemembered'
    BY <1>2 DEF WinInv, ServedRemembered
<1>4. DeniedRemembered'
    BY DEF WinInv, DeniedRemembered
<1>5. WindowBound'
    BY <1>1, <1>2 DEF WinInv, WindowBound
<1>6. QED BY <1>2, <1>3, <1>4, <1>5 DEF WinInv, GateTimes

LEMMA WinWindowed ==
    ASSUME WinInv, NEW c \in Clients, NEW class \in Classes, NEW credential,
           Windowed(<<class, c>>, credential)
    PROVE  WinInv'
<1> DEFINE w == <<class, c>>
           kept == Recent(counts[w])
<1>1. /\ wall \in Nat /\ Window \in Nat /\ w \in Classes \X Clients /\ w[1] = class
      /\ LimitOf[class] \in Nat
      /\ UNCHANGED <<wall, attempts, denied>>
    BY DEF WinInv, GateTimes, Windowed
<1>2. /\ Timed(counts[w], wall) /\ passed[w] = kept /\ kept = Since(counts[w], wall - Window)
      /\ counts[w] \in Seq(Int) /\ InOrder(counts[w]) /\ passed[w] \in Seq(Int)
      /\ Len(passed[w]) <= LimitOf[class]
    BY <1>1 DEF WinInv, ServedRemembered, Recent, Timed, WindowBound
<1>3. Timed(kept, wall) /\ Len(kept) \in Nat /\ Since(kept, wall - Window) = kept
  <2>1. wall - Window \in Int /\ wall - Window <= wall - Window /\ wall \in Int
      BY <1>1
  <2>2. QED BY <1>1, <1>2, <2>1, SinceTimed, SinceTwice
<1>4. \/ counts' = [counts EXCEPT ![w] = kept] /\ UNCHANGED passed
      \/ /\ ~(Len(kept) >= LimitOf[class])
         /\ counts' = [counts EXCEPT ![w] = Append(kept, wall)]
         /\ passed' = [passed EXCEPT ![w] = Append(passed[w], wall)]
    BY DEF Windowed
<1> HIDE DEF w, kept
<1>5. CASE counts' = [counts EXCEPT ![w] = kept] /\ UNCHANGED passed
  <2>1. passed' = [passed EXCEPT ![w] = passed[w]]
      BY <1>1, <1>5 DEF WinInv
  <2>2. QED BY <1>1, <1>2, <1>3, <1>5, <2>1, CountsKeep
<1>6. CASE /\ ~(Len(kept) >= LimitOf[class])
           /\ counts' = [counts EXCEPT ![w] = Append(kept, wall)]
           /\ passed' = [passed EXCEPT ![w] = Append(passed[w], wall)]
  <2> DEFINE r == Append(kept, wall)
  <2>1. wall \in Int /\ wall - Window \in Int /\ wall - Window <= wall
      BY <1>1
  <2>2. Timed(r, wall) /\ Since(r, wall - Window) = Append(kept, wall)
      BY <1>3, <2>1, AppendTimed
  <2>3. Append(passed[w], wall) = r /\ r \in Seq(Int) /\ Len(r) = Len(kept) + 1
      BY <1>2, <2>1
  <2>4. Len(r) <= LimitOf[w[1]]
      BY <1>1, <1>3, <1>6, <2>3
  <2> HIDE DEF r
  <2>5. QED BY <1>1, <1>6, <2>2, <2>3, <2>4, CountsKeep DEF r
<1>7. QED BY <1>4, <1>5, <1>6

LEMMA AttemptsKeep ==
    ASSUME WinInv, NEW c \in Clients, NEW r, NEW p,
           attempts' = [attempts EXCEPT ![c] = r], denied' = [denied EXCEPT ![c] = p],
           Timed(r, wall), p = Since(r, (wall - Window) + 1), p \in Seq(Int), Len(p) <= MaxAttempts,
           UNCHANGED <<wall, counts, passed>>
    PROVE  WinInv'
<1>1. attempts \in [Clients -> Seq(Int)] /\ denied \in [Clients -> Seq(Int)] /\ r \in Seq(Int)
    BY DEF WinInv, Timed
<1>2. /\ attempts' \in [Clients -> Seq(Int)] /\ denied' \in [Clients -> Seq(Int)]
      /\ attempts'[c] = r /\ denied'[c] = p
      /\ \A d \in Clients : d # c => attempts'[d] = attempts[d] /\ denied'[d] = denied[d]
    BY <1>1
<1>3. DeniedRemembered'
    BY <1>2 DEF WinInv, DeniedRemembered
<1>4. ServedRemembered'
    BY DEF WinInv, ServedRemembered
<1>5. WindowBound'
    BY <1>1, <1>2 DEF WinInv, WindowBound
<1>6. QED BY <1>2, <1>3, <1>4, <1>5 DEF WinInv, GateTimes

\* The attempts that count for the lock are among those kept for the lockout.
LEMMA WinMcp ==
    ASSUME WinInv, NEW c \in Clients, NEW credential, Mcp(c, credential) PROVE WinInv'
<1> DEFINE kept == After(attempts[c], wall - Lockout)
           t == (wall - Window) + 1
<1>1. /\ wall \in Nat /\ Window \in Nat /\ Lockout \in Nat /\ MaxAttempts \in Nat
      /\ Window <= Lockout /\ Window >= 1
      /\ UNCHANGED <<wall, counts, passed>>
    BY DEF WinInv, GateTimes, Mcp
<1>2. /\ Timed(attempts[c], wall) /\ denied[c] = Since(attempts[c], t)
      /\ attempts[c] \in Seq(Int) /\ InOrder(attempts[c]) /\ denied[c] \in Seq(Int)
      /\ Len(denied[c]) <= MaxAttempts
    BY DEF WinInv, DeniedRemembered, Timed, WindowBound
<1>3. /\ wall \in Int /\ (wall - Lockout) + 1 \in Int /\ t \in Int /\ (wall - Lockout) + 1 <= t
      /\ t <= wall
    BY <1>1
<1>4. Timed(kept, wall) /\ Since(kept, t) = denied[c]
    BY <1>2, <1>3, SinceTimed, SinceTwice DEF After
<1>5. Locked(kept) <=> Len(denied[c]) >= MaxAttempts
    BY <1>4 DEF Locked, After
<1>6. \/ attempts' = [attempts EXCEPT ![c] = kept] /\ UNCHANGED denied
      \/ /\ ~Locked(kept)
         /\ attempts' = [attempts EXCEPT ![c] = Append(kept, wall)]
         /\ denied' = [denied EXCEPT ![c] = Append(denied[c], wall)]
    BY DEF Mcp
<1> HIDE DEF kept
<1>7. CASE attempts' = [attempts EXCEPT ![c] = kept] /\ UNCHANGED denied
  <2>1. denied' = [denied EXCEPT ![c] = denied[c]]
      BY <1>7 DEF WinInv
  <2>2. QED BY <1>1, <1>2, <1>4, <1>7, <2>1, AttemptsKeep
<1>8. CASE /\ ~Locked(kept)
           /\ attempts' = [attempts EXCEPT ![c] = Append(kept, wall)]
           /\ denied' = [denied EXCEPT ![c] = Append(denied[c], wall)]
  <2> DEFINE r == Append(kept, wall)
             p == Append(denied[c], wall)
  <2>1. Timed(r, wall) /\ p = Since(r, t)
      BY <1>3, <1>4, AppendTimed
  <2>2. p \in Seq(Int) /\ Len(p) = Len(denied[c]) + 1 /\ Len(denied[c]) \in Nat
      BY <1>2, <1>3
  <2>3. Len(p) <= MaxAttempts
      BY <1>1, <1>5, <1>8, <2>2
  <2> HIDE DEF r, p
  <2>4. QED BY <1>1, <1>8, <2>1, <2>2, <2>3, AttemptsKeep DEF r, p
<1>9. QED BY <1>6, <1>7, <1>8

LEMMA WinInvStep == WinInv /\ [GateNext]_gateVars => WinInv'
<1> SUFFICES ASSUME WinInv, [GateNext]_gateVars PROVE WinInv'
    OBVIOUS
<1>1. CASE UNCHANGED <<wall, counts, passed, attempts, denied>>
    BY <1>1 DEF WinInv, GateTimes, ServedRemembered, DeniedRemembered, WindowBound
<1>2. Keys \/ Outage \/ UNCHANGED gateVars => WinInv'
    BY <1>1 DEF Keys, Outage, gateVars
<1>3. ASSUME NEW c \in Clients, NEW class \in Classes, NEW credential, Rest(c, class, credential)
      PROVE  WinInv'
  <2>1. CASE Good(credential)
      BY <1>3, <2>1, WinWindowed DEF Rest
  <2>2. CASE ~Good(credential)
      BY <1>1, <1>3, <2>2 DEF Rest
  <2>3. QED BY <2>1, <2>2
<1>4. ASSUME NEW c \in Clients, NEW class \in Classes, RestOpen(c, class) PROVE WinInv'
    BY <1>4, WinWindowed DEF RestOpen
<1>5. QED BY <1>2, <1>3, <1>4, WinTick, WinMcp DEF GateNext

\* The REST surface serves no client more often in a window than its class of paths allows,
\* public paths and the admin API among them, and the MCP surface tells none 401 more often
\* than its lock allows (rate_limit.py:76, readonly_server.py:1443).
THEOREM WindowsBounded == GateTimes /\ GateSpec => []WindowBound
<1>1. GateTimes /\ GateInit => WinInv
    BY WinInvInit
<1>2. WinInv /\ [GateNext]_gateVars => WinInv'
    BY WinInvStep
<1>3. WinInv => WindowBound
    BY DEF WinInv
<1>4. QED BY <1>1, <1>2, <1>3, PTL DEF GateSpec

(***************************************************************************)
(* Token buckets                                                           *)
(***************************************************************************)
\* Rounded up, a quotient times its divisor is no less than what was divided.
LEMMA RoundedUp ==
    ASSUME NEW w \in Nat, NEW n \in Nat
    PROVE  /\ (w + n) \div (n + 1) \in Nat
           /\ w <= (n + 1) * ((w + n) \div (n + 1))
<1> DEFINE p == n + 1
           q == (w + n) \div p
           r == (w + n) % p
<1>1. p \in Nat /\ p > 0 /\ w + n \in Nat
    OBVIOUS
<1>2. q \in Nat /\ r \in 0 .. p - 1 /\ w + n = p * q + r
    BY <1>1
<1>3. p * q \in Nat
    BY <1>1, <1>2
<1>4. QED BY <1>2, <1>3

LEMMA MaxOfTwo ==
    ASSUME NEW a \in Nat, NEW b \in Nat
    PROVE  Max({a, b}) \in Nat /\ a <= Max({a, b}) /\ b <= Max({a, b})
<1>1. \E x \in {a, b} : \A y \in {a, b} : x >= y
  <2>1. CASE a <= b
      BY <2>1
  <2>2. CASE b <= a
      BY <2>2
  <2>3. QED BY <2>1, <2>2
<1>2. Max({a, b}) \in {a, b} /\ \A y \in {a, b} : Max({a, b}) >= y
    BY <1>1 DEF Max
<1>3. QED BY <1>2

Others == Cardinality(Takers) - 1

Bucket == [tokens : Nat, updated : Nat, capacity : Nat, refill : Nat]
BucketType ==
    /\ BucketShapes
    /\ clock \in Nat /\ shape \in Shapes
    /\ heap \in Seq(Bucket)
    /\ registry \in [Identities -> 0 .. Len(heap)]
    /\ lastSweep \in 0 .. clock
    /\ DOMAIN held = Takers
    /\ \A c \in Takers : held[c] = NoBucket \/ (/\ held[c].bucket \in 1 .. Len(heap)
                                                /\ held[c].for \in Identities)
    /\ granted \in [Identities -> Seq(Nat)]
Filled ==
    \A i \in 1 .. Len(heap) :
        /\ heap[i].updated <= clock
        /\ heap[i].capacity <= Widest /\ heap[i].refill <= Sustained
Dated == \A k \in Identities : \A i \in 1 .. Len(granted[k]) : granted[k][i] <= clock
\* A bucket is of one identity.
OneEach ==
    /\ \A k, l \in Identities : registry[k] # 0 /\ registry[k] = registry[l] => k = l
    /\ \A c \in Takers : \A k \in Identities :
          held[c] # NoBucket /\ held[c].bucket = registry[k] => held[c].for = k

LEMMA ShapesBounded ==
    ASSUME BucketShapes
    PROVE  /\ Widest \in Nat /\ Sustained \in Nat /\ Widest <= SweepPeriod * Sustained
           /\ \A b \in Shapes : /\ b.capacity \in Nat /\ b.refill \in Nat
                                /\ b.capacity <= Widest /\ b.refill <= Sustained
<1>1. \A b \in Shapes : b.capacity \in Nat /\ b.refill \in Nat
    BY DEF BucketShapes
<1> DEFINE C == {b.capacity : b \in Shapes}
           R == {b.refill : b \in Shapes}
<1>2. \E x \in C : \A y \in C : x >= y
    BY <1>1 DEF BucketShapes
<1>3. \E x \in R : \A y \in R : x >= y
    BY <1>1 DEF BucketShapes
<1>4. Max(C) \in C /\ \A y \in C : Max(C) >= y
    BY <1>2 DEF Max
<1>5. Max(R) \in R /\ \A y \in R : Max(R) >= y
    BY <1>3 DEF Max
<1>6. Max(C) = Widest /\ Max(R) = Fastest
    BY DEF Widest, Fastest
<1>7. C \subseteq Nat /\ R \subseteq Nat
    BY <1>1
<1>8. \A b \in Shapes : b.capacity \in C /\ b.refill \in R
    OBVIOUS
<1> HIDE DEF C, R
<1>9. /\ Widest \in Nat /\ Fastest \in Nat
      /\ \A b \in Shapes : b.capacity <= Widest /\ b.refill <= Fastest
    BY <1>1, <1>4, <1>5, <1>6, <1>7, <1>8
<1>10. SweepAfter \in Nat /\ SweepPeriod = SweepAfter + 1
    BY DEF BucketShapes, SweepPeriod
<1>11. Regranted \in Nat /\ Widest <= SweepPeriod * Regranted
  <2>1. Regranted = (Widest + SweepAfter) \div (SweepAfter + 1)
      BY <1>10 DEF Regranted
  <2>2. QED BY <1>9, <1>10, <2>1, RoundedUp
<1>12. Sustained \in Nat /\ Fastest <= Sustained /\ Regranted <= Sustained
    BY <1>9, <1>11, MaxOfTwo DEF Sustained
<1>13. SweepPeriod * Regranted <= SweepPeriod * Sustained
  <2>1. Sustained - Regranted \in Nat /\ SweepPeriod \in Nat
      BY <1>10, <1>11, <1>12
  <2>2. SweepPeriod * (Sustained - Regranted) \in Nat
      BY <2>1
  <2>3. SweepPeriod * (Sustained - Regranted) = SweepPeriod * Sustained - SweepPeriod * Regranted
      BY <1>11, <1>12, <2>1
  <2>4. QED BY <1>11, <1>12, <2>1, <2>2, <2>3
<1>14. SweepPeriod * Regranted \in Nat /\ SweepPeriod * Sustained \in Nat
    BY <1>10, <1>11, <1>12
<1>15. QED BY <1>1, <1>9, <1>11, <1>12, <1>13, <1>14

LEMMA MinOfTwo ==
    ASSUME NEW a \in Int, NEW b \in Int
    PROVE  Min({a, b}) \in {a, b} /\ Min({a, b}) <= a /\ Min({a, b}) <= b
<1>1. \E x \in {a, b} : \A y \in {a, b} : x <= y
  <2>1. CASE a <= b
      BY <2>1
  <2>2. CASE b <= a
      BY <2>2
  <2>3. QED BY <2>1, <2>2
<1>2. Min({a, b}) \in {a, b} /\ \A y \in {a, b} : Min({a, b}) <= y
    BY <1>1 DEF Min
<1>3. QED BY <1>2

\* Takers that hold a bucket of k which k no longer has.
Orphans(k) ==
    {c \in Takers : held[c] # NoBucket /\ held[c].for = k /\ held[c].bucket # registry[k]}
From(k, s) == {i \in DOMAIN granted[k] : granted[k][i] >= s}
\* How often everybody else can have lost a bucket since s.
Losses(s) == IF lastSweep < s THEN 1 ELSE 2 + (lastSweep - s) \div SweepPeriod
\* What was granted since s, and still may be from swept buckets, less the stragglers' part.
Excess(k, s) == Cardinality(From(k, s)) + Cardinality(Orphans(k)) - Others * Losses(s)

\* The excess since s, and what is left in the bucket r, are paid for.
Paid(r, hp, now, x, s) ==
    IF r = 0 THEN x * Cost <= (now - s) * Sustained
    ELSE IF s <= hp[r].updated
         THEN x * Cost + hp[r].tokens <= Widest + (hp[r].updated - s) * Sustained
         ELSE x <= 0
Funded == \A k \in Identities : \A s \in 0 .. clock : Paid(registry[k], heap, clock, Excess(k, s), s)

\* Not everybody holds such a bucket: who swept it does not.
Spared == \A k \in Identities : Cardinality(Orphans(k)) <= Others
Past ==
    \A k \in Identities : \A s \in 0 .. clock : \A t \in s .. clock :
        t < clock => (Grants(k, s, t) - Stragglers(t - s)) * Cost <= Widest + (t - s) * Sustained
BucketInv == BucketType /\ Filled /\ Dated /\ OneEach /\ Funded /\ Spared /\ Past

LEMMA CallersCounted ==
    ASSUME BucketShapes
    PROVE  /\ Others \in Nat /\ Cost \in Nat /\ SweepPeriod \in Nat /\ SweepPeriod >= 1
           /\ SweepPeriod = SweepAfter + 1
           /\ \A S : S \subseteq Takers => IsFiniteSet(S) /\ Cardinality(S) \in Nat
           /\ \A c \in Takers : \A S : S \subseteq Takers \ {c} => Cardinality(S) <= Others
<1>1. IsFiniteSet(Takers) /\ Takers # {} /\ Cost \in Nat /\ SweepAfter \in Nat
    BY DEF BucketShapes
<1>2. Cardinality(Takers) \in Nat /\ Cardinality(Takers) # 0
    BY <1>1, FS_CardinalityType, FS_EmptySet
<1>3. \A S : S \subseteq Takers => IsFiniteSet(S) /\ Cardinality(S) \in Nat
    BY <1>1, FS_Subset, FS_CardinalityType
<1>4. ASSUME NEW c \in Takers, NEW S, S \subseteq Takers \ {c} PROVE Cardinality(S) <= Others
  <2>1. /\ IsFiniteSet(Takers \ {c})
        /\ Cardinality(Takers \ {c}) = Cardinality(Takers) - 1
      BY <1>1, FS_RemoveElement
  <2>2. Cardinality(S) <= Cardinality(Takers \ {c})
      BY <1>4, <2>1, FS_Subset
  <2>3. QED BY <2>1, <2>2 DEF Others
<1>5. Others \in Nat /\ SweepPeriod \in Nat /\ SweepPeriod >= 1 /\ SweepPeriod = SweepAfter + 1
    BY <1>1, <1>2 DEF Others, SweepPeriod
<1>6. QED BY <1>1, <1>3, <1>4, <1>5

LEMMA Divided ==
    ASSUME NEW d \in Nat, d >= 1, NEW a \in Nat, NEW b \in Nat
    PROVE  /\ a \div d \in Nat
           /\ a <= b => a \div d <= b \div d
           /\ a + d <= b => (a \div d) + 1 <= b \div d
<1>1. a \div d \in Nat
    OBVIOUS
<1>2. a <= b => a \div d <= b \div d
    OBVIOUS
<1>3. a + d <= b => (a \div d) + 1 <= b \div d
    OBVIOUS
<1>4. QED BY <1>1, <1>2, <1>3

\* A sweep may lose everybody else's bucket once more.
LEMMA LossesGrow ==
    ASSUME BucketType, NEW s \in Nat
    PROVE  /\ Losses(s) \in Nat /\ Losses(s) >= 1
           /\ s <= clock => Losses(s) <= 2 + (clock - s) \div SweepPeriod
           /\ clock < s => Losses(s) = 1
           /\ /\ lastSweep' = clock /\ clock - lastSweep > SweepAfter /\ s <= clock
              => Losses(s)' \in Nat /\ Losses(s)' >= Losses(s) + 1
<1>1. SweepPeriod \in Nat /\ SweepPeriod >= 1 /\ SweepPeriod = SweepAfter + 1 /\ SweepAfter \in Nat
    BY CallersCounted DEF BucketType, BucketShapes
<1>2. clock \in Nat /\ lastSweep \in Nat /\ lastSweep <= clock
    BY DEF BucketType
<1>3. s <= lastSweep => lastSweep - s \in Nat /\ (lastSweep - s) \div SweepPeriod \in Nat
    BY <1>1, <1>2, Divided
<1>4. s <= clock => clock - s \in Nat /\ (clock - s) \div SweepPeriod \in Nat
    BY <1>1, <1>2, Divided
<1>5. Losses(s) \in Nat /\ Losses(s) >= 1
    BY <1>2, <1>3 DEF Losses
<1>6. s <= clock => Losses(s) <= 2 + (clock - s) \div SweepPeriod
  <2>1. s <= lastSweep => (lastSweep - s) \div SweepPeriod <= (clock - s) \div SweepPeriod
      BY <1>1, <1>2, <1>3, <1>4, Divided
  <2>2. QED BY <1>2, <1>3, <1>4, <2>1 DEF Losses
<1>7. clock < s => Losses(s) = 1
    BY <1>2 DEF Losses
<1>8. ASSUME lastSweep' = clock, clock - lastSweep > SweepAfter, s <= clock
      PROVE  Losses(s)' \in Nat /\ Losses(s)' >= Losses(s) + 1
  <2>1. Losses(s)' = 2 + (clock - s) \div SweepPeriod
      BY <1>2, <1>8 DEF Losses, SweepPeriod
  <2>2. CASE lastSweep < s
      BY <1>4, <1>8, <2>1, <2>2 DEF Losses
  <2>3. CASE s <= lastSweep
    <3>1. (lastSweep - s) + SweepPeriod <= clock - s
        BY <1>1, <1>2, <1>8
    <3>2. ((lastSweep - s) \div SweepPeriod) + 1 <= (clock - s) \div SweepPeriod
        BY <1>1, <1>3, <1>4, <1>8, <2>3, <3>1, Divided
    <3>3. Losses(s) = 2 + (lastSweep - s) \div SweepPeriod
        BY <1>2, <2>3 DEF Losses
    <3>4. QED BY <1>3, <1>4, <1>8, <2>1, <2>3, <3>2, <3>3
  <2>4. QED BY <1>2, <2>2, <2>3
<1>9. QED BY <1>5, <1>6, <1>7, <1>8

LEMMA Times ==
    ASSUME NEW x \in Int, NEW y \in Int, NEW c \in Nat
    PROVE  /\ x * c \in Int /\ (x <= y => x * c <= y * c)
           /\ (x + 1) * c = x * c + c /\ (x - 1) * c = x * c - c
           /\ (x <= 0 => x * c <= 0)
<1>1. x * c \in Int /\ y * c \in Int
    OBVIOUS
<1>2. (x + 1) * c = x * c + c /\ (x - 1) * c = x * c - c
    OBVIOUS
<1>3. x <= y => x * c <= y * c
  <2>1. (y - x) * c = y * c - x * c
      OBVIOUS
  <2>2. x <= y => y - x \in Nat
      OBVIOUS
  <2>3. x <= y => (y - x) * c \in Nat
      BY <2>2
  <2>4. QED BY <1>1, <2>1, <2>3
<1>4. x <= 0 => x * c <= 0
  <2>1. x <= 0 => 0 - x \in Nat
      OBVIOUS
  <2>2. x <= 0 => (0 - x) * c \in Nat
      BY <2>1
  <2>3. (0 - x) * c = 0 - x * c
      OBVIOUS
  <2>4. QED BY <1>1, <2>2, <2>3
<1>5. QED BY <1>1, <1>2, <1>3, <1>4

LEMMA ExcessIsInt ==
    ASSUME BucketType, NEW k \in Identities, NEW s \in Nat
    PROVE  /\ IsFiniteSet(From(k, s)) /\ Cardinality(From(k, s)) \in Nat
           /\ IsFiniteSet(Orphans(k)) /\ Cardinality(Orphans(k)) \in Nat
           /\ Others * Losses(s) \in Nat /\ Excess(k, s) \in Int
<1>1. IsFiniteSet(From(k, s)) /\ Cardinality(From(k, s)) \in Nat
  <2>1. granted[k] \in Seq(Nat)
      BY DEF BucketType
  <2>2. Len(granted[k]) \in Int /\ DOMAIN granted[k] = 1 .. Len(granted[k])
      BY <2>1
  <2>3. IsFiniteSet(1 .. Len(granted[k]))
      BY <2>2, FS_Interval
  <2>4. From(k, s) \subseteq 1 .. Len(granted[k])
      BY <2>2 DEF From
  <2>5. QED BY <2>3, <2>4, FS_Subset, FS_CardinalityType
<1>2. IsFiniteSet(Orphans(k)) /\ Cardinality(Orphans(k)) \in Nat
    BY CallersCounted DEF BucketType, Orphans
<1>3. Others * Losses(s) \in Nat
  <2>1. Others \in Nat /\ Losses(s) \in Nat
      BY CallersCounted, LossesGrow DEF BucketType
  <2>2. QED BY <2>1
<1>4. QED BY <1>1, <1>2, <1>3 DEF Excess

(***************************************************************************)
(* What is paid for stays so                                               *)
(***************************************************************************)
LEMMA PaidLess ==
    ASSUME BucketType, NEW r \in 0 .. Len(heap), NEW x \in Int, NEW y \in Int, y <= x,
           NEW s \in 0 .. clock, Paid(r, heap, clock, x, s)
    PROVE  Paid(r, heap, clock, y, s)
<1>1. Cost \in Nat /\ y * Cost <= x * Cost /\ y * Cost \in Int /\ x * Cost \in Int
    BY CallersCounted, Times DEF BucketType
<1>2. Widest \in Nat /\ Sustained \in Nat /\ clock \in Nat /\ s \in Nat
    BY ShapesBounded DEF BucketType
<1>3. CASE r = 0
  <2>1. (clock - s) * Sustained \in Int
      BY <1>2
  <2>2. QED BY <1>1, <1>3, <2>1 DEF Paid
<1>4. CASE r # 0
  <2> DEFINE u == heap[r].updated
             n == heap[r].tokens
  <2>1. heap[r] \in Bucket
      BY <1>4 DEF BucketType
  <2>2. u \in Nat /\ n \in Nat
      BY <2>1 DEF Bucket
  <2>3. /\ s <= u => x * Cost + n <= Widest + (u - s) * Sustained
        /\ ~(s <= u) => x <= 0
      BY <1>4 DEF Paid
  <2> HIDE DEF u, n
  <2>4. (u - s) * Sustained \in Int
      BY <1>2, <2>2
  <2>5. s <= u => y * Cost + n <= Widest + (u - s) * Sustained
      BY <1>1, <1>2, <2>2, <2>3, <2>4
  <2>6. ~(s <= u) => y <= 0
      BY <2>3
  <2>7. QED BY <1>4, <2>5, <2>6 DEF Paid, u, n
<1>5. QED BY <1>3, <1>4

\* While a bucket was idle for longer than the interval, a full one was earned.
LEMMA PaidSwept ==
    ASSUME BucketType, Filled, NEW r \in 1 .. Len(heap), NEW x \in Int, NEW s \in 0 .. clock,
           clock - heap[r].updated > SweepAfter, Paid(r, heap, clock, x, s)
    PROVE  Paid(0, heap, clock, x, s)
<1> DEFINE u == heap[r].updated
           n == heap[r].tokens
           full == SweepPeriod * Sustained
<1>1. /\ Widest \in Nat /\ Sustained \in Nat /\ clock \in Nat /\ s \in Nat /\ s <= clock
      /\ Cost \in Nat /\ SweepPeriod \in Nat /\ SweepPeriod = SweepAfter + 1
    BY ShapesBounded, CallersCounted DEF BucketType
<1>2. SweepAfter \in Nat /\ Widest <= full
    BY ShapesBounded DEF BucketType, BucketShapes
<1>3. heap[r] \in Bucket
    BY DEF BucketType
<1>4. u \in Nat /\ n \in Nat /\ clock - u > SweepAfter
    BY <1>3 DEF Bucket
<1>5. /\ s <= u => x * Cost + n <= Widest + (u - s) * Sustained
      /\ ~(s <= u) => x <= 0
    BY DEF Paid
<1> HIDE DEF u, n
<1>6. x * Cost \in Int /\ (clock - s) * Sustained \in Nat /\ full \in Nat
    BY <1>1
<1>7. CASE s <= u
  <2>1. u - s \in Nat /\ SweepPeriod + (u - s) <= clock - s
      BY <1>1, <1>2, <1>4, <1>7
  <2>2. (SweepPeriod + (u - s)) * Sustained <= (clock - s) * Sustained
    <3> DEFINE i == SweepPeriod + (u - s)
               j == clock - s
    <3>1. i \in Int /\ j \in Int /\ i <= j /\ Sustained \in Nat
        BY <1>1, <2>1
    <3> HIDE DEF i, j
    <3>2. i * Sustained <= j * Sustained
        BY <3>1, Times
    <3>3. QED BY <3>2 DEF i, j
  <2>3. (u - s) * Sustained \in Nat
      BY <1>1, <2>1
  <2> DEFINE v == u - s
  <2> HIDE DEF v
  <2>4. v \in Nat /\ v = u - s
      BY <2>1 DEF v
  <2>5. (SweepPeriod + v) * Sustained = SweepPeriod * Sustained + v * Sustained
      BY <1>1, <2>4
  <2>6. full + (u - s) * Sustained <= (clock - s) * Sustained
      BY <2>2, <2>4, <2>5
  <2> HIDE DEF full
  <2>7. x * Cost <= (clock - s) * Sustained
      BY <1>1, <1>2, <1>4, <1>5, <1>6, <1>7, <2>3, <2>6
  <2>8. QED BY <2>7 DEF Paid
<1>8. CASE ~(s <= u)
  <2>1. x <= 0 /\ x * Cost <= 0
      BY <1>1, <1>5, <1>8, Times
  <2>2. QED BY <1>6, <2>1 DEF Paid
<1>9. QED BY <1>7, <1>8

\* A new bucket may be full.
LEMMA PaidMade ==
    ASSUME BucketType, NEW x \in Int, NEW s \in 0 .. clock, Paid(0, heap, clock, x, s),
           NEW hp, hp = Append(heap, NewBucket), NEW r, r = Len(heap) + 1
    PROVE  Paid(r, hp, clock, x, s)
<1>1. /\ Widest \in Nat /\ Sustained \in Nat /\ clock \in Nat /\ s \in Nat /\ s <= clock
      /\ shape.capacity \in Nat /\ shape.capacity <= Widest /\ Cost \in Nat
    BY ShapesBounded, CallersCounted DEF BucketType
<1>2. hp[r] = NewBucket /\ r # 0
    BY DEF BucketType
<1>3. hp[r].tokens = shape.capacity /\ hp[r].updated = clock
    BY <1>2 DEF NewBucket
<1>4. x * Cost <= (clock - s) * Sustained /\ x * Cost \in Int /\ (clock - s) * Sustained \in Int
    BY <1>1 DEF Paid
<1>5. QED BY <1>1, <1>2, <1>3, <1>4 DEF Paid

LEMMA SameGrants ==
    ASSUME BucketType, NEW k \in Identities, NEW s \in Nat, granted'[k] = granted[k]
    PROVE  From(k, s)' = From(k, s) /\ \A t : Grants(k, s, t)' = Grants(k, s, t)
BY DEF From, Grants

\* What was paid for up to now bounds every interval.
LEMMA FundedBounds ==
    ASSUME BucketType, Filled, Funded, NEW k \in Identities, NEW s \in 0 .. clock
    PROVE  (Grants(k, s, clock) - Stragglers(clock - s)) * Cost <= Widest + (clock - s) * Sustained
<1>1. /\ Widest \in Nat /\ Sustained \in Nat /\ clock \in Nat /\ s \in Nat /\ s <= clock
      /\ Cost \in Nat /\ Others \in Nat /\ SweepPeriod \in Nat /\ SweepPeriod >= 1
    BY ShapesBounded, CallersCounted DEF BucketType
<1>2. /\ IsFiniteSet(From(k, s)) /\ Cardinality(From(k, s)) \in Nat
      /\ Cardinality(Orphans(k)) \in Nat /\ Others * Losses(s) \in Nat /\ Excess(k, s) \in Int
    BY <1>1, ExcessIsInt
<1> DEFINE I == {i \in DOMAIN granted[k] : granted[k][i] \in s .. clock}
<1>3. I \subseteq From(k, s)
    BY DEF From
<1>4. Cardinality(I) <= Cardinality(From(k, s)) /\ Cardinality(I) \in Nat
    BY <1>2, <1>3, FS_Subset, FS_CardinalityType
<1>5. Grants(k, s, clock) = Cardinality(I)
    BY DEF Grants
<1> HIDE DEF I
<1> DEFINE q == (clock - s) \div SweepPeriod
<1>6. Stragglers(clock - s) = Others * (2 + q)
    BY DEF Stragglers, Others, SweepPeriod
<1>7. clock - s \in Nat /\ q \in Nat /\ Losses(s) \in Nat /\ Losses(s) <= 2 + q
    BY <1>1, LossesGrow, Divided
<1> HIDE DEF q
<1>8. Others * Losses(s) <= Others * (2 + q) /\ Others * (2 + q) \in Nat
  <2>1. Losses(s) * Others <= (2 + q) * Others
      BY <1>1, <1>7, Times
  <2>2. Losses(s) * Others = Others * Losses(s) /\ (2 + q) * Others = Others * (2 + q)
      BY <1>1, <1>7
  <2>3. QED BY <1>1, <1>7, <2>1, <2>2
<1> DEFINE y == Grants(k, s, clock) - Stragglers(clock - s)
           x == Excess(k, s)
<1>9. y \in Int /\ x \in Int /\ y <= x
    BY <1>2, <1>4, <1>5, <1>6, <1>8 DEF Excess
<1> HIDE DEF x, y
<1>10. y * Cost <= x * Cost /\ y * Cost \in Int /\ x * Cost \in Int /\ (x <= 0 => x * Cost <= 0)
    BY <1>1, <1>9, Times
<1> DEFINE r == registry[k]
<1>11. Paid(r, heap, clock, x, s) /\ r \in 0 .. Len(heap)
    BY DEF Funded, x, BucketType
<1>12. (clock - s) * Sustained \in Nat
    BY <1>1
<1> HIDE DEF r
<1>13. x * Cost <= Widest + (clock - s) * Sustained
  <2>1. CASE r = 0
      BY <1>1, <1>10, <1>11, <1>12, <2>1 DEF Paid
  <2>2. CASE r # 0
    <3> DEFINE u == heap[r].updated
               n == heap[r].tokens
    <3>1. heap[r] \in Bucket /\ u <= clock
        BY <1>11, <2>2 DEF BucketType, Filled
    <3>2. u \in Nat /\ n \in Nat
        BY <3>1 DEF Bucket
    <3>3. /\ s <= u => x * Cost + n <= Widest + (u - s) * Sustained
          /\ ~(s <= u) => x <= 0
        BY <1>11, <2>2 DEF Paid
    <3> HIDE DEF u, n
    <3>4. u - s <= clock - s /\ u - s \in Int /\ clock - s \in Int
        BY <1>1, <3>1, <3>2
    <3>5. (u - s) * Sustained <= (clock - s) * Sustained /\ (u - s) * Sustained \in Int
        BY <1>1, <3>4, Times
    <3>6. QED BY <1>1, <1>10, <1>12, <3>2, <3>3, <3>5
  <2>3. QED BY <2>1, <2>2
<1>14. y * Cost <= Widest + (clock - s) * Sustained
    BY <1>1, <1>10, <1>12, <1>13
<1>15. QED BY <1>14 DEF y

(***************************************************************************)
(* The steps                                                               *)
(***************************************************************************)
LEMMA BucketInvInit == BucketShapes /\ BucketInit => BucketInv
<1> SUFFICES ASSUME BucketShapes, BucketInit PROVE BucketInv
    OBVIOUS
<1>1. /\ clock = 0 /\ shape \in Shapes /\ heap = <<>> /\ lastSweep = 0
      /\ registry = [k \in Identities |-> 0] /\ held = [c \in Takers |-> NoBucket]
      /\ granted = [k \in Identities |-> <<>>]
    BY DEF BucketInit
<1>2. Len(heap) = 0 /\ heap \in Seq(Bucket)
    BY <1>1
<1>3. BucketType
    BY <1>1, <1>2 DEF BucketType
<1>4. Filled /\ Dated /\ OneEach /\ Past
    BY <1>1, <1>2 DEF Filled, Dated, OneEach, Past
<1>5. Others \in Nat /\ Cardinality({}) = 0
    BY CallersCounted, FS_EmptySet
<1>6. ASSUME NEW k \in Identities PROVE Orphans(k) = {} /\ From(k, 0) = {} /\ registry[k] = 0
    BY <1>1 DEF Orphans, From
<1>7. Spared
    BY <1>5, <1>6 DEF Spared
<1>8. ASSUME NEW k \in Identities, NEW s \in 0 .. clock
      PROVE  Paid(registry[k], heap, clock, Excess(k, s), s)
  <2>1. s = 0 /\ s \in Nat /\ Sustained \in Nat /\ Cost \in Nat
      BY <1>1, ShapesBounded, CallersCounted
  <2>2. Others * Losses(s) \in Nat /\ Excess(k, s) \in Int
      BY <1>3, <2>1, ExcessIsInt
  <2>3. Excess(k, s) <= 0
      BY <1>5, <1>6, <2>1, <2>2 DEF Excess
  <2>4. Excess(k, s) * Cost <= 0
      BY <2>1, <2>2, <2>3, Times
  <2>5. (clock - s) * Sustained = 0
      BY <1>1, <2>1
  <2>6. QED BY <1>6, <2>4, <2>5 DEF Paid
<1>9. QED BY <1>3, <1>4, <1>7, <1>8 DEF BucketInv, Funded

LEMMA BucketTicks == ASSUME BucketInv, BucketTick PROVE BucketInv'
<1>1. /\ clock' = clock + 1 /\ clock \in Nat
      /\ UNCHANGED <<shape, heap, registry, lastSweep, held, granted>>
    BY DEF BucketTick, BucketInv, BucketType
<1>2. BucketType'
    BY <1>1 DEF BucketInv, BucketType, BucketShapes
<1>3. Filled' /\ Dated' /\ OneEach'
  <2>1. \A i \in 1 .. Len(heap) : heap[i].updated \in Nat
    <3>1. \A i \in 1 .. Len(heap) : heap[i] \in Bucket
        BY DEF BucketInv, BucketType
    <3>2. QED BY <3>1 DEF Bucket
  <2>2. \A k \in Identities : \A i \in 1 .. Len(granted[k]) : granted[k][i] \in Nat
      BY DEF BucketInv, BucketType
  <2>3. QED BY <1>1, <2>1, <2>2 DEF BucketInv, Filled, Dated, OneEach
<1>4. ASSUME NEW k \in Identities, NEW s \in Nat
      PROVE  /\ Orphans(k)' = Orphans(k) /\ Excess(k, s)' = Excess(k, s)
    BY <1>1 DEF Orphans, From, Excess, Losses
<1>5. Spared'
    BY <1>4 DEF BucketInv, Spared, Orphans
<1>6. Past'
  <2> SUFFICES ASSUME NEW k \in Identities, NEW s \in 0 .. clock', NEW t \in s .. clock', t < clock'
               PROVE  (Grants(k, s, t) - Stragglers(t - s)) * Cost <= Widest + (t - s) * Sustained
      BY <1>1 DEF Past, Grants
  <2>1. s \in 0 .. clock /\ t \in s .. clock
      BY <1>1
  <2>2. CASE t < clock
      BY <2>1, <2>2 DEF BucketInv, Past
  <2>3. CASE t = clock
    <3>1. (Grants(k, s, clock) - Stragglers(clock - s)) * Cost <= Widest + (clock - s) * Sustained
        BY <2>1, FundedBounds DEF BucketInv
    <3>2. QED BY <2>3, <3>1
  <2>4. QED BY <1>1, <2>1, <2>2, <2>3
<1>7. ASSUME NEW k \in Identities, NEW s \in 0 .. clock'
      PROVE  Paid(registry[k], heap, clock', Excess(k, s), s)
  <2>1. /\ Widest \in Nat /\ Sustained \in Nat /\ Cost \in Nat /\ Others \in Nat
        /\ s \in Nat /\ Excess(k, s) \in Int /\ registry[k] \in 0 .. Len(heap)
      BY <1>1, ShapesBounded, CallersCounted, ExcessIsInt DEF BucketInv, BucketType
  <2>2. CASE s \in 0 .. clock
    <3>1. Paid(registry[k], heap, clock, Excess(k, s), s)
        BY <2>2 DEF BucketInv, Funded
    <3>2. (clock - s) * Sustained <= (clock' - s) * Sustained
        BY <1>1, <2>1, Times
    <3>3. Excess(k, s) * Cost \in Int /\ (clock - s) * Sustained \in Int /\ (clock' - s) * Sustained \in Int
        BY <1>1, <2>1
    <3>4. QED BY <3>1, <3>2, <3>3 DEF Paid
  <2>3. CASE s = clock + 1
    <3>1. From(k, s) = {}
      <4>1. granted[k] \in Seq(Nat) /\ DOMAIN granted[k] = 1 .. Len(granted[k])
          BY DEF BucketInv, BucketType
      <4>2. \A i \in DOMAIN granted[k] : granted[k][i] \in Nat /\ granted[k][i] <= clock
          BY <4>1 DEF BucketInv, Dated
      <4>3. \A i \in DOMAIN granted[k] : ~(granted[k][i] >= s)
          BY <1>1, <2>3, <4>2
      <4>4. QED BY <4>3 DEF From
    <3>2. Losses(s) = 1 /\ Others * 1 = Others
        BY <1>1, <2>1, <2>3, LossesGrow DEF BucketInv
    <3>3. Cardinality(Orphans(k)) <= Others /\ Cardinality(Orphans(k)) \in Nat
        BY <2>1, ExcessIsInt DEF BucketInv, Spared
    <3>4. Excess(k, s) <= 0
        BY <2>1, <3>1, <3>2, <3>3, FS_EmptySet DEF Excess
    <3>5. Excess(k, s) * Cost <= 0 /\ (clock' - s) * Sustained = 0
        BY <1>1, <2>1, <2>3, <3>4, Times
    <3>6. registry[k] # 0 => ~(s <= heap[registry[k]].updated)
      <4>1. registry[k] # 0 => heap[registry[k]] \in Bucket /\ heap[registry[k]].updated <= clock
          BY <2>1 DEF BucketInv, BucketType, Filled
      <4>2. registry[k] # 0 => heap[registry[k]].updated \in Nat
          BY <4>1 DEF Bucket
      <4>3. QED BY <1>1, <2>3, <4>1, <4>2
    <3>7. QED BY <3>4, <3>5, <3>6 DEF Paid
  <2>4. QED BY <1>1, <2>2, <2>3
<1>8. Funded'
    BY <1>1, <1>4, <1>7 DEF Funded
<1>9. QED BY <1>2, <1>3, <1>5, <1>6, <1>8 DEF BucketInv

\* An interval that has ended gets no more grants.
LEMMA PastStays ==
    ASSUME BucketInv, clock' = clock,
           \A k \in Identities : \A s \in 0 .. clock : \A t \in s .. clock :
              t < clock => Grants(k, s, t)' = Grants(k, s, t)
    PROVE  Past'
BY DEF BucketInv, Past

LEMMA BucketRests ==
    ASSUME BucketInv, shape' \in Shapes,
           UNCHANGED <<clock, heap, registry, lastSweep, held, granted>>
    PROVE  BucketInv'
<1>1. BucketType' /\ Filled' /\ Dated' /\ OneEach'
    BY DEF BucketInv, BucketType, BucketShapes, Filled, Dated, OneEach
<1>2. ASSUME NEW k \in Identities, NEW s \in Nat
      PROVE  /\ Orphans(k)' = Orphans(k) /\ Excess(k, s)' = Excess(k, s)
    BY DEF Orphans, From, Excess, Losses
<1>3. Spared'
    BY <1>2 DEF BucketInv, Spared, Orphans
<1>4. Funded'
  <2>1. clock' = clock /\ registry' = registry /\ heap' = heap /\ clock \in Nat
      BY DEF BucketInv, BucketType
  <2>2. ASSUME NEW k \in Identities, NEW s \in 0 .. clock
        PROVE  Paid(registry[k], heap, clock, Excess(k, s)', s)
      BY <1>2, <2>1, <2>2 DEF BucketInv, Funded
  <2>3. QED BY <2>1, <2>2 DEF Funded
<1>5. Past'
    BY PastStays DEF Grants
<1>6. QED BY <1>1, <1>3, <1>4, <1>5 DEF BucketInv

(***************************************************************************)
(* A caller gets its bucket                                                *)
(***************************************************************************)
\* What a sweep, if it is due, leaves registered
Left == IF clock - lastSweep > SweepAfter THEN Swept ELSE registry
Slot(k) == IF Left[k] = 0 THEN Len(heap) + 1 ELSE Left[k]

LEMMA LeftOrSwept ==
    ASSUME BucketType
    PROVE  /\ Left \in [Identities -> 0 .. Len(heap)]
           /\ \A k \in Identities :
                 \/ Left[k] = registry[k]
                 \/ Left[k] = 0 /\ registry[k] \in 1 .. Len(heap)
                    /\ clock - heap[registry[k]].updated > SweepAfter
                    /\ clock - lastSweep > SweepAfter
BY DEF BucketType, Left, Swept

LEMMA FetchTo ==
    ASSUME BucketType, NEW c \in Takers, NEW k \in Identities, Fetch(c, k)
    PROVE  /\ held[c] = NoBucket /\ UNCHANGED <<clock, shape, granted>>
           /\ lastSweep' = IF clock - lastSweep > SweepAfter THEN clock ELSE lastSweep
           /\ heap' = IF Left[k] = 0 THEN Append(heap, NewBucket) ELSE heap
           /\ registry' = [Left EXCEPT ![k] = Slot(k)]
           /\ held' = [held EXCEPT ![c] = [bucket |-> Slot(k), for |-> k]]
           /\ Slot(k) \in 1 .. Len(heap') /\ Len(heap) <= Len(heap')
           /\ heap' \in Seq(Bucket)
           /\ \A i \in 1 .. Len(heap) : heap'[i] = heap[i]
           /\ \A i \in 1 .. Len(heap') : i \in 1 .. Len(heap) \/ heap'[i] = NewBucket
<1>1. /\ held[c] = NoBucket /\ UNCHANGED <<clock, shape, granted>>
      /\ lastSweep' = IF clock - lastSweep > SweepAfter THEN clock ELSE lastSweep
      /\ heap' = IF Left[k] = 0 THEN Append(heap, NewBucket) ELSE heap
      /\ registry' = [Left EXCEPT ![k] = Slot(k)]
      /\ held' = [held EXCEPT ![c] = [bucket |-> Slot(k), for |-> k]]
    BY DEF Fetch, Left, Slot
<1>2. heap \in Seq(Bucket) /\ Len(heap) \in Nat
    BY DEF BucketType
<1>3. NewBucket \in Bucket
  <2>1. shape.capacity \in Nat /\ shape.refill \in Nat /\ clock \in Nat
      BY ShapesBounded DEF BucketType
  <2>2. QED BY <2>1 DEF NewBucket, Bucket
<1>4. Left[k] \in 0 .. Len(heap)
    BY LeftOrSwept
<1>5. CASE Left[k] = 0
    BY <1>1, <1>2, <1>3, <1>5 DEF Slot
<1>6. CASE Left[k] # 0
    BY <1>1, <1>2, <1>4, <1>6 DEF Slot
<1>7. QED BY <1>1, <1>5, <1>6

LEMMA FetchTyped ==
    ASSUME BucketInv, NEW c \in Takers, NEW k \in Identities, Fetch(c, k)
    PROVE  BucketType' /\ Filled' /\ Dated'
<1>1. BucketType
    BY DEF BucketInv
<1>2. clock' = clock /\ shape' = shape /\ granted' = granted /\ clock \in Nat
    BY <1>1, FetchTo DEF BucketType
<1>3. heap' \in Seq(Bucket) /\ Len(heap) <= Len(heap') /\ Slot(k) \in 1 .. Len(heap')
    BY <1>1, FetchTo
<1>4. Len(heap) \in Nat /\ Len(heap') \in Nat
    BY <1>1, <1>3 DEF BucketType
<1>5. registry' \in [Identities -> 0 .. Len(heap')]
  <2>1. Left \in [Identities -> 0 .. Len(heap')]
    <3>1. Left \in [Identities -> 0 .. Len(heap)]
        BY <1>1, LeftOrSwept
    <3>2. 0 .. Len(heap) \subseteq 0 .. Len(heap')
        BY <1>3, <1>4
    <3>3. QED BY <3>1, <3>2
  <2>2. registry' = [Left EXCEPT ![k] = Slot(k)] /\ Slot(k) \in 0 .. Len(heap')
      BY <1>1, <1>3, <1>4, FetchTo
  <2>3. QED BY <2>1, <2>2
<1>6. lastSweep' \in 0 .. clock'
    BY <1>1, FetchTo DEF BucketType
<1>7. /\ DOMAIN held' = Takers
      /\ \A d \in Takers : held'[d] = NoBucket \/ (/\ held'[d].bucket \in 1 .. Len(heap')
                                                   /\ held'[d].for \in Identities)
  <2>1. /\ held' = [held EXCEPT ![c] = [bucket |-> Slot(k), for |-> k]] /\ DOMAIN held = Takers
      BY <1>1, FetchTo DEF BucketType
  <2>2. ASSUME NEW d \in Takers, d # c
        PROVE  held'[d] = NoBucket \/ (/\ held'[d].bucket \in 1 .. Len(heap')
                                      /\ held'[d].for \in Identities)
      BY <1>1, <1>3, <1>4, <2>1, <2>2 DEF BucketType
  <2>3. held'[c].bucket \in 1 .. Len(heap') /\ held'[c].for \in Identities
      BY <1>3, <2>1
  <2>4. QED BY <2>1, <2>2, <2>3
<1>8. BucketType'
    BY <1>1, <1>2, <1>3, <1>5, <1>6, <1>7 DEF BucketType, BucketShapes
<1>9. Filled'
  <2> SUFFICES ASSUME NEW i \in 1 .. Len(heap')
               PROVE  /\ heap'[i].updated <= clock
                      /\ heap'[i].capacity <= Widest /\ heap'[i].refill <= Sustained
      BY <1>2 DEF Filled
  <2>1. CASE i \in 1 .. Len(heap)
      BY <1>1, <2>1, FetchTo DEF BucketInv, Filled
  <2>2. CASE heap'[i] = NewBucket
    <3>1. shape.capacity <= Widest /\ shape.refill <= Sustained
        BY <1>1, ShapesBounded DEF BucketType
    <3>2. QED BY <1>2, <2>2, <3>1 DEF NewBucket
  <2>3. QED BY <1>1, <2>1, <2>2, FetchTo
<1>10. Dated'
    BY <1>2 DEF BucketInv, Dated
<1>11. QED BY <1>8, <1>9, <1>10

LEMMA FetchOwn ==
    ASSUME BucketInv, NEW c \in Takers, NEW k \in Identities, Fetch(c, k)
    PROVE  OneEach'
<1>1. BucketType /\ OneEach
    BY DEF BucketInv
<1>2. /\ registry' = [Left EXCEPT ![k] = Slot(k)]
      /\ held' = [held EXCEPT ![c] = [bucket |-> Slot(k), for |-> k]]
      /\ DOMAIN held = Takers /\ Slot(k) \in 1 .. Len(heap') /\ Len(heap) \in Nat
    BY <1>1, FetchTo DEF BucketType
<1>3. Left \in [Identities -> 0 .. Len(heap)]
    BY <1>1, LeftOrSwept
<1>4. \A l \in Identities : Left[l] = registry[l] \/ Left[l] = 0
    BY <1>1, LeftOrSwept
<1>5. \/ Left[k] # 0 /\ registry' = Left /\ Slot(k) = Left[k]
      \/ Slot(k) = Len(heap) + 1
    BY <1>2, <1>3 DEF Slot
<1>6. ASSUME NEW l \in Identities, NEW m \in Identities, registry'[l] # 0,
             registry'[l] = registry'[m]
      PROVE  l = m
  <2>1. CASE registry' = Left
      BY <1>1, <1>4, <1>6, <2>1 DEF OneEach
  <2>2. CASE Slot(k) = Len(heap) + 1
    <3>1. registry'[k] = Len(heap) + 1
        BY <1>2, <1>3, <2>2
    <3>2. \A n \in Identities \ {k} : registry'[n] = Left[n] /\ registry'[n] <= Len(heap)
        BY <1>2, <1>3
    <3>3. CASE l = k \/ m = k
        BY <1>2, <1>6, <3>1, <3>2, <3>3
    <3>4. CASE l # k /\ m # k
        BY <1>1, <1>4, <1>6, <3>2, <3>4 DEF OneEach
    <3>5. QED BY <3>3, <3>4
  <2>3. QED BY <1>5, <2>1, <2>2
<1>7. ASSUME NEW d \in Takers, NEW l \in Identities, held'[d] # NoBucket,
             held'[d].bucket = registry'[l]
      PROVE  held'[d].for = l
  <2>1. CASE d = c
    <3>1. held'[d].bucket = Slot(k) /\ held'[d].for = k
        BY <1>2, <2>1
    <3>2. registry'[k] = Slot(k) /\ Slot(k) # 0
        BY <1>2, <1>3
    <3>3. QED BY <1>6, <1>7, <3>1, <3>2
  <2>2. CASE d # c
    <3>1. held'[d] = held[d]
        BY <1>2, <2>2
    <3>2. held[d].bucket \in 1 .. Len(heap)
        BY <1>1, <1>7, <3>1 DEF BucketType
    <3>3. registry'[l] = Left[l]
        BY <1>2, <1>3, <1>5, <1>7, <3>1, <3>2
    <3>4. held[d].bucket = registry[l]
        BY <1>4, <1>7, <3>1, <3>2, <3>3
    <3>5. QED BY <1>1, <1>7, <3>1, <3>4 DEF OneEach
  <2>3. QED BY <2>1, <2>2
<1>8. QED BY <1>6, <1>7 DEF OneEach

\* Who fetched holds a bucket its identity has; a sweep that takes buckets from the others
\* is one more loss.
LEMMA FetchOrphans ==
    ASSUME BucketInv, NEW c \in Takers, NEW k \in Identities, Fetch(c, k), NEW l \in Identities
    PROVE  /\ Orphans(l)' \subseteq Takers \ {c}
           /\ ~(clock - lastSweep > SweepAfter) => Orphans(l)' \subseteq Orphans(l)
<1>1. BucketType
    BY DEF BucketInv
<1>2. /\ registry' = [Left EXCEPT ![k] = Slot(k)]
      /\ held' = [held EXCEPT ![c] = [bucket |-> Slot(k), for |-> k]]
      /\ DOMAIN held = Takers
    BY <1>1, FetchTo DEF BucketType
<1>3. Left \in [Identities -> 0 .. Len(heap)]
    BY <1>1, LeftOrSwept
<1>4. c \notin Orphans(l)'
    BY <1>2, <1>3 DEF Orphans
<1>5. ASSUME ~(clock - lastSweep > SweepAfter), NEW d \in Orphans(l)'
      PROVE  d \in Orphans(l)
  <2>1. Left = registry
      BY <1>5 DEF Left
  <2>2. d \in Takers /\ d # c /\ held'[d] = held[d]
      BY <1>2, <1>4, <1>5 DEF Orphans
  <2>3. held[d] # NoBucket /\ held[d].for = l /\ held[d].bucket # registry'[l]
      BY <1>5, <2>2 DEF Orphans
  <2>4. held[d].bucket \in 1 .. Len(heap)
      BY <1>1, <2>2, <2>3 DEF BucketType
  <2>5. registry[l] = 0 \/ registry'[l] = registry[l]
      BY <1>2, <1>3, <2>1 DEF Slot
  <2>6. held[d].bucket # registry[l]
      BY <2>3, <2>4, <2>5
  <2>7. QED BY <2>2, <2>3, <2>6 DEF Orphans
<1>6. Orphans(l)' \subseteq Takers
    BY DEF Orphans
<1>7. QED BY <1>4, <1>5, <1>6

LEMMA FetchExcess ==
    ASSUME BucketInv, NEW c \in Takers, NEW k \in Identities, Fetch(c, k),
           NEW l \in Identities, NEW s \in 0 .. clock
    PROVE  Excess(l, s)' \in Int /\ Excess(l, s)' <= Excess(l, s)
<1>1. BucketType /\ Others \in Nat /\ s \in Nat /\ s <= clock
    BY CallersCounted DEF BucketInv, BucketType
<1>2. granted' = granted /\ From(l, s)' = From(l, s)
    BY <1>1, FetchTo DEF From
<1> DEFINE f == Cardinality(From(l, s))
           o == Cardinality(Orphans(l))
           p == Cardinality(Orphans(l)')
<1>3. f \in Nat /\ o \in Nat /\ IsFiniteSet(Orphans(l)) /\ Others * Losses(s) \in Nat
    BY <1>1, ExcessIsInt
<1>4. p \in Nat /\ p <= Others /\ (~(clock - lastSweep > SweepAfter) => p <= o)
  <2>1. Orphans(l)' \subseteq Takers \ {c}
      BY FetchOrphans
  <2>2. p <= Others /\ p \in Nat
      BY <1>1, <2>1, CallersCounted DEF BucketType
  <2>3. ~(clock - lastSweep > SweepAfter) => p <= o
      BY <1>3, FetchOrphans, FS_Subset
  <2>4. QED BY <2>2, <2>3
<1>5. Excess(l, s)' = f + p - Others * Losses(s)' /\ Excess(l, s) = f + o - Others * Losses(s)
    BY <1>2 DEF Excess
<1> HIDE DEF f, o, p
<1>6. CASE clock - lastSweep > SweepAfter
  <2>1. Losses(s)' \in Nat /\ Losses(s)' >= Losses(s) + 1 /\ Losses(s) \in Nat
      BY <1>1, <1>6, LossesGrow, FetchTo
  <2> DEFINE a == Losses(s)
             b == Losses(s)'
  <2>2. a \in Nat /\ b \in Nat /\ a + 1 <= b
      BY <2>1
  <2> HIDE DEF a, b
  <2>3. (a + 1) * Others <= b * Others /\ (a + 1) * Others = a * Others + Others
        /\ b * Others \in Int /\ a * Others \in Int
      BY <1>1, <2>2, Times
  <2>4. a * Others = Others * a /\ b * Others = Others * b
      BY <1>1, <2>2
  <2>5. f + p - Others * b \in Int /\ f + p - Others * b <= f + o - Others * a
      BY <1>1, <1>3, <1>4, <2>3, <2>4
  <2>6. QED BY <1>5, <2>5 DEF a, b
<1>7. CASE ~(clock - lastSweep > SweepAfter)
  <2>1. Losses(s)' = Losses(s)
      BY <1>1, <1>7, FetchTo DEF Losses
  <2>2. QED BY <1>1, <1>3, <1>4, <1>5, <1>7, <2>1
<1>8. QED BY <1>6, <1>7

LEMMA BucketFetches ==
    ASSUME BucketInv, NEW c \in Takers, NEW k \in Identities, Fetch(c, k)
    PROVE  BucketInv'
<1>1. BucketType /\ Filled
    BY DEF BucketInv
<1>2. /\ clock' = clock /\ granted' = granted /\ clock \in Nat /\ Len(heap) \in Nat
      /\ registry' = [Left EXCEPT ![k] = Slot(k)] /\ Left \in [Identities -> 0 .. Len(heap)]
    BY <1>1, FetchTo, LeftOrSwept DEF BucketType
<1>3. BucketType' /\ Filled' /\ Dated' /\ OneEach'
    BY FetchTyped, FetchOwn
<1>4. Spared'
  <2>1. \A l \in Identities : Orphans(l)' \subseteq Takers \ {c}
      BY FetchOrphans
  <2>2. \A l \in Identities : Cardinality(Orphans(l)') <= Others
      BY <1>1, <2>1, CallersCounted DEF BucketType
  <2>3. QED BY <2>2 DEF Spared
<1>5. Past'
    BY <1>2, PastStays DEF Grants
<1>6. ASSUME NEW l \in Identities, NEW s \in 0 .. clock
      PROVE  Paid(registry'[l], heap', clock, Excess(l, s)', s)
  <2> DEFINE x == Excess(l, s)'
  <2>1. x \in Int /\ x <= Excess(l, s) /\ Excess(l, s) \in Int
      BY <1>1, <1>6, FetchExcess, ExcessIsInt
  <2>2. Paid(registry[l], heap, clock, Excess(l, s), s) /\ registry[l] \in 0 .. Len(heap)
      BY DEF BucketInv, Funded, BucketType
  <2> HIDE DEF x
  <2>3. Paid(registry[l], heap, clock, x, s)
      BY <1>1, <2>1, <2>2, PaidLess
  <2>4. Paid(Left[l], heap, clock, x, s)
    <3>1. CASE Left[l] = registry[l]
        BY <2>3, <3>1
    <3>2. CASE /\ Left[l] = 0 /\ registry[l] \in 1 .. Len(heap)
               /\ clock - heap[registry[l]].updated > SweepAfter
        BY <1>1, <2>1, <2>3, <3>2, PaidSwept
    <3>3. QED BY <1>1, <3>1, <3>2, LeftOrSwept
  <2>5. CASE registry'[l] = Left[l]
    <3>1. Left[l] = 0 \/ heap'[Left[l]] = heap[Left[l]]
        BY <1>1, <1>2, FetchTo
    <3>2. Paid(Left[l], heap', clock, x, s)
        BY <2>4, <3>1 DEF Paid
    <3>3. QED BY <2>5, <3>2 DEF x
  <2>6. CASE registry'[l] # Left[l]
    <3>1. l = k /\ Left[l] = 0 /\ registry'[l] = Len(heap) + 1
        BY <1>2, <2>6 DEF Slot
    <3>2. heap' = Append(heap, NewBucket)
        BY <1>1, <3>1, FetchTo
    <3>3. Paid(0, heap, clock, x, s)
        BY <2>4, <3>1
    <3>4. Paid(registry'[l], heap', clock, x, s)
        BY <1>1, <2>1, <3>1, <3>2, <3>3, PaidMade
    <3>5. QED BY <3>4 DEF x
  <2>7. QED BY <2>5, <2>6
<1>7. Funded'
    BY <1>2, <1>6 DEF Funded
<1>8. QED BY <1>3, <1>4, <1>5, <1>7 DEF BucketInv

(***************************************************************************)
(* A caller takes from its bucket                                          *)
(***************************************************************************)
\* What Take leaves of a bucket
Taken(b) == IF Refilled(b).tokens >= Cost
            THEN [Refilled(b) EXCEPT !.tokens = @ - Cost] ELSE Refilled(b)
Gets(b) == IF Refilled(b).tokens >= Cost THEN 1 ELSE 0

LEMMA TakenFrom ==
    ASSUME BucketType, NEW b \in Bucket, b.updated <= clock
    PROVE  /\ Taken(b) \in Bucket /\ Gets(b) \in 0 .. 1
           /\ Taken(b).updated = clock /\ Taken(b).capacity = b.capacity
           /\ Taken(b).refill = b.refill
           /\ Taken(b).tokens + Gets(b) * Cost <= b.capacity
           /\ Taken(b).tokens + Gets(b) * Cost <= b.tokens + (clock - b.updated) * b.refill
<1>1. /\ b.tokens \in Nat /\ b.updated \in Nat /\ b.capacity \in Nat /\ b.refill \in Nat
      /\ b = [tokens |-> b.tokens, updated |-> b.updated,
              capacity |-> b.capacity, refill |-> b.refill]
    BY DEF Bucket
<1>2. clock \in Nat /\ Cost \in Nat
    BY CallersCounted DEF BucketType
<1> DEFINE added == b.tokens + (clock - b.updated) * b.refill
           full == Min({b.capacity, added})
<1>3. added \in Nat
  <2>1. clock - b.updated \in Nat
      BY <1>1, <1>2
  <2>2. (clock - b.updated) * b.refill \in Nat
      BY <1>1, <2>1
  <2>3. QED BY <1>1, <2>2
<1>4. Refilled(b) = [tokens |-> full, updated |-> clock,
                     capacity |-> b.capacity, refill |-> b.refill]
  <2>1. Refilled(b) = [b EXCEPT !.tokens = full, !.updated = clock]
      BY DEF Refilled
  <2> HIDE DEF full
  <2>2. QED BY <1>1, <2>1
<1> HIDE DEF added
<1>5. full \in Nat /\ full <= b.capacity /\ full <= added
  <2>1. full \in {b.capacity, added} /\ full <= b.capacity /\ full <= added
      BY <1>1, <1>3, MinOfTwo
  <2>2. QED BY <1>1, <1>3, <2>1
<1> HIDE DEF full
<1>6. CASE full >= Cost
  <2>1. /\ Taken(b) = [tokens |-> full - Cost, updated |-> clock,
                       capacity |-> b.capacity, refill |-> b.refill]
        /\ Gets(b) = 1
      BY <1>4, <1>6 DEF Taken, Gets
  <2>2. full - Cost \in Nat /\ (full - Cost) + 1 * Cost = full
      BY <1>2, <1>5, <1>6
  <2>3. QED BY <1>1, <1>2, <1>5, <2>1, <2>2 DEF Bucket, added
<1>7. CASE ~(full >= Cost)
  <2>1. Taken(b) = Refilled(b) /\ Gets(b) = 0
      BY <1>4, <1>7 DEF Taken, Gets
  <2>2. full + 0 * Cost = full
      BY <1>2, <1>5
  <2>3. QED BY <1>1, <1>2, <1>4, <1>5, <2>1, <2>2 DEF Bucket, added
<1>8. QED BY <1>6, <1>7

LEMMA TakeFrom ==
    ASSUME BucketType, NEW c \in Takers, Take(c), NEW i, i = held[c].bucket,
           NEW k, k = held[c].for
    PROVE  /\ held[c] # NoBucket /\ i \in 1 .. Len(heap) /\ k \in Identities
           /\ UNCHANGED <<clock, shape, registry, lastSweep>>
           /\ held' = [held EXCEPT ![c] = NoBucket]
           /\ heap' = [heap EXCEPT ![i] = Taken(heap[i])]
           /\ granted' = IF Gets(heap[i]) = 1 THEN [granted EXCEPT ![k] = Append(@, clock)]
                         ELSE granted
<1>1. held[c] # NoBucket /\ UNCHANGED <<clock, shape, registry, lastSweep>>
      /\ held' = [held EXCEPT ![c] = NoBucket]
    BY DEF Take
<1>2. i \in 1 .. Len(heap) /\ k \in Identities
    BY <1>1 DEF BucketType
<1>3. /\ heap' = [heap EXCEPT ![i] = Taken(heap[i])]
      /\ granted' = IF Gets(heap[i]) = 1 THEN [granted EXCEPT ![k] = Append(@, clock)]
                    ELSE granted
    BY DEF Take, Taken, Gets
<1>4. QED BY <1>1, <1>2, <1>3

\* A grant counts once from now on, and not at all in what is past.
LEMMA GrantCounts ==
    ASSUME BucketType, NEW k \in Identities, granted'[k] = Append(granted[k], clock)
    PROVE  /\ \A s \in 0 .. clock : Cardinality(From(k, s)') = Cardinality(From(k, s)) + 1
           /\ \A s \in 0 .. clock : \A t \in s .. clock :
                 t < clock => Grants(k, s, t)' = Grants(k, s, t)
<1> DEFINE g == granted[k]
           n == Len(granted[k])
<1>1. g \in Seq(Nat) /\ n \in Nat /\ DOMAIN g = 1 .. n /\ clock \in Nat
    BY DEF BucketType
<1>2. DOMAIN granted'[k] = 1 .. (n + 1) /\ granted'[k][n + 1] = clock
      /\ \A i \in 1 .. n : granted'[k][i] = g[i]
    BY <1>1
<1>3. ASSUME NEW s \in 0 .. clock PROVE Cardinality(From(k, s)') = Cardinality(From(k, s)) + 1
  <2>1. From(k, s)' = {i \in 1 .. (n + 1) : granted'[k][i] >= s}
      BY <1>2 DEF From
  <2>2. From(k, s) = {i \in 1 .. n : g[i] >= s}
      BY <1>1 DEF From
  <2> HIDE DEF g, n
  <2>3. From(k, s)' = From(k, s) \cup {n + 1} /\ n + 1 \notin From(k, s)
      BY <1>1, <1>2, <1>3, <2>1, <2>2
  <2>4. IsFiniteSet(From(k, s))
      BY <1>1, ExcessIsInt
  <2>5. QED BY <2>3, <2>4, FS_AddElement
<1>4. ASSUME NEW s \in 0 .. clock, NEW t \in s .. clock, t < clock
      PROVE  Grants(k, s, t)' = Grants(k, s, t)
  <2> DEFINE new == {i \in DOMAIN granted'[k] : granted'[k][i] \in s .. t}
             old == {i \in DOMAIN granted[k] : granted[k][i] \in s .. t}
  <2>1. new = {i \in 1 .. (n + 1) : granted'[k][i] \in s .. t}
      BY <1>2
  <2>2. old = {i \in 1 .. n : g[i] \in s .. t}
      BY <1>1
  <2>3. clock \notin s .. t
      BY <1>1, <1>4
  <2> HIDE DEF new, old, g, n
  <2>4. new = old
      BY <1>1, <1>2, <2>1, <2>2, <2>3
  <2>5. Grants(k, s, t)' = Cardinality(new) /\ Grants(k, s, t) = Cardinality(old)
      BY DEF Grants, new, old
  <2>6. QED BY <2>4, <2>5
<1>5. QED BY <1>3, <1>4

LEMMA TakeTyped ==
    ASSUME BucketInv, NEW c \in Takers, Take(c)
    PROVE  BucketType' /\ Filled' /\ Dated' /\ OneEach' /\ Past'
<1> DEFINE i == held[c].bucket
           k == held[c].for
<1>1. BucketType /\ Filled /\ Dated /\ OneEach /\ clock \in Nat
    BY DEF BucketInv, BucketType
<1>2. /\ i \in 1 .. Len(heap) /\ k \in Identities /\ held[c] # NoBucket
      /\ UNCHANGED <<clock, shape, registry, lastSweep>>
      /\ held' = [held EXCEPT ![c] = NoBucket] /\ DOMAIN held = Takers
      /\ heap' = [heap EXCEPT ![i] = Taken(heap[i])]
      /\ granted' = IF Gets(heap[i]) = 1 THEN [granted EXCEPT ![k] = Append(@, clock)]
                    ELSE granted
    BY <1>1, TakeFrom DEF BucketType
<1>3. heap[i] \in Bucket /\ heap[i].updated <= clock /\ heap \in Seq(Bucket)
    BY <1>1, <1>2 DEF BucketType, Filled
<1>4. /\ Taken(heap[i]) \in Bucket /\ Taken(heap[i]).updated = clock
      /\ Taken(heap[i]).capacity = heap[i].capacity /\ Taken(heap[i]).refill = heap[i].refill
    BY <1>1, <1>3, TakenFrom
<1> HIDE DEF i, k
<1>5. heap' \in Seq(Bucket) /\ Len(heap') = Len(heap)
      /\ \A j \in 1 .. Len(heap) : heap'[j] = IF j = i THEN Taken(heap[i]) ELSE heap[j]
    BY <1>2, <1>3, <1>4
<1>6. granted \in [Identities -> Seq(Nat)]
    BY <1>1 DEF BucketType
<1>7. granted' \in [Identities -> Seq(Nat)]
    BY <1>1, <1>2, <1>6
<1>8. \A d \in Takers : held'[d] = IF d = c THEN NoBucket ELSE held[d]
    BY <1>2
<1>9. BucketType'
  <2>1. DOMAIN held' = Takers
      BY <1>2
  <2>2. \A d \in Takers : held'[d] = NoBucket \/ (/\ held'[d].bucket \in 1 .. Len(heap')
                                                  /\ held'[d].for \in Identities)
      BY <1>1, <1>5, <1>8 DEF BucketType
  <2>3. QED BY <1>1, <1>2, <1>5, <1>7, <2>1, <2>2 DEF BucketType, BucketShapes
<1>10. Filled'
  <2>1. \A j \in 1 .. Len(heap) : /\ heap'[j].updated <= clock
                                  /\ heap'[j].capacity <= Widest /\ heap'[j].refill <= Sustained
      BY <1>1, <1>2, <1>4, <1>5 DEF Filled
  <2>2. QED BY <1>2, <1>5, <2>1 DEF Filled
<1>11. Dated'
  <2> SUFFICES ASSUME NEW l \in Identities, NEW j \in 1 .. Len(granted'[l])
               PROVE  granted'[l][j] <= clock
      BY <1>2 DEF Dated
  <2>1. CASE granted'[l] = granted[l]
      BY <1>1, <2>1 DEF Dated
  <2>2. CASE granted'[l] = Append(granted[l], clock)
    <3>1. granted[l] \in Seq(Nat)
        BY <1>6
    <3>2. j \in 1 .. Len(granted[l]) \/ granted'[l][j] = clock
        BY <2>2, <3>1
    <3>3. j \in 1 .. Len(granted[l]) => granted'[l][j] = granted[l][j]
        BY <2>2, <3>1
    <3>4. QED BY <1>1, <3>2, <3>3 DEF Dated
  <2>3. QED BY <1>2, <1>6, <2>1, <2>2
<1>12. OneEach'
    BY <1>1, <1>2, <1>8 DEF OneEach
<1>13. Past'
  <2> SUFFICES ASSUME NEW l \in Identities, NEW s \in 0 .. clock, NEW t \in s .. clock, t < clock
               PROVE  Grants(l, s, t)' = Grants(l, s, t)
      BY <1>2, PastStays
  <2>1. CASE granted'[l] = granted[l]
      BY <2>1 DEF Grants
  <2>2. CASE granted'[l] = Append(granted[l], clock)
      BY <1>1, <2>2, GrantCounts
  <2>3. QED BY <1>2, <1>6, <2>1, <2>2
<1>14. QED BY <1>9, <1>10, <1>11, <1>12, <1>13

\* A token taken from the bucket the identity has is an excess by one; one from a bucket it
\* has no more is made up for by the straggler that is gone.
LEMMA TakeExcess ==
    ASSUME BucketInv, NEW c \in Takers, Take(c), NEW l \in Identities, NEW s \in 0 .. clock
    PROVE  /\ Excess(l, s)' \in Int /\ Cardinality(Orphans(l)') <= Others
           /\ IF registry[l] = held[c].bucket
              THEN Excess(l, s)' = Excess(l, s) + Gets(heap[held[c].bucket])
              ELSE Excess(l, s)' <= Excess(l, s)
<1> DEFINE i == held[c].bucket
           k == held[c].for
           g == Gets(heap[i])
<1>1. BucketType /\ OneEach /\ s \in Nat /\ Others \in Nat
    BY CallersCounted DEF BucketInv, BucketType
<1>2. /\ i \in 1 .. Len(heap) /\ k \in Identities /\ held[c] # NoBucket
      /\ UNCHANGED <<clock, shape, registry, lastSweep>>
      /\ held' = [held EXCEPT ![c] = NoBucket] /\ DOMAIN held = Takers
      /\ granted' = IF g = 1 THEN [granted EXCEPT ![k] = Append(@, clock)] ELSE granted
      /\ granted \in [Identities -> Seq(Nat)]
    BY <1>1, TakeFrom DEF BucketType
<1>3. g \in 0 .. 1
    BY DEF Gets
<1>4. c \in Orphans(l) <=> (l = k /\ i # registry[l])
    BY <1>2 DEF Orphans
<1>5. Orphans(l)' = Orphans(l) \ {c}
    BY <1>2 DEF Orphans
<1>6. registry[l] = i => l = k
    BY <1>1, <1>2 DEF OneEach
<1> DEFINE f == Cardinality(From(l, s))
           h == Cardinality(From(l, s)')
           o == Cardinality(Orphans(l))
           p == Cardinality(Orphans(l)')
           a == Others * Losses(s)
<1>7. Excess(l, s)' = h + p - a /\ Excess(l, s) = f + o - a
  <2>1. Losses(s)' = Losses(s)
      BY <1>2 DEF Losses
  <2>2. QED BY <2>1 DEF Excess
<1>8. f \in Nat /\ o \in Nat /\ a \in Nat /\ IsFiniteSet(Orphans(l))
    BY <1>1, ExcessIsInt
<1>9. p = IF l = k /\ i # registry[l] THEN o - 1 ELSE o
  <2>1. CASE c \in Orphans(l)
      BY <1>4, <1>5, <1>8, <2>1, FS_RemoveElement
  <2>2. CASE c \notin Orphans(l)
    <3>1. Orphans(l)' = Orphans(l)
        BY <1>5, <2>2
    <3>2. QED BY <1>4, <2>2, <3>1
  <2>3. QED BY <2>1, <2>2
<1>10. p \in Nat /\ p <= Others
  <2>1. Orphans(l)' \subseteq Takers \ {c}
      BY <1>5 DEF Orphans
  <2>2. QED BY <1>1, <2>1, CallersCounted DEF BucketType
<1>11. h = IF l = k THEN f + g ELSE f
  <2>1. CASE g = 1 /\ l = k
    <3>1. granted'[l] = Append(granted[l], clock)
        BY <1>2, <2>1
    <3>2. QED BY <1>1, <2>1, <3>1, GrantCounts
  <2>2. CASE ~(g = 1 /\ l = k)
    <3>1. granted'[l] = granted[l]
        BY <1>2, <2>2
    <3>2. h = f
        BY <3>1 DEF From
    <3>3. l = k => g = 0
        BY <1>3, <2>2
    <3>4. QED BY <1>8, <3>2, <3>3
  <2>3. QED BY <2>1, <2>2
<1> DEFINE x == Excess(l, s)
           y == Excess(l, s)'
<1>12. x = f + o - a /\ y = h + p - a
    BY <1>7
<1> HIDE DEF f, h, o, p, a, g, i, k, x, y
<1>13. y \in Int /\ p <= Others /\ IF registry[l] = i THEN y = x + g ELSE y <= x
  <2>1. CASE registry[l] = i
      BY <1>3, <1>6, <1>8, <1>9, <1>10, <1>11, <1>12, <2>1
  <2>2. CASE registry[l] # i /\ l = k
      BY <1>3, <1>8, <1>9, <1>10, <1>11, <1>12, <2>2
  <2>3. CASE registry[l] # i /\ l # k
      BY <1>8, <1>9, <1>10, <1>11, <1>12, <2>3
  <2>4. QED BY <2>1, <2>2, <2>3
<1>14. QED BY <1>13 DEF x, y, p, g, i

\* What was funded with what the bucket held is funded with what is left of it.
LEMMA PaidTaken ==
    ASSUME BucketType, Filled, NEW r \in 1 .. Len(heap), NEW x \in Int, NEW s \in 0 .. clock,
           Paid(r, heap, clock, x, s), NEW hp, hp[r] = Taken(heap[r]),
           NEW g, g = Gets(heap[r])
    PROVE  Paid(r, hp, clock, x + g, s)
<1> DEFINE u == heap[r].updated
           n == heap[r].tokens
           w == heap[r].capacity
           q == heap[r].refill
           m == Taken(heap[r]).tokens
<1>1. /\ Widest \in Nat /\ Sustained \in Nat /\ clock \in Nat /\ s \in Nat /\ s <= clock
      /\ Cost \in Nat
    BY ShapesBounded, CallersCounted DEF BucketType
<1>2. heap[r] \in Bucket /\ u <= clock /\ w <= Widest /\ q <= Sustained
    BY DEF BucketType, Filled
<1>3. u \in Nat /\ n \in Nat /\ w \in Nat /\ q \in Nat
    BY <1>2 DEF Bucket
<1>4. /\ Taken(heap[r]) \in Bucket /\ g \in 0 .. 1 /\ Taken(heap[r]).updated = clock
      /\ m + g * Cost <= w /\ m + g * Cost <= n + (clock - u) * q
    BY <1>2, TakenFrom
<1>5. m \in Nat
    BY <1>4 DEF Bucket
<1>6. /\ s <= u => x * Cost + n <= Widest + (u - s) * Sustained
      /\ ~(s <= u) => x <= 0
    BY DEF Paid
<1> HIDE DEF u, n, w, q, m
<1>7. (x + g) * Cost = x * Cost + g * Cost /\ x * Cost \in Int /\ g * Cost \in Nat
  <2>1. CASE g = 0
      BY <1>1, <2>1
  <2>2. CASE g = 1
      BY <1>1, <2>2, Times
  <2>3. QED BY <1>4, <2>1, <2>2
<1>8. (clock - s) * Sustained \in Nat
    BY <1>1
<1>9. CASE s <= u
  <2>1. clock - u \in Nat /\ u - s \in Nat
      BY <1>1, <1>2, <1>3, <1>9
  <2>2. q * (clock - u) <= Sustained * (clock - u)
      BY <1>1, <1>2, <1>3, <2>1, Times
  <2>3. /\ q * (clock - u) = (clock - u) * q /\ (clock - u) * q \in Int
        /\ Sustained * (clock - u) = (clock - u) * Sustained /\ (clock - u) * Sustained \in Int
        /\ (u - s) * Sustained \in Int
      BY <1>1, <1>3, <2>1
  <2> DEFINE v == u - s
             z == clock - u
  <2>4. v \in Nat /\ z \in Nat /\ clock - s = z + v
      BY <1>1, <1>3, <2>1
  <2> HIDE DEF v, z
  <2>5. (clock - s) * Sustained = z * Sustained + v * Sustained
      BY <1>1, <2>4
  <2>6. (clock - s) * Sustained = (clock - u) * Sustained + (u - s) * Sustained
      BY <2>5 DEF v, z
  <2> DEFINE xc == x * Cost
             gc == g * Cost
             slow == (clock - u) * q
             late == (clock - u) * Sustained
             early == (u - s) * Sustained
  <2>a. xc + n <= Widest + early /\ xc \in Int /\ gc \in Nat
      BY <1>6, <1>7, <1>9
  <2>b. m + gc <= n + slow
      BY <1>4
  <2>c. slow \in Int /\ late \in Int /\ early \in Int /\ slow <= late
      BY <2>2, <2>3
  <2>d. (x + g) * Cost = xc + gc /\ (clock - s) * Sustained = late + early
      BY <1>7, <2>6
  <2> HIDE DEF xc, gc, slow, late, early
  <2>e. xc + gc + m <= Widest + late + early
      BY <1>1, <1>3, <1>5, <2>a, <2>b, <2>c
  <2>7. (x + g) * Cost + m <= Widest + (clock - s) * Sustained
      BY <1>1, <1>5, <2>a, <2>c, <2>d, <2>e
  <2>8. QED BY <1>1, <1>4, <2>7 DEF Paid, m
<1>10. CASE ~(s <= u)
  <2>1. x * Cost <= 0
      BY <1>1, <1>6, <1>10, Times
  <2> DEFINE xc == x * Cost
             gc == g * Cost
             gain == (clock - s) * Sustained
  <2>2. xc \in Int /\ gc \in Nat /\ gain \in Nat /\ xc <= 0 /\ m + gc <= w
        /\ (x + g) * Cost = xc + gc
      BY <1>4, <1>7, <1>8, <2>1
  <2> HIDE DEF xc, gc, gain
  <2>3. xc + gc + m <= Widest + gain
      BY <1>1, <1>2, <1>3, <1>5, <2>2
  <2>4. (x + g) * Cost + m <= Widest + (clock - s) * Sustained
      BY <2>2, <2>3 DEF gain
  <2>5. QED BY <1>1, <1>4, <1>10, <2>4 DEF Paid, m
<1>11. QED BY <1>9, <1>10

LEMMA BucketTakes ==
    ASSUME BucketInv, NEW c \in Takers, Take(c) PROVE BucketInv'
<1> DEFINE i == held[c].bucket
           k == held[c].for
<1>1. BucketType /\ Filled
    BY DEF BucketInv
<1>2. BucketType' /\ Filled' /\ Dated' /\ OneEach' /\ Past'
    BY TakeTyped
<1>3. /\ i \in 1 .. Len(heap) /\ clock' = clock /\ registry' = registry /\ clock \in Nat
      /\ heap' = [heap EXCEPT ![i] = Taken(heap[i])] /\ heap \in Seq(Bucket)
    BY <1>1, TakeFrom DEF BucketType
<1>4. Spared'
  <2>1. 0 \in 0 .. clock
      BY <1>3
  <2>2. QED BY <2>1, TakeExcess DEF Spared
<1>5. ASSUME NEW l \in Identities, NEW s \in 0 .. clock
      PROVE  Paid(registry[l], heap', clock, Excess(l, s)', s)
  <2> DEFINE r == registry[l]
             x == Excess(l, s)
             y == Excess(l, s)'
  <2>1. /\ y \in Int
        /\ IF r = i THEN y = x + Gets(heap[i]) ELSE y <= x
      BY TakeExcess
  <2>2. x \in Int
      BY <1>1, <1>3, ExcessIsInt
  <2>3. Paid(r, heap, clock, x, s) /\ r \in 0 .. Len(heap)
      BY DEF BucketInv, Funded, BucketType
  <2> HIDE DEF i, r, x, y
  <2>4. CASE r = i
    <3>1. heap'[r] = Taken(heap[r])
        BY <1>3, <2>4
    <3>2. Paid(r, heap', clock, x + Gets(heap[r]), s)
        BY <1>1, <1>3, <2>2, <2>3, <2>4, <3>1, PaidTaken
    <3>3. QED BY <2>1, <2>4, <3>2 DEF y, r
  <2>5. CASE r # i
    <3>1. r = 0 \/ heap'[r] = heap[r]
        BY <1>3, <2>3, <2>5
    <3>2. Paid(r, heap, clock, y, s)
        BY <1>1, <2>1, <2>2, <2>3, <2>5, PaidLess
    <3>3. Paid(r, heap', clock, y, s)
        BY <3>1, <3>2 DEF Paid
    <3>4. QED BY <3>3 DEF y, r
  <2>6. QED BY <2>4, <2>5
<1>6. Funded'
    BY <1>3, <1>5 DEF Funded
<1>7. QED BY <1>2, <1>4, <1>6 DEF BucketInv

LEMMA BucketInvStep == BucketInv /\ [BucketNext]_bucketVars => BucketInv'
<1> SUFFICES ASSUME BucketInv, [BucketNext]_bucketVars PROVE BucketInv'
    OBVIOUS
<1>1. CASE BucketTick
    BY <1>1, BucketTicks
<1>2. CASE Reshape
    BY <1>2, BucketRests DEF Reshape
<1>3. CASE UNCHANGED bucketVars
    BY <1>3, BucketRests DEF bucketVars, BucketInv, BucketType
<1>4. CASE \E c \in Takers : Take(c)
    BY <1>4, BucketTakes
<1>5. CASE \E c \in Takers, k \in Identities : Fetch(c, k)
    BY <1>5, BucketFetches
<1>6. QED BY <1>1, <1>2, <1>3, <1>4, <1>5 DEF BucketNext

\* token_bucket.py:11: bursts are capped at the capacity and the sustained rate is the refill
\* rate, or a capacity in the time of a sweep when that is more, with any number of threads,
\* however buckets are swept, made again and reshaped meanwhile, up to what callers take from
\* buckets swept under their hands.
THEOREM BucketsBounded == BucketShapes /\ BucketSpec => []BucketBound
<1>1. BucketShapes /\ BucketInit => BucketInv
    BY BucketInvInit
<1>2. BucketInv /\ [BucketNext]_bucketVars => BucketInv'
    BY BucketInvStep
<1>3. BucketInv => BucketBound
  <2> SUFFICES ASSUME BucketInv, NEW k \in Identities, NEW s \in 0 .. clock, NEW t \in s .. clock
               PROVE  (Grants(k, s, t) - Stragglers(t - s)) * Cost <= Widest + (t - s) * Sustained
      BY DEF BucketBound
  <2>1. clock \in Nat
      BY DEF BucketInv, BucketType
  <2>2. CASE t < clock
      BY <2>2 DEF BucketInv, Past
  <2>3. CASE t = clock
    <3>1. (Grants(k, s, clock) - Stragglers(clock - s)) * Cost <= Widest + (clock - s) * Sustained
        BY FundedBounds DEF BucketInv
    <3>2. QED BY <2>3, <3>1
  <2>4. QED BY <2>1, <2>2, <2>3
<1>4. QED BY <1>1, <1>2, <1>3, PTL DEF BucketSpec
=============================================================================
