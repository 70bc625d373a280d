---------------------- MODULE ShadowCollectionsProofs ----------------------
(***************************************************************************)
(* What holds of ShadowCollections for every set of symbols and every      *)
(* bound on the history.                                                   *)
(***************************************************************************)
EXTENDS ShadowCollections, FiniteSetTheorems, TLAPS

-----------------------------------------------------------------------------
(* Typing *)

LEMMA CollectionNames ==
  ASSUME TypeOK
  PROVE  /\ Detected \in Names
         /\ Served \in Names
         /\ WriteName \in Names
         /\ ShadowName \in Names
         /\ Other(active) \in Names \ {active}
  BY DEF TypeOK, Names, NoShadow, Detected, Served, WriteName, ShadowName, Other

LEMMA ConnectTyped ==
  ASSUME TypeOK, Connect
  PROVE  connected' \in BOOLEAN /\ active' \in Names
  BY CollectionNames DEF Connect

LEMMA InitTypeOK == Init => TypeOK
<1> SUFFICES ASSUME Init
             PROVE  TypeOK
  OBVIOUS
<1>1. past \in Seq(Names)
  BY DEF Init
<1>2. /\ job \in [phase : {"none", "waiting", "uploading", "ending"},
                   want : SUBSET Symbols, todo : SUBSET Symbols, force : BOOLEAN]
      /\ call \in [Callers -> [phase : {"idle", "loaded", "removing", "patching"},
                                want : SUBSET Symbols, force : BOOLEAN]]
      /\ sync \in [drop : SUBSET Symbols, todo : SUBSET Symbols,
                    batch : SUBSET Symbols, into : Names \cup {NoShadow}]
  BY DEF Init, NoJob, NoCall, NoSync
<1>. QED
  BY <1>1, <1>2 DEF Init, TypeOK, NoJob, NoSync, Names, NoShadow

LEMMA RequestTypeOK ==
  ASSUME TypeOK, Request
  PROVE  TypeOK'
<1>1. ASSUME NEW tree \in Trees, Index(tree)
      PROVE  TypeOK'
  BY <1>1 DEF Index, Load, Trees, TypeOK, collections, Callers
<1>2. CASE Replay
  BY <1>2 DEF Replay, Load, TypeOK, collections, Callers
<1>3. CASE ReplayEmpty
  BY <1>3, CollectionNames, ConnectTyped DEF ReplayEmpty, Recreate, TypeOK
<1>4. CASE SemanticOnly
  BY <1>4 DEF SemanticOnly, Load, TypeOK, collections, Callers
<1>5. ASSUME NEW tree \in Trees, NEW touched \in SUBSET Symbols,
             BeginSync(tree, touched)
      PROVE  TypeOK'
  BY <1>5 DEF BeginSync, SyncPhase, Trees, TypeOK, collections, Callers, NoSync
<1>. QED
  BY <1>1, <1>2, <1>3, <1>4, <1>5 DEF Request

LEMMA ThreadTypeOK ==
  ASSUME TypeOK, Thread
  PROVE  TypeOK'
<1>1. CASE Skip
  BY <1>1, ConnectTyped DEF Skip, TypeOK
<1>2. CASE Begin
  BY <1>2, ConnectTyped, CollectionNames DEF Begin, Recreate, TypeOK
<1>3. ASSUME NEW s \in Symbols, Upload(s)
      PROVE  TypeOK'
  BY <1>3 DEF Upload, TypeOK
<1>4. CASE Commit
  <2>1. shadow \in Names
    BY <1>4 DEF Commit, CommitTail, TypeOK
  <2>2. past' \in Seq(Names)
    BY <1>4 DEF Commit, CommitTail, TypeOK
  <2>. QED
    BY <1>4, <2>1, <2>2 DEF Commit, CommitTail, TypeOK
<1>5. CASE End
  BY <1>5 DEF End, TypeOK, collections, NoJob
<1>. QED
  BY <1>1, <1>2, <1>3, <1>4, <1>5 DEF Thread

LEMMA SyncStepTypeOK ==
  ASSUME TypeOK, SyncStep
  PROVE  TypeOK'
<1>1. CASE DeleteGone
  <2>1. /\ docs' \in [Names -> SUBSET Symbols]
        /\ connected' \in BOOLEAN
        /\ active' \in Names
    BY <1>1, ConnectTyped DEF DeleteGone, TypeOK
  <2>. QED
    BY <1>1, <2>1 DEF DeleteGone, SyncPhase, TypeOK, Callers
<1>2. ASSUME NEW s \in Symbols, Embed(s)
      PROVE  TypeOK'
  BY <1>2, ConnectTyped, CollectionNames DEF Embed, TypeOK
<1>3. CASE Insert
  BY <1>3 DEF Insert, TypeOK
<1>4. CASE EndSync
  BY <1>4 DEF EndSync, TypeOK, collections, NoCall, Callers
<1>. QED
  BY <1>1, <1>2, <1>3, <1>4 DEF SyncStep

LEMMA NextTypeOK == TypeOK /\ [Next]_vars => TypeOK'
<1> SUFFICES ASSUME TypeOK, [Next]_vars
             PROVE  TypeOK'
  OBVIOUS
<1>1. CASE Query
  BY <1>1, ConnectTyped DEF Query, TypeOK
<1>2. ASSUME NEW c \in Callers, Start(c)
      PROVE  TypeOK'
  <2>1. call[c] \in [phase : {"idle", "loaded", "removing", "patching"},
                     want : SUBSET Symbols, force : BOOLEAN]
    BY <1>2 DEF TypeOK
  <2>2. NoCall \in [phase : {"idle", "loaded", "removing", "patching"},
                    want : SUBSET Symbols, force : BOOLEAN]
    BY DEF NoCall
  <2>3. call' \in [Callers ->
                     [phase : {"idle", "loaded", "removing", "patching"},
                      want : SUBSET Symbols, force : BOOLEAN]]
    BY <1>2, <2>2 DEF Start, TypeOK
  <2>4. /\ busy' \in BOOLEAN
        /\ job' \in [phase : {"none", "waiting", "uploading", "ending"},
                     want : SUBSET Symbols, todo : SUBSET Symbols,
                     force : BOOLEAN]
        /\ job'.phase = "uploading" => shadow \in Names
    <3>1. CASE busy
      BY <1>2, <3>1 DEF Start, TypeOK
    <3>2. CASE ~ busy
      <4>1. call[c].want \in SUBSET Symbols /\ call[c].force \in BOOLEAN
        BY <2>1
      <4>2. /\ busy' = TRUE
            /\ job' = [phase |-> "waiting", want |-> call[c].want,
                       todo |-> call[c].want, force |-> call[c].force]
        BY <1>2, <3>2 DEF Start
      <4>. QED
        BY <4>1, <4>2
    <3>. QED
      BY <3>1, <3>2
  <2>. QED
    BY <1>2, <2>3, <2>4 DEF Start, TypeOK, collections
<1>3. CASE Fail
  <2>1. /\ docs' \in [Names -> SUBSET Symbols]
        /\ connected' \in BOOLEAN
        /\ active' \in Names
        /\ UNCHANGED <<shadow, past>>
    BY <1>3, ConnectTyped DEF Fail, Raise, Recreate, TypeOK, collections
  <2>. QED
    BY <1>3, <2>1 DEF Fail, TypeOK, NoJob
<1>4. CASE Rollback
  <2>1. past \in Seq(Names) /\ Len(past) \in 1 .. Len(past)
    BY <1>4 DEF Rollback, TypeOK
  <2>2. past[Len(past)] \in Names
    BY <2>1
  <2>3. SubSeq(past, 1, Len(past) - 1) \in Seq(Names)
    BY <2>1
  <2>. QED
    BY <1>4, <2>2, <2>3 DEF Rollback, TypeOK
<1>5. CASE Restart
  <2>1. past' \in Seq(Names)
    BY <1>5 DEF Restart
  <2>2. /\ snapshot' \in SUBSET Symbols
        /\ docs' \in [Names -> SUBSET Symbols]
    BY <1>5 DEF Restart, TypeOK
  <2>. QED
    BY <1>5, <2>1, <2>2
       DEF Restart, TypeOK, NoJob, NoCall, NoSync, NoShadow, Names
<1>6. CASE UNCHANGED vars
  BY <1>6 DEF vars, collections, TypeOK
<1>. QED
  BY <1>1, <1>2, <1>3, <1>4, <1>5, <1>6, RequestTypeOK, ThreadTypeOK,
     SyncStepTypeOK DEF Next

(* Every variable stays in its type under all faults together.  The last   *)
(* two conjuncts are the point: a thread that is uploading always has a    *)
(* collection to upload to, and a batch in flight a collection to go to.   *)
THEOREM TypeCorrect == Spec => []TypeOK
<1>. QED
  BY InitTypeOK, NextTypeOK, PTL DEF Spec
-----------------------------------------------------------------------------
(* The shadow and the searched collection                                  *)

(* Nobody restarts the process or rolls the collection back. *)
Steady == "restart" \notin Faults /\ "rollback" \notin Faults

(* Before the first use of the client there is nothing in the collections  *)
(* and the default name is the one detection will find; whoever holds a    *)
(* write target has used the client.                                       *)
Cold ==
    ~ connected =>
        /\ active = "CodeChunk"
        /\ docs = [n \in Names |-> {}]
        /\ job.phase # "uploading"
        /\ sync.batch = {}

ShadowInv == Cold /\ ShadowUnseen

(* Detection changes nothing as long as the process has not restarted. *)
LEMMA NothingDetected ==
  ASSUME TypeOK, Cold
  PROVE  /\ Served = active
         /\ ShadowName = Other(active)
<1>1. ~ connected => Detected = "CodeChunk"
  <2>1. Cardinality({}) = 0
    BY FS_EmptySet
  <2>. QED
    BY <2>1 DEF Cold, Detected, Names
<1>2. Served = active
  BY <1>1 DEF Cold, Served
<1>. QED
  BY <1>2 DEF ShadowName

LEMMA ShadowStep ==
  ASSUME Steady, TypeOK, ShadowInv, [Next]_vars
  PROVE  ShadowInv'
<1> USE DEF ShadowInv, ShadowUnseen, Cold
<1>0. /\ Served = active
      /\ ShadowName \in Names \ {active}
      /\ Other(active) \in Names \ {active}
      /\ NoShadow # active
  BY NothingDetected, CollectionNames DEF TypeOK, Names, NoShadow
<1>1. CASE Query
  BY <1>0, <1>1 DEF Query, Connect
<1>2. CASE Request
  <2>1. ASSUME NEW tree \in Trees, Index(tree)
        PROVE  ShadowInv'
    BY <2>1 DEF Index, collections
  <2>2. CASE Replay \/ SemanticOnly
    BY <2>2 DEF Replay, SemanticOnly, collections
  <2>3. CASE ReplayEmpty
    BY <1>0, <2>3 DEF ReplayEmpty, Recreate, Connect
  <2>4. ASSUME NEW tree \in Trees, NEW touched \in SUBSET Symbols,
               BeginSync(tree, touched)
        PROVE  ShadowInv'
    BY <2>4 DEF BeginSync, collections, NoSync
  <2>. QED
    BY <1>2, <2>1, <2>2, <2>3, <2>4 DEF Request
<1>3. ASSUME NEW c \in Callers, Start(c)
      PROVE  ShadowInv'
  BY <1>3 DEF Start, collections
<1>4. CASE Thread
  <2>1. CASE Skip
    BY <1>0, <2>1 DEF Skip, Connect
  <2>2. CASE Begin
    BY <1>0, <2>2 DEF Begin, Recreate, Connect
  <2>3. ASSUME NEW s \in Symbols, Upload(s)
        PROVE  ShadowInv'
    BY <2>3 DEF Upload
  <2>4. CASE Commit
    BY <2>4 DEF Commit, CommitTail, TypeOK, Names, NoShadow
  <2>5. CASE End
    BY <2>5 DEF End, collections, NoJob
  <2>. QED
    BY <1>4, <2>1, <2>2, <2>3, <2>4, <2>5 DEF Thread
<1>5. CASE Fail
  BY <1>0, <1>5 DEF Fail, Raise, Recreate, Connect, collections, NoJob
<1>6. CASE SyncStep
  <2>1. CASE DeleteGone
    BY <1>0, <2>1 DEF DeleteGone, Connect
  <2>2. ASSUME NEW s \in Symbols, Embed(s)
        PROVE  ShadowInv'
    BY <1>0, <2>2 DEF Embed, Connect
  <2>3. CASE Insert
    BY <2>3 DEF Insert
  <2>4. CASE EndSync
    BY <2>4 DEF EndSync, collections
  <2>. QED
    BY <1>6, <2>1, <2>2, <2>3, <2>4 DEF SyncStep
<1>7. ~ Rollback /\ ~ Restart
  BY DEF Steady, Rollback, Restart
<1>8. CASE UNCHANGED vars
  BY <1>8 DEF vars, collections
<1>. QED
  BY <1>1, <1>2, <1>3, <1>4, <1>5, <1>6, <1>7, <1>8 DEF Next

LEMMA InitShadow == Init => ShadowInv
  BY DEF Init, ShadowInv, ShadowUnseen, Cold, NoShadow, NoJob, NoSync

(* The collection that is being filled is never the one that is searched,  *)
(* also with requests that overlap and rebuilds that fail, as long as the  *)
(* process is not restarted and the collection not rolled back.            *)
THEOREM ShadowNeverSearched == Steady => (Spec => []ShadowUnseen)
<1> SUFFICES ASSUME Steady
             PROVE  Spec => []ShadowUnseen
  OBVIOUS
<1>1. TypeOK /\ ShadowInv /\ [Next]_vars => ShadowInv'
  BY ShadowStep
<1>2. ShadowInv => ShadowUnseen
  BY DEF ShadowInv
<1>. QED
  BY <1>1, <1>2, InitShadow, TypeCorrect, PTL DEF Spec

-----------------------------------------------------------------------------
(* What searches see                                                       *)

(* Requests come one by one; rebuilds may fail at any point. *)
Orderly == Faults \subseteq {"beginfail", "buildfail", "statsfail"}

(* Either the rebuild thread is at work or one request is. *)
OneAtATime ==
    /\ busy <=> job.phase # "none"
    /\ \A c \in Callers : call[c].phase # "idle" =>
        /\ ~ busy
        /\ \A d \in Callers \ {c} : call[d].phase = "idle"
    /\ call["semantic"].phase \in {"idle", "loaded"}
    /\ sync.batch # {} => call["locked"].phase = "patching"

(* What a rebuild was given is the stored snapshot, and nothing of it gets *)
(* lost between the request and the commit.                                *)
Complete ==
    /\ \A c \in Callers : call[c].phase = "loaded" => call[c].want = snapshot
    /\ job.phase = "waiting" => job.todo = snapshot
    /\ job.phase = "uploading" => docs[shadow] \cup job.todo = snapshot

(* A sync deletes nothing that is in the snapshot and writes nothing that  *)
(* is not.                                                                 *)
SyncSound ==
    /\ call["locked"].phase = "removing" => sync.drop \cap snapshot = {}
    /\ call["locked"].phase \in {"removing", "patching"} =>
        sync.todo \cup sync.batch \subseteq snapshot

PublishInv == OneAtATime /\ Complete /\ SyncSound

LEMMA PublishRequest ==
  ASSUME Orderly, TypeOK, PublishInv, Request
  PROVE  PublishInv'
<1> USE DEF PublishInv, OneAtATime, Complete, SyncSound
<1>1. \A c \in Callers : MayCome(c) => Quiet
  BY DEF Orderly, MayCome
<1>2. ASSUME NEW tree \in Trees, Index(tree)
      PROVE  PublishInv'
  BY <1>1, <1>2 DEF Index, Load, Quiet, collections, TypeOK, Callers
<1>3. CASE Replay
  BY <1>1, <1>3 DEF Replay, Load, Quiet, collections, TypeOK, Callers
<1>4. CASE ReplayEmpty
  BY <1>1, <1>4 DEF ReplayEmpty, Quiet, TypeOK, Callers
<1>5. CASE SemanticOnly
  BY <1>1, <1>5 DEF SemanticOnly, Load, Quiet, collections, TypeOK, Callers
<1>6. ASSUME NEW tree \in Trees, NEW touched \in SUBSET Symbols,
             BeginSync(tree, touched)
      PROVE  PublishInv'
  BY <1>1, <1>6 DEF BeginSync, SyncPhase, NoSync, Quiet, collections, TypeOK, Callers
<1>. QED
  BY <1>2, <1>3, <1>4, <1>5, <1>6 DEF Request

LEMMA PublishThread ==
  ASSUME Orderly, TypeOK, PublishInv, Thread
  PROVE  PublishInv'
<1> USE DEF PublishInv, OneAtATime, Complete, SyncSound
<1>1. CASE Skip
  BY <1>1 DEF Skip, TypeOK
<1>2. CASE Begin
  BY <1>2, CollectionNames DEF Begin, Recreate, Orderly, TypeOK
<1>3. ASSUME NEW s \in Symbols, Upload(s)
      PROVE  PublishInv'
  BY <1>3 DEF Upload, TypeOK
<1>4. CASE Commit
  BY <1>4 DEF Commit, CommitTail, TypeOK
<1>5. CASE End
  BY <1>5 DEF End, NoJob, collections, TypeOK
<1>. QED
  BY <1>1, <1>2, <1>3, <1>4, <1>5 DEF Thread

LEMMA PublishSyncStep ==
  ASSUME TypeOK, PublishInv, SyncStep
  PROVE  PublishInv'
<1> USE DEF PublishInv, OneAtATime, Complete, SyncSound, Callers
<1>1. CASE DeleteGone
  BY <1>1 DEF DeleteGone, SyncPhase, TypeOK
<1>2. ASSUME NEW s \in Symbols, Embed(s)
      PROVE  PublishInv'
  BY <1>2 DEF Embed, TypeOK
<1>3. CASE Insert
  BY <1>3 DEF Insert, TypeOK
<1>4. CASE EndSync
  BY <1>4 DEF EndSync, NoCall, collections, TypeOK
<1>. QED
  BY <1>1, <1>2, <1>3, <1>4 DEF SyncStep

LEMMA PublishStep ==
  ASSUME Orderly, TypeOK, PublishInv, [Next]_vars
  PROVE  PublishInv'
<1> USE DEF PublishInv, OneAtATime, Complete, SyncSound
<1>1. CASE Query
  BY <1>1 DEF Query
<1>2. ASSUME NEW c \in Callers, Start(c)
      PROVE  PublishInv'
  <2>1. ~ busy
    BY <1>2 DEF Start
  <2>2. /\ busy' /\ job'.phase = "waiting"
        /\ job'.todo = call[c].want
    BY <1>2, <2>1 DEF Start
  <2>3. \A d \in Callers : call'[d].phase = "idle"
    BY <1>2 DEF Start, NoCall, TypeOK
  <2>. QED
    BY <1>2, <2>2, <2>3 DEF Start, collections, Callers
<1>3. CASE Fail
  BY <1>3 DEF Fail, NoJob
<1>4. ~ Rollback /\ ~ Restart
  BY DEF Orderly, Rollback, Restart
<1>5. CASE UNCHANGED vars
  BY <1>5 DEF vars, collections
<1>. QED
  BY <1>1, <1>2, <1>3, <1>4, <1>5, PublishRequest, PublishThread,
     PublishSyncStep DEF Next

LEMMA InitPublish == Init => PublishInv
  BY DEF Init, PublishInv, OneAtATime, Complete, SyncSound, NoJob, NoCall,
         NoSync, Callers

(* A step that changes neither the searched collection nor the snapshot is *)
(* a stutter of the abstract index; one that records a snapshot, and one   *)
(* that changes what is searched, are steps of it.                         *)
LEMMA ViewStep ==
  ASSUME Orderly, TypeOK, ShadowInv, PublishInv, [Next]_vars
  PROVE  [View!Next]_View!vars
<1> DEFINE Same == docs'[Served'] = docs[Served]
<1> USE DEF View!Next, View!vars
<1>0. /\ Served = active
      /\ ShadowName # active
      /\ Other(active) # active
      /\ Connect => Served' = active
      /\ UNCHANGED <<docs, connected, active>> => Same
  <2>1. /\ Served = active
        /\ ShadowName # active
        /\ Other(active) # active
    BY NothingDetected, CollectionNames DEF ShadowInv
  <2>2. Connect => Served' = active
    BY <2>1 DEF Connect, Served
  <2>3. UNCHANGED <<docs, connected, active>> => Same
    BY DEF Served, Detected
  <2>. QED
    BY <2>1, <2>2, <2>3
<1>1. CASE Query \/ Skip \/ Replay \/ ReplayEmpty \/ SemanticOnly
  <2>1. Same
    BY <1>0, <1>1
       DEF Query, Skip, Replay, ReplayEmpty, Recreate, SemanticOnly, collections, TypeOK
  <2>. QED
    BY <1>1, <2>1 DEF Query, Skip, Replay, ReplayEmpty, SemanticOnly
<1>2. ASSUME NEW tree \in Trees, NEW touched \in SUBSET Symbols,
             Index(tree) \/ BeginSync(tree, touched)
      PROVE  View!Record
  BY <1>0, <1>2 DEF Index, BeginSync, Trees, collections, View!Record
<1>3. ASSUME NEW c \in Callers, Start(c)
      PROVE  Same /\ UNCHANGED snapshot
  BY <1>0, <1>3 DEF Start, collections
<1>4. CASE Begin
  BY <1>0, <1>4 DEF Begin, Recreate, TypeOK
<1>5. ASSUME NEW s \in Symbols, Upload(s)
      PROVE  Same /\ UNCHANGED snapshot
  <2>1. Served' = active
    <3>1. connected
      BY <1>5 DEF Upload, ShadowInv, Cold
    <3>. QED
      BY <1>5, <3>1 DEF Upload, Served
  <2>. QED
    BY <1>0, <1>5, <2>1 DEF Upload, ShadowInv, ShadowUnseen, TypeOK
<1>6. CASE Commit
  <2>1. connected' /\ Served' = shadow
    BY <1>6 DEF Commit, CommitTail, ShadowInv, Cold, Served
  <2>2. docs'[Served'] = snapshot
    BY <1>6, <2>1 DEF Commit, CommitTail, PublishInv, Complete
  <2>. QED
    BY <1>6, <2>2 DEF Commit, CommitTail, View!Converge
<1>7. CASE End \/ EndSync
  BY <1>0, <1>7 DEF End, EndSync, collections
<1>8. CASE Fail
  BY <1>0, <1>8 DEF Fail, Raise, Recreate, collections, TypeOK
<1>9. CASE DeleteGone
  <2>1. CASE sync.drop = {}
    BY <1>0, <1>9, <2>1 DEF DeleteGone
  <2>2. CASE sync.drop # {}
    <3>1. Served' = active
      BY <1>0, <1>9, <2>2 DEF DeleteGone
    <3>2. \/ docs'[active] = docs[active]
          \/ docs'[active] = docs[active] \ sync.drop
      BY <1>9, <2>2 DEF DeleteGone, TypeOK
    <3>3. sync.drop \cap snapshot = {}
      BY <1>9 DEF DeleteGone, PublishInv, SyncSound
    <3>. QED
      BY <1>0, <1>9, <3>1, <3>2, <3>3 DEF DeleteGone, View!Converge
  <2>. QED
    BY <2>1, <2>2
<1>10. ASSUME NEW s \in Symbols, Embed(s)
       PROVE  Same /\ UNCHANGED snapshot
  BY <1>0, <1>10 DEF Embed
<1>11. CASE Insert
  <2>1. Served' = active
    BY <1>0, <1>11 DEF Insert, ShadowInv, Cold, Served
  <2>2. \/ docs'[active] = docs[active]
        \/ docs'[active] = docs[active] \cup sync.batch
    BY <1>11 DEF Insert, TypeOK
  <2>3. sync.batch \subseteq snapshot
    BY <1>11 DEF Insert, PublishInv, SyncSound, OneAtATime
  <2>. QED
    BY <1>0, <1>11, <2>1, <2>2, <2>3 DEF Insert, View!Converge
<1>12. ~ Rollback /\ ~ Restart
  BY DEF Orderly, Rollback, Restart
<1>13. CASE UNCHANGED vars
  BY <1>0, <1>13 DEF vars, collections
<1> HIDE DEF Same
<1>14. Same /\ UNCHANGED snapshot => UNCHANGED View!vars
  BY DEF Same
<1>. QED
  BY <1>1, <1>2, <1>3, <1>4, <1>5, <1>6, <1>7, <1>8, <1>9, <1>10, <1>11,
     <1>12, <1>13, <1>14 DEF Next, Request, Thread, SyncStep

(* Zero-downtime rebuild of the semantic index: with one request at a time *)
(* and rebuilds that may fail anywhere, every change of what searches see  *)
(* goes towards the stored snapshot, and a commit shows all of it at once. *)
THEOREM ZeroDowntime == Orderly => (Spec => PublishesAtomically)
<1> SUFFICES ASSUME Orderly
             PROVE  Spec => PublishesAtomically
  OBVIOUS
<1>0. Steady
  BY DEF Orderly, Steady
<1>1. TypeOK /\ ShadowInv /\ [Next]_vars => ShadowInv'
  BY <1>0, ShadowStep
<1>2. TypeOK /\ PublishInv /\ [Next]_vars => PublishInv'
  BY PublishStep
<1>3. TypeOK /\ ShadowInv /\ PublishInv /\ [Next]_vars => [View!Next]_View!vars
  BY ViewStep
<1>4. Init => View!Init
  BY FS_EmptySet DEF Init, View!Init, Served, Detected, Names
<1>. QED
  BY <1>1, <1>2, <1>3, <1>4, InitShadow, InitPublish, InitTypeOK, NextTypeOK, PTL
     DEF Spec, PublishesAtomically, View!Spec

-----------------------------------------------------------------------------
(* What searches see at rest                                               *)
(*                                                                         *)
(* PublishInv bounds what a step may do; that nothing is left out at the   *)
(* end needs to know how far each phase of a request is from the snapshot. *)

(* Rebuilds may fail once they have begun, so that their shadow stays set. *)
Repairing == Faults \subseteq {"buildfail", "statsfail"}

(* A request or a rebuild that is not forced finds the searched documents  *)
(* to be those of the snapshot; a forced one replaces them.                *)
RebuildsNeeded ==
    /\ \A c \in Callers : call[c].phase = "loaded" =>
        call[c].force \/ docs[active] = snapshot
    /\ job.phase = "waiting" => job.force \/ docs[active] = snapshot
    /\ job.phase = "ending" => docs[active] = snapshot

(* What is searched, once a sync has done what it still has to do. *)
SyncOnItsWay ==
    /\ call["locked"].phase = "removing" =>
        (docs[active] \ sync.drop) \cup sync.todo = snapshot
    /\ call["locked"].phase = "patching" =>
        docs[active] \cup sync.todo \cup sync.batch = snapshot
    /\ sync.batch # {} => sync.into = active

ConvergeInv ==
    past # <<>> /\ shadow = NoShadow =>
        /\ RebuildsNeeded
        /\ SyncOnItsWay
        /\ Quiet => docs[active] = snapshot

LEMMA ConvergeRequest ==
  ASSUME Repairing, TypeOK, PublishInv, ConvergeInv, Request
  PROVE  ConvergeInv'
<1>1. Quiet
  <2>1. \A c \in Callers : MayCome(c) => Quiet
    BY DEF Repairing, MayCome
  <2>2. MayCome("locked") \/ MayCome("semantic")
    BY DEF Request, Index, Replay, ReplayEmpty, SemanticOnly, BeginSync
  <2>. QED
    BY <2>1, <2>2 DEF Callers
<1>2. /\ ~ busy /\ job.phase = "none" /\ sync.batch = {}
      /\ \A c \in Callers : call[c].phase = "idle"
  BY <1>1 DEF Quiet, PublishInv, OneAtATime, Callers
<1>3. CASE ReplayEmpty
  <2>1. shadow' \in Names
    BY <1>3, CollectionNames DEF ReplayEmpty, TypeOK
  <2>. QED
    BY <2>1 DEF ConvergeInv, Names, NoShadow
<1>4. ASSUME NEW c \in Callers, NEW want, NEW force, Load(c, want, force),
             force \/ snapshot' = snapshot,
             UNCHANGED <<docs, active, shadow, past, job, sync>>
      PROVE  ConvergeInv'
  <2>1. /\ call'[c].phase = "loaded" /\ call'[c].force = force
        /\ \A d \in Callers \ {c} : call'[d] = call[d]
    BY <1>4 DEF Load, TypeOK
  <2>. QED
    BY <1>1, <1>2, <1>4, <2>1
       DEF ConvergeInv, RebuildsNeeded, SyncOnItsWay, Quiet, Callers
<1>5. ASSUME NEW tree \in Trees, Index(tree)
      PROVE  ConvergeInv'
  BY <1>4, <1>5 DEF Index, collections, Callers
<1>6. CASE Replay
  BY <1>4, <1>6 DEF Replay, collections, Callers
<1>7. CASE SemanticOnly
  BY <1>4, <1>7 DEF SemanticOnly, collections, Callers
<1>8. ASSUME NEW tree \in Trees, NEW touched \in SUBSET Symbols,
             BeginSync(tree, touched)
      PROVE  ConvergeInv'
  <2>1. /\ call'["locked"].phase = "removing"
        /\ \A c \in Callers : call'[c].phase # "loaded"
        /\ sync'.drop = snapshot \ tree /\ sync'.todo = touched /\ sync'.batch = {}
        /\ snapshot' = tree
        /\ tree \ snapshot \subseteq touched /\ touched \subseteq tree
        /\ UNCHANGED <<docs, active, shadow, past, job>>
    BY <1>2, <1>8 DEF BeginSync, SyncPhase, NoSync, collections, TypeOK, Callers
  <2>2. ~ Quiet'
    BY <2>1 DEF Quiet, Callers
  <2>. QED
    BY <1>1, <1>2, <2>1, <2>2 DEF ConvergeInv, RebuildsNeeded, SyncOnItsWay
<1>. QED
  BY <1>3, <1>5, <1>6, <1>7, <1>8 DEF Request

LEMMA ConvergeThread ==
  ASSUME TypeOK, ShadowInv, PublishInv, ConvergeInv, Thread
  PROVE  ConvergeInv'
<1>1. /\ Served = active
      /\ ShadowName \in Names
  BY NothingDetected, CollectionNames DEF ShadowInv, TypeOK
<1>2. /\ busy
      /\ \A c \in Callers : call[c].phase = "idle"
      /\ sync.batch = {}
      /\ UNCHANGED <<snapshot, call, sync>>
  BY DEF Thread, Skip, Begin, Upload, Commit, CommitTail, End, PublishInv, OneAtATime, Callers
<1>3. CASE Skip
  BY <1>1, <1>2, <1>3 DEF Skip, Connect, ConvergeInv, RebuildsNeeded, SyncOnItsWay,
                         Quiet, TypeOK, Callers
<1>4. CASE Begin \/ \E s \in Symbols : Upload(s)
  <2>1. shadow' \in Names
    BY <1>1, <1>4 DEF Begin, Upload, TypeOK
  <2>. QED
    BY <2>1, CollectionNames DEF ConvergeInv, Names, NoShadow
<1>5. CASE Commit
  <2>1. docs'[active'] = snapshot /\ job'.phase = "ending" /\ busy' = busy
    BY <1>5 DEF Commit, CommitTail, PublishInv, Complete, TypeOK
  <2>. QED
    BY <1>2, <2>1 DEF ConvergeInv, RebuildsNeeded, SyncOnItsWay, Quiet, Callers
<1>6. CASE End
  BY <1>2, <1>6 DEF End, NoJob, collections, ConvergeInv, RebuildsNeeded, SyncOnItsWay,
                    Callers
<1>. QED
  BY <1>3, <1>4, <1>5, <1>6 DEF Thread

LEMMA ConvergeSyncStep ==
  ASSUME TypeOK, ShadowInv, PublishInv, ConvergeInv, SyncStep
  PROVE  ConvergeInv'
<1> SUFFICES ASSUME past # <<>>, shadow = NoShadow
             PROVE  (RebuildsNeeded /\ SyncOnItsWay /\ (Quiet => docs[active] = snapshot))'
  BY DEF SyncStep, DeleteGone, Embed, Insert, EndSync, collections, ConvergeInv
<1>1. /\ Served = active /\ WriteName = active
  BY NothingDetected DEF ShadowInv, WriteName
<1>2. /\ call["locked"].phase \in {"removing", "patching"}
      /\ call["semantic"].phase = "idle"
      /\ job.phase = "none"
      /\ UNCHANGED <<snapshot, job>>
      /\ call'["semantic"] = call["semantic"]
  BY DEF SyncStep, DeleteGone, Embed, Insert, EndSync, SyncPhase, PublishInv, OneAtATime,
         Callers, TypeOK
<1>3. CASE DeleteGone
  <2>1. /\ active' = active
        /\ docs'[active] = docs[active] \ sync.drop
    BY <1>1, <1>3 DEF DeleteGone, Connect, TypeOK
  <2>2. /\ call["locked"].phase = "removing" /\ call'["locked"].phase = "patching"
        /\ sync'.todo = sync.todo /\ sync'.batch = sync.batch /\ sync.batch = {}
    BY <1>3 DEF DeleteGone, SyncPhase, PublishInv, OneAtATime, TypeOK, Callers
  <2>. QED
    BY <1>2, <2>1, <2>2 DEF ConvergeInv, RebuildsNeeded, SyncOnItsWay, Quiet, Callers
<1>4. ASSUME NEW s \in Symbols, Embed(s)
      PROVE  (RebuildsNeeded /\ SyncOnItsWay /\ (Quiet => docs[active] = snapshot))'
  <2>1. /\ active' = active /\ docs' = docs /\ call' = call
        /\ call["locked"].phase = "patching"
        /\ s \in sync.todo /\ sync.batch = {}
        /\ sync'.todo = sync.todo \ {s} /\ sync'.batch = {s} /\ sync'.into = active
    BY <1>1, <1>4 DEF Embed, Connect, TypeOK
  <2>. QED
    BY <1>2, <2>1 DEF ConvergeInv, RebuildsNeeded, SyncOnItsWay, Quiet, Callers
<1>5. CASE Insert
  <2>1. /\ active' = active /\ call' = call
        /\ call["locked"].phase = "patching"
        /\ sync.into = active
    BY <1>5 DEF Insert, PublishInv, OneAtATime, ConvergeInv, SyncOnItsWay
  <2>2. /\ docs'[active] = docs[active] \cup sync.batch
        /\ sync'.todo = sync.todo /\ sync'.batch = {}
    BY <1>5, <2>1 DEF Insert, TypeOK
  <2>. QED
    BY <1>2, <2>1, <2>2 DEF ConvergeInv, RebuildsNeeded, SyncOnItsWay, Quiet, Callers
<1>6. CASE EndSync
  <2>1. /\ UNCHANGED <<docs, active, sync>> /\ call'["locked"].phase = "idle"
        /\ call["locked"].phase = "patching"
        /\ sync.todo = {} /\ sync.batch = {}
    BY <1>6 DEF EndSync, NoCall, collections, TypeOK, Callers
  <2>. QED
    BY <1>2, <2>1 DEF ConvergeInv, RebuildsNeeded, SyncOnItsWay, Quiet, Callers
<1>. QED
  BY <1>3, <1>4, <1>5, <1>6 DEF SyncStep

LEMMA ConvergeStep ==
  ASSUME Repairing, TypeOK, ShadowInv, PublishInv, ConvergeInv, [Next]_vars
  PROVE  ConvergeInv'
<1>1. CASE Query
  <2>1. active' = active
    BY <1>1, NothingDetected DEF Query, Connect, ShadowInv
  <2>. QED
    BY <1>1, <2>1 DEF Query, ConvergeInv, RebuildsNeeded, SyncOnItsWay, Quiet
<1>2. ASSUME NEW c \in Callers, Start(c)
      PROVE  ConvergeInv'
  <2>1. /\ ~ busy /\ sync.batch = {} /\ call[c].phase = "loaded"
        /\ \A d \in Callers : call'[d].phase = "idle"
    BY <1>2 DEF Start, NoCall, PublishInv, OneAtATime, TypeOK, Callers
  <2>2. /\ busy' /\ job'.phase = "waiting" /\ job'.force = call[c].force
        /\ UNCHANGED <<snapshot, docs, active, shadow, past, sync>>
    BY <1>2, <2>1 DEF Start, collections
  <2>. QED
    BY <2>1, <2>2 DEF ConvergeInv, RebuildsNeeded, SyncOnItsWay, Quiet, Callers
<1>3. CASE Fail
  <2>1. shadow' \in Names
    BY <1>3 DEF Repairing, Fail, Raise, Recreate, collections, TypeOK
  <2>. QED
    BY <2>1, CollectionNames DEF ConvergeInv, Names, NoShadow
<1>4. ~ Rollback /\ ~ Restart
  BY DEF Repairing, Rollback, Restart
<1>5. CASE UNCHANGED vars
  BY <1>5 DEF vars, collections, ConvergeInv, RebuildsNeeded, SyncOnItsWay, Quiet
<1>. QED
  BY <1>1, <1>2, <1>3, <1>4, <1>5, ConvergeRequest, ConvergeThread,
     ConvergeSyncStep DEF Next

(* At rest, and unless a failed rebuild has left its shadow behind, what   *)
(* searches see is the stored snapshot: no rebuild, replay or sync leaves  *)
(* a symbol out or a gone one in.                                          *)
THEOREM SearchesConverge == Repairing => (Spec => []SearchesSnapshot)
<1> SUFFICES ASSUME Repairing
             PROVE  Spec => []SearchesSnapshot
  OBVIOUS
<1>0. Steady /\ Orderly
  BY DEF Repairing, Orderly, Steady
<1>1. TypeOK /\ ShadowInv /\ [Next]_vars => ShadowInv'
  BY <1>0, ShadowStep
<1>2. TypeOK /\ PublishInv /\ [Next]_vars => PublishInv'
  BY <1>0, PublishStep
<1>3. TypeOK /\ ShadowInv /\ PublishInv /\ ConvergeInv /\ [Next]_vars => ConvergeInv'
  BY ConvergeStep
<1>4. TypeOK /\ ShadowInv /\ ConvergeInv => SearchesSnapshot
  BY NothingDetected DEF ShadowInv, ConvergeInv, SearchesSnapshot
<1>5. Init => ConvergeInv
  BY DEF Init, ConvergeInv
<1>. QED
  BY <1>1, <1>2, <1>3, <1>4, <1>5, InitShadow, InitPublish, TypeCorrect, PTL DEF Spec
=============================================================================
