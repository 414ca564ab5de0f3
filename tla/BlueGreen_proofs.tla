-------------------------- MODULE BlueGreen_proofs --------------------------
(***************************************************************************)
(* Proofs about BlueGreen, for every set of hashes and every strategy:     *)
(*   TypeCorrect       the type invariant;                                 *)
(*   StableKept        the stable ReplicaSet is never deleted;             *)
(*   PromotionFollows  a version becomes stable only with the traffic;     *)
(* for the strategies under which no version in use is scaled down:        *)
(*   ActiveKeepsSize   the version with the traffic keeps its size;        *)
(*   StableKeepsSize   so does the version to fall back to;                *)
(*   ActiveKept        the version with the traffic is never deleted;      *)
(*   ReferencedKept    nor is any a Service or the status refers to.       *)
(* There is one lemma per operation or per group of stages, under which    *)
(* the components of the state the operation changes are typed one by one. *)
(***************************************************************************)
EXTENDS BlueGreen, TLAPS

\* The greatest revision, or creation time, of some ReplicaSets is a number.
LEMMA MaxOfType == ASSUME NEW S, S \subseteq Nat PROVE MaxOf(S) \in Nat
BY DEF MaxOf

\* The context of no pass at all is a context.
LEMMA NoPassType == NoPass \in PassType
BY HashAssumption, CountAssumption
DEF NoPass, PassType, SpecType, StatusType, ReplicaSetType, RunType, NoStatus, NoReplicaSet,
    NoRun, PauseReason, BGPause, Inconclusive, Deadlines, Phases, RunIds

\* A new Rollout, and a fully promoted one, are well typed.
LEMMA TypeInit == Init => TypeOK
<1> SUFFICES ASSUME Init PROVE TypeOK
  OBVIOUS
<1>1. PICK h \in Hash, n \in ReplicaCounts : 
        /\ spec = [template |-> h, replicas |-> n, paused |-> FALSE]
        /\ status = IF FirstDeploy THEN NoStatus
                       ELSE [NoStatus EXCEPT !.stableRS = h, !.currentPodHash = h,
                                             !.activeSelector = h, !.previewSelector = h]
        /\ active = IF FirstDeploy THEN NoHash ELSE h
        /\ preview = IF FirstDeploy THEN NoHash ELSE h
        /\ rs = [g \in Hash |-> IF g = h /\ ~FirstDeploy THEN 
              [exists |-> TRUE, replicas |-> n, available |-> n, desired |-> n,
                        deadline |-> "none", revision |-> 1, born |-> 1] ELSE NoReplicaSet]
  BY Zenon DEF Init
<1>2. spec \in SpecType /\ spec.template \in Hash /\ active \in Hash \cup {NoHash}
        /\ preview \in Hash \cup {NoHash}
  BY <1>1, CountAssumption DEF SpecType
<1>3. status \in StatusType
  <2>1. NoStatus \in StatusType
    BY CountAssumption DEF NoStatus, StatusType
  <2>2. [NoStatus EXCEPT !.stableRS = h, !.currentPodHash = h,
                         !.activeSelector = h, !.previewSelector = h] \in StatusType
    BY <2>1 DEF StatusType
  <2> QED BY <1>1, <2>1, <2>2
<1>4. rs \in [Hash -> ReplicaSetType]
  BY <1>1, CountAssumption DEF ReplicaSetType, NoReplicaSet, Deadlines
<1>5. runs \in [RunIds -> RunType]
  BY DEF Init, RunType, NoRun, Phases
<1>6. budget \in [user : Nat, pods : Nat, passes : Nat]
  BY CountAssumption DEF Init
<1>7. pauseElapsed = FALSE /\ pc = "idle" /\ pass = NoPass /\ approved = {} /\ client = {}
  BY DEF Init
<1> QED BY <1>2, <1>3, <1>4, <1>5, <1>6, <1>7, NoPassType DEF TypeOK

\* A ReplicaSet more may be stale in the snapshot.
LEMMA DirtyType ==
    ASSUME pass \in PassType, NEW h \in Hash
    PROVE [pass EXCEPT !.dirty = @ \cup {h}] \in PassType
BY DEF PassType

\* The ReplicaSet controller reports a number of available pods.
LEMMA SetAvailableType ==
    ASSUME TypeOK, NEW h \in Hash, NEW n \in Nat, SetAvailable(h, n)
    PROVE /\ rs' \in [Hash -> ReplicaSetType] /\ pass' \in PassType
          /\ pass'.spec = pass.spec
<1>1. rs' \in [Hash -> ReplicaSetType]
  BY DEF SetAvailable, TypeOK, ReplicaSetType
<1>2. pass' \in PassType
  BY DirtyType DEF SetAvailable, TypeOK
<1>3. pass'.spec = pass.spec
  BY DEF SetAvailable, TypeOK, PassType
<1> QED BY <1>1, <1>2, <1>3

\* Pods, deadlines, analysis runs and the pause's timer.
LEMMA TypeCluster == ASSUME TypeOK, Cluster PROVE TypeOK'
<1>1. ASSUME NEW h \in Hash, PodBecomesAvailable(h) PROVE TypeOK'
  <2>1. rs[h].available + 1 \in Nat
    BY DEF TypeOK, ReplicaSetType
  <2> QED BY <1>1, <2>1, SetAvailableType DEF PodBecomesAvailable, TypeOK, New
<1>2. ASSUME NEW h \in Hash, PodBecomesUnavailable(h) PROVE TypeOK'
  <2>1. rs[h].available - 1 \in Nat
    BY <1>2 DEF TypeOK, ReplicaSetType, PodBecomesUnavailable
  <2>2. budget' \in [user : Nat, pods : Nat, passes : Nat]
    BY <1>2 DEF TypeOK, PodBecomesUnavailable
  <2> QED BY <1>2, <2>1, <2>2, SetAvailableType DEF PodBecomesUnavailable, TypeOK, New
<1>3. ASSUME NEW h \in Hash, PodsTerminate(h) PROVE TypeOK'
  <2>1. rs[h].replicas \in Nat
    BY DEF TypeOK, ReplicaSetType
  <2> QED BY <1>3, <2>1, SetAvailableType DEF PodsTerminate, TypeOK, New
<1>4. CASE \E h \in Hash : DeadlinePasses(h)
  BY <1>4 DEF DeadlinePasses, PatchDeadline, TypeOK, ReplicaSetType, Deadlines, New
<1>5. CASE \E i \in RunIds : RunCompletes(i)
  BY <1>5 DEF RunCompletes, TypeOK, RunType, Phases, Completed, New
<1>6. CASE PauseElapses
  BY <1>6 DEF PauseElapses, cluster, TypeOK, New
<1> QED BY <1>1, <1>2, <1>3, <1>4, <1>5, <1>6 DEF Cluster

\* What the user does to the spec and the status.
LEMMA TypeUser == ASSUME TypeOK, User PROVE TypeOK'
<1> DEFINE Typed == /\ spec' \in SpecType /\ spec'.template \in Hash
                    /\ status' \in StatusType
                    /\ approved' \in SUBSET (Hash \cup {NoHash})
                    /\ client' \in SUBSET {"resume", "promoteFull", "unpause"}
<1>0. ASSUME UNCHANGED <<active, preview, rs, runs, pauseElapsed, pc, pass>>, Typed,
             budget' \in [user : Nat, pods : Nat, passes : Nat]
      PROVE TypeOK'
  BY <1>0 DEF TypeOK, New
<1>1. ASSUME NEW a, UserMay(a), Typed PROVE TypeOK'
  <2>1. budget' \in [user : Nat, pods : Nat, passes : Nat]
    BY <1>1 DEF UserMay, TypeOK
  <2>2. UNCHANGED <<active, preview, rs, runs, pauseElapsed, pc, pass>>
    BY <1>1 DEF UserMay, cluster
  <2> QED BY <1>0, <1>1, <2>1, <2>2
<1>2. CASE Promote \/ PromoteFull
  <2>1. client' \in SUBSET {"resume", "promoteFull", "unpause"}
    BY <1>2 DEF Promote, PromoteFull, PatchesFor
  <2> QED BY <1>1, <1>2, <2>1 DEF Promote, PromoteFull, TypeOK
<1>3. CASE PatchStatus
  <2>1. status.currentPodHash \in Hash \cup {NoHash}
    BY DEF TypeOK, StatusType
  <2>2. status' \in StatusType
    BY <1>3, ZenonT(30) DEF PatchStatus, TypeOK, StatusType
  <2>3. approved' \in SUBSET (Hash \cup {NoHash})
    BY <1>3, <2>1 DEF PatchStatus, TypeOK
  <2> QED BY <1>0, <1>3, <2>2, <2>3 DEF PatchStatus, TypeOK, cluster
<1>9. CASE PatchSpec
  <2>1. spec' \in SpecType /\ spec'.template \in Hash
    BY <1>9 DEF PatchSpec, TypeOK, SpecType
  <2> QED BY <1>0, <1>9, <2>1 DEF PatchSpec, TypeOK, cluster
<1>4. CASE Abort
  <2>1. status' \in StatusType
    BY <1>4 DEF Abort, TypeOK, StatusType
  <2> QED BY <1>1, <1>4, <2>1 DEF Abort, TypeOK
<1>5. CASE Retry
  <2>1. status' \in StatusType
    BY <1>5 DEF Retry, TypeOK, StatusType
  <2> QED BY <1>1, <1>5, <2>1 DEF Retry, TypeOK
<1>6. CASE Pause
  <2>1. spec' \in SpecType /\ spec'.template \in Hash
    BY <1>6 DEF Pause, TypeOK, SpecType
  <2> QED BY <1>1, <1>6, <2>1 DEF Pause, TypeOK
<1>7. ASSUME NEW h \in Hash, SetTemplate(h) PROVE TypeOK'
  <2>1. spec' \in SpecType /\ spec'.template \in Hash
    BY <1>7 DEF SetTemplate, TypeOK, SpecType
  <2> QED BY <1>1, <1>7, <2>1 DEF SetTemplate, TypeOK
<1>8. ASSUME NEW n \in ReplicaCounts, Scale(n) PROVE TypeOK'
  <2>1. spec' \in SpecType /\ spec'.template \in Hash
    BY <1>8, CountAssumption DEF Scale, TypeOK, SpecType
  <2> QED BY <1>1, <1>8, <2>1 DEF Scale, TypeOK
<1> QED BY <1>2, <1>3, <1>4, <1>5, <1>6, <1>7, <1>8, <1>9 DEF User

\* A pass that stops leaves no context behind.
LEMMA TypePassFails == ASSUME TypeOK, PassFails PROVE TypeOK'
BY NoPassType DEF PassFails, EndPass, cluster, TypeOK, New

\* An error that the pass hides leaves the rest of the old ReplicaSets alone.
LEMMA TypeOthersFail == ASSUME TypeOK, OthersFail PROVE TypeOK'
BY DEF OthersFail, GoTo, cluster, TypeOK, New, Stages

\* What a pass in progress works on.
LEMMA PassFields ==
    ASSUME TypeOK, pc # "idle"
    PROVE /\ New \in Hash /\ Stable \in Hash \cup {NoHash} /\ pass.spec \in SpecType
          /\ pass.status \in StatusType /\ pass.rs \in [Hash -> ReplicaSetType]
          /\ pass.runs \in [RunIds -> RunType]
          /\ pass.pre \in 0..MaxRuns /\ pass.post \in 0..MaxRuns
          /\ pass.addPauses \in SUBSET PauseReason /\ pass.spec.replicas \in Nat
          /\ pass.addAbort \in BOOLEAN /\ pass.visited \in SUBSET Hash
          /\ pass.annotated \in Nat /\ pass.dirty \in SUBSET Hash
BY DEF TypeOK, PassType, SpecType, StatusType, New, Stable

\* The size of the new ReplicaSet is a number: previewReplicaCount is used if set.
LEMMA NewRSNewReplicasType ==
    ASSUME TypeOK, pc # "idle" PROVE NewRSNewReplicas \in Nat
BY PassFields, CountAssumption DEF NewRSNewReplicas

\* The Update scaleReplicaSet sends is that of a ReplicaSet.
LEMMA ReplicaSetUpdateType ==
    ASSUME NEW r \in [Hash -> ReplicaSetType], NEW h \in Hash, NEW n \in Nat, NEW m \in Nat,
           NEW d \in Deadlines
    PROVE [r EXCEPT ![h].replicas = n, ![h].desired = m, ![h].deadline = d]
            \in [Hash -> ReplicaSetType]
<1> DEFINE r1 == [r EXCEPT ![h].replicas = n]
           r2 == [r1 EXCEPT ![h].desired = m]
           r3 == [r2 EXCEPT ![h].deadline = d]
<1>1. r1 \in [Hash -> ReplicaSetType]
  BY DEF ReplicaSetType
<1>2. r2 \in [Hash -> ReplicaSetType]
  <2> HIDE DEF r1
  <2> QED BY <1>1 DEF ReplicaSetType
<1>3. r3 \in [Hash -> ReplicaSetType]
  <2> HIDE DEF r2
  <2> QED BY <1>2 DEF ReplicaSetType
<1> QED BY <1>3, Zenon

\* The snapshot's ReplicaSets may be replaced by others.
LEMMA PassRsType ==
    ASSUME pass \in PassType, NEW r \in [Hash -> ReplicaSetType], NEW D \in SUBSET Hash
    PROVE [pass EXCEPT !.rs = r, !.dirty = D] \in PassType
BY DEF PassType

\* scaleReplicaSet leaves ReplicaSets.
LEMMA WriteType ==
    ASSUME TypeOK, pc # "idle", NEW h \in Hash, NEW n \in Nat, Write(h, n)
    PROVE rs' \in [Hash -> ReplicaSetType]
<1> DEFINE d == IF n = 0 /\ ~ShouldDelayScaleDownOnAbort THEN "none" ELSE rs[h].deadline
<1>1. d \in Deadlines
  BY DEF Deadlines, TypeOK, ReplicaSetType
<1>2. rs' = [rs EXCEPT ![h].replicas = n, ![h].desired = pass.spec.replicas,
                       ![h].deadline = d]
  BY DEF Write
<1> HIDE DEF d
<1> QED BY <1>1, <1>2, ReplicaSetUpdateType, PassFields DEF TypeOK

\* So does a patch of the scale-down-deadline.
LEMMA PatchDeadlineType ==
    ASSUME TypeOK, NEW h \in Hash, NEW d \in Deadlines, PatchDeadline(h, d)
    PROVE rs' \in [Hash -> ReplicaSetType]
BY DEF PatchDeadline, TypeOK, ReplicaSetType

\* What a stage leaves behind for the next one.
Stage == /\ pc' \in Stages \cup {"idle"} /\ pass' \in PassType
         /\ pc' # "idle" => pass'.spec = pass.spec

\* The end of a pass, from wherever it ends.
LEMMA EndPassStage == ASSUME EndPass PROVE Stage
BY NoPassType DEF EndPass, Stage

\* A stage that leaves the context alone.
LEMMA GoToStage ==
    ASSUME TypeOK, NEW stage \in Stages, GoTo(stage) PROVE Stage
BY DEF GoTo, Stage, TypeOK

\* All three outcomes of scaleReplicaSetAndRecordEvent.
LEMMA ScaleReplicaSetType ==
    ASSUME TypeOK, pc # "idle", NEW h \in Hash, NEW n \in Nat, NEW stage \in Stages,
           ScaleReplicaSet(h, n, stage)
    PROVE rs' \in [Hash -> ReplicaSetType] /\ Stage
<1>1. CASE UNCHANGED rs /\ GoTo(stage)
  BY <1>1, GoToStage DEF TypeOK
<1>2. CASE /\ Write(h, n) /\ pc' = stage
           /\ pass' = [pass EXCEPT !.dirty = @ \cup {h}]
  <2>1. pass' \in PassType /\ pass'.spec = pass.spec
    BY <1>2, DirtyType DEF TypeOK, PassType
  <2> QED BY <1>2, <2>1, WriteType DEF Stage
<1>3. CASE UNCHANGED rs /\ EndPass
  BY <1>3, EndPassStage DEF TypeOK
<1> QED BY <1>1, <1>2, <1>3 DEF ScaleReplicaSet

\* The stages that scale the stable and the new ReplicaSet.
LEMMA TypeScaling ==
    ASSUME TypeOK,
           ReconcileStableReplicaSet \/ ReconcileNewReplicaSet \/ RemoveScaleDownDeadlines
    PROVE TypeOK'
<1>1. CASE ReconcileStableReplicaSet
  <2>1. rs' \in [Hash -> ReplicaSetType] /\ Stage
    <3>1. CASE HasStable
      BY <1>1, <3>1, PassFields, ScaleReplicaSetType DEF ReconcileStableReplicaSet, HasStable, Stages
    <3>2. CASE ~HasStable
      BY <1>1, <3>2, GoToStage DEF ReconcileStableReplicaSet, Stages, TypeOK
    <3> QED BY <3>1, <3>2
  <2> QED BY <1>1, <2>1, PassFields DEF ReconcileStableReplicaSet, TypeOK, Stage, New
<1>2. CASE RemoveScaleDownDeadlines
  <2>1. CASE GoTo("scaleStable") /\ UNCHANGED rs
    BY <1>2, <2>1, GoToStage, PassFields
    DEF RemoveScaleDownDeadlines, TypeOK, Stage, New, Stages
  <2>2. ASSUME NEW h \in DeadlinesToRemove, PatchDeadline(h, "none"), pc' = pc,
               pass' = [pass EXCEPT !.rs = [@ EXCEPT ![h].deadline = "none"],
                                    !.dirty = @ \cup {h}]
        PROVE TypeOK'
    <3>1. h \in Hash
      BY DEF DeadlinesToRemove
    <3>2. rs' \in [Hash -> ReplicaSetType]
      BY <2>2, <3>1, PatchDeadlineType DEF Deadlines
    <3>3. [pass.rs EXCEPT ![h].deadline = "none"] \in [Hash -> ReplicaSetType]
      <4>1. pass.rs \in [Hash -> ReplicaSetType]
        BY <1>2, PassFields DEF RemoveScaleDownDeadlines
      <4> QED BY <3>1, <4>1 DEF ReplicaSetType, Deadlines
    <3>4. pass' = [pass EXCEPT !.rs = [pass.rs EXCEPT ![h].deadline = "none"],
                               !.dirty = pass.dirty \cup {h}]
      BY <2>2
    <3>5. pass.dirty \cup {h} \in SUBSET Hash
      BY <1>2, <3>1, PassFields DEF RemoveScaleDownDeadlines
    <3>6. pass' \in PassType
      BY <3>3, <3>4, <3>5, PassRsType DEF TypeOK
    <3>7. pass'.spec = pass.spec
      BY <3>4 DEF TypeOK, PassType
    <3> QED BY <1>2, <2>2, <3>2, <3>6, <3>7 DEF RemoveScaleDownDeadlines, TypeOK, New
  <2> QED BY <1>2, <2>1, <2>2 DEF RemoveScaleDownDeadlines
<1>3. CASE ReconcileNewReplicaSet
  <2> USE <1>3, PassFields DEF ReconcileNewReplicaSet
  <2>1. ASSUME rs' \in [Hash -> ReplicaSetType], Stage PROVE TypeOK'
    BY <2>1 DEF TypeOK, Stage, New
  <2>2. CASE StartAbortScaleDownDelay
    <3>1. rs' \in [Hash -> ReplicaSetType]
      <4> DEFINE d == IF pass.rs[Stable].available >= pass.spec.replicas
                      THEN "pending" ELSE rs[New].deadline
                 r1 == [rs EXCEPT ![New].desired = pass.spec.replicas]
      <4>1. d \in Deadlines
        BY DEF TypeOK, ReplicaSetType, Deadlines
      <4>2. r1 \in [Hash -> ReplicaSetType] /\ r1[New].deadline = rs[New].deadline
        BY DEF TypeOK, ReplicaSetType
      <4>3. rs' = [r1 EXCEPT ![New].deadline = d]
        BY <2>2 DEF StartAbortScaleDownDelay
      <4> HIDE DEF d, r1
      <4> QED BY <4>1, <4>2, <4>3 DEF ReplicaSetType
    <3>2. [pass.rs EXCEPT ![New].desired = pass.spec.replicas] \in [Hash -> ReplicaSetType]
      BY DEF ReplicaSetType
    <3>3. pass' \in PassType /\ pass'.spec = pass.spec
      BY <2>2, <3>2 DEF StartAbortScaleDownDelay, TypeOK, PassType
    <3> QED BY <2>1, <2>2, <3>1, <3>3 DEF StartAbortScaleDownDelay, Stage, Stages
  <2>3. CASE WaitAbortScaleDownDelay
    <3>1. rs' \in [Hash -> ReplicaSetType]
      BY <2>3, SMTT(30) DEF WaitAbortScaleDownDelay, TypeOK, ReplicaSetType
    <3>2. [pass.rs EXCEPT ![New].desired = pass.spec.replicas] \in [Hash -> ReplicaSetType]
      BY DEF ReplicaSetType
    <3>3. pass' \in PassType /\ pass'.spec = pass.spec
      BY <2>3, <3>2 DEF WaitAbortScaleDownDelay, TypeOK, PassType
    <3> QED BY <2>1, <2>3, <3>1, <3>3 DEF WaitAbortScaleDownDelay, Stage, Stages
  <2>4. CASE UNCHANGED rs /\ EndPass
    BY <2>1, <2>4, EndPassStage DEF TypeOK
  <2>5. ASSUME NEW n \in Nat, ScaleReplicaSet(New, n, "scaleOthers") PROVE TypeOK'
    BY <2>1, <2>5, ScaleReplicaSetType DEF Stages
  <2> QED BY <2>2, <2>3, <2>4, <2>5, NewRSNewReplicasType
<1> QED BY <1>1, <1>2, <1>3

\* newRolloutContext: a ReplicaSet created, or a snapshot taken.
LEMMA TypeBegin == ASSUME TypeOK, CreateReplicaSet \/ BeginPass PROVE TypeOK'
<1>1. ASSUME NEW S \in SUBSET Hash
      PROVE /\ {rs[h].revision : h \in S} \subseteq Nat
            /\ {rs[h].born : h \in S} \subseteq Nat
  BY DEF TypeOK, ReplicaSetType
<1>2. CASE CreateReplicaSet
  <2>1. /\ 1 + MaxOf({rs[h].revision : h \in Hash}) \in Nat
        /\ 1 + MaxOf({rs[h].born : h \in Hash}) \in Nat
    BY <1>1, MaxOfType
  <2>2. rs' \in [Hash -> ReplicaSetType]
    BY <1>2, <2>1 DEF CreateReplicaSet, TypeOK, SpecType, ReplicaSetType, Deadlines
  <2> QED BY <1>2, <2>2 DEF CreateReplicaSet, TypeOK, New
<1>3. CASE BeginPass
  <2> DEFINE others == {rs[h].revision : h \in Hash \ {spec.template}}
             revision == IF rs[spec.template].revision < 1 + MaxOf(others)
                         THEN 1 + MaxOf(others) ELSE rs[spec.template].revision
  <2>1. others \subseteq Nat
    BY <1>1
  <2>2. revision \in Nat
    <3> HIDE DEF others
    <3>1. MaxOf(others) \in Nat
      BY <2>1, MaxOfType
    <3> QED BY <3>1 DEF TypeOK, ReplicaSetType
  <2>3. rs' = [rs EXCEPT ![spec.template].revision = revision]
    BY <1>3 DEF BeginPass
  <2>4. rs' \in [Hash -> ReplicaSetType]
    <3> HIDE DEF revision
    <3> QED BY <2>2, <2>3 DEF TypeOK, ReplicaSetType
  <2>5. pass' = [NoPass EXCEPT
                !.spec = spec, !.status = status, !.rs = rs', !.runs = runs,
                !.approved = approved,
                !.within = rs[spec.template].deadline = "pending",
                !.scaling = IsScalingEvent,
                !.pre = status.preRun, !.post = status.postRun,
                !.removeAbort = IsFullyPromoted(status) /\ status.abort]
    BY <1>3 DEF BeginPass
  <2>6. pass' \in PassType /\ pass'.spec = spec
    <3>1. status.preRun \in 0..MaxRuns /\ status.postRun \in 0..MaxRuns
      BY DEF TypeOK, StatusType
    <3>2. /\ spec \in SpecType /\ status \in StatusType /\ runs \in [RunIds -> RunType]
          /\ approved \in SUBSET (Hash \cup {NoHash})
      BY DEF TypeOK
    <3>3. PICK w \in BOOLEAN : w = (rs[spec.template].deadline = "pending")
      OBVIOUS
    <3>4. PICK sc \in BOOLEAN : sc = IsScalingEvent
      BY DEF IsScalingEvent
    <3>5. PICK ra \in BOOLEAN : ra = (IsFullyPromoted(status) /\ status.abort)
      OBVIOUS
    <3>6. pass' = [NoPass EXCEPT !.spec = spec, !.status = status, !.rs = rs', !.runs = runs,
                                 !.approved = approved, !.within = w, !.scaling = sc,
                                 !.pre = status.preRun, !.post = status.postRun,
                                 !.removeAbort = ra]
      BY <2>5, <3>3, <3>4, <3>5, Zenon
    <3>7. w \in BOOLEAN /\ sc \in BOOLEAN /\ ra \in BOOLEAN
      BY <3>3, <3>4, <3>5
    <3> DEFINE p1 == [NoPass EXCEPT !.spec = spec, !.status = status]
               p2 == [p1 EXCEPT !.rs = rs', !.runs = runs]
               p3 == [p2 EXCEPT !.approved = approved, !.within = w, !.scaling = sc]
               p4 == [p3 EXCEPT !.pre = status.preRun, !.post = status.postRun]
               p5 == [p4 EXCEPT !.removeAbort = ra]
    <3>8. p1 \in PassType /\ p1.spec = spec
      BY <3>2, NoPassType DEF PassType
    <3>9. p2 \in PassType /\ p2.spec = spec
      <4> HIDE DEF p1
      <4> QED BY <2>4, <3>2, <3>8 DEF PassType
    <3>10. p3 \in PassType /\ p3.spec = spec
      <4> HIDE DEF p2
      <4> QED BY <3>2, <3>7, <3>9 DEF PassType
    <3>11. p4 \in PassType /\ p4.spec = spec
      <4> HIDE DEF p3
      <4> QED BY <3>1, <3>10 DEF PassType
    <3>12. p5 \in PassType /\ p5.spec = spec
      <4> HIDE DEF p4
      <4> QED BY <3>7, <3>11 DEF PassType
    <3>13. pass' = p5
      BY <3>6, Zenon
    <3> HIDE DEF p5
    <3> QED BY <3>12, <3>13
  <2>7. pc' \in Stages
    BY <1>3 DEF BeginPass, Stages
  <2> QED BY <1>3, <2>4, <2>6, <2>7 DEF BeginPass, TypeOK, New
<1> QED BY <1>2, <1>3

\* The stages that write the selector of a Service.
LEMMA TypeServices ==
    ASSUME TypeOK, ReconcilePreviewService \/ ReconcileActiveService PROVE TypeOK'
<1>1. CASE ReconcilePreviewService
  <2>1. Stage
    BY <1>1, GoToStage DEF ReconcilePreviewService, Stages
  <2> QED BY <1>1, <2>1, PassFields DEF ReconcilePreviewService, TypeOK, Stage, New
<1>2. CASE ReconcileActiveService
  <2>1. Stage
    BY <1>2, GoToStage DEF ReconcileActiveService, Stages
  <2>2. active' \in Hash \cup {NoHash}
    <3>1. pass.status.stableRS \in Hash \cup {NoHash} /\ New \in Hash
      BY <1>2, PassFields DEF ReconcileActiveService, Stable
    <3>2. ActiveHash \in {pass.status.stableRS, New, active}
      BY DEF ActiveHash
    <3> QED BY <1>2, <3>1, <3>2 DEF ReconcileActiveService, TypeOK
  <2> QED BY <1>2, <2>1, <2>2, PassFields DEF ReconcileActiveService, TypeOK, Stage, New
<1> QED BY <1>1, <1>2

\* reconcileOtherReplicaSets.
LEMMA TypeOthers == ASSUME TypeOK, ReconcileOtherReplicaSets PROVE TypeOK'
<1> USE PassFields
<1>1. pc # "idle"
  BY DEF ReconcileOtherReplicaSets
<1>2. ASSUME rs' \in [Hash -> ReplicaSetType], Stage PROVE TypeOK'
  BY <1>1, <1>2 DEF ReconcileOtherReplicaSets, TypeOK, Stage, New
<1>3. CASE OldToScaleDown = {} /\ GoTo("revisionHistory") /\ UNCHANGED rs
  BY <1>2, <1>3, GoToStage DEF TypeOK, Stages
<1>4. ASSUME NEW h \in OldToScaleDown,
             LET n == OldReplicas(h)
                 scales == n # pass.rs[h].replicas
                 wrote == scales \/ StartsScaleDownDelay(h)
             IN /\ \/ /\ ~scales
                      /\ IF StartsScaleDownDelay(h) THEN PatchDeadline(h, "pending")
                                                    ELSE UNCHANGED rs
                   \/ scales /\ Write(h, n)
                   \/ scales /\ h \in pass.dirty /\ UNCHANGED rs
                /\ IF scales /\ h \in pass.dirty
                   THEN GoTo("revisionHistory")
                   ELSE /\ pc' = pc
                        /\ pass' = [pass EXCEPT
                             !.visited = @ \cup {h},
                             !.dirty = IF wrote THEN @ \cup {h} ELSE @,
                             !.annotated = IF pass.rs[h].deadline # "none" \/ n # 0
                                           THEN @ + 1 ELSE @]
      PROVE TypeOK'
  <2>1. h \in Hash
    BY DEF OldToScaleDown
  <2>2. OldReplicas(h) \in Nat
    BY <1>1, <2>1 DEF OldReplicas, ReplicaSetType, Deadlines
  <2>3. rs' \in [Hash -> ReplicaSetType]
    BY <1>1, <1>4, <2>1, <2>2, WriteType, PatchDeadlineType DEF TypeOK, Deadlines
  <2>4. CASE GoTo("revisionHistory")
    BY <1>2, <2>3, <2>4, GoToStage DEF Stages
  <2>5. CASE pc' = pc /\ \E V \in SUBSET Hash, D \in SUBSET Hash, k \in Nat :
                 pass' = [pass EXCEPT !.visited = V, !.dirty = D, !.annotated = k]
    <3>1. pass' \in PassType /\ pass'.spec = pass.spec
      BY <2>5, ZenonT(30) DEF TypeOK, PassType
    <3> QED BY <1>2, <2>3, <2>5, <3>1 DEF Stage, TypeOK
  <2>6. CASE ~GoTo("revisionHistory")
    <3> DEFINE V == pass.visited \cup {h}
               D == IF OldReplicas(h) # pass.rs[h].replicas \/ StartsScaleDownDelay(h)
                    THEN pass.dirty \cup {h} ELSE pass.dirty
               k == IF pass.rs[h].deadline # "none" \/ OldReplicas(h) # 0
                    THEN pass.annotated + 1 ELSE pass.annotated
    <3>1. V \in SUBSET Hash /\ D \in SUBSET Hash /\ k \in Nat
      BY <1>1, <2>1
    <3>2. pc' = pc /\ pass' = [pass EXCEPT !.visited = V, !.dirty = D, !.annotated = k]
      BY <1>4, <2>6 DEF TypeOK, PassType
    <3> HIDE DEF V, D, k
    <3> QED BY <2>5, <3>1, <3>2
  <2> QED BY <2>4, <2>6
<1> QED BY <1>3, <1>4 DEF ReconcileOtherReplicaSets

\* The runs that remain when some ReplicaSets are deleted.
LEMMA WithoutRunsType ==
    ASSUME NEW view \in [RunIds -> RunType], NEW gone
    PROVE WithoutRunsOf(gone, view) \in [RunIds -> RunType]
BY DEF WithoutRunsOf, RunType, NoRun, Phases

\* reconcileRevisionHistoryLimit.
LEMMA TypeHistory == ASSUME TypeOK, ReconcileRevisionHistoryLimit PROVE TypeOK'
<1> DEFINE gone == {h \in BeyondHistoryLimit : Deletable(h)}
           view == WithoutRunsOf(gone, pass.runs)
<1>1. pc # "idle" /\ pc' \in Stages
  BY DEF ReconcileRevisionHistoryLimit, Stages
<1>2. /\ rs' = [h \in Hash |-> IF h \in gone THEN NoReplicaSet ELSE rs[h]]
      /\ runs' = WithoutRunsOf(gone, runs)
      /\ pass' = [pass EXCEPT !.runs = view, !.visited = {}, !.annotated = 0, !.dirty = {}]
  BY DEF ReconcileRevisionHistoryLimit
<1>3. rs' \in [Hash -> ReplicaSetType]
  <2>1. NoReplicaSet \in ReplicaSetType
    BY DEF NoReplicaSet, ReplicaSetType, Deadlines
  <2> HIDE DEF gone
  <2> QED BY <1>2, <2>1 DEF TypeOK
<1>4. runs' \in [RunIds -> RunType] /\ view \in [RunIds -> RunType]
  <2> HIDE DEF gone
  <2> QED BY <1>1, <1>2, WithoutRunsType, PassFields DEF TypeOK
<1>5. pass' \in PassType /\ pass'.spec = pass.spec
  <2> HIDE DEF view
  <2> QED BY <1>2, <1>4 DEF TypeOK, PassType
<1> HIDE DEF gone, view
<1> QED BY <1>1, <1>3, <1>4, <1>5 DEF ReconcileRevisionHistoryLimit, TypeOK, New

\* reconcileBlueGreenPause.
LEMMA TypePause == ASSUME TypeOK, ReconcileBlueGreenPause PROVE TypeOK'
<1>1. pc # "idle" /\ pc' \in Stages
  BY DEF ReconcileBlueGreenPause, Stages
<1>2. PICK e \in BOOLEAN : e = EndsPause
  BY DEF EndsPause
<1>3. PICK P \in SUBSET PauseReason : P = IF StartsPause THEN {BGPause} ELSE {}
  BY DEF PauseReason
<1>4. pass' = [pass EXCEPT !.removePause = e, !.addPauses = P]
  BY <1>2, <1>3, Zenon DEF ReconcileBlueGreenPause
<1>5. e \in BOOLEAN /\ P \in SUBSET PauseReason
  BY <1>2, <1>3
<1>6. pass' \in PassType /\ pass'.spec = pass.spec
  BY <1>4, <1>5 DEF TypeOK, PassType
<1>7. UNCHANGED <<spec, status, active, preview, rs, runs, pauseElapsed,
                   approved, client, budget>>
  BY DEF ReconcileBlueGreenPause, cluster
<1> QED BY <1>1, <1>6, <1>7 DEF TypeOK, New

\* The runs with one more run in progress.
LEMMA CreatedRunsType ==
    ASSUME TypeOK, pc # "idle", NEW kind \in {"pre", "post"}, NEW i \in RunIds
    PROVE CreatedRuns(kind, i) \in [RunIds -> RunType]
<1>1. pass.rs[New].revision \in Nat /\ New \in Hash
  BY PassFields DEF ReplicaSetType
<1>2. [kind |-> kind, hash |-> New, revision |-> pass.rs[New].revision,
       phase |-> "Running", terminate |-> FALSE] \in RunType
  BY <1>1 DEF RunType, Phases
<1> QED BY <1>2 DEF CreatedRuns, TypeOK

\* The end of the analysis stage, whichever runs are current.
LEMMA FinishAnalysisType ==
    ASSUME TypeOK, pc # "idle", NEW i \in 0..MaxRuns, NEW j \in 0..MaxRuns,
           NEW view \in [RunIds -> RunType], NEW S, FinishAnalysis(i, j, view, S)
    PROVE runs' \in [RunIds -> RunType] /\ Stage
<1> DEFINE seen == [k \in RunIds |-> IF pass.runs[k].phase = "none" THEN view[k]
                                                                ELSE pass.runs[k]]
           phases == IF ShouldCancelCurrentAnalysis THEN {}
                     ELSE {seen[k].phase : k \in {i, j} \ {0}}
<1>1. runs' \in [RunIds -> RunType]
  <2>1. \A k \in RunIds : [view[k] EXCEPT !.terminate = TRUE] \in RunType
    BY DEF RunType
  <2>2. NoRun \in RunType
    BY DEF NoRun, RunType, Phases
  <2> QED BY <2>1, <2>2 DEF FinishAnalysis, Tidied
<1>2. seen \in [RunIds -> RunType]
  BY PassFields
<1>3. PICK P \in SUBSET PauseReason :
        P = IF "Inconclusive" \in phases THEN pass.addPauses \cup {Inconclusive}
                                        ELSE pass.addPauses
  <2> HIDE DEF phases
  <2> QED BY PassFields DEF PauseReason
<1>4. PICK a \in BOOLEAN : a = (pass.addAbort \/ "Failed" \in phases)
  OBVIOUS
<1>5. pass' = [pass EXCEPT !.pre = i, !.post = j, !.runs = seen, !.analysed = TRUE,
                           !.addPauses = P, !.addAbort = a]
  <2>1. pass' = [pass EXCEPT !.pre = i, !.post = j, !.runs = seen, !.analysed = TRUE,
                     !.addPauses = IF "Inconclusive" \in phases
                                   THEN pass.addPauses \cup {Inconclusive} ELSE pass.addPauses,
                     !.addAbort = pass.addAbort \/ "Failed" \in phases]
    BY DEF FinishAnalysis
  <2> HIDE DEF phases, seen
  <2> QED BY <1>3, <1>4, <2>1, Zenon
<1>6. P \in SUBSET PauseReason /\ a \in BOOLEAN
  BY <1>3, <1>4
<1>7. pass' \in PassType /\ pass'.spec = pass.spec
  <2> HIDE DEF seen
  <2> DEFINE p1 == [pass EXCEPT !.pre = i, !.post = j, !.runs = seen]
             p2 == [p1 EXCEPT !.analysed = TRUE, !.addPauses = P, !.addAbort = a]
  <2>1. p1 \in PassType /\ p1.spec = pass.spec
    BY <1>2 DEF TypeOK, PassType
  <2>2. p2 \in PassType /\ p2.spec = pass.spec
    <3> HIDE DEF p1
    <3> QED BY <1>6, <2>1 DEF PassType
  <2>3. pass' = p2
    BY <1>5, Zenon
  <2> HIDE DEF p2
  <2> QED BY <2>2, <2>3
<1>8. pc' = "sync"
  BY DEF FinishAnalysis
<1> QED BY <1>1, <1>7, <1>8 DEF Stage, Stages

\* reconcileAnalysisRuns.
LEMMA TypeAnalysis == ASSUME TypeOK, ReconcileAnalysisRuns PROVE TypeOK'
<1>1. pc # "idle"
  BY DEF ReconcileAnalysisRuns
<1>2. ASSUME NEW i \in 0..MaxRuns, NEW j \in 0..MaxRuns,
             NEW view \in [RunIds -> RunType], NEW S, FinishAnalysis(i, j, view, S)
      PROVE TypeOK'
  <2>1. runs' \in [RunIds -> RunType] /\ Stage
    BY <1>1, <1>2, FinishAnalysisType
  <2> QED BY <1>1, <2>1, PassFields DEF ReconcileAnalysisRuns, TypeOK, Stage, New
<1>3. /\ pass.pre \in 0..MaxRuns /\ pass.post \in 0..MaxRuns
      /\ CurrentPre \in 0..MaxRuns /\ CurrentPost \in 0..MaxRuns
  BY <1>1, PassFields, CountAssumption DEF CurrentPre, CurrentPost
<1>4. runs \in [RunIds -> RunType]
  BY DEF TypeOK
<1>5. \A i \in CreateIds("pre") \cup CreateIds("post") : i \in RunIds /\ i \in 0..MaxRuns
  BY DEF CreateIds, InProgress, FreeIds, RunIds
<1>6. CASE FinishAnalysis(pass.pre, pass.post, runs, {pass.pre, pass.post})
  BY <1>2, <1>3, <1>4, <1>6
<1>7. CASE FinishAnalysis(CurrentPre, CurrentPost, runs, Skipped)
  BY <1>2, <1>3, <1>4, <1>7
<1>8. ASSUME NEW i \in CreateIds("pre"),
             FinishAnalysis(i, CurrentPost, CreatedRuns("pre", i), Skipped)
      PROVE TypeOK'
  <2>1. CreatedRuns("pre", i) \in [RunIds -> RunType]
    BY <1>1, <1>5, CreatedRunsType
  <2> QED BY <1>2, <1>3, <1>5, <1>8, <2>1
<1>9. ASSUME NEW i \in CreateIds("post"),
             FinishAnalysis(CurrentPre, i, CreatedRuns("post", i), Skipped)
      PROVE TypeOK'
  <2>1. CreatedRuns("post", i) \in [RunIds -> RunType]
    BY <1>1, <1>5, CreatedRunsType
  <2> QED BY <1>2, <1>3, <1>5, <1>9, <2>1
<1> QED BY <1>6, <1>7, <1>8, <1>9 DEF ReconcileAnalysisRuns

\* The status a pass writes is a status, on a full pass and on a scaling event.
LEMMA TypeSync == ASSUME TypeOK, SyncRolloutStatus PROVE TypeOK'
<1>1. pc # "idle"
  BY DEF SyncRolloutStatus
<1>2. PICK t \in BOOLEAN :
        /\ status' = Merged(NewStatus(t), pass.status, status)
        /\ pauseElapsed' = /\ pauseElapsed
                           /\ BGPause \notin NewStatus(t).pauses \ pass.status.pauses
  BY DEF SyncRolloutStatus
<1>3. ASSUME NEW a \in BOOLEAN PROVE ScalingStatus(a) \in StatusType
  <2>1. pass.status \in StatusType
    BY <1>1, PassFields
  <2> QED BY <2>1 DEF ScalingStatus, StatusType
<1>4. ASSUME NEW a \in BOOLEAN PROVE FullStatus(a) \in StatusType
  <2>1. StableAfterSync \in Hash \cup {NoHash} /\ New \in Hash
    BY <1>1, PassFields DEF StableAfterSync
  <2>2. PausesAfterSync \in SUBSET PauseReason
    BY <1>1, PassFields DEF PausesAfterSync, StatusType
  <2>3. /\ (IF pass.analysed THEN pass.pre ELSE 0) \in 0..MaxRuns
        /\ (IF pass.analysed THEN pass.post ELSE 0) \in 0..MaxRuns
    BY <1>1, PassFields, CountAssumption
  <2>4. active \in Hash \cup {NoHash} /\ preview \in Hash \cup {NoHash}
    BY DEF TypeOK
  <2> QED BY <2>1, <2>2, <2>3, <2>4 DEF FullStatus, StatusType
<1>5. NewStatus(t) \in StatusType
  <2>1. PICK a \in BOOLEAN :
          NewStatus(t) = IF pass.scaling THEN ScalingStatus(a) ELSE FullStatus(a)
    BY Zenon DEF NewStatus
  <2> QED BY <1>3, <1>4, <2>1
<1>6. status' \in StatusType
  <2>1. pass.status \in StatusType /\ status \in StatusType
    BY <1>1, PassFields DEF TypeOK
  <2> HIDE DEF NewStatus
  <2> QED BY <1>2, <1>5, <2>1 DEF Merged, Merge, StatusType
<1>7. pauseElapsed' \in BOOLEAN
  BY <1>2
<1>8. pc' = "idle" /\ pass' \in PassType
  BY NoPassType DEF SyncRolloutStatus, EndPass
<1>9. UNCHANGED <<spec, active, preview, rs, runs, approved, client, budget>>
  BY DEF SyncRolloutStatus, cluster
<1> QED BY <1>6, <1>7, <1>8, <1>9 DEF TypeOK, New

\* The type invariant is inductive.
LEMMA TypeStep == ASSUME TypeOK, [Next]_vars PROVE TypeOK'
<1>1. CASE Controller
  BY <1>1, TypeBegin, TypeServices, TypeScaling, TypeOthers, TypeHistory, TypePause,
     TypeAnalysis, TypeSync DEF Controller
<1>2. CASE UNCHANGED vars
  BY <1>2 DEF vars, TypeOK, New
<1> QED BY <1>1, <1>2, TypePassFails, TypeOthersFail, TypeCluster, TypeUser DEF Next

(* TypeOK holds in every state the controller, the cluster and the user     *)
(* reach: every variable has its type and a pass has a template.           *)
THEOREM TypeCorrect == Spec => []TypeOK
<1> QED BY TypeInit, TypeStep, PTL DEF Spec

----------------------------------------------------------------------------
(* The stable ReplicaSet is never deleted, and the promotion follows the    *)
(* traffic.  Neither is inductive: that reconcileRevisionHistoryLimit keeps *)
(* the stable ReplicaSet rests on what the snapshot shows of it, and that  *)
(* shouldFullPromote does not take it for missing rests on the same.       *)

(* The ReplicaSet of status.stableRS exists. *)
StableExists == status.stableRS # NoHash => rs[status.stableRS].exists

(* A pass knows the stable version as the status has it, and sees its       *)
(* ReplicaSet and the new one, which exist for as long as it runs.         *)
PassSeesStable ==
    pc # "idle" =>
        /\ Stable = status.stableRS
        /\ Stable # NoHash => pass.rs[Stable].exists
        /\ rs[New].exists /\ pass.rs[New].exists

StableInv == TypeOK /\ StableExists /\ PassSeesStable

(* What a step may write to the ReplicaSets without deleting one, and what  *)
(* it may note in the pass without forgetting one.                         *)
KeepsReplicaSets == \A h \in Hash : rs'[h].exists = rs[h].exists
KeepsSnapshot ==
    /\ pc # "idle" /\ pass'.spec = pass.spec /\ pass'.status = pass.status
    /\ \A h \in Hash : pass'.rs[h].exists = pass.rs[h].exists

\* Steps that change neither the stable version nor which ReplicaSets exist.
LEMMA KeptStable ==
    ASSUME StableInv, TypeOK', status'.stableRS = status.stableRS, KeepsReplicaSets,
           pc' = "idle" \/ KeepsSnapshot
    PROVE StableInv'
<1>1. status.stableRS \in Hash \cup {NoHash}
  BY DEF StableInv, TypeOK, StatusType
<1>2. StableExists'
  BY <1>1 DEF StableInv, StableExists, KeepsReplicaSets
<1>3. CASE pc' = "idle"
  BY <1>2, <1>3 DEF StableInv, PassSeesStable
<1>4. CASE KeepsSnapshot
  <2>1. New \in Hash /\ Stable \in Hash \cup {NoHash}
    BY <1>4, PassFields DEF StableInv, KeepsSnapshot
  <2>2. New' = New /\ Stable' = Stable
    BY <1>4 DEF KeepsSnapshot, New, Stable
  <2>3. PassSeesStable'
    BY <1>4, <2>1, <2>2 DEF StableInv, PassSeesStable, KeepsSnapshot, KeepsReplicaSets
  <2> QED BY <1>2, <2>3 DEF StableInv
<1> QED BY <1>3, <1>4

\* scaleReplicaSet deletes no ReplicaSet.
LEMMA WriteKeeps ==
    ASSUME TypeOK, NEW h \in Hash, NEW n, Write(h, n) PROVE KeepsReplicaSets
BY DEF Write, KeepsReplicaSets, TypeOK, ReplicaSetType

\* A patch of a deadline deletes none.
LEMMA PatchDeadlineKeeps ==
    ASSUME TypeOK, NEW h \in Hash, NEW d, PatchDeadline(h, d) PROVE KeepsReplicaSets
BY DEF PatchDeadline, KeepsReplicaSets, TypeOK, ReplicaSetType

\* Nor does the report of available pods.
LEMMA SetAvailableKeeps ==
    ASSUME TypeOK, NEW h \in Hash, NEW n, SetAvailable(h, n)
    PROVE KeepsReplicaSets /\ (pc # "idle" => KeepsSnapshot)
<1>1. KeepsReplicaSets
  BY DEF SetAvailable, KeepsReplicaSets, TypeOK, ReplicaSetType
<1>2. pass'.spec = pass.spec /\ pass'.status = pass.status /\ pass'.rs = pass.rs
  BY DEF SetAvailable, TypeOK, PassType
<1> QED BY <1>1, <1>2 DEF KeepsSnapshot

\* The next stage works on the same snapshot.
LEMMA GoToKeeps ==
    ASSUME pc # "idle", NEW stage, GoTo(stage) PROVE KeepsSnapshot
BY DEF GoTo, KeepsSnapshot

\* A ReplicaSet known to be stale is still in the snapshot.
LEMMA DirtyKeeps ==
    ASSUME TypeOK, pc # "idle", NEW D, pass' = [pass EXCEPT !.dirty = D]
    PROVE KeepsSnapshot
BY DEF KeepsSnapshot, TypeOK, PassType

\* scaleReplicaSetAndRecordEvent keeps both, unless the pass ends.
LEMMA ScaleReplicaSetKeeps ==
    ASSUME TypeOK, pc # "idle", NEW h \in Hash, NEW n, NEW stage,
           ScaleReplicaSet(h, n, stage)
    PROVE KeepsReplicaSets /\ (pc' = "idle" \/ KeepsSnapshot)
<1>1. CASE UNCHANGED rs /\ GoTo(stage)
  BY <1>1, GoToKeeps DEF KeepsReplicaSets
<1>2. CASE Write(h, n) /\ pass' = [pass EXCEPT !.dirty = @ \cup {h}]
  BY <1>2, WriteKeeps, DirtyKeeps
<1>3. CASE UNCHANGED rs /\ EndPass
  BY <1>3 DEF EndPass, KeepsReplicaSets
<1> QED BY <1>1, <1>2, <1>3 DEF ScaleReplicaSet

\* The cluster, the user and a pass that fails.
LEMMA StableCluster ==
    ASSUME StableInv, TypeOK',
           OthersFail \/ PassFails \/ Cluster \/ User \/ UNCHANGED vars
    PROVE StableInv'
<1> USE DEF StableInv
<1>1. ASSUME UNCHANGED <<rs, pc, pass>>, status'.stableRS = status.stableRS
      PROVE StableInv'
  BY <1>1 DEF StableExists, PassSeesStable, New, Stable
<1>2. ASSUME NEW h \in Hash, NEW n, SetAvailable(h, n), UNCHANGED <<status, pc>>
      PROVE StableInv'
  BY <1>2, SetAvailableKeeps, KeptStable
<1>3. CASE \E h \in Hash : DeadlinePasses(h)
  <2>1. PICK h \in Hash : DeadlinePasses(h)
    BY <1>3
  <2>2. KeepsReplicaSets
    BY <2>1, PatchDeadlineKeeps DEF DeadlinePasses
  <2>3. UNCHANGED <<status, pc, pass>>
    BY <2>1 DEF DeadlinePasses
  <2> QED BY <2>2, <2>3, KeptStable DEF KeepsSnapshot
<1>4. CASE \E h \in Hash : \/ PodBecomesAvailable(h) \/ PodBecomesUnavailable(h)
                           \/ PodsTerminate(h)
  BY <1>2, <1>4 DEF PodBecomesAvailable, PodBecomesUnavailable, PodsTerminate
<1>5. CASE (\E i \in RunIds : RunCompletes(i)) \/ PauseElapses
  BY <1>1, <1>5 DEF RunCompletes, PauseElapses, cluster
<1>6. CASE UNCHANGED vars
  BY <1>1, <1>6 DEF vars
<1>7. CASE PassFails
  BY <1>7, KeptStable DEF PassFails, EndPass, cluster, KeepsReplicaSets
<1>9. CASE OthersFail
  BY <1>9, KeptStable DEF OthersFail, GoTo, cluster, KeepsReplicaSets, KeepsSnapshot
<1>8. CASE User
  <2>1. UNCHANGED <<rs, pc, pass>>
    BY <1>8 DEF User, Promote, PromoteFull, PatchStatus, PatchSpec, Abort, Retry, Pause,
       SetTemplate, Scale, UserMay,
       cluster
  <2>2. status'.stableRS = status.stableRS
    BY <1>8 DEF User, Promote, PromoteFull, PatchStatus, PatchSpec, Abort, Retry, Pause,
       SetTemplate, Scale,
       TypeOK, StatusType
  <2> QED BY <1>1, <2>1, <2>2
<1> QED BY <1>3, <1>4, <1>5, <1>6, <1>7, <1>8, <1>9 DEF Cluster

\* A new snapshot shows the stable and the new ReplicaSet.
LEMMA StableBegin ==
    ASSUME StableInv, TypeOK', CreateReplicaSet \/ BeginPass PROVE StableInv'
<1> USE DEF StableInv
<1>1. status.stableRS \in Hash \cup {NoHash} /\ spec.template \in Hash /\ UNCHANGED status
  BY DEF TypeOK, StatusType, CreateReplicaSet, BeginPass
<1>2. CASE CreateReplicaSet
  <2>1. StableExists'
    BY <1>1, <1>2 DEF CreateReplicaSet, StableExists, TypeOK
  <2> QED BY <1>2, <2>1 DEF CreateReplicaSet, PassSeesStable
<1>3. CASE BeginPass
  <2>1. PICK n : rs' = [rs EXCEPT ![spec.template].revision = n]
    BY <1>3 DEF BeginPass
  <2>2. KeepsReplicaSets
    BY <2>1 DEF KeepsReplicaSets, TypeOK, ReplicaSetType
  <2>3. pass'.spec = spec /\ pass'.status = status /\ pass'.rs = rs'
    BY <1>3 DEF BeginPass, NoPass
  <2>4. rs[spec.template].exists
    BY <1>3 DEF BeginPass
  <2> QED BY <1>1, <2>2, <2>3, <2>4
      DEF StableExists, PassSeesStable, KeepsReplicaSets, New, Stable
<1> QED BY <1>2, <1>3

\* The stages that scale ReplicaSets.
LEMMA StableScaling ==
    ASSUME StableInv, TypeOK',
           \/ RemoveScaleDownDeadlines \/ ReconcileStableReplicaSet
           \/ ReconcileNewReplicaSet \/ ReconcileOtherReplicaSets
    PROVE StableInv'
<1> USE DEF StableInv
<1>1. pc # "idle" /\ UNCHANGED status
  BY DEF RemoveScaleDownDeadlines, ReconcileStableReplicaSet, ReconcileNewReplicaSet,
         ReconcileOtherReplicaSets
<1>2. New \in Hash /\ Stable \in Hash \cup {NoHash} /\ pass.rs \in [Hash -> ReplicaSetType]
  BY <1>1, PassFields
<1>3. ASSUME KeepsReplicaSets, pc' = "idle" \/ KeepsSnapshot PROVE StableInv'
  BY <1>1, <1>3, KeptStable
<1>4. ASSUME NEW stage, GoTo(stage), UNCHANGED rs PROVE StableInv'
  BY <1>1, <1>3, <1>4, GoToKeeps DEF KeepsReplicaSets
<1>5. CASE RemoveScaleDownDeadlines
  <2>1. ASSUME NEW h \in DeadlinesToRemove, PatchDeadline(h, "none"),
               pass' = [pass EXCEPT !.rs = [@ EXCEPT ![h].deadline = "none"],
                                    !.dirty = @ \cup {h}]
        PROVE StableInv'
    <3>1. KeepsReplicaSets
      BY <2>1, PatchDeadlineKeeps DEF DeadlinesToRemove
    <3>2. /\ pass'.spec = pass.spec /\ pass'.status = pass.status
          /\ pass'.rs = [pass.rs EXCEPT ![h].deadline = "none"]
      BY <2>1 DEF TypeOK, PassType
    <3>3. KeepsSnapshot
      BY <1>1, <1>2, <3>2 DEF KeepsSnapshot, ReplicaSetType
    <3> QED BY <1>3, <3>1, <3>3
  <2> QED BY <1>4, <1>5, <2>1 DEF RemoveScaleDownDeadlines
<1>6. CASE ReconcileStableReplicaSet
  <2>1. HasStable => Stable \in Hash
    BY <1>2 DEF HasStable
  <2> QED BY <1>1, <1>3, <1>4, <1>6, <2>1, ScaleReplicaSetKeeps DEF ReconcileStableReplicaSet
<1>7. CASE ReconcileNewReplicaSet
  <2>1. CASE StartAbortScaleDownDelay
    <3>1. KeepsReplicaSets
      BY <1>2, <2>1 DEF StartAbortScaleDownDelay, KeepsReplicaSets, TypeOK, ReplicaSetType
    <3>2. /\ pass'.spec = pass.spec /\ pass'.status = pass.status
          /\ pass'.rs = [pass.rs EXCEPT ![New].desired = pass.spec.replicas]
      BY <2>1 DEF StartAbortScaleDownDelay, TypeOK, PassType
    <3>3. KeepsSnapshot
      BY <1>1, <1>2, <3>2 DEF KeepsSnapshot, ReplicaSetType
    <3> QED BY <1>3, <3>1, <3>3
  <2>2. CASE WaitAbortScaleDownDelay
    <3>1. KeepsReplicaSets
      BY <1>2, <2>2 DEF WaitAbortScaleDownDelay, KeepsReplicaSets, TypeOK, ReplicaSetType
    <3>2. /\ pass'.spec = pass.spec /\ pass'.status = pass.status
          /\ pass'.rs = [pass.rs EXCEPT ![New].desired = pass.spec.replicas]
      BY <2>2 DEF WaitAbortScaleDownDelay, TypeOK, PassType
    <3>3. KeepsSnapshot
      BY <1>1, <1>2, <3>2 DEF KeepsSnapshot, ReplicaSetType
    <3> QED BY <1>3, <3>1, <3>3
  <2>3. CASE UNCHANGED rs /\ EndPass
    BY <1>3, <2>3 DEF EndPass, KeepsReplicaSets
  <2>4. ASSUME NEW n, ScaleReplicaSet(New, n, "scaleOthers") PROVE StableInv'
    BY <1>1, <1>2, <1>3, <2>4, ScaleReplicaSetKeeps
  <2> QED BY <1>7, <2>1, <2>2, <2>3, <2>4 DEF ReconcileNewReplicaSet
<1>8. CASE ReconcileOtherReplicaSets
  <2>1. CASE GoTo("revisionHistory") /\ UNCHANGED rs
    BY <1>4, <2>1
  <2>2. ASSUME NEW h \in OldToScaleDown,
               \/ PatchDeadline(h, "pending") \/ UNCHANGED rs
               \/ \E n : Write(h, n),
               \/ GoTo("revisionHistory")
               \/ /\ pass'.spec = pass.spec /\ pass'.status = pass.status
                  /\ pass'.rs = pass.rs
        PROVE StableInv'
    <3>1. h \in Hash
      BY DEF OldToScaleDown
    <3>2. KeepsReplicaSets
      BY <2>2, <3>1, PatchDeadlineKeeps, WriteKeeps DEF KeepsReplicaSets
    <3>3. KeepsSnapshot
      BY <1>1, <2>2, GoToKeeps DEF KeepsSnapshot
    <3> QED BY <1>3, <3>2, <3>3
  <2>3. CASE \E h \in OldToScaleDown :
               /\ \/ PatchDeadline(h, "pending") \/ UNCHANGED rs
                  \/ Write(h, OldReplicas(h))
               /\ \/ GoTo("revisionHistory")
                  \/ \E D, V, k : pass' = [pass EXCEPT !.visited = V, !.dirty = D,
                                                       !.annotated = k]
    <3>1. ASSUME NEW D, NEW V, NEW k,
                 pass' = [pass EXCEPT !.visited = V, !.dirty = D, !.annotated = k]
          PROVE pass'.spec = pass.spec /\ pass'.status = pass.status /\ pass'.rs = pass.rs
      BY <3>1 DEF TypeOK, PassType
    <3> QED BY <2>2, <2>3, <3>1
  <2> QED BY <1>8, <2>1, <2>3, Zenon DEF ReconcileOtherReplicaSets
<1> QED BY <1>5, <1>6, <1>7, <1>8

\* The stages that touch no ReplicaSet.
LEMMA StableOtherStages ==
    ASSUME StableInv, TypeOK',
           \/ ReconcilePreviewService \/ ReconcileBlueGreenPause
           \/ ReconcileActiveService \/ ReconcileAnalysisRuns
    PROVE StableInv'
<1> USE DEF StableInv
<1>1. pc # "idle" /\ UNCHANGED <<status, rs>>
  BY DEF ReconcilePreviewService, ReconcileBlueGreenPause, ReconcileActiveService,
         ReconcileAnalysisRuns, cluster
<1>2. KeepsReplicaSets
  BY <1>1 DEF KeepsReplicaSets
<1>3. CASE ReconcilePreviewService \/ ReconcileActiveService
  BY <1>1, <1>2, <1>3, KeptStable, GoToKeeps DEF ReconcilePreviewService, ReconcileActiveService
<1>4. CASE ReconcileBlueGreenPause
  <2>1. pass'.spec = pass.spec /\ pass'.status = pass.status /\ pass'.rs = pass.rs
    BY <1>4 DEF ReconcileBlueGreenPause, TypeOK, PassType
  <2> QED BY <1>1, <1>2, <2>1, KeptStable DEF KeepsSnapshot
<1>5. CASE ReconcileAnalysisRuns
  <2>1. ASSUME NEW i, NEW j, NEW view, NEW S, FinishAnalysis(i, j, view, S)
        PROVE pass'.spec = pass.spec /\ pass'.status = pass.status /\ pass'.rs = pass.rs
    BY <2>1, ZenonT(30) DEF FinishAnalysis, TypeOK, PassType
  <2>2. pass'.spec = pass.spec /\ pass'.status = pass.status /\ pass'.rs = pass.rs
    BY <1>5, <2>1 DEF ReconcileAnalysisRuns
  <2> QED BY <1>1, <1>2, <2>2, KeptStable DEF KeepsSnapshot
<1> QED BY <1>3, <1>4, <1>5

\* What is deleted is neither the new ReplicaSet nor the stable one.
LEMMA StableHistory ==
    ASSUME StableInv, TypeOK', ReconcileRevisionHistoryLimit PROVE StableInv'
<1> USE DEF StableInv
<1>1. /\ pc # "idle" /\ UNCHANGED status
      /\ New \in Hash /\ Stable \in Hash \cup {NoHash}
  BY PassFields DEF ReconcileRevisionHistoryLimit
<1>2. \A h \in BeyondHistoryLimit : h # New /\ h # Stable
  <2>1. ASSUME NEW h \in Hash, IsOther(h) PROVE h # New /\ h # Stable
    BY <1>1, <2>1, HashAssumption DEF IsOther, HasStable, PassSeesStable
  <2>2. \A h \in BeyondHistoryLimit : h \in Hash /\ IsOther(h)
    BY DEF BeyondHistoryLimit
  <2> QED BY <2>1, <2>2
<1>3. \A h \in Hash : h = New \/ h = Stable => rs'[h] = rs[h]
  BY <1>2 DEF ReconcileRevisionHistoryLimit
<1>4. pass'.spec = pass.spec /\ pass'.status = pass.status /\ pass'.rs = pass.rs
  BY DEF ReconcileRevisionHistoryLimit, TypeOK, PassType
<1>5. Stable = status.stableRS
  BY <1>1 DEF PassSeesStable
<1> QED BY <1>1, <1>3, <1>4, <1>5 DEF StableExists, PassSeesStable, New, Stable

\* A changed stable version is the new one, and shouldFullPromote chose it.
LEMMA PromotionIsFull ==
    ASSUME StableInv, SyncRolloutStatus, status'.stableRS # status.stableRS
    PROVE ShouldFullPromote /\ status'.stableRS = New
<1>1. PICK t \in BOOLEAN : status' = Merged(NewStatus(t), pass.status, status)
  BY DEF SyncRolloutStatus
<1>2. status'.stableRS = Merge(NewStatus(t).stableRS, Stable, status.stableRS)
  BY <1>1 DEF Merged, Stable
<1>3. NewStatus(t).stableRS # Stable /\ status'.stableRS = NewStatus(t).stableRS
  BY <1>2 DEF Merge
<1>4. PICK a \in BOOLEAN :
        NewStatus(t) = IF pass.scaling THEN ScalingStatus(a) ELSE FullStatus(a)
  BY Zenon DEF NewStatus
<1>5. ScalingStatus(a).stableRS = Stable
  BY DEF ScalingStatus, Stable, StableInv, TypeOK, PassType, StatusType
<1>6. FullStatus(a).stableRS = StableAfterSync
  BY DEF FullStatus
<1>7. NewStatus(t).stableRS = StableAfterSync /\ StableAfterSync # Stable
  BY <1>3, <1>4, <1>5, <1>6
<1> QED BY <1>3, <1>7 DEF StableAfterSync

\* The new ReplicaSet exists, so it may become the stable one.
LEMMA StableSync == ASSUME StableInv, TypeOK', SyncRolloutStatus PROVE StableInv'
<1> USE DEF StableInv
<1>1. pc # "idle" /\ pc' = "idle" /\ UNCHANGED rs
  BY DEF SyncRolloutStatus, EndPass, cluster
<1>2. CASE status'.stableRS = status.stableRS
  BY <1>1, <1>2, KeptStable DEF KeepsReplicaSets
<1>3. CASE status'.stableRS # status.stableRS
  BY <1>1, <1>3, PromotionIsFull DEF StableExists, PassSeesStable
<1> QED BY <1>2, <1>3

\* It starts so: there is no pass, and the first stable version is running.
LEMMA StableInit == Init => StableInv
<1> SUFFICES ASSUME Init PROVE StableInv
  OBVIOUS
<1>1. StableExists
  BY DEF Init, StableExists, NoStatus
<1>2. pc = "idle"
  BY DEF Init
<1> QED BY <1>1, <1>2, TypeInit DEF StableInv, PassSeesStable

\* No step breaks it.
LEMMA StableStep == ASSUME StableInv, [Next]_vars PROVE StableInv'
<1>1. TypeOK'
  BY TypeStep DEF StableInv
<1>2. CASE Controller
  BY <1>1, <1>2, StableBegin, StableScaling, StableOtherStages, StableHistory, StableSync
     DEF Controller
<1> QED BY <1>1, <1>2, StableCluster DEF Next

\* The stable ReplicaSet exists, and every pass sees it.
LEMMA StableInvariant == Spec => []StableInv
<1> QED BY StableInit, StableStep, PTL DEF Spec

(* The ReplicaSet of status.stableRS, which an abort goes back to, exists   *)
(* whatever reconcileRevisionHistoryLimit deletes from its snapshot.       *)
THEOREM StableKept == Spec => []StableExists
<1> QED BY StableInvariant, PTL DEF StableInv

\* Only the status patch of a pass changes the stable version.
LEMMA OnlyPromotions ==
    ASSUME TypeOK, Next, status'.stableRS # status.stableRS PROVE SyncRolloutStatus
<1>1. CASE Controller
  BY <1>1
  DEF Controller, CreateReplicaSet, BeginPass, ReconcilePreviewService,
      RemoveScaleDownDeadlines, ReconcileStableReplicaSet, ReconcileNewReplicaSet,
      ReconcileOtherReplicaSets, ReconcileRevisionHistoryLimit, ReconcileBlueGreenPause,
      ReconcileActiveService, ReconcileAnalysisRuns
<1>2. CASE OthersFail \/ PassFails \/ Cluster
  BY <1>2 DEF OthersFail, PassFails, Cluster, PodBecomesAvailable, PodBecomesUnavailable,
     PodsTerminate, DeadlinePasses, RunCompletes, PauseElapses
<1>3. CASE User
  BY <1>3 DEF User, Promote, PromoteFull, PatchStatus, PatchSpec, Abort, Retry, Pause,
       SetTemplate, Scale,
     TypeOK, StatusType
<1> QED BY <1>1, <1>2, <1>3 DEF Next

(* PromotionFollowsTraffic: a version becomes stable only while the active  *)
(* Service selects it, unless there is no stable version or no selector.   *)
(* shouldFullPromote also promotes when it finds no stable ReplicaSet: that *)
(* this happens only without a stable version is what StableInv is for.    *)
THEOREM PromotionFollows == Spec => PromotionFollowsTraffic
<1>1. ASSUME StableInv, [Next]_vars, status'.stableRS # status.stableRS
      PROVE active = status'.stableRS \/ active = NoHash \/ status.stableRS = NoHash
  <2>1. SyncRolloutStatus
    BY <1>1, OnlyPromotions DEF StableInv, vars
  <2>2. ShouldFullPromote /\ status'.stableRS = New
    BY <1>1, <2>1, PromotionIsFull
  <2>3. Stable = status.stableRS /\ (HasStable \/ Stable = NoHash)
    BY <1>1, <2>1 DEF StableInv, PassSeesStable, HasStable, SyncRolloutStatus
  <2> QED BY <2>2, <2>3 DEF ShouldFullPromote
<1>2. StableInv /\ [Next]_vars =>
        (status'.stableRS # status.stableRS
            => \/ active = status'.stableRS
               \/ active = NoHash \/ status.stableRS = NoHash)
  BY <1>1
<1> QED BY <1>2, StableInvariant, PTL DEF Spec, PromotionFollowsTraffic

(* What a step of reconcileOtherReplicaSets writes: at most one old         *)
(* ReplicaSet, and its bookkeeping in the pass.                            *)
LEMMA OthersStep ==
    ASSUME TypeOK, ReconcileOtherReplicaSets
    PROVE \/ UNCHANGED rs /\ GoTo("revisionHistory")
          \/ \E h \in OldToScaleDown :
                /\ \/ PatchDeadline(h, "pending") \/ UNCHANGED rs
                   \/ Write(h, OldReplicas(h))
                /\ \/ GoTo("revisionHistory")
                   \/ /\ pc' = pc
                      /\ \E V, D, k : pass' = [pass EXCEPT !.visited = V, !.dirty = D,
                                                           !.annotated = k]
<1>1. ASSUME NEW h \in OldToScaleDown,
             LET n == OldReplicas(h)
                 scales == n # pass.rs[h].replicas
                 wrote == scales \/ StartsScaleDownDelay(h)
             IN /\ \/ /\ ~scales
                      /\ IF StartsScaleDownDelay(h) THEN PatchDeadline(h, "pending")
                                                    ELSE UNCHANGED rs
                   \/ scales /\ Write(h, n)
                   \/ scales /\ h \in pass.dirty /\ UNCHANGED rs
                /\ IF scales /\ h \in pass.dirty
                   THEN GoTo("revisionHistory")
                   ELSE /\ pc' = pc
                        /\ pass' = [pass EXCEPT
                             !.visited = @ \cup {h},
                             !.dirty = IF wrote THEN @ \cup {h} ELSE @,
                             !.annotated = IF pass.rs[h].deadline # "none" \/ n # 0
                                           THEN @ + 1 ELSE @]
      PROVE /\ \/ PatchDeadline(h, "pending") \/ UNCHANGED rs
               \/ Write(h, OldReplicas(h))
            /\ \/ GoTo("revisionHistory")
               \/ /\ pc' = pc
                  /\ \E V, D, k : pass' = [pass EXCEPT !.visited = V, !.dirty = D,
                                                       !.annotated = k]
  <2>1. PatchDeadline(h, "pending") \/ UNCHANGED rs \/ Write(h, OldReplicas(h))
    BY <1>1
  <2>2. CASE ~GoTo("revisionHistory")
    <3> DEFINE V == pass.visited \cup {h}
               D == IF OldReplicas(h) # pass.rs[h].replicas \/ StartsScaleDownDelay(h)
                    THEN pass.dirty \cup {h} ELSE pass.dirty
               k == IF pass.rs[h].deadline # "none" \/ OldReplicas(h) # 0
                    THEN pass.annotated + 1 ELSE pass.annotated
    <3>1. pc' = pc /\ pass' = [pass EXCEPT !.visited = V, !.dirty = D, !.annotated = k]
      BY <1>1, <2>2 DEF TypeOK, PassType
    <3> HIDE DEF V, D, k
    <3> QED BY <2>1, <3>1
  <2> QED BY <2>1, <2>2
<1> QED BY <1>1 DEF ReconcileOtherReplicaSets

----------------------------------------------------------------------------
(* The sizes of the versions that serve, for a strategy under which the     *)
(* controller scales neither a preview down nor an aborted version: without *)
(* previewReplicaCount, and with abortScaleDownDelaySeconds: 0.  (With      *)
(* previewReplicaCount a version that receives traffic may be left at that *)
(* size; with a delay, an aborted version that still receives it at 0.)    *)
FullSizePreview == PreviewReplicaCount = NoCount /\ ~AbortScaleDownDelay

(* A ReplicaSet of a size the user asked for, which exists if that is not 0. *)
Sized(h) == rs[h].replicas \in ReplicaCounts /\ (rs[h].exists \/ 0 \in ReplicaCounts)

(* No other size was written since the snapshot. *)
SizeSeen(h) == rs[h].replicas \in ReplicaCounts \cup {pass.rs[h].replicas}

BeforeOthers == {"previewService", "removeDeadlines", "scaleStable", "scaleNew"}
BeforeHistory == BeforeOthers \cup {"scaleOthers", "revisionHistory"}
StableScaled == {"scaleNew", "scaleOthers", "revisionHistory", "pause", "activeService"}
NewScaled == {"scaleOthers", "revisionHistory", "pause", "activeService", "analysis"}

(* Once traffic is served, both the version that receives it and the one    *)
(* to fall back to have a size the user asked for.                         *)
ServedSizes ==
    active # NoHash => Sized(active) /\ (status.stableRS # NoHash => Sized(status.stableRS))

(* A Rollout that was deployed once has both versions; a version in the     *)
(* status has a stable one next to it.                                     *)
Deployed ==
    /\ ~FirstDeploy => active # NoHash /\ status.stableRS # NoHash
    /\ status.currentPodHash # NoHash => status.stableRS # NoHash

(* What a pass has scaled, and what its snapshot shows of the version that  *)
(* receives the traffic until reconcileRevisionHistoryLimit has read it.   *)
PassSizes ==
    pc # "idle" =>
        /\ pass.spec.replicas \in ReplicaCounts
        /\ pass.status.currentPodHash = status.currentPodHash
        /\ pc \in BeforeOthers => \A h \in Hash : SizeSeen(h)
        /\ pc \in BeforeHistory /\ active # NoHash => pass.rs[active].replicas \in ReplicaCounts
        /\ pc \in StableScaled /\ Stable # NoHash => Sized(Stable)
        /\ pc \in NewScaled => Sized(New)
        /\ pc = "sync" => Sized(New) \/ CheckPodSpecChange

SizeInv == StableInv /\ spec.replicas \in ReplicaCounts /\ ServedSizes /\ Deployed /\ PassSizes

\* A step that scales nothing, seen from the pass.
SameSizes ==
    \A h \in Hash : rs'[h].replicas = rs[h].replicas /\ rs'[h].exists = rs[h].exists
SameSnapshot ==
    /\ pc # "idle" /\ pass'.spec = pass.spec /\ pass'.status = pass.status
    /\ \A h \in Hash : pass'.rs[h].replicas = pass.rs[h].replicas

\* The versions a pass must not scale to another size.
InUse(h) == h \in {active, status.stableRS} \/ (pc # "idle" /\ h = New)

(* Steps that leave the sizes of the versions in use alone, up to the next *)
(* stage, if what they have to have scaled for it is scaled.               *)
LEMMA KeptSizes ==
    ASSUME SizeInv, StableInv', spec'.replicas \in ReplicaCounts, active' = active,
           status'.stableRS = status.stableRS,
           status'.currentPodHash = status.currentPodHash,
           \A h \in Hash : InUse(h) /\ Sized(h) => Sized(h)',
           \/ pc' = "idle"
           \/ /\ SameSnapshot
              /\ pc' \in BeforeHistory => pc \in BeforeHistory
              /\ pc' \in BeforeOthers => \A h \in Hash : SizeSeen(h)'
              /\ pc' \in StableScaled /\ Stable # NoHash => Sized(Stable)'
              /\ pc' \in NewScaled => Sized(New)'
              /\ pc' = "sync" => Sized(New)' \/ CheckPodSpecChange
    PROVE SizeInv'
<1> USE DEF SizeInv
<1>1. active \in Hash \cup {NoHash} /\ status.stableRS \in Hash \cup {NoHash}
  BY DEF StableInv, TypeOK, StatusType
<1>2. ServedSizes'
  BY <1>1 DEF ServedSizes, InUse
<1>3. Deployed'
  BY DEF Deployed
<1>4. PassSizes'
  <2>1. CASE pc' = "idle"
    BY <2>1 DEF PassSizes
  <2>2. CASE /\ SameSnapshot
             /\ pc' \in BeforeHistory => pc \in BeforeHistory
             /\ pc' \in BeforeOthers => \A h \in Hash : SizeSeen(h)'
             /\ pc' \in StableScaled /\ Stable # NoHash => Sized(Stable)'
             /\ pc' \in NewScaled => Sized(New)'
             /\ pc' = "sync" => Sized(New)' \/ CheckPodSpecChange
    <3>1. New' = New /\ Stable' = Stable
      BY <2>2 DEF SameSnapshot, New, Stable
    <3>4. CheckPodSpecChange' <=> CheckPodSpecChange
      BY <2>2, <3>1 DEF SameSnapshot, CheckPodSpecChange
    <3>5. pc' \in BeforeHistory /\ active' # NoHash => pass'.rs[active'].replicas \in ReplicaCounts
      BY <1>1, <2>2 DEF SameSnapshot, PassSizes
    <3>6. pass'.spec.replicas \in ReplicaCounts
            /\ pass'.status.currentPodHash = status'.currentPodHash
      BY <2>2 DEF SameSnapshot, PassSizes
    <3> QED BY <2>2, <3>1, <3>4, <3>5, <3>6 DEF PassSizes, SameSnapshot, Sized
  <2> QED BY <2>1, <2>2
<1> QED BY <1>2, <1>3, <1>4

\* Steps of the cluster and the user that touch no size, and a failing pass.
LEMMA SizeCluster ==
    ASSUME SizeInv, StableInv',
           OthersFail \/ PassFails \/ Cluster \/ User \/ UNCHANGED vars
    PROVE SizeInv'
<1> USE DEF SizeInv, StableInv
<1>1. ASSUME SameSizes, active' = active, spec'.replicas \in ReplicaCounts,
             status'.stableRS = status.stableRS,
             status'.currentPodHash = status.currentPodHash,
             pc' = "idle" \/ (pc' = pc /\ (pc # "idle" => SameSnapshot))
      PROVE SizeInv'
  <2>1. \A h \in Hash : Sized(h)' <=> Sized(h)
    BY <1>1 DEF SameSizes, Sized
  <2>2. CASE pc' = "idle"
    BY <1>1, <2>1, <2>2, KeptSizes
  <2>3. CASE pc # "idle" /\ pc' = pc
    <3>1. New \in Hash /\ Stable \in Hash \cup {NoHash}
      BY <2>3, PassFields
    <3>2. New' = New /\ Stable' = Stable
      BY <1>1, <2>3 DEF SameSnapshot, New, Stable
    <3>3. pc \in StableScaled /\ Stable # NoHash => Sized(Stable)'
      BY <2>1, <2>3, <3>1, <3>2 DEF PassSizes, Sized
    <3>4. pc \in NewScaled => Sized(New)'
      BY <2>1, <2>3, <3>1, <3>2 DEF PassSizes, Sized
    <3>5. pc = "sync" => Sized(New)' \/ CheckPodSpecChange
      BY <2>1, <2>3, <3>1, <3>2 DEF PassSizes, Sized
    <3>6. pc \in BeforeOthers => \A h \in Hash : SizeSeen(h)'
      BY <1>1, <2>3 DEF PassSizes, SizeSeen, SameSizes, SameSnapshot
    <3> QED BY <1>1, <2>1, <2>3, <3>3, <3>4, <3>5, <3>6, KeptSizes
  <2> QED BY <1>1, <2>2, <2>3
<1>2. ASSUME NEW h \in Hash, NEW n, SetAvailable(h, n), UNCHANGED <<spec, status, active, pc>>
      PROVE SizeInv'
  <2>1. SameSizes
    BY <1>2 DEF SetAvailable, SameSizes, TypeOK, ReplicaSetType
  <2>2. pc # "idle" => SameSnapshot
    BY <1>2 DEF SetAvailable, SameSnapshot, TypeOK, PassType
  <2> QED BY <1>1, <1>2, <2>1, <2>2
<1>3. CASE \E h \in Hash : DeadlinePasses(h)
  <2>1. PICK h \in Hash : DeadlinePasses(h)
    BY <1>3
  <2>2. SameSizes
    BY <2>1 DEF DeadlinePasses, PatchDeadline, SameSizes, TypeOK, ReplicaSetType
  <2>3. UNCHANGED <<spec, status, active, pc, pass>>
    BY <2>1 DEF DeadlinePasses
  <2> QED BY <1>1, <2>2, <2>3 DEF SameSnapshot
<1>4. CASE \E h \in Hash : \/ PodBecomesAvailable(h) \/ PodBecomesUnavailable(h)
                           \/ PodsTerminate(h)
  BY <1>2, <1>4 DEF PodBecomesAvailable, PodBecomesUnavailable, PodsTerminate
<1>5. CASE (\E i \in RunIds : RunCompletes(i)) \/ PauseElapses \/ UNCHANGED vars
  BY <1>1, <1>5 DEF RunCompletes, PauseElapses, cluster, vars, SameSizes, SameSnapshot
<1>6. CASE PassFails
  BY <1>1, <1>6 DEF PassFails, EndPass, cluster, SameSizes
<1>7. CASE User
  <2>1. UNCHANGED <<active, rs, pc, pass>>
    BY <1>7 DEF User, Promote, PromoteFull, PatchStatus, PatchSpec, Abort, Retry, Pause,
       SetTemplate, Scale, UserMay,
       cluster
  <2>2. status'.stableRS = status.stableRS /\ status'.currentPodHash = status.currentPodHash
    BY <1>7 DEF User, Promote, PromoteFull, PatchStatus, PatchSpec, Abort, Retry, Pause,
       SetTemplate, Scale,
       TypeOK, StatusType
  <2>3. spec'.replicas \in ReplicaCounts
    BY <1>7 DEF User, Promote, PromoteFull, PatchStatus, PatchSpec, Abort, Retry, Pause,
       SetTemplate, Scale,
       TypeOK, SpecType
  <2> QED BY <1>1, <2>1, <2>2, <2>3 DEF SameSizes, SameSnapshot
<1>8. CASE OthersFail
  <2>1. /\ pc = "scaleOthers" /\ pc' = "revisionHistory"
        /\ UNCHANGED <<spec, status, active, rs, pass>>
    BY <1>8 DEF OthersFail, GoTo, cluster
  <2>2. /\ New' = New /\ Stable' = Stable /\ New \in Hash /\ Stable \in Hash \cup {NoHash}
        /\ SameSnapshot
    BY <2>1, PassFields DEF New, Stable, SameSnapshot
  <2>3. Sized(New) /\ (Stable # NoHash => Sized(Stable)) /\ \A h \in Hash : Sized(h)' <=> Sized(h)
    BY <2>1 DEF PassSizes, StableScaled, NewScaled, Sized
  <2> QED BY <2>1, <2>2, <2>3, KeptSizes DEF BeforeOthers, BeforeHistory
<1> QED BY <1>3, <1>4, <1>5, <1>6, <1>7, <1>8 DEF Cluster

\* A ReplicaSet created is scaled by the next pass; a pass starts from its snapshot.
LEMMA SizeBegin ==
    ASSUME SizeInv, StableInv', CreateReplicaSet \/ BeginPass PROVE SizeInv'
<1> USE DEF SizeInv, StableInv
<1>1. UNCHANGED <<spec, status, active>> /\ spec.template \in Hash /\ pc = "idle"
  BY DEF CreateReplicaSet, BeginPass, TypeOK
<1>2. CASE CreateReplicaSet
  <2>1. \A h \in Hash : Sized(h) => Sized(h)'
    BY <1>2 DEF CreateReplicaSet, Sized, TypeOK, ReplicaSetType
  <2> QED BY <1>1, <1>2, <2>1, KeptSizes DEF CreateReplicaSet
<1>3. CASE BeginPass
  <2>1. PICK n : rs' = [rs EXCEPT ![spec.template].revision = n]
    BY <1>3 DEF BeginPass
  <2>2. SameSizes
    BY <2>1 DEF SameSizes, TypeOK, ReplicaSetType
  <2>3. pass'.spec = spec /\ pass'.status = status /\ pass'.rs = rs'
    BY <1>3 DEF BeginPass, NoPass
  <2>4. pc' \in {"removeDeadlines", "previewService"}
    BY <1>3 DEF BeginPass
  <2>5. active \in Hash \cup {NoHash} /\ status.stableRS \in Hash \cup {NoHash}
    BY DEF TypeOK, StatusType
  <2>6. ServedSizes' /\ Deployed'
    BY <1>1, <2>2, <2>5 DEF ServedSizes, Deployed, SameSizes, Sized
  <2>7. PassSizes'
    BY <1>1, <2>2, <2>3, <2>4, <2>5
    DEF PassSizes, ServedSizes, SameSizes, Sized, SizeSeen, StableScaled, NewScaled
  <2> QED BY <1>1, <2>6, <2>7
<1> QED BY <1>2, <1>3

(* scaleReplicaSet to a size the user asked for: it is that size then, of a *)
(* ReplicaSet of which the snapshot shows the size, unless the pass ends.  *)
LEMMA ScaleReplicaSetSizes ==
    ASSUME SizeInv, pc \in BeforeOthers, NEW stage
    PROVE \A h \in Hash, n \in ReplicaCounts :
            rs[h].exists /\ ScaleReplicaSet(h, n, stage) =>
              /\ \A g \in Hash : Sized(g) => Sized(g)'
              /\ \/ pc' = "idle"
                 \/ /\ SameSnapshot /\ pc' = stage /\ Sized(h)'
                    /\ \A g \in Hash : SizeSeen(g)'
<1> SUFFICES ASSUME NEW h \in Hash, NEW n \in ReplicaCounts, rs[h].exists,
                    ScaleReplicaSet(h, n, stage)
             PROVE /\ \A g \in Hash : Sized(g) => Sized(g)'
                   /\ \/ pc' = "idle"
                      \/ /\ SameSnapshot /\ pc' = stage /\ Sized(h)'
                         /\ \A g \in Hash : SizeSeen(g)'
  OBVIOUS
<1> USE DEF SizeInv, StableInv
<1>1. \A g \in Hash : SizeSeen(g)
  BY DEF PassSizes, BeforeOthers
<1>2. CASE UNCHANGED rs /\ GoTo(stage) /\ ~NeedsScale(h, n)
  BY <1>1, <1>2 DEF GoTo, NeedsScale, SameSnapshot, SizeSeen, Sized, BeforeOthers
<1>3. CASE /\ Write(h, n) /\ pc' = stage
           /\ pass' = [pass EXCEPT !.dirty = @ \cup {h}]
  <2>1. \A g \in Hash : /\ rs'[g].exists = rs[g].exists
                        /\ rs'[g].replicas = IF g = h THEN n ELSE rs[g].replicas
    BY <1>3 DEF Write, TypeOK, ReplicaSetType
  <2>2. SameSnapshot /\ pass'.rs = pass.rs
    BY <1>3 DEF SameSnapshot, TypeOK, PassType, BeforeOthers
  <2> QED BY <1>1, <1>3, <2>1, <2>2 DEF Sized, SizeSeen
<1>4. CASE UNCHANGED rs /\ EndPass
  BY <1>4 DEF EndPass, Sized
<1> QED BY <1>2, <1>3, <1>4 DEF ScaleReplicaSet

\* removeScaleDownDeadlines and the scaling of the stable ReplicaSet.
LEMMA SizeStable ==
    ASSUME SizeInv, StableInv', RemoveScaleDownDeadlines \/ ReconcileStableReplicaSet
    PROVE SizeInv'
<1> USE DEF SizeInv, StableInv
<1>1. /\ pc # "idle" /\ pc \in BeforeOthers /\ UNCHANGED <<spec, status, active>>
      /\ \A h \in Hash : SizeSeen(h)
  BY DEF RemoveScaleDownDeadlines, ReconcileStableReplicaSet, BeforeOthers, PassSizes
<1>2. New \in Hash /\ Stable \in Hash \cup {NoHash} /\ pass.rs \in [Hash -> ReplicaSetType]
  BY <1>1, PassFields
<1>3. CASE RemoveScaleDownDeadlines
  <2>1. CASE GoTo("scaleStable") /\ UNCHANGED rs
    BY <1>1, <1>3, <2>1, KeptSizes
    DEF GoTo, SameSnapshot, Sized, SizeSeen, BeforeOthers, BeforeHistory, StableScaled, NewScaled
  <2>2. ASSUME NEW h \in DeadlinesToRemove, PatchDeadline(h, "none"), pc' = pc,
               pass' = [pass EXCEPT !.rs = [@ EXCEPT ![h].deadline = "none"],
                                    !.dirty = @ \cup {h}]
        PROVE SizeInv'
    <3>1. SameSizes
      BY <2>2 DEF PatchDeadline, SameSizes, TypeOK, ReplicaSetType
    <3>2. /\ pass'.spec = pass.spec /\ pass'.status = pass.status
          /\ pass'.rs = [pass.rs EXCEPT ![h].deadline = "none"]
      BY <2>2 DEF TypeOK, PassType
    <3>3. SameSnapshot
      BY <1>1, <1>2, <3>2 DEF SameSnapshot, ReplicaSetType
    <3>4. pc' = "removeDeadlines"
      BY <1>3, <2>2 DEF RemoveScaleDownDeadlines
    <3> QED BY <1>1, <3>1, <3>3, <3>4, KeptSizes
        DEF SameSizes, SameSnapshot, Sized, SizeSeen, BeforeOthers, BeforeHistory, StableScaled,
            NewScaled
  <2> QED BY <1>3, <2>1, <2>2 DEF RemoveScaleDownDeadlines
<1>4. CASE ReconcileStableReplicaSet
  <2>1. CASE HasStable
    <3>1. Stable \in Hash /\ rs[Stable].exists /\ pass.spec.replicas \in ReplicaCounts
      BY <1>1, <1>2, <2>1 DEF HasStable, PassSeesStable, StableExists, PassSizes
    <3>2. ScaleReplicaSet(Stable, pass.spec.replicas, "scaleNew")
      BY <1>4, <2>1 DEF ReconcileStableReplicaSet
    <3>3. /\ \A g \in Hash : Sized(g) => Sized(g)'
          /\ \/ pc' = "idle"
             \/ /\ SameSnapshot /\ pc' = "scaleNew" /\ Sized(Stable)'
                /\ \A g \in Hash : SizeSeen(g)'
      <4>1. SameSnapshot => Stable' = Stable
        BY DEF SameSnapshot, Stable
      <4> QED BY <1>1, <3>1, <3>2, <4>1, ScaleReplicaSetSizes DEF Sized
    <3> QED BY <1>1, <3>3, KeptSizes DEF BeforeOthers, BeforeHistory, NewScaled
  <2>2. CASE ~HasStable
    <3>1. Stable = NoHash
      BY <1>1, <2>2 DEF HasStable, PassSeesStable
    <3> QED BY <1>1, <1>4, <2>2, <3>1, KeptSizes
        DEF ReconcileStableReplicaSet, GoTo, SameSnapshot, Sized, SizeSeen, BeforeOthers,
            BeforeHistory, NewScaled
  <2> QED BY <2>1, <2>2
<1> QED BY <1>3, <1>4

\* Nothing but spec.replicas is asked of the new ReplicaSet.
LEMMA SizeNew ==
    ASSUME FullSizePreview, SizeInv, StableInv', ReconcileNewReplicaSet PROVE SizeInv'
<1> USE DEF SizeInv, StableInv
<1>1. /\ pc = "scaleNew" /\ UNCHANGED <<spec, status, active>>
      /\ \A h \in Hash : SizeSeen(h)
  BY DEF ReconcileNewReplicaSet, BeforeOthers, PassSizes
<1>2. New \in Hash /\ Stable \in Hash \cup {NoHash} /\ rs[New].exists
  BY <1>1, PassFields DEF PassSeesStable
<1>3. ScaleReplicaSet(New, pass.spec.replicas, "scaleOthers")
  BY DEF FullSizePreview, ReconcileNewReplicaSet, ShouldDelayScaleDownOnAbort, AbortDelayOf,
         NewRSNewReplicas
<1>4. pass.spec.replicas \in ReplicaCounts /\ (Stable # NoHash => Sized(Stable))
  BY <1>1 DEF PassSizes, StableScaled
<1>5. /\ \A g \in Hash : Sized(g) => Sized(g)'
      /\ \/ pc' = "idle"
         \/ SameSnapshot /\ pc' = "scaleOthers" /\ Sized(New)'
  <2>1. SameSnapshot => New' = New
    BY DEF SameSnapshot, New
  <2> QED BY <1>1, <1>2, <1>3, <1>4, <2>1, ScaleReplicaSetSizes DEF Sized, BeforeOthers
<1>6. Stable # NoHash /\ SameSnapshot => Sized(Stable)'
  BY <1>2, <1>4, <1>5 DEF SameSnapshot, Stable, Sized
<1> QED BY <1>1, <1>5, <1>6, KeptSizes DEF BeforeOthers, BeforeHistory

\* The old ReplicaSets that are scaled down are not in use.
LEMMA SizeOthers == ASSUME SizeInv, StableInv', ReconcileOtherReplicaSets PROVE SizeInv'
<1> USE DEF SizeInv, StableInv
<1>1. pc = "scaleOthers" /\ UNCHANGED <<spec, status, active>>
  BY DEF ReconcileOtherReplicaSets
<1>2. /\ New \in Hash /\ Stable \in Hash \cup {NoHash}
      /\ pc' \in {"scaleOthers", "revisionHistory"}
  BY <1>1, PassFields DEF ReconcileOtherReplicaSets, GoTo
<1>3. Sized(New) /\ (Stable # NoHash => Sized(Stable)) /\ Stable = status.stableRS
  BY <1>1 DEF PassSizes, StableScaled, NewScaled, PassSeesStable
<1>4. ASSUME SameSnapshot,
             \A h \in Hash : InUse(h) /\ Sized(h) => Sized(h)'
      PROVE SizeInv'
  <2>1. New' = New /\ Stable' = Stable
    BY <1>4 DEF SameSnapshot, New, Stable
  <2>2. Sized(New)' /\ (Stable # NoHash => Sized(Stable)')
    BY <1>1, <1>2, <1>3, <1>4, <2>1 DEF InUse, Sized
  <2> QED BY <1>1, <1>2, <1>4, <2>2, KeptSizes DEF BeforeOthers, BeforeHistory
<1>5. ASSUME UNCHANGED rs, GoTo("revisionHistory") PROVE SizeInv'
  BY <1>1, <1>4, <1>5 DEF GoTo, SameSnapshot, Sized
<1>6. ASSUME NEW h \in OldToScaleDown,
             \/ PatchDeadline(h, "pending") \/ UNCHANGED rs \/ \E n : Write(h, n),
             \/ GoTo("revisionHistory")
             \/ /\ pass'.spec = pass.spec /\ pass'.status = pass.status
                /\ pass'.rs = pass.rs
      PROVE SizeInv'
  <2>1. h \in Hash /\ ~InUse(h)
    BY <1>1, <1>3, HashAssumption
    DEF OldToScaleDown, IsOther, IsReplicaSetReferenced, InUse, HasStable, PassSeesStable, Stable
  <2>2. \A g \in Hash : g # h => rs'[g].replicas = rs[g].replicas /\ rs'[g].exists = rs[g].exists
    BY <1>6, <2>1 DEF PatchDeadline, Write, TypeOK, ReplicaSetType
  <2>3. SameSnapshot
    BY <1>1, <1>6 DEF GoTo, SameSnapshot
  <2> QED BY <1>2, <1>4, <2>1, <2>2, <2>3 DEF Sized
<1>7. ASSUME NEW D, NEW V, NEW k,
             pass' = [pass EXCEPT !.visited = V, !.dirty = D, !.annotated = k]
      PROVE pass'.spec = pass.spec /\ pass'.status = pass.status /\ pass'.rs = pass.rs
  BY <1>7 DEF TypeOK, PassType
<1> QED BY <1>5, <1>6, <1>7, OthersStep

\* What is deleted is not in use, but for a version of size 0.
LEMMA SizeHistory == ASSUME SizeInv, StableInv', ReconcileRevisionHistoryLimit PROVE SizeInv'
<1> USE DEF SizeInv, StableInv
<1>1. /\ pc = "revisionHistory" /\ UNCHANGED <<spec, status, active>>
      /\ pc' \in {"pause", "sync"}
  BY DEF ReconcileRevisionHistoryLimit
<1>2. New \in Hash /\ Stable \in Hash \cup {NoHash} /\ active \in Hash \cup {NoHash}
  BY <1>1, PassFields DEF TypeOK
<1>3. /\ Sized(New) /\ (Stable # NoHash => Sized(Stable)) /\ Stable = status.stableRS
      /\ active # NoHash => pass.rs[active].replicas \in ReplicaCounts
  BY <1>1 DEF PassSizes, StableScaled, NewScaled, PassSeesStable, BeforeHistory
<1>4. \A h \in BeyondHistoryLimit : h \in Hash /\ h # New /\ h # Stable
  BY <1>1, HashAssumption DEF BeyondHistoryLimit, IsOther, HasStable, PassSeesStable
<1>5. \A h \in Hash :
        \/ rs'[h] = rs[h]
        \/ /\ h \in BeyondHistoryLimit /\ pass.rs[h].replicas = 0
           /\ rs'[h] = NoReplicaSet
  BY DEF ReconcileRevisionHistoryLimit, Deletable
<1>6. \A h \in Hash : InUse(h) /\ Sized(h) => Sized(h)'
  BY <1>2, <1>3, <1>4, <1>5, HashAssumption DEF InUse, Sized, NoReplicaSet
<1>7. pass'.spec = pass.spec /\ pass'.status = pass.status /\ pass'.rs = pass.rs
  BY DEF ReconcileRevisionHistoryLimit, TypeOK, PassType
<1>8. SameSnapshot /\ New' = New /\ Stable' = Stable
  BY <1>1, <1>7 DEF SameSnapshot, New, Stable
<1>9. Sized(New)' /\ (Stable # NoHash => Sized(Stable)')
  BY <1>1, <1>2, <1>3, <1>6, <1>8 DEF InUse, Sized
<1> QED BY <1>1, <1>6, <1>8, <1>9, KeptSizes DEF BeforeOthers, BeforeHistory

\* The stages that touch neither a ReplicaSet nor the active Service.
LEMMA SizeStages ==
    ASSUME SizeInv, StableInv',
           ReconcilePreviewService \/ ReconcileBlueGreenPause \/ ReconcileAnalysisRuns
    PROVE SizeInv'
<1> USE DEF SizeInv, StableInv
<1>1. pc # "idle" /\ UNCHANGED <<spec, status, active, rs>>
  BY DEF ReconcilePreviewService, ReconcileBlueGreenPause, ReconcileAnalysisRuns, cluster
<1>2. \A h \in Hash : Sized(h)' <=> Sized(h)
  BY <1>1 DEF Sized
<1>3. CASE ReconcilePreviewService
  BY <1>1, <1>2, <1>3, KeptSizes
  DEF ReconcilePreviewService, GoTo, SameSnapshot, PassSizes, SizeSeen, BeforeOthers,
      BeforeHistory, StableScaled, NewScaled
<1>4. ASSUME pass'.spec = pass.spec, pass'.status = pass.status, pass'.rs = pass.rs,
             \/ pc = "pause" /\ pc' = "activeService"
             \/ pc = "analysis" /\ pc' = "sync"
      PROVE SizeInv'
  <2>1. SameSnapshot /\ New' = New /\ Stable' = Stable
    BY <1>1, <1>4 DEF SameSnapshot, New, Stable
  <2>2. Sized(New)' /\ (pc = "pause" /\ Stable # NoHash => Sized(Stable)')
    BY <1>1, <1>4, <2>1 DEF PassSizes, StableScaled, NewScaled, Sized
  <2> QED BY <1>1, <1>2, <1>4, <2>1, <2>2, KeptSizes DEF BeforeOthers, BeforeHistory, StableScaled
<1>5. CASE ReconcileBlueGreenPause
  BY <1>4, <1>5 DEF ReconcileBlueGreenPause, PassType, TypeOK
<1>6. CASE ReconcileAnalysisRuns
  <2>1. ASSUME NEW i, NEW j, NEW view, NEW S, FinishAnalysis(i, j, view, S)
        PROVE /\ pass'.spec = pass.spec /\ pass'.status = pass.status /\ pass'.rs = pass.rs
              /\ pc' = "sync"
    BY <2>1, ZenonT(30) DEF FinishAnalysis, TypeOK, PassType
  <2> QED BY <1>4, <1>6, <2>1 DEF ReconcileAnalysisRuns
<1> QED BY <1>3, <1>5, <1>6

\* Traffic moves to the new version or back to the stable one: both are scaled.
LEMMA SizeSwitch == ASSUME SizeInv, StableInv', ReconcileActiveService PROVE SizeInv'
<1> USE DEF SizeInv, StableInv
<1>1. /\ pc = "activeService" /\ pc' = "analysis" /\ UNCHANGED <<spec, status, rs>>
      /\ pass' = pass
  BY DEF ReconcileActiveService, GoTo
<1>2. /\ New \in Hash /\ Stable = status.stableRS
      /\ Sized(New) /\ (Stable # NoHash => Sized(Stable)) /\ pass.spec.replicas \in ReplicaCounts
  BY <1>1, PassFields DEF PassSizes, StableScaled, NewScaled, PassSeesStable
<1>3. active' \in {active, New, Stable}
  BY DEF ReconcileActiveService, ActiveHash, Stable
<1>4. ServedSizes'
  BY <1>1, <1>2, <1>3 DEF ServedSizes, Sized
<1>5. Deployed'
  BY <1>1, <1>2, <1>3, HashAssumption DEF Deployed
<1>6. PassSizes'
  BY <1>1, <1>2 DEF PassSizes, Sized, New, BeforeOthers, BeforeHistory, StableScaled, NewScaled,
     CheckPodSpecChange
<1> QED BY <1>1, <1>4, <1>5, <1>6

(* A version that becomes stable was scaled by the pass that makes it so:   *)
(* a changed template, which is not, needs a stable version to come first. *)
LEMMA SizeSync == ASSUME SizeInv, StableInv', SyncRolloutStatus PROVE SizeInv'
<1> USE DEF SizeInv, StableInv
<1>1. /\ pc = "sync" /\ pc' = "idle" /\ UNCHANGED <<spec, active, rs>>
  BY DEF SyncRolloutStatus, EndPass, cluster
<1>2. PassSizes'
  BY <1>1 DEF PassSizes
<1>3. New \in Hash /\ New # NoHash /\ pass.status \in StatusType
  BY <1>1, PassFields, HashAssumption
<1>4. /\ Stable = status.stableRS /\ (HasStable <=> Stable # NoHash)
      /\ pass.status.currentPodHash = status.currentPodHash
      /\ Sized(New) \/ CheckPodSpecChange
  BY <1>1 DEF PassSeesStable, HasStable, PassSizes
<1>5. /\ status'.currentPodHash \in {status.currentPodHash, New}
      /\ status'.currentPodHash # status.currentPodHash => status'.stableRS # NoHash
  <2>1. PICK t \in BOOLEAN : status' = Merged(NewStatus(t), pass.status, status)
    BY DEF SyncRolloutStatus
  <2>2. /\ status'.currentPodHash = NewStatus(t).currentPodHash
        /\ status'.stableRS = NewStatus(t).stableRS
    <3> HIDE DEF NewStatus
    <3> QED BY <1>4, <2>1 DEF Merged, Merge, Stable
  <2>3. PICK a \in BOOLEAN :
          NewStatus(t) = IF pass.scaling THEN ScalingStatus(a) ELSE FullStatus(a)
    BY Zenon DEF NewStatus
  <2>4. CASE pass.scaling
    BY <1>3, <1>4, <2>2, <2>3, <2>4 DEF ScalingStatus, StatusType
  <2>5. CASE ~pass.scaling
    <3>1. status'.currentPodHash = New /\ status'.stableRS = StableAfterSync
      BY <2>2, <2>3, <2>5 DEF FullStatus
    <3>2. StableAfterSync # NoHash
      BY <1>3, <1>4 DEF StableAfterSync, ShouldFullPromote
    <3> QED BY <3>1, <3>2
  <2> QED BY <2>4, <2>5
<1>6. CASE status'.stableRS = status.stableRS
  BY <1>1, <1>2, <1>5, <1>6 DEF ServedSizes, Deployed, Sized
<1>7. CASE status'.stableRS # status.stableRS
  <2>1. ShouldFullPromote /\ status'.stableRS = New
    BY <1>7, PromotionIsFull
  <2>2. active # NoHash => Sized(New)
    <3>1. CASE HasStable
      BY <2>1, <3>1 DEF ShouldFullPromote, ServedSizes
    <3>2. CASE ~HasStable
      BY <1>4, <3>2 DEF CheckPodSpecChange, Deployed
    <3> QED BY <3>1, <3>2
  <2>3. ServedSizes'
    BY <1>1, <2>1, <2>2 DEF ServedSizes, Sized
  <2>4. Deployed'
    BY <1>1, <1>3, <2>1 DEF Deployed
  <2> QED BY <1>1, <1>2, <2>3, <2>4
<1> QED BY <1>6, <1>7

\* It starts so: a version deployed before has the size of the spec.
LEMMA SizeInit == Init => SizeInv
<1> SUFFICES ASSUME Init PROVE SizeInv
  OBVIOUS
<1>1. PICK h \in Hash, n \in ReplicaCounts :
        /\ spec = [template |-> h, replicas |-> n, paused |-> FALSE]
        /\ status = IF FirstDeploy THEN NoStatus
                       ELSE [NoStatus EXCEPT !.stableRS = h, !.currentPodHash = h,
                                             !.activeSelector = h, !.previewSelector = h]
        /\ active = IF FirstDeploy THEN NoHash ELSE h
        /\ rs = [g \in Hash |-> IF g = h /\ ~FirstDeploy THEN
              [exists |-> TRUE, replicas |-> n, available |-> n, desired |-> n,
                        deadline |-> "none", revision |-> 1, born |-> 1] ELSE NoReplicaSet]
  BY Zenon DEF Init
<1>2. h # NoHash /\ spec.replicas \in ReplicaCounts
  BY <1>1, HashAssumption
<1>3. pc = "idle"
  BY DEF Init
<1>4. CASE FirstDeploy
  BY <1>1, <1>2, <1>3, <1>4, StableInit
  DEF SizeInv, ServedSizes, Deployed, PassSizes, NoStatus
<1>5. CASE ~FirstDeploy
  <2>1. status.stableRS = h /\ status.currentPodHash = h /\ active = h
    BY <1>1, <1>5 DEF NoStatus
  <2>2. Sized(h)
    BY <1>1, <1>5 DEF Sized
  <2> QED BY <1>2, <1>3, <2>1, <2>2, StableInit DEF SizeInv, ServedSizes, Deployed, PassSizes
<1> QED BY <1>4, <1>5

\* Every step of such a strategy keeps the sizes.
LEMMA SizeStep == ASSUME FullSizePreview, SizeInv, [Next]_vars PROVE SizeInv'
<1>1. StableInv'
  BY StableStep DEF SizeInv
<1>2. CASE Controller
  BY <1>1, <1>2, SizeBegin, SizeStable, SizeNew, SizeOthers, SizeHistory, SizeStages,
     SizeSwitch, SizeSync DEF Controller
<1> QED BY <1>1, <1>2, SizeCluster DEF Next

\* So they hold in every state.
LEMMA SizeInvariant == ASSUME FullSizePreview PROVE Spec => []SizeInv
<1>1. SizeInv /\ [Next]_vars => SizeInv'
  BY SizeStep
<1> QED BY <1>1, SizeInit, PTL DEF Spec

(* ActiveAtFullSize: the version that receives the traffic keeps a size the *)
(* user asked for, whatever is aborted, paused or scaled and wherever a     *)
(* pass stops, if there is neither a preview size nor an abort delay.      *)
THEOREM ActiveKeepsSize == ASSUME FullSizePreview PROVE Spec => []ActiveAtFullSize
<1>1. SizeInv => ActiveAtFullSize
  BY DEF SizeInv, ServedSizes, Sized, ActiveAtFullSize
<1> QED BY <1>1, SizeInvariant, PTL

(* StableAtFullSize: so does the version to fall back to, of a Rollout that *)
(* was deployed once.  (On a first deployment, a template changed before   *)
(* the active Service has a selector makes a version stable that no pass   *)
(* has scaled yet.)                                                        *)
THEOREM StableKeepsSize ==
    ASSUME FullSizePreview, ~FirstDeploy PROVE Spec => []StableAtFullSize
<1>1. SizeInv => StableAtFullSize
  BY DEF SizeInv, ServedSizes, Deployed, Sized, StableAtFullSize
<1> QED BY <1>1, SizeInvariant, PTL

(* The ReplicaSet that receives the traffic is never deleted, unless a user *)
(* may scale the Rollout to 0: nothing stops reconcileRevisionHistoryLimit *)
(* from deleting a version the active Service selects but its size.        *)
THEOREM ActiveKept ==
    ASSUME FullSizePreview, 0 \notin ReplicaCounts
    PROVE Spec => [](active # NoHash => rs[active].exists)
<1>1. SizeInv => (active # NoHash => rs[active].exists)
  BY DEF SizeInv, ServedSizes, Sized
<1> QED BY <1>1, SizeInvariant, PTL

----------------------------------------------------------------------------
(* What the stages that scale, and the cluster, leave of a pass: everything *)
(* but its view of the ReplicaSets and of the runs, and its bookkeeping.   *)
PassKept ==
    /\ pc # "idle" /\ pass'.spec = pass.spec /\ pass'.status = pass.status
    /\ pass'.approved = pass.approved /\ pass'.within = pass.within
    /\ pass'.scaling = pass.scaling /\ pass'.addPauses = pass.addPauses
    /\ pass'.addAbort = pass.addAbort /\ pass'.removeAbort = pass.removeAbort
    /\ pass'.pre = pass.pre /\ pass'.post = pass.post /\ pass'.analysed = pass.analysed

\* scaleReplicaSetAndRecordEvent goes on with the same pass or ends it.
LEMMA ScaleReplicaSetKeepsPass ==
    ASSUME TypeOK, pc # "idle", NEW h, NEW n, NEW stage, ScaleReplicaSet(h, n, stage)
    PROVE pc' = "idle" \/ (pc' = stage /\ PassKept)
BY DEF ScaleReplicaSet, GoTo, EndPass, PassKept, TypeOK, PassType

\* The stages that scale and delete ReplicaSets.
LEMMA ScalingKeepsPass ==
    ASSUME TypeOK,
           \/ RemoveScaleDownDeadlines \/ ReconcileStableReplicaSet
           \/ ReconcileNewReplicaSet \/ ReconcileOtherReplicaSets
           \/ ReconcileRevisionHistoryLimit
    PROVE /\ UNCHANGED <<spec, status, active, preview, approved, budget>>
          /\ pc' = "idle" \/ PassKept
<1>1. UNCHANGED <<spec, status, active, preview, approved, budget>> /\ pc # "idle"
  BY DEF RemoveScaleDownDeadlines, ReconcileStableReplicaSet, ReconcileNewReplicaSet,
         ReconcileOtherReplicaSets, ReconcileRevisionHistoryLimit
<1>2. ASSUME NEW stage, GoTo(stage) PROVE PassKept
  BY <1>1, <1>2 DEF GoTo, PassKept
<1>3. CASE RemoveScaleDownDeadlines
  BY <1>1, <1>2, <1>3 DEF RemoveScaleDownDeadlines, PassKept, TypeOK, PassType
<1>4. CASE ReconcileStableReplicaSet
  BY <1>1, <1>2, <1>4, ScaleReplicaSetKeepsPass DEF ReconcileStableReplicaSet
<1>5. CASE ReconcileNewReplicaSet
  <2>1. CASE StartAbortScaleDownDelay
    BY <1>1, <2>1 DEF StartAbortScaleDownDelay, PassKept, TypeOK, PassType
  <2>2. CASE WaitAbortScaleDownDelay
    BY <1>1, <2>2 DEF WaitAbortScaleDownDelay, PassKept, TypeOK, PassType
  <2>3. CASE EndPass
    BY <1>1, <2>3 DEF EndPass
  <2>4. ASSUME NEW n, ScaleReplicaSet(New, n, "scaleOthers")
        PROVE pc' = "idle" \/ PassKept
    BY <1>1, <2>4, ScaleReplicaSetKeepsPass
  <2> QED BY <1>1, <1>5, <2>1, <2>2, <2>3, <2>4 DEF ReconcileNewReplicaSet
<1>6. CASE ReconcileOtherReplicaSets
  <2>1. ASSUME NEW D, NEW V, NEW k,
               pass' = [pass EXCEPT !.visited = V, !.dirty = D, !.annotated = k]
        PROVE PassKept
    BY <1>1, <2>1 DEF PassKept, TypeOK, PassType
  <2> QED BY <1>1, <1>2, <1>6, <2>1, OthersStep
<1>7. CASE ReconcileRevisionHistoryLimit
  BY <1>1, <1>7 DEF ReconcileRevisionHistoryLimit, PassKept, TypeOK, PassType
<1> QED BY <1>1, <1>3, <1>4, <1>5, <1>6, <1>7

\* Pods, runs and timers know nothing of a pass but which ReplicaSets it has stale.
LEMMA ClusterKeepsPass ==
    ASSUME TypeOK, Cluster
    PROVE /\ UNCHANGED <<spec, status, active, preview, approved, pc>>
          /\ pc # "idle" => PassKept
<1>1. ASSUME NEW h \in Hash, NEW n, SetAvailable(h, n), pc # "idle" PROVE PassKept
  BY <1>1 DEF SetAvailable, PassKept, TypeOK, PassType
<1>2. CASE \E h \in Hash : \/ PodBecomesAvailable(h) \/ PodBecomesUnavailable(h)
                           \/ PodsTerminate(h)
  BY <1>1, <1>2 DEF PodBecomesAvailable, PodBecomesUnavailable, PodsTerminate
<1>3. CASE \/ \E h \in Hash : DeadlinePasses(h)
           \/ \E i \in RunIds : RunCompletes(i)
           \/ PauseElapses
  BY <1>3 DEF DeadlinePasses, RunCompletes, PauseElapses, cluster, PassKept
<1> QED BY <1>2, <1>3 DEF Cluster

----------------------------------------------------------------------------
(* Without analyses the only pause of the controller is the blue-green one. *)
NoAnalysis == ~PrePromotionAnalysis /\ ~PostPromotionAnalysis

NoInconclusive ==
    /\ Inconclusive \notin status.pauses
    /\ pc # "idle" => Inconclusive \notin pass.status.pauses \cup pass.addPauses

\* The pauses a pass writes are those of its snapshot and those it adds.
LEMMA SyncedPauses ==
    ASSUME TypeOK, SyncRolloutStatus
    PROVE status'.pauses \subseteq status.pauses \cup pass.status.pauses \cup pass.addPauses
<1>1. PICK t \in BOOLEAN : status' = Merged(NewStatus(t), pass.status, status)
  BY DEF SyncRolloutStatus
<1>2. PICK a \in BOOLEAN :
        NewStatus(t) = IF pass.scaling THEN ScalingStatus(a) ELSE FullStatus(a)
  BY Zenon DEF NewStatus
<1>3. pass.status \in StatusType
  BY PassFields DEF SyncRolloutStatus
<1>4. ScalingStatus(a).pauses = pass.status.pauses
  BY <1>3 DEF ScalingStatus, StatusType
<1>5. FullStatus(a).pauses \subseteq pass.status.pauses \cup pass.addPauses
  BY DEF FullStatus, PausesAfterSync
<1>6. status'.pauses \in {NewStatus(t).pauses, status.pauses}
  <2> HIDE DEF NewStatus
  <2> QED BY <1>1 DEF Merged, Merge
<1> QED BY <1>2, <1>4, <1>5, <1>6

\* No step of a strategy without analyses asks for an inconclusive pause.
LEMMA NoInconclusiveStep ==
    ASSUME NoAnalysis, TypeOK, NoInconclusive, [Next]_vars PROVE NoInconclusive'
<1> USE DEF NoInconclusive
<1>1. ASSUME status' = status, pc' = "idle" \/ PassKept PROVE NoInconclusive'
  BY <1>1 DEF PassKept
<1>2. CASE CreateReplicaSet \/ PassFails
  BY <1>1, <1>2 DEF CreateReplicaSet, PassFails, EndPass
<1>3. CASE BeginPass
  BY <1>3 DEF BeginPass, NoPass
<1>4. CASE ReconcilePreviewService \/ ReconcileActiveService
  BY <1>4 DEF ReconcilePreviewService, ReconcileActiveService, GoTo
<1>5. CASE \/ RemoveScaleDownDeadlines \/ ReconcileStableReplicaSet
           \/ ReconcileNewReplicaSet \/ ReconcileOtherReplicaSets
           \/ ReconcileRevisionHistoryLimit
  BY <1>1, <1>5, ScalingKeepsPass
<1>6. CASE ReconcileBlueGreenPause
  <2>1. pass'.status = pass.status /\ pass'.addPauses \in {{}, {BGPause}}
    BY <1>6 DEF ReconcileBlueGreenPause, TypeOK, PassType
  <2> QED BY <1>6, <2>1 DEF ReconcileBlueGreenPause, BGPause, Inconclusive
<1>7. CASE ReconcileAnalysisRuns
  <2>1. ASSUME NEW i, NEW j, NEW view, NEW S, FinishAnalysis(i, j, view, S),
               ShouldCancelCurrentAnalysis \/ (i = 0 /\ j = 0)
        PROVE NoInconclusive'
    <3> DEFINE seen == [k \in RunIds |-> IF pass.runs[k].phase = "none" THEN view[k]
                                                                    ELSE pass.runs[k]]
               phases == IF ShouldCancelCurrentAnalysis THEN {}
                         ELSE {seen[k].phase : k \in {i, j} \ {0}}
    <3>1. phases = {}
      BY <2>1
    <3>2. pass'.status = pass.status
          /\ pass'.addPauses = IF "Inconclusive" \in phases
                               THEN pass.addPauses \cup {Inconclusive} ELSE pass.addPauses
      BY <2>1 DEF FinishAnalysis, TypeOK, PassType
    <3> QED BY <1>7, <3>1, <3>2 DEF ReconcileAnalysisRuns
  <2> QED BY <1>7, <2>1
      DEF ReconcileAnalysisRuns, NoAnalysis, StartsPreRun, StartsPostRun, CurrentPre, CurrentPost
<1>8. CASE SyncRolloutStatus
  BY <1>8, SyncedPauses DEF SyncRolloutStatus, EndPass
<1>9. CASE Cluster
  BY <1>1, <1>9, ClusterKeepsPass
<1>10. CASE User
  <2>1. UNCHANGED <<pc, pass>>
    BY <1>10 DEF User, Promote, PromoteFull, PatchStatus, PatchSpec, Abort, Retry, Pause,
       SetTemplate, Scale, UserMay
  <2>2. status'.pauses \subseteq status.pauses
    BY <1>10 DEF User, Promote, PromoteFull, PatchStatus, PatchSpec, Abort, Retry, Pause,
       SetTemplate, Scale,
       TypeOK, StatusType
  <2> QED BY <2>1, <2>2
<1>11. CASE OthersFail \/ UNCHANGED vars
  BY <1>11 DEF OthersFail, GoTo, vars
<1> QED BY <1>2, <1>3, <1>4, <1>5, <1>6, <1>7, <1>8, <1>9, <1>10, <1>11 DEF Next, Controller

----------------------------------------------------------------------------
(* What is deleted, while users neither pause nor scale the Rollout: then   *)
(* no pass is a scaling event, and every pass that deletes has the preview *)
(* Service at its own version before, though an inconclusive analysis may  *)
(* keep a pass from moving it.                                             *)
SteadyUsers == {"pause", "scale"} \cap UserActions = {}

Annotated == \A h \in Hash : rs[h].replicas > 0 => rs[h].desired = spec.replicas

Steady ==
    /\ ~spec.paused /\ Annotated
    /\ pc # "idle" =>
         ~pass.spec.paused /\ ~pass.scaling /\ pass.spec.replicas = spec.replicas

(* A status with an inconclusive run is that of the version previewed. *)
Halted(s) == Inconclusive \in s.pauses => preview = s.currentPodHash /\ preview # NoHash

Previewed ==
    /\ preview # NoHash => rs[preview].exists
    /\ Halted(status)
    /\ pc # "idle" =>
         /\ Halted(pass.status)
         /\ pass.status.currentPodHash = status.currentPodHash
         /\ status.pauses \subseteq pass.status.pauses
         /\ pc # "previewService" => preview = New \/ (pc = "sync" /\ CheckPodSpecChange)

HistoryInv == StableInv /\ Steady /\ Previewed

\* Every ReplicaSet a pass scales gets the annotation.
LEMMA WriteAnnotates ==
    ASSUME TypeOK, Steady, pc # "idle", NEW h \in Hash, NEW n, NEW d,
           Write(h, n) \/ PatchDeadline(h, d) \/ UNCHANGED rs, spec' = spec
    PROVE Annotated'
BY DEF Steady, Annotated, Write, PatchDeadline, TypeOK, ReplicaSetType

\* A step that leaves the annotations and the Services alone.
LEMMA KeptHistory ==
    ASSUME HistoryInv, StableInv', spec'.replicas = spec.replicas,
           spec'.paused = spec.paused, UNCHANGED preview, Annotated',
           preview # NoHash => rs'[preview].exists,
           status'.currentPodHash = status.currentPodHash,
           status'.pauses \subseteq status.pauses,
           \/ pc' = "idle"
           \/ PassKept /\ (pc \in {"previewService", "sync"} => pc' = pc)
    PROVE HistoryInv'
<1>1. Steady'
  BY DEF HistoryInv, Steady, PassKept
<1>2. PassKept => New' = New /\ (CheckPodSpecChange' <=> CheckPodSpecChange)
  BY DEF PassKept, New, CheckPodSpecChange
<1>3. Halted(status)'
  BY DEF HistoryInv, Previewed, Halted
<1>4. pc # "idle" /\ PassKept => Halted(pass.status)'
  BY DEF HistoryInv, Previewed, Halted, PassKept
<1>5. Previewed'
  BY <1>2, <1>3, <1>4 DEF HistoryInv, Previewed, PassKept
<1> QED BY <1>1, <1>5 DEF HistoryInv

\* The cluster, the users that remain, and a pass that fails.
LEMMA HistoryCluster ==
    ASSUME SteadyUsers, HistoryInv, StableInv',
           OthersFail \/ PassFails \/ Cluster \/ User \/ UNCHANGED vars
    PROVE HistoryInv'
<1> USE DEF HistoryInv, StableInv
<1>1. preview \in Hash \cup {NoHash}
  BY DEF TypeOK
<1>2. ASSUME UNCHANGED <<rs, preview, pc, pass>>, spec'.replicas = spec.replicas,
             spec'.paused = spec.paused, status'.currentPodHash = status.currentPodHash,
             status'.pauses \subseteq status.pauses
      PROVE HistoryInv'
  <2>1. Annotated'
    BY <1>2 DEF Steady, Annotated
  <2>2. preview # NoHash => rs'[preview].exists
    BY <1>2 DEF Previewed
  <2>3. CASE pc = "idle"
    BY <1>2, <2>1, <2>2, <2>3, KeptHistory
  <2>4. CASE pc # "idle"
    <3>1. PassKept
      BY <1>2, <2>4 DEF PassKept
    <3> QED BY <1>2, <2>1, <2>2, <3>1, KeptHistory
  <2> QED BY <2>3, <2>4
<1>3. CASE OthersFail \/ PassFails \/ UNCHANGED vars
  <2>1. CASE PassFails
    <3>1. UNCHANGED <<rs, preview, spec, status>> /\ pc' = "idle"
      BY <2>1 DEF PassFails, EndPass, cluster
    <3> QED BY <3>1, KeptHistory DEF Previewed, Steady, Annotated
  <2>2. CASE OthersFail
    <3>1. UNCHANGED <<rs, preview, spec, status>> /\ PassKept /\ pc = "scaleOthers"
      BY <2>2 DEF OthersFail, GoTo, cluster, PassKept
    <3> QED BY <3>1, KeptHistory DEF Previewed, Steady, Annotated
  <2> QED BY <1>2, <1>3, <2>1, <2>2 DEF vars
<1>4. CASE Cluster
  <2>1. /\ UNCHANGED <<spec, status, active, preview, approved, pc>>
        /\ pc # "idle" => PassKept
    BY <1>4, ClusterKeepsPass
  <2>2. \A h \in Hash : /\ rs'[h].replicas = rs[h].replicas
                        /\ rs'[h].desired = rs[h].desired /\ rs'[h].exists = rs[h].exists
    <3>1. ASSUME NEW h \in Hash, NEW n, SetAvailable(h, n) \/ PatchDeadline(h, n)
          PROVE \A g \in Hash : /\ rs'[g].replicas = rs[g].replicas
                                /\ rs'[g].desired = rs[g].desired
                                /\ rs'[g].exists = rs[g].exists
      BY <3>1 DEF SetAvailable, PatchDeadline, TypeOK, ReplicaSetType
    <3>2. CASE \E h \in Hash : \/ PodBecomesAvailable(h) \/ PodBecomesUnavailable(h)
                               \/ PodsTerminate(h) \/ DeadlinePasses(h)
      BY <3>1, <3>2
      DEF PodBecomesAvailable, PodBecomesUnavailable, PodsTerminate, DeadlinePasses
    <3>3. CASE (\E i \in RunIds : RunCompletes(i)) \/ PauseElapses
      BY <3>3 DEF RunCompletes, PauseElapses, cluster
    <3> QED BY <1>4, <3>2, <3>3 DEF Cluster
  <2>3. Annotated' /\ (preview # NoHash => rs'[preview].exists)
    BY <1>1, <2>1, <2>2 DEF Steady, Annotated, Previewed
  <2>4. CASE pc = "idle"
    BY <2>1, <2>3, <2>4, KeptHistory
  <2> QED BY <2>1, <2>3, <2>4, KeptHistory
<1>5. CASE User
  <2>1. UNCHANGED <<rs, preview, pc, pass>>
    BY <1>5 DEF User, Promote, PromoteFull, PatchStatus, PatchSpec, Abort, Retry, Pause,
       SetTemplate, Scale, UserMay,
       cluster
  <2>2. ~Pause /\ ~\E n \in ReplicaCounts : Scale(n)
    BY DEF SteadyUsers, Pause, Scale, UserMay
  <2>3. spec'.replicas = spec.replicas /\ spec'.paused = spec.paused
    BY <1>5, <2>2 DEF User, Promote, PromoteFull, PatchStatus, PatchSpec, Abort, Retry,
       SetTemplate, TypeOK, SpecType, Steady
  <2>4. status'.currentPodHash = status.currentPodHash /\ status'.pauses \subseteq status.pauses
    BY <1>5, <2>2 DEF User, Promote, PromoteFull, PatchStatus, PatchSpec, Abort, Retry,
       SetTemplate, TypeOK, StatusType
  <2> QED BY <1>2, <2>1, <2>3, <2>4
<1> QED BY <1>3, <1>4, <1>5

\* The snapshot a pass starts from shows no scaling event.
LEMMA HistoryBegin ==
    ASSUME HistoryInv, StableInv', CreateReplicaSet \/ BeginPass
    PROVE HistoryInv'
<1> USE DEF HistoryInv, StableInv
<1>1. /\ UNCHANGED <<spec, status, preview>> /\ spec.template \in Hash
      /\ preview \in Hash \cup {NoHash}
  BY DEF CreateReplicaSet, BeginPass, TypeOK
<1>2. CASE CreateReplicaSet
  <2>1. Annotated' /\ (preview # NoHash => rs'[preview].exists)
    BY <1>1, <1>2 DEF CreateReplicaSet, Steady, Annotated, Previewed, TypeOK, ReplicaSetType
  <2> QED BY <1>1, <1>2, <2>1, KeptHistory DEF CreateReplicaSet
<1>3. CASE BeginPass
  <2>1. PICK n : rs' = [rs EXCEPT ![spec.template].revision = n]
    BY <1>3 DEF BeginPass
  <2>2. \A h \in Hash : /\ rs'[h].replicas = rs[h].replicas
                        /\ rs'[h].desired = rs[h].desired /\ rs'[h].exists = rs[h].exists
    BY <2>1 DEF TypeOK, ReplicaSetType
  <2>3. ~IsScalingEvent
    BY <1>1, HashAssumption DEF IsScalingEvent, Steady, Annotated, TypeOK, StatusType
  <2>4. /\ pass'.spec = spec /\ pass'.status = status
        /\ pass'.scaling = IsScalingEvent /\ pc' = "previewService"
    BY <1>3, <2>3 DEF BeginPass, NoPass
  <2>5. Steady'
    BY <1>1, <2>2, <2>3, <2>4 DEF Steady, Annotated
  <2>6. Previewed'
    BY <1>1, <2>2, <2>4 DEF Previewed, Halted
  <2> QED BY <2>5, <2>6
<1> QED BY <1>2, <1>3

\* The stages that scale ReplicaSets annotate what they scale.
LEMMA HistoryScaling ==
    ASSUME HistoryInv, StableInv',
           \/ RemoveScaleDownDeadlines \/ ReconcileStableReplicaSet
           \/ ReconcileNewReplicaSet \/ ReconcileOtherReplicaSets
    PROVE HistoryInv'
<1> USE DEF HistoryInv, StableInv
<1>1. /\ UNCHANGED <<spec, status, preview>> /\ (pc' = "idle" \/ PassKept)
      /\ pc \notin {"idle", "previewService", "sync"}
  BY ScalingKeepsPass DEF RemoveScaleDownDeadlines, ReconcileStableReplicaSet,
     ReconcileNewReplicaSet, ReconcileOtherReplicaSets
<1>2. /\ preview = New /\ New \in Hash /\ Stable \in Hash \cup {NoHash}
      /\ New # NoHash
  BY <1>1, PassFields, HashAssumption DEF Previewed
<1>3. ASSUME NEW h \in Hash, NEW n, NEW d,
             Write(h, n) \/ PatchDeadline(h, d) \/ UNCHANGED rs
      PROVE HistoryInv'
  <2>1. Annotated'
    BY <1>1, <1>3, WriteAnnotates
  <2>2. rs'[preview].exists = rs[preview].exists
    BY <1>2, <1>3, WriteKeeps, PatchDeadlineKeeps DEF KeepsReplicaSets
  <2> QED BY <1>1, <2>1, <2>2, KeptHistory DEF Previewed
<1>4. ASSUME NEW h \in Hash, NEW n, NEW stage, ScaleReplicaSet(h, n, stage) PROVE HistoryInv'
  BY <1>3, <1>4 DEF ScaleReplicaSet
<1>5. CASE RemoveScaleDownDeadlines
  <2>1. UNCHANGED rs \/ \E h \in Hash : PatchDeadline(h, "none")
    BY <1>5 DEF RemoveScaleDownDeadlines, DeadlinesToRemove
  <2> QED BY <1>2, <1>3, <2>1
<1>6. CASE ReconcileStableReplicaSet
  <2>1. HasStable => Stable \in Hash
    BY <1>1, <1>2 DEF HasStable, PassSeesStable
  <2> QED BY <1>2, <1>3, <1>4, <1>6, <2>1 DEF ReconcileStableReplicaSet
<1>7. CASE ReconcileNewReplicaSet
  <2>1. CASE StartAbortScaleDownDelay \/ WaitAbortScaleDownDelay
    <3>1. \E d : rs' = [rs EXCEPT ![New].desired = pass.spec.replicas, ![New].deadline = d]
      <4>1. CASE StartAbortScaleDownDelay
        BY <4>1 DEF StartAbortScaleDownDelay
      <4>2. CASE WaitAbortScaleDownDelay
        <5>1. rs' = [rs EXCEPT ![New].desired = pass.spec.replicas,
                               ![New].deadline = rs[New].deadline]
          BY <1>2, <2>1, <4>2 DEF WaitAbortScaleDownDelay, TypeOK, ReplicaSetType
        <5> QED BY <5>1
      <4> QED BY <2>1, <4>1, <4>2
    <3>2. \A h \in Hash : /\ rs'[h].replicas = rs[h].replicas /\ rs'[h].exists = rs[h].exists
                          /\ rs'[h].desired \in {rs[h].desired, spec.replicas}
      BY <1>1, <1>2, <3>1 DEF Steady, TypeOK, ReplicaSetType
    <3>3. Annotated'
      BY <1>1, <3>2 DEF Steady, Annotated
    <3> QED BY <1>1, <1>2, <3>2, <3>3, KeptHistory DEF Previewed
  <2>2. CASE EndPass /\ UNCHANGED rs
    BY <1>2, <1>3, <2>2
  <2>3. ASSUME NEW n, ScaleReplicaSet(New, n, "scaleOthers") PROVE HistoryInv'
    BY <1>2, <1>4, <2>3
  <2> QED BY <1>7, <2>1, <2>2, <2>3 DEF ReconcileNewReplicaSet
<1>8. CASE ReconcileOtherReplicaSets
  <2>1. \A h \in OldToScaleDown : h \in Hash
    BY DEF OldToScaleDown
  <2> QED BY <1>2, <1>3, <1>8, <2>1, OthersStep
<1> QED BY <1>5, <1>6, <1>7, <1>8

(* The status patch of a pass that did not move the preview Service takes    *)
(* the pauses away, as its version is a new one.                           *)
LEMMA HistorySync ==
    ASSUME HistoryInv, StableInv', SyncRolloutStatus PROVE HistoryInv'
<1> USE DEF HistoryInv, StableInv
<1>1. /\ pc = "sync" /\ pc' = "idle" /\ UNCHANGED <<spec, preview, rs>>
      /\ ~pass.scaling /\ pass.status \in StatusType /\ New \in Hash /\ New # NoHash
  BY PassFields, HashAssumption DEF SyncRolloutStatus, EndPass, cluster, Steady
<1>2. PICK t \in BOOLEAN : status' = Merged(NewStatus(t), pass.status, status)
  BY DEF SyncRolloutStatus
<1>3. PICK a \in BOOLEAN : NewStatus(t) = FullStatus(a)
  BY <1>1, Zenon DEF NewStatus
<1>4. /\ status'.currentPodHash = New
      /\ status'.pauses \in {FullStatus(a).pauses, status.pauses}
      /\ FullStatus(a).pauses = pass.status.pauses \/ status'.pauses = FullStatus(a).pauses
  <2>1. FullStatus(a).currentPodHash = New
    BY DEF FullStatus
  <2> HIDE DEF FullStatus
  <2> QED BY <1>1, <1>2, <1>3, <2>1 DEF Merged, Merge, Previewed
<1>5. Halted(status)'
  <2>1. CASE preview = New
    BY <1>1, <1>4, <2>1 DEF Halted
  <2>2. CASE CheckPodSpecChange
    <3>1. FullStatus(a).pauses = {}
      BY <1>1, <2>2 DEF FullStatus, PausesAfterSync, ClearsAndResumes, Restarts
    <3>2. status'.pauses = {}
      BY <1>1, <1>4, <3>1 DEF Previewed
    <3> QED BY <3>2 DEF Halted
  <2> QED BY <1>1, <2>1, <2>2 DEF Previewed
<1>6. Previewed' /\ Steady'
  BY <1>1, <1>5 DEF Previewed, Steady, Annotated
<1> QED BY <1>6

\* A pass that deletes has pointed the preview Service at its own version.
LEMMA HistoryStages ==
    ASSUME HistoryInv, StableInv',
           \/ ReconcilePreviewService \/ ReconcileRevisionHistoryLimit
           \/ ReconcileBlueGreenPause \/ ReconcileActiveService
           \/ ReconcileAnalysisRuns \/ SyncRolloutStatus
    PROVE HistoryInv'
<1> USE DEF HistoryInv, StableInv
<1>1. pc # "idle" /\ UNCHANGED spec
  BY DEF ReconcilePreviewService, ReconcileRevisionHistoryLimit, ReconcileBlueGreenPause,
     ReconcileActiveService, ReconcileAnalysisRuns, SyncRolloutStatus
<1>2. New \in Hash /\ New # NoHash /\ rs[New].exists
  BY <1>1, PassFields, HashAssumption DEF PassSeesStable
<1>3. CASE ReconcilePreviewService
  <2>1. /\ UNCHANGED <<status, rs>> /\ pass' = pass
        /\ pc' = IF CheckPodSpecChange THEN "sync" ELSE "removeDeadlines"
        /\ preview' = IF HaltProgress THEN preview ELSE New
    BY <1>3 DEF ReconcilePreviewService, GoTo
  <2>2. New' = New /\ (CheckPodSpecChange' <=> CheckPodSpecChange)
    BY <2>1 DEF New, CheckPodSpecChange
  <2>3. CASE ~HaltProgress
    <3>1. Inconclusive \notin pass.status.pauses
      BY <2>3 DEF HaltProgress, Paused
    <3>2. Halted(status)' /\ Halted(pass.status)'
      BY <1>1, <2>1, <3>1 DEF Previewed, Halted
    <3> QED BY <1>1, <1>2, <2>1, <2>2, <2>3, <3>2 DEF Previewed, Steady, Annotated
  <2>4. CASE HaltProgress
    <3>1. preview = pass.status.currentPodHash /\ preview # NoHash
      BY <1>1, <2>4 DEF HaltProgress, Paused, Steady, Previewed, Halted
    <3>2. Halted(status)' /\ Halted(pass.status)'
      BY <1>1, <2>1, <2>4 DEF Previewed, Halted
    <3>3. preview = New \/ CheckPodSpecChange
      BY <3>1 DEF CheckPodSpecChange
    <3> QED BY <1>1, <2>1, <2>2, <2>4, <3>2, <3>3 DEF Previewed, Steady, Annotated
  <2> QED BY <2>3, <2>4
<1>4. CASE ReconcileRevisionHistoryLimit
  <2>1. UNCHANGED <<preview, status>> /\ PassKept /\ pc = "revisionHistory" /\ pc' # "idle"
    BY <1>4, ScalingKeepsPass DEF ReconcileRevisionHistoryLimit
  <2>2. preview = New /\ New \notin BeyondHistoryLimit
    BY <2>1 DEF Previewed, BeyondHistoryLimit, IsOther
  <2>3. \A h \in Hash : rs'[h] = rs[h] \/ (rs'[h] = NoReplicaSet /\ h \in BeyondHistoryLimit)
    BY <1>4 DEF ReconcileRevisionHistoryLimit
  <2>4. Annotated'
    BY <1>1, <2>3 DEF Annotated, Steady, NoReplicaSet
  <2>5. rs'[preview].exists
    BY <1>2, <2>2, <2>3
  <2> QED BY <1>1, <2>1, <2>4, <2>5, KeptHistory
<1>5. ASSUME UNCHANGED <<rs, preview, status>>, pc' # "idle", pass'.spec = pass.spec,
             pass'.status = pass.status, pass'.scaling = pass.scaling,
             pc \notin {"previewService", "sync"}
      PROVE HistoryInv'
  <2>1. New' = New
    BY <1>5 DEF New
  <2>2. Steady'
    BY <1>1, <1>5 DEF Annotated, Steady
  <2>3. Halted(status)' /\ Halted(pass.status)'
    BY <1>1, <1>5 DEF Previewed, Halted
  <2>4. Previewed'
    BY <1>1, <1>5, <2>1, <2>3 DEF Previewed
  <2> QED BY <2>2, <2>4
<1>6. CASE ReconcileBlueGreenPause
  <2>1. pass'.spec = pass.spec /\ pass'.scaling = pass.scaling /\ pass'.status = pass.status
    BY <1>6 DEF ReconcileBlueGreenPause, TypeOK, PassType
  <2> QED BY <1>5, <1>6, <2>1 DEF ReconcileBlueGreenPause, cluster
<1>7. CASE ReconcileActiveService
  BY <1>5, <1>7 DEF ReconcileActiveService, GoTo
<1>8. CASE ReconcileAnalysisRuns
  <2>1. ASSUME NEW i, NEW j, NEW view, NEW S, FinishAnalysis(i, j, view, S)
        PROVE /\ pass'.spec = pass.spec /\ pass'.scaling = pass.scaling
              /\ pass'.status = pass.status /\ pc' = "sync"
    BY <2>1, ZenonT(30) DEF FinishAnalysis, TypeOK, PassType
  <2> QED BY <1>5, <1>8, <2>1 DEF ReconcileAnalysisRuns
<1>9. CASE SyncRolloutStatus
  BY <1>9, HistorySync
<1> QED BY <1>3, <1>4, <1>6, <1>7, <1>8, <1>9

\* It starts with the preview Service at the first version, or at none.
LEMMA HistoryInit == Init => HistoryInv
<1> SUFFICES ASSUME Init PROVE HistoryInv
  OBVIOUS
<1>1. PICK h \in Hash, n \in ReplicaCounts :
        /\ spec = [template |-> h, replicas |-> n, paused |-> FALSE]
        /\ status = IF FirstDeploy THEN NoStatus
                       ELSE [NoStatus EXCEPT !.stableRS = h, !.currentPodHash = h,
                                             !.activeSelector = h, !.previewSelector = h]
        /\ preview = IF FirstDeploy THEN NoHash ELSE h
        /\ rs = [g \in Hash |-> IF g = h /\ ~FirstDeploy THEN
              [exists |-> TRUE, replicas |-> n, available |-> n, desired |-> n,
                        deadline |-> "none", revision |-> 1, born |-> 1] ELSE NoReplicaSet]
  BY Zenon DEF Init
<1>2. pc = "idle" /\ ~spec.paused /\ status.pauses = {}
  BY <1>1 DEF Init, NoStatus
<1>3. Annotated
  BY <1>1 DEF Annotated, NoReplicaSet
<1>4. preview # NoHash => rs[preview].exists
  BY <1>1, HashAssumption
<1> QED BY <1>2, <1>3, <1>4, StableInit DEF HistoryInv, Halted, Steady, Previewed

LEMMA HistoryStep ==
    ASSUME SteadyUsers, HistoryInv, [Next]_vars PROVE HistoryInv'
<1>1. StableInv'
  BY StableStep DEF HistoryInv
<1>2. CASE Controller
  BY <1>1, <1>2, HistoryBegin, HistoryScaling, HistoryStages DEF Controller
<1> QED BY <1>1, <1>2, HistoryCluster DEF Next

LEMMA HistoryInvariant == ASSUME SteadyUsers PROVE Spec => []HistoryInv
<1>1. HistoryInv /\ [Next]_vars => HistoryInv'
  BY HistoryStep
<1> QED BY <1>1, HistoryInit, PTL DEF Spec

(* ReferencedExist: no ReplicaSet a Service or the stable version refers to *)
(* is deleted, wherever a pass stops and whatever users request, promote,  *)
(* abort and retry, under any history limit.  That an aborted version that *)
(* still receives the traffic is kept rests on its size, which is why an   *)
(* abort delay may break it; that the preview is kept rests on every pass  *)
(* moving the preview Service first, which a pause or a scaling event      *)
(* leaves out.                                                             *)
THEOREM ReferencedKept ==
    ASSUME FullSizePreview, SteadyUsers, 0 \notin ReplicaCounts
    PROVE Spec => []ReferencedExist
<1>1. HistoryInv /\ SizeInv => ReferencedExist
  BY DEF HistoryInv, SizeInv, ServedSizes, Sized, StableInv, StableExists, Previewed,
     ReferencedExist
<1> QED BY <1>1, HistoryInvariant, SizeInvariant, PTL

=============================================================================
