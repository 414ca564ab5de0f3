----------------------------- MODULE BlueGreen -----------------------------
(***************************************************************************)
(* The blue-green reconciliation loop of the rollout controller            *)
(* (rollout/bluegreen.go and the files it calls), against a cluster whose  *)
(* pods, analysis runs, timers and users move between any two of its API   *)
(* calls.                                                                  *)
(*                                                                         *)
(* A pass takes a snapshot of the Rollout, its ReplicaSets and its         *)
(* AnalysisRuns, runs the stages of rollout/stages.go in order, each of    *)
(* which writes to the cluster, and ends with a merge patch of the status. *)
(* A pass may end after any of its steps (an API error, a conflict or a    *)
(* crash): what it wrote stays, the status patch is lost.  A user's promote *)
(* is as little atomic: it reads, then patches the status and the spec.    *)
(*                                                                         *)
(* A pod template is identified with its hash.  Time is abstracted to the  *)
(* fact that a deadline has passed.  The strategy's fields are constants;  *)
(* spec.template, spec.replicas and spec.paused may change at any time.    *)
(***************************************************************************)
EXTENDS Integers, FiniteSets

CONSTANTS
    Hash,                         \* pod template hashes, one ReplicaSet each
    NoHash,                       \* the empty hash ""
    ReplicaCounts,                \* values the user gives spec.replicas
    NoCount,                      \* previewReplicaCount is nil
    PreviewReplicaCount,
    AutoPromotionEnabled,         \* BOOLEAN
    HasAutoPromotionSeconds,      \* BOOLEAN: autoPromotionSeconds > 0
    PrePromotionAnalysis,         \* BOOLEAN: configured
    PostPromotionAnalysis,        \* BOOLEAN: configured
    ScaleDownDelay,               \* "nil" (30s by default), "zero" or "set"
    AbortScaleDownDelay,          \* BOOLEAN: FALSE is an explicit 0, "never"
    ScaleDownDelayRevisionLimit,  \* Nat
    RevisionHistoryLimit,         \* Nat
    RollbackWindow,               \* spec.rollbackWindow.revisions, 0 if unset
    ProgressDeadlineAbort,        \* BOOLEAN
    FirstDeploy,                  \* BOOLEAN: start from a new Rollout
    UserActions,                  \* what the user may do in this instance
    MaxRuns,                      \* bound: AnalysisRuns that exist at a time
    MaxUserActions,               \* bound: user actions in a behaviour
    MaxPodFailures,               \* bound: pods that become unavailable
    MaxPassFailures               \* bound: API errors and crashes in passes

RunIds == 1..MaxRuns

ASSUME HashAssumption == IsFiniteSet(Hash) /\ NoHash \notin Hash
ASSUME CountAssumption ==
    /\ ReplicaCounts \subseteq Nat /\ NoCount \notin Nat
    /\ PreviewReplicaCount \in Nat \cup {NoCount}
    /\ ScaleDownDelayRevisionLimit \in Nat /\ RevisionHistoryLimit \in Nat
    /\ RollbackWindow \in Nat /\ MaxRuns \in Nat
    /\ MaxUserActions \in Nat /\ MaxPodFailures \in Nat /\ MaxPassFailures \in Nat
ASSUME FlagAssumption ==
    /\ {AutoPromotionEnabled, HasAutoPromotionSeconds, PrePromotionAnalysis,
        PostPromotionAnalysis, AbortScaleDownDelay, ProgressDeadlineAbort,
        FirstDeploy} \subseteq BOOLEAN
    /\ ScaleDownDelay \in {"nil", "zero", "set"}

VARIABLES
    spec,          \* what the user wants: template, replicas, paused
    status,        \* Rollout.status as the API server stores it
    active,        \* the selector hash of the active Service
    preview,       \* the selector hash of the preview Service
    rs,            \* the ReplicaSets, by hash
    runs,          \* the AnalysisRuns, by id
    pauseElapsed,  \* autoPromotionSeconds have passed since the pause began
    pc,            \* the stage the controller is about to run, or "idle"
    pass,          \* rolloutContext and pauseContext of the current pass
    approved,      \* history: hashes whose blue-green pause a user resumed
    client,        \* the patches a kubectl promote has yet to send
    budget         \* what is left of the Max... bounds

vars == <<spec, status, active, preview, rs, runs, pauseElapsed, pc, pass,
          approved, client, budget>>
cluster == <<active, preview, rs, runs>>

----------------------------------------------------------------------------
(* The objects.                                                            *)

BGPause == "BlueGreenPause"
Inconclusive == "InconclusiveAnalysisRun"
PauseReason == {BGPause, Inconclusive}

Deadlines == {"none", "pending", "expired"}
Phases == {"none", "Running", "Successful", "Failed", "Inconclusive"}
Completed == {"Successful", "Failed", "Inconclusive"}

SpecType == [template : Hash \cup {NoHash}, replicas : Nat, paused : BOOLEAN]

StatusType == [stableRS : Hash \cup {NoHash}, currentPodHash : Hash \cup {NoHash},
               activeSelector : Hash \cup {NoHash}, previewSelector : Hash \cup {NoHash},
               pauses : SUBSET PauseReason, controllerPause : BOOLEAN,
               abort : BOOLEAN, abortedAt : BOOLEAN, promoteFull : BOOLEAN,
               checkPoint : BOOLEAN, preRun : 0..MaxRuns, postRun : 0..MaxRuns]

ReplicaSetType == [exists : BOOLEAN, replicas : Nat, available : Nat, desired : Nat,
                   deadline : Deadlines, revision : Nat, born : Nat]

RunType == [kind : {"pre", "post"}, hash : Hash \cup {NoHash}, revision : Nat,
            phase : Phases, terminate : BOOLEAN]

NoStatus == [stableRS |-> NoHash, currentPodHash |-> NoHash, activeSelector |-> NoHash,
             previewSelector |-> NoHash, pauses |-> {}, controllerPause |-> FALSE,
             abort |-> FALSE, abortedAt |-> FALSE, promoteFull |-> FALSE,
             checkPoint |-> FALSE, preRun |-> 0, postRun |-> 0]
NoReplicaSet == [exists |-> FALSE, replicas |-> 0, available |-> 0, desired |-> 0,
                 deadline |-> "none", revision |-> 0, born |-> 0]
NoRun == [kind |-> "pre", hash |-> NoHash, revision |-> 0, phase |-> "none",
          terminate |-> FALSE]
NoPass == [spec |-> [template |-> NoHash, replicas |-> 0, paused |-> FALSE],
           status |-> NoStatus, rs |-> [h \in Hash |-> NoReplicaSet],
           runs |-> [i \in RunIds |-> NoRun], dirty |-> {}, approved |-> {}, within |-> FALSE,
           scaling |-> FALSE, analysed |-> FALSE, pre |-> 0, post |-> 0,
           addPauses |-> {}, removePause |-> FALSE, addAbort |-> FALSE,
           removeAbort |-> FALSE, visited |-> {}, annotated |-> 0]

\* 0 if S is empty
MaxOf(S) ==
    IF \E n \in S : \A m \in S : m <= n
    THEN CHOOSE n \in S : \A m \in S : m <= n ELSE 0

----------------------------------------------------------------------------
(* What a pass decides from its snapshot.                                  *)

New == pass.spec.template        \* c.newRS
Stable == pass.status.stableRS   \* c.stableRS
HasStable == Stable # NoHash /\ pass.rs[Stable].exists
Paused(reason) == reason \in pass.status.pauses

\* haltProgress
HaltProgress == pass.spec.paused \/ Paused(Inconclusive)

\* pauseContext.IsAborted
IsAborted == ~pass.removeAbort /\ (pass.addAbort \/ pass.status.abort)

\* rolloututil.IsFullyPromoted
IsFullyPromoted(s) == s.stableRS = s.currentPodHash

\* replicasetutil.CheckPodSpecChange
CheckPodSpecChange == pass.status.currentPodHash \notin {NoHash, New}

\* Mutant: the active ReplicaSet is not exempted from previewReplicaCount.
NewRSNewReplicasOfActive ==
    IF \/ PreviewReplicaCount = NoCount \/ pass.status.activeSelector = NoHash
       \/ pass.status.promoteFull
       \/ pass.status.pauses = {} /\ pass.status.checkPoint
    THEN pass.spec.replicas ELSE PreviewReplicaCount

\* replicasetutil.NewRSNewReplicas, the blue-green branch
NewRSNewReplicas ==
    LET activeHash == pass.status.activeSelector
        full == \/ PreviewReplicaCount = NoCount
                \/ activeHash = NoHash
                \/ ~pass.rs[activeHash].exists
                \/ activeHash = New
                \/ pass.status.promoteFull
                \/ /\ New = pass.status.currentPodHash
                   /\ ~pass.spec.paused /\ pass.status.pauses = {}
                   /\ pass.status.checkPoint
    IN IF full THEN pass.spec.replicas ELSE PreviewReplicaCount

\* Mutant: the preview is ready only at the size of the Rollout.
ReadyForPauseAtFullSize == /\ pass.rs[New].replicas = pass.spec.replicas
                           /\ pass.rs[New].available = pass.spec.replicas

\* replicasetutil.ReadyForPause
ReadyForPause == /\ pass.rs[New].replicas = NewRSNewReplicas
                 /\ pass.rs[New].available = NewRSNewReplicas

\* annotations.IsSaturated(c.rollout, c.newRS)
IsSaturated == /\ pass.rs[New].replicas = pass.spec.replicas
               /\ pass.rs[New].desired = pass.spec.replicas
               /\ pass.rs[New].available = pass.spec.replicas

CreatedBefore(g, h) == pass.rs[g].born < pass.rs[h].born

\* isRollbackWithinWindow
IsRollbackWithinWindow ==
    /\ HasStable /\ CreatedBefore(New, Stable)
    /\ Cardinality({h \in Hash : /\ pass.rs[h].exists
                                 /\ CreatedBefore(New, h) /\ CreatedBefore(h, Stable)})
         < RollbackWindow

\* isFastRollback; pass.within is newRSWithinDelay
IsFastRollback ==
    /\ HasStable
    /\ \/ New = Stable
       \/ CreatedBefore(New, Stable) /\ pass.within
       \/ IsRollbackWithinWindow

\* isBlueGreenFastTracked, on the active Service as it is
IsBlueGreenFastTracked == \/ IsFastRollback
                          \/ pass.status.promoteFull
                          \/ active \in {NoHash, New}

NeedsBlueGreenControllerPause == ~AutoPromotionEnabled \/ HasAutoPromotionSeconds

\* Mutant: a run that does not exist yet counts as completed.
CompletedPrePromotionAnalysisNil ==
    pass.pre # 0 => pass.runs[pass.pre].phase = "Successful"

\* completedPrePromotionAnalysis, on c.currentArs
CompletedPrePromotionAnalysis ==
    PrePromotionAnalysis => /\ pass.pre # 0
                            /\ pass.runs[pass.pre].phase = "Successful"

\* Mutant: the pause still in place counts as resumed.
CompletedBlueGreenPauseEarly ==
    pass.addPauses = {} /\ (AutoPromotionEnabled \/ pass.status.controllerPause)

\* CompletedBlueGreenPause
CompletedBlueGreenPause ==
    /\ pass.addPauses = {}
    /\ \/ pass.status.checkPoint
       \/ /\ AutoPromotionEnabled
          /\ ~HasAutoPromotionSeconds \/ (Paused(BGPause) /\ pauseElapsed)
       \/ /\ ~AutoPromotionEnabled
          /\ pass.status.controllerPause /\ ~Paused(BGPause)

\* shouldDelayScaleDownOnAbort
ShouldDelayScaleDownOnAbort == IsAborted /\ HasStable /\ AbortScaleDownDelay

\* otherRSs: neither new nor stable
IsOther(h) == pass.rs[h].exists /\ h # New /\ ~(HasStable /\ h = Stable)

\* isReplicaSetReferenced: by the status of the snapshot or by a live Service
IsReplicaSetReferenced(h) ==
    h \in {pass.status.stableRS, pass.status.currentPodHash,
           pass.status.activeSelector, pass.status.previewSelector, active, preview}

----------------------------------------------------------------------------
(* How a pass starts, writes a ReplicaSet and ends.                        *)

\* The stages that update no ReplicaSet: conflicts do not matter any more.
AfterScaling == {"pause", "activeService", "analysis", "sync"}

\* Mutant: the pass goes on without its context.
EndPassGoesOn == pc' = pc /\ pass' = NoPass

EndPass == pc' = "idle" /\ pass' = NoPass

GoTo(stage) == pc' = stage /\ pass' = pass

\* ReplicasAnnotationsNeedUpdate
ReplicasAnnotationsNeedUpdate(h) ==
    \/ pass.rs[h].desired # pass.spec.replicas
    \/ pass.spec.replicas = 0 /\ pass.rs[h].deadline # "none"

NeedsScale(h, n) == pass.rs[h].replicas # n \/ ReplicasAnnotationsNeedUpdate(h)

(* The Update of ReplicaSet h to n replicas (scaleReplicaSet).  It is       *)
(* refused with a conflict when h was written after the snapshot, by a pod *)
(* or by this very pass.                                                   *)
Write(h, n) ==
    /\ h \notin pass.dirty
    /\ rs' = [rs EXCEPT ![h].replicas = n,
                        ![h].desired = pass.spec.replicas,
                        ![h].deadline = IF n = 0 /\ ~ShouldDelayScaleDownOnAbort
                                        THEN "none" ELSE @]

\* scaleReplicaSetAndRecordEvent, then the next stage
ScaleReplicaSet(h, n, stage) ==
    \/ /\ ~NeedsScale(h, n)
       /\ UNCHANGED rs /\ GoTo(stage)
    \/ /\ NeedsScale(h, n) /\ Write(h, n)
       /\ pc' = stage /\ pass' = [pass EXCEPT !.dirty = @ \cup {h}]
    \/ /\ NeedsScale(h, n) /\ h \in pass.dirty
       /\ UNCHANGED rs /\ EndPass

\* A JSON patch of h's scale-down-deadline, which no conflict stops.
PatchDeadline(h, d) == rs' = [rs EXCEPT ![h].deadline = d]

----------------------------------------------------------------------------
(* The stages of a pass.                                                   *)

(* newRolloutContext when the template has no ReplicaSet: create it with 0 *)
(* replicas (createDesiredReplicaSet) and leave the rest to the next pass. *)
CreateReplicaSet ==
    /\ pc = "idle" /\ ~rs[spec.template].exists
    /\ rs' = [rs EXCEPT ![spec.template] =
                [exists |-> TRUE, replicas |-> 0, available |-> 0,
                 desired |-> spec.replicas, deadline |-> "none",
                 revision |-> 1 + MaxOf({rs[h].revision : h \in Hash}),
                 born |-> 1 + MaxOf({rs[h].born : h \in Hash})]]
    /\ UNCHANGED <<spec, status, active, preview, runs, pauseElapsed, pc,
                   pass, approved, client, budget>>

\* isScalingEvent: a scaled-up new or stable ReplicaSet with a stale annotation
IsScalingEvent ==
    \E h \in {spec.template, status.stableRS} \ {NoHash} :
        /\ rs[h].exists /\ rs[h].replicas > 0
        /\ rs[h].desired # spec.replicas

(* newRolloutContext and isScalingEvent: the snapshot, with the new        *)
(* ReplicaSet's revision made the greatest (syncReplicaSetRevision).       *)
BeginPass ==
    /\ pc = "idle" /\ rs[spec.template].exists
    /\ LET others == {rs[h].revision : h \in Hash \ {spec.template}}
           revision == IF rs[spec.template].revision < 1 + MaxOf(others)
                       THEN 1 + MaxOf(others) ELSE rs[spec.template].revision
           bumped == [rs EXCEPT ![spec.template].revision = revision]
       IN /\ rs' = bumped
          /\ pass' = [NoPass EXCEPT
                !.spec = spec, !.status = status, !.rs = bumped, !.runs = runs,
                !.approved = approved,
                !.within = rs[spec.template].deadline = "pending",
                !.scaling = IsScalingEvent,
                !.pre = status.preRun, !.post = status.postRun,
                !.removeAbort = IsFullyPromoted(status) /\ status.abort]
    /\ pc' = IF IsScalingEvent THEN "removeDeadlines" ELSE "previewService"
    /\ UNCHANGED <<spec, status, active, preview, runs, pauseElapsed, approved, client, budget>>

(* reconcilePreviewService, then the podTemplateChange stage, which goes    *)
(* straight to the status sync.                                            *)
ReconcilePreviewService ==
    /\ pc = "previewService"
    /\ preview' = IF HaltProgress THEN preview ELSE New
    /\ GoTo(IF CheckPodSpecChange THEN "sync" ELSE "removeDeadlines")
    /\ UNCHANGED <<spec, status, active, rs, runs, pauseElapsed, approved, client, budget>>

(* removeScaleDownDeadlines, one patch at a time. *)
DeadlinesToRemove ==
    {h \in Hash : /\ pass.rs[h].deadline # "none"
                  /\ \/ h = New /\ ~ShouldDelayScaleDownOnAbort
                     \/ HasStable /\ h = Stable}

RemoveScaleDownDeadlines ==
    /\ pc = "removeDeadlines"
    /\ \/ /\ DeadlinesToRemove = {}
          /\ GoTo("scaleStable") /\ UNCHANGED rs
       \/ \E h \in DeadlinesToRemove :
            /\ New \in DeadlinesToRemove => h = New
            /\ PatchDeadline(h, "none")
            /\ pc' = pc
            /\ pass' = [pass EXCEPT !.rs = [@ EXCEPT ![h].deadline = "none"],
                                    !.dirty = @ \cup {h}]
    /\ UNCHANGED <<spec, status, active, preview, runs, pauseElapsed, approved, client, budget>>

\* reconcileBlueGreenStableReplicaSet
ReconcileStableReplicaSet ==
    /\ pc = "scaleStable"
    /\ IF HasStable THEN ScaleReplicaSet(Stable, pass.spec.replicas, "scaleNew")
                    ELSE GoTo("scaleNew") /\ UNCHANGED rs
    /\ UNCHANGED <<spec, status, active, preview, runs, pauseElapsed, approved, client, budget>>

(* syncNewRSReplicasAnnotation: an Update that keeps the size, after which  *)
(* c.newRS is the object the Update returned and not stale.                *)
CanAnnotateNew == ReplicasAnnotationsNeedUpdate(New) => New \notin pass.dirty

(* reconcileNewReplicaSet, aborted, no deadline yet: hold the size, and     *)
(* start the delay once the stable ReplicaSet can serve all the traffic.    *)
StartAbortScaleDownDelay ==
    /\ CanAnnotateNew
    /\ LET ready == pass.rs[Stable].available >= pass.spec.replicas
       IN /\ rs' = [rs EXCEPT ![New].desired = pass.spec.replicas,
                              ![New].deadline = IF ready THEN "pending" ELSE @]
          /\ pass' = [pass EXCEPT !.rs[New].desired = pass.spec.replicas,
                                  !.dirty = IF ready THEN @ \cup {New} ELSE @]
    /\ pc' = "scaleOthers"

(* reconcileNewReplicaSet, aborted, before the deadline and within the      *)
(* resync period: only the annotation is brought up to date.               *)
WaitAbortScaleDownDelay ==
    /\ CanAnnotateNew
    /\ rs' = [rs EXCEPT ![New].desired = pass.spec.replicas]
    /\ pass' = [pass EXCEPT !.rs[New].desired = pass.spec.replicas]
    /\ pc' = "scaleOthers"

AbortDelayOf(d) == ShouldDelayScaleDownOnAbort /\ pass.rs[New].deadline = d

\* reconcileNewReplicaSet
ReconcileNewReplicaSet ==
    /\ pc = "scaleNew"
    /\ \/ /\ AbortDelayOf("none")
          /\ StartAbortScaleDownDelay
       \/ /\ AbortDelayOf("pending")
          /\ WaitAbortScaleDownDelay
       \/ /\ AbortDelayOf("none") \/ AbortDelayOf("pending")
          /\ ~CanAnnotateNew
          /\ UNCHANGED rs /\ EndPass
       \/ /\ AbortDelayOf("expired")
          /\ ScaleReplicaSet(New, 0, "scaleOthers")
       \/ /\ ~ShouldDelayScaleDownOnAbort \/ AbortDelayOf("pending")
          /\ ScaleReplicaSet(New, NewRSNewReplicas, "scaleOthers")
    /\ UNCHANGED <<spec, status, active, preview, runs, pauseElapsed, approved, client, budget>>

(* scaleDownOldReplicaSetsForBlueGreen waits for the post-promotion run     *)
(* when scaleDownDelaySeconds is not set, and for an inconclusive run.     *)
SkipPostPromotion ==
    \/ Stable = New
    \/ pass.status.activeSelector # New
    \/ pass.post = 0 /\ ~IsSaturated

HoldOldReplicaSets ==
    \/ Paused(Inconclusive)
    \/ /\ PostPromotionAnalysis /\ ScaleDownDelay = "nil" /\ ~SkipPostPromotion
       /\ pass.post = 0 \/ pass.runs[pass.post].phase # "Successful"

OldToScaleDown ==
    IF HoldOldReplicaSets THEN {}
    ELSE {h \in Hash \ pass.visited : /\ IsOther(h) /\ pass.rs[h].replicas > 0
                                      /\ ~IsReplicaSetReferenced(h)}

\* scaleDownDelayHelper: the replicas an old ReplicaSet may keep
OldReplicas(h) ==
    LET withinLimit == pass.annotated < ScaleDownDelayRevisionLimit
    IN CASE ~withinLimit -> 0
         [] withinLimit /\ pass.rs[h].deadline = "none" -> pass.rs[h].replicas
         [] withinLimit /\ pass.rs[h].deadline = "pending" -> pass.spec.replicas
         [] withinLimit /\ pass.rs[h].deadline = "expired" -> 0

\* Mutant: the default delay is taken for 0.
StartsScaleDownDelayUnset(h) == FALSE

\* It gets a deadline (addScaleDownDelay does nothing when the delay is 0).
StartsScaleDownDelay(h) ==
    /\ pass.rs[h].deadline = "none" /\ ScaleDownDelay # "zero"
    /\ pass.annotated < ScaleDownDelayRevisionLimit

(* reconcileOtherReplicaSets, one old ReplicaSet at a time, the latest      *)
(* revision first.  A conflict ends the loop, not the pass.                *)
ReconcileOtherReplicaSets ==
    /\ pc = "scaleOthers"
    /\ \/ /\ OldToScaleDown = {}
          /\ GoTo("revisionHistory") /\ UNCHANGED rs
       \/ \E h \in OldToScaleDown :
            LET n == OldReplicas(h)
                scales == n # pass.rs[h].replicas
                wrote == scales \/ StartsScaleDownDelay(h)
            IN /\ \A g \in OldToScaleDown : pass.rs[g].revision <= pass.rs[h].revision
               /\ \/ /\ ~scales
                     /\ IF StartsScaleDownDelay(h) THEN PatchDeadline(h, "pending")
                                                   ELSE UNCHANGED rs
                  \/ scales /\ Write(h, n)
                  \/ scales /\ h \in pass.dirty /\ UNCHANGED rs
               /\ IF scales /\ h \in pass.dirty
                  THEN GoTo("revisionHistory")
                  ELSE /\ pc' = pc
                       /\ pass' = [pass EXCEPT
                            !.visited = @ \cup {h},
                            !.dirty = IF wrote THEN @ \cup {h} ELSE @,
                            !.annotated = IF pass.rs[h].deadline # "none" \/ n # 0
                                          THEN @ + 1 ELSE @]
    /\ UNCHANGED <<spec, status, active, preview, runs, pauseElapsed, approved, client, budget>>

(* Any other error ends the loop as well: reconcileOtherReplicaSets hides   *)
(* it, and the pass goes on as if the old ReplicaSets were seen to.        *)
OthersFail ==
    /\ pc = "scaleOthers" /\ OldToScaleDown # {} /\ budget.passes > 0
    /\ budget' = [budget EXCEPT !.passes = @ - 1]
    /\ GoTo("revisionHistory")
    /\ UNCHANGED <<spec, status, cluster, pauseElapsed, approved, client>>

(* reconcileRevisionHistoryLimit: of the old ReplicaSets above the limit,   *)
(* the ones created first, delete those that are scaled down.              *)
BeyondHistoryLimit ==
    LET old == {h \in Hash : IsOther(h)}
    IN {h \in old : Cardinality({g \in old : CreatedBefore(g, h)})
                      < Cardinality(old) - RevisionHistoryLimit}

\* Mutant: a ReplicaSet that still runs is deleted.
DeletableRunning(h) == TRUE

Deletable(h) == pass.rs[h].replicas = 0 /\ pass.rs[h].available = 0

\* The other runs of a deleted ReplicaSet are deleted with it.
WithoutRunsOf(gone, view) ==
    [i \in RunIds |-> IF /\ view[i].hash \in gone
                         /\ i \notin {pass.status.preRun, pass.status.postRun}
                      THEN NoRun ELSE view[i]]

ReconcileRevisionHistoryLimit ==
    /\ pc = "revisionHistory"
    /\ LET gone == {h \in BeyondHistoryLimit : Deletable(h)}
       IN /\ rs' = [h \in Hash |-> IF h \in gone THEN NoReplicaSet ELSE rs[h]]
          /\ runs' = WithoutRunsOf(gone, runs)
          /\ pass' = [pass EXCEPT !.runs = WithoutRunsOf(gone, @),
                                  !.visited = {}, !.annotated = 0, !.dirty = {}]
    /\ pc' = IF pass.scaling THEN "sync" ELSE "pause"
    /\ UNCHANGED <<spec, status, active, preview, pauseElapsed, approved, client, budget>>

(* reconcileBlueGreenPause: what it asks of the pause context.             *)
PauseIsManaged == /\ ~pass.status.abort /\ ReadyForPause /\ ~HaltProgress

SkipsPause == \/ IsBlueGreenFastTracked
              \/ pass.status.checkPoint
              \/ ~NeedsBlueGreenControllerPause

EndsPause == /\ PauseIsManaged
             /\ \/ SkipsPause
                \/ /\ CompletedPrePromotionAnalysis
                   /\ Paused(BGPause) /\ CompletedBlueGreenPause

StartsPause == /\ PauseIsManaged /\ ~SkipsPause
               /\ CompletedPrePromotionAnalysis
               /\ ~Paused(BGPause)
               /\ ~pass.status.controllerPause   \* else: a user resumed it

ReconcileBlueGreenPause ==
    /\ pc = "pause"
    /\ pc' = "activeService"
    /\ pass' = [pass EXCEPT !.removePause = EndsPause,
                            !.addPauses = IF StartsPause THEN {BGPause} ELSE {}]
    /\ UNCHANGED <<spec, status, cluster, pauseElapsed, approved, client, budget>>

(* reconcileActiveService: where the active Service should point.          *)
MaySwitchActiveService == ~HaltProgress /\ ReadyForPause /\ IsSaturated

\* Mutant: an abort does not switch back.
ActiveHashForward ==
    IF \/ IsBlueGreenFastTracked
       \/ CompletedBlueGreenPause /\ CompletedPrePromotionAnalysis
    THEN New ELSE active

ActiveHash ==
    IF pass.status.abort THEN pass.status.stableRS
    ELSE IF \/ IsBlueGreenFastTracked
            \/ CompletedBlueGreenPause /\ CompletedPrePromotionAnalysis
         THEN New ELSE active

ReconcileActiveService ==
    /\ pc = "activeService"
    /\ active' = IF MaySwitchActiveService THEN ActiveHash ELSE active
    /\ GoTo("analysis")
    /\ UNCHANGED <<spec, status, preview, rs, runs, pauseElapsed, approved, client, budget>>

----------------------------------------------------------------------------
(* reconcileAnalysisRuns.                                                  *)

ShouldCancelCurrentAnalysis ==
    \/ IsFullyPromoted(pass.status) \/ IsAborted \/ pass.status.promoteFull
    \/ IsFastRollback \/ Stable = NoHash

\* skipPrePromotionAnalysisRun
SkipPrePromotion ==
    \/ Stable = New
    \/ pass.status.activeSelector \in {NoHash, New}
    \/ /\ pass.pre = 0
       /\ IF PreviewReplicaCount # NoCount
          THEN \/ pass.rs[New].replicas # PreviewReplicaCount
               \/ pass.rs[New].available # PreviewReplicaCount
          ELSE ~IsSaturated

\* Mutant: the first run is not created.
NeedsNewAnalysisRunAgain(id) == id # 0 /\ pass.status.abortedAt

\* needsNewAnalysisRun
NeedsNewAnalysisRun(id) ==
    id # 0 => IF pass.status.controllerPause /\ ~Paused(BGPause)
              THEN pass.runs[id].phase = "Inconclusive"
              ELSE pass.status.abortedAt

StartsPreRun == /\ PrePromotionAnalysis /\ ~SkipPrePromotion
                /\ ~Paused(Inconclusive) /\ NeedsNewAnalysisRun(pass.pre)
StartsPostRun == /\ PostPromotionAnalysis /\ ~SkipPostPromotion
                 /\ ~Paused(Inconclusive) /\ NeedsNewAnalysisRun(pass.post)

(* CreateWithCollisionCounter: the run of this name that is still in        *)
(* progress, terminating or not, else a new one.                           *)
FreeIds == {i \in RunIds : runs[i].phase = "none"}
InProgress(kind) ==
    {i \in RunIds : /\ runs[i].kind = kind /\ runs[i].hash = New
                    /\ runs[i].revision = pass.rs[New].revision
                    /\ runs[i].phase = "Running"}
CreatedRuns(kind, i) ==
    IF i \in InProgress(kind) THEN runs
    ELSE [runs EXCEPT ![i] = [kind |-> kind, hash |-> New,
                              revision |-> pass.rs[New].revision,
                              phase |-> "Running", terminate |-> FALSE]]
CreateIds(kind) == IF InProgress(kind) # {} THEN InProgress(kind) ELSE FreeIds

\* Mutant: the runs of the status are others once they are replaced.
IsOtherRunNow(i, current) == i \notin current
\* c.otherArs: current neither in the snapshot nor from now on
IsOtherRun(i, current) == i \notin current \cup {pass.pre, pass.post}

\* Mutant: the runs no status refers to are left alone.
TidiedCurrent(view, S, current) ==
    [i \in RunIds |-> IF pass.runs[i].phase = "Running" /\ i \in S
                      THEN [view[i] EXCEPT !.terminate = TRUE] ELSE view[i]]

(* cancelAnalysisRuns of the runs in S and of the others, which are deleted *)
(* once completed (both history limits are 0).                             *)
Tidied(view, S, current) ==
    [i \in RunIds |->
        CASE pass.runs[i].phase = "Running" /\ (i \in S \/ IsOtherRun(i, current))
               -> [view[i] EXCEPT !.terminate = TRUE]
          [] pass.runs[i].phase \in Completed /\ IsOtherRun(i, current) -> NoRun
          [] OTHER -> view[i]]

(* The end of the stage: pre and post are current, the runs in S and the    *)
(* others cancelled; without them cancelled, their phases decide           *)
(* (setPauseOrAbortForBlueGreen).                                          *)
FinishAnalysis(pre, post, view, S) ==
    LET seen == [i \in RunIds |-> IF pass.runs[i].phase = "none" THEN view[i]
                                                                ELSE pass.runs[i]]
        phases == IF ShouldCancelCurrentAnalysis THEN {}
                  ELSE {seen[i].phase : i \in {pre, post} \ {0}}
    IN /\ runs' = Tidied(view, S, {pre, post})
       /\ pass' = [pass EXCEPT
                     !.pre = pre, !.post = post, !.runs = seen, !.analysed = TRUE,
                     !.addPauses = IF "Inconclusive" \in phases
                                   THEN @ \cup {Inconclusive} ELSE @,
                     !.addAbort = @ \/ "Failed" \in phases]
       /\ pc' = "sync"

\* The current runs when the stage starts none: not configured means none.
CurrentPre == IF PrePromotionAnalysis THEN pass.pre ELSE 0
CurrentPost == IF PostPromotionAnalysis THEN pass.post ELSE 0
Skipped == (IF SkipPrePromotion THEN {pass.pre} ELSE {})
             \cup (IF SkipPostPromotion THEN {pass.post} ELSE {})

ReconcileAnalysisRuns ==
    /\ pc = "analysis"
    /\ \/ /\ ShouldCancelCurrentAnalysis
          /\ FinishAnalysis(pass.pre, pass.post, runs, {pass.pre, pass.post})
       \/ /\ ~ShouldCancelCurrentAnalysis /\ ~StartsPreRun /\ ~StartsPostRun
          /\ FinishAnalysis(CurrentPre, CurrentPost, runs, Skipped)
       \/ /\ ~ShouldCancelCurrentAnalysis /\ StartsPreRun
          /\ \E i \in CreateIds("pre") :
               FinishAnalysis(i, CurrentPost, CreatedRuns("pre", i), Skipped)
       \/ /\ ~ShouldCancelCurrentAnalysis /\ StartsPostRun
          /\ \E i \in CreateIds("post") :
               FinishAnalysis(CurrentPre, i, CreatedRuns("post", i), Skipped)
    /\ UNCHANGED <<spec, status, active, preview, rs, pauseElapsed, approved, client, budget>>

----------------------------------------------------------------------------
(* syncRolloutStatusBlueGreen and persistRolloutStatus.                    *)

\* The status is recalculated for a changed template (resetRolloutStatus).
Restarts == ~pass.scaling /\ CheckPodSpecChange

ClearsAndResumes == Restarts \/ pass.status.promoteFull \/ IsRollbackWithinWindow

\* Mutant: a run that does not exist yet counts as completed.
CompletedPostPromotionAnalysisNil ==
    pass.post # 0 => pass.runs[pass.post].phase = "Successful"

\* shouldFullPromote; the active Service is read as it is
CompletedPostPromotionAnalysis ==
    PostPromotionAnalysis => /\ pass.post # 0
                             /\ pass.runs[pass.post].phase = "Successful"

\* Mutant: the active Service is not asked.
ShouldFullPromoteBlindly ==
    ~HasStable \/ (~IsAborted /\ CompletedPostPromotionAnalysis)

ShouldFullPromote ==
    \/ ~HasStable
    \/ active = NoHash
    \/ /\ active = New
       /\ \/ pass.status.promoteFull
          \/ IsFastRollback
          \/ /\ ~IsAborted \/ ClearsAndResumes
             /\ CompletedPostPromotionAnalysis

\* calculateScaleUpPreviewCheckPoint
CalculateScaleUpPreviewCheckPoint ==
    /\ PreviewReplicaCount # NoCount
    /\ \/ pass.status.checkPoint
       \/ /\ CompletedPrePromotionAnalysis /\ CompletedBlueGreenPause
          /\ pass.rs[New].available = PreviewReplicaCount

StableAfterSync == IF ShouldFullPromote THEN New ELSE Stable

\* CalculatePauseStatus: the pause conditions, once it is not aborted
PausesAfterSync ==
    IF ClearsAndResumes \/ ShouldFullPromote THEN {}
    ELSE (pass.status.pauses \ (IF pass.removePause THEN {BGPause} ELSE {}))
           \cup (pass.addPauses \ pass.status.pauses)

FullStatus(aborted) ==
    LET pauses == IF aborted THEN {} ELSE PausesAfterSync
    IN [stableRS |-> StableAfterSync, currentPodHash |-> New,
        activeSelector |-> active, previewSelector |-> preview,
        pauses |-> pauses,
        controllerPause |-> /\ pauses # {}
                            /\ \/ pass.status.controllerPause
                               \/ pass.addPauses \ pass.status.pauses # {},
        abort |-> aborted, abortedAt |-> aborted,
        promoteFull |-> pass.status.promoteFull /\ ~Restarts /\ ~ShouldFullPromote,
        checkPoint |-> ~ShouldFullPromote /\ CalculateScaleUpPreviewCheckPoint,
        preRun |-> IF pass.analysed THEN pass.pre ELSE 0,
        postRun |-> IF pass.analysed THEN pass.post ELSE 0]

\* syncReplicasOnly carries the rest of the status over
ScalingStatus(aborted) ==
    [pass.status EXCEPT !.abort = aborted, !.abortedAt = aborted]

RemovesAbort ==
    \/ pass.removeAbort
    \/ ~pass.scaling /\ (ClearsAndResumes \/ ShouldFullPromote)

(* evaluateProgressDeadlineAbort: an unfinished update may have run out of  *)
(* time if it is not paused, aborted, progressing or scaling down.         *)
MayTimeOut(new) ==
    /\ ProgressDeadlineAbort
    /\ RemovesAbort \/ ~(pass.addAbort \/ pass.status.abort)
    /\ new.stableRS # new.currentPodHash
    /\ new.activeSelector = pass.status.activeSelector
    /\ new.previewSelector = pass.status.previewSelector
    /\ ~pass.spec.paused /\ pass.status.pauses = {}
    /\ \A h \in Hash : IsOther(h) => pass.rs[h].deadline = "none"

NewStatus(timedOut) ==
    LET aborted == \/ timedOut \/ pass.addAbort
                   \/ pass.status.abort /\ ~RemovesAbort
    IN IF pass.scaling THEN ScalingStatus(aborted) ELSE FullStatus(aborted)

(* The merge patch: a field the pass leaves as its snapshot shows it keeps  *)
(* whatever value it has by now.                                           *)
Merge(new, old, live) == IF new = old THEN live ELSE new

Merged(new, old, live) ==
    [stableRS |-> Merge(new.stableRS, old.stableRS, live.stableRS),
     currentPodHash |-> Merge(new.currentPodHash, old.currentPodHash, live.currentPodHash),
     activeSelector |-> Merge(new.activeSelector, old.activeSelector, live.activeSelector),
     previewSelector |-> Merge(new.previewSelector, old.previewSelector, live.previewSelector),
     pauses |-> Merge(new.pauses, old.pauses, live.pauses),
     controllerPause |-> Merge(new.controllerPause, old.controllerPause, live.controllerPause),
     abort |-> Merge(new.abort, old.abort, live.abort),
     abortedAt |-> Merge(new.abortedAt, old.abortedAt, live.abortedAt),
     promoteFull |-> Merge(new.promoteFull, old.promoteFull, live.promoteFull),
     checkPoint |-> Merge(new.checkPoint, old.checkPoint, live.checkPoint),
     preRun |-> Merge(new.preRun, old.preRun, live.preRun),
     postRun |-> Merge(new.postRun, old.postRun, live.postRun)]

SyncRolloutStatus ==
    /\ pc = "sync"
    /\ \E timedOut \in BOOLEAN :
         /\ timedOut => MayTimeOut(NewStatus(FALSE))
         /\ status' = Merged(NewStatus(timedOut), pass.status, status)
         /\ pauseElapsed' = /\ pauseElapsed
                            /\ BGPause \notin NewStatus(timedOut).pauses \ pass.status.pauses
    /\ EndPass
    /\ UNCHANGED <<spec, cluster, approved, client, budget>>

(* An API error, a refused patch or a crash of the controller.             *)
PassFails ==
    /\ pc # "idle" /\ budget.passes > 0
    /\ budget' = [budget EXCEPT !.passes = @ - 1]
    /\ EndPass
    /\ UNCHANGED <<spec, status, cluster, pauseElapsed, approved, client>>

----------------------------------------------------------------------------
(* The cluster: pods, analysis runs and time.                              *)

\* The ReplicaSet controller updates the number of available pods.
SetAvailable(h, n) ==
    /\ rs' = [rs EXCEPT ![h].available = n]
    /\ pass' = IF pc \in {"idle"} \cup AfterScaling THEN pass
               ELSE [pass EXCEPT !.dirty = @ \cup {h}]

PodBecomesAvailable(h) ==
    /\ rs[h].available < rs[h].replicas
    /\ SetAvailable(h, rs[h].available + 1)
    /\ UNCHANGED <<spec, status, active, preview, runs, pauseElapsed, pc, approved, client, budget>>

PodsTerminate(h) ==
    /\ rs[h].available > rs[h].replicas
    /\ SetAvailable(h, rs[h].replicas)
    /\ UNCHANGED <<spec, status, active, preview, runs, pauseElapsed, pc, approved, client, budget>>

PodBecomesUnavailable(h) ==
    /\ rs[h].available > 0 /\ budget.pods > 0
    /\ SetAvailable(h, rs[h].available - 1)
    /\ budget' = [budget EXCEPT !.pods = @ - 1]
    /\ UNCHANGED <<spec, status, active, preview, runs, pauseElapsed, pc, approved, client>>

(* The analysis controller completes a run.  A terminated run without a     *)
(* failed measurement is Successful (assessRunStatus).                     *)
RunCompletes(i) ==
    /\ runs[i].phase = "Running"
    /\ \E phase \in Completed : runs' = [runs EXCEPT ![i].phase = phase]
    /\ UNCHANGED <<spec, status, active, preview, rs, pauseElapsed, pc,
                   pass, approved, client, budget>>

DeadlinePasses(h) ==
    /\ rs[h].deadline = "pending"
    /\ PatchDeadline(h, "expired")
    /\ UNCHANGED <<spec, status, active, preview, runs, pauseElapsed, pc,
                   pass, approved, client, budget>>

PauseElapses ==
    /\ HasAutoPromotionSeconds /\ BGPause \in status.pauses /\ ~pauseElapsed
    /\ pauseElapsed' = TRUE
    /\ UNCHANGED <<spec, status, cluster, pc, pass, approved, client, budget>>

----------------------------------------------------------------------------
(* The user, through the kubectl plugin or an edit of the spec.            *)

UserMay(a) ==
    /\ a \in UserActions /\ budget.user > 0
    /\ budget' = [budget EXCEPT !.user = @ - 1]
    /\ UNCHANGED <<cluster, pauseElapsed, pc, pass>>

\* The patches a promote computes from the Rollout it reads
PatchesFor(statusPatch, needed) ==
    (IF needed THEN {statusPatch} ELSE {}) \cup (IF spec.paused THEN {"unpause"} ELSE {})

(* kubectl argo rollouts promote, with and without --full, gets the Rollout *)
(* and takes what it shows for granted from then on.                       *)
Promote ==
    /\ UserMay("promote")
    /\ client' = PatchesFor("resume", status.pauses # {})
    /\ client' # {}
    /\ UNCHANGED <<spec, status, approved>>

PromoteFull ==
    /\ UserMay("promoteFull")
    /\ client' = PatchesFor("promoteFull", ~IsFullyPromoted(status))
    /\ client' # {}
    /\ UNCHANGED <<spec, status, approved>>

(* It patches the status first.  The pause it clears is the one in place by *)
(* now, and so is the version whose pause the user has resumed.            *)
PatchStatus ==
    /\ \/ /\ "resume" \in client
          /\ status' = [status EXCEPT !.pauses = {}]
          /\ approved' = IF BGPause \in status.pauses
                         THEN approved \cup {status.currentPodHash} ELSE approved
       \/ /\ "promoteFull" \in client
          /\ status' = [status EXCEPT !.promoteFull = TRUE]
          /\ UNCHANGED approved
    /\ client' = client \ {"resume", "promoteFull"}
    /\ UNCHANGED <<spec, cluster, pauseElapsed, pc, pass, budget>>

PatchSpec ==
    /\ client = {"unpause"} /\ client' = {}
    /\ spec' = [spec EXCEPT !.paused = FALSE]
    /\ UNCHANGED <<status, cluster, pauseElapsed, pc, pass, approved, budget>>

Abort ==
    /\ UserMay("abort") /\ ~status.abort
    /\ status' = [status EXCEPT !.abort = TRUE]
    /\ UNCHANGED <<spec, approved, client>>

Retry ==
    /\ UserMay("retry") /\ status.abort
    /\ status' = [status EXCEPT !.abort = FALSE]
    /\ UNCHANGED <<spec, approved, client>>

Pause ==
    /\ UserMay("pause") /\ ~spec.paused
    /\ spec' = [spec EXCEPT !.paused = TRUE]
    /\ UNCHANGED <<status, approved, client>>

\* A new version, or an undo to an earlier one: it needs a new approval.
SetTemplate(h) ==
    /\ UserMay("setTemplate") /\ h # spec.template
    /\ spec' = [spec EXCEPT !.template = h]
    /\ approved' = IF h = status.currentPodHash THEN approved ELSE approved \ {h}
    /\ UNCHANGED <<status, client>>

Scale(n) ==
    /\ UserMay("scale") /\ n # spec.replicas
    /\ spec' = [spec EXCEPT !.replicas = n]
    /\ UNCHANGED <<status, approved, client>>

----------------------------------------------------------------------------
(* The specification.                                                      *)

\* A Rollout just created, or one whose first version is fully promoted.
Init ==
    \E h \in Hash, n \in ReplicaCounts :
        LET started == [exists |-> TRUE, replicas |-> n, available |-> n, desired |-> n,
                        deadline |-> "none", revision |-> 1, born |-> 1]
        IN /\ spec = [template |-> h, replicas |-> n, paused |-> FALSE]
           /\ status = IF FirstDeploy THEN NoStatus
                       ELSE [NoStatus EXCEPT !.stableRS = h, !.currentPodHash = h,
                                             !.activeSelector = h, !.previewSelector = h]
           /\ active = IF FirstDeploy THEN NoHash ELSE h
           /\ preview = IF FirstDeploy THEN NoHash ELSE h
           /\ rs = [g \in Hash |-> IF g = h /\ ~FirstDeploy THEN started ELSE NoReplicaSet]
           /\ runs = [i \in RunIds |-> NoRun]
           /\ pauseElapsed = FALSE
           /\ pc = "idle" /\ pass = NoPass
           /\ approved = {} /\ client = {}
           /\ budget = [user |-> MaxUserActions, pods |-> MaxPodFailures,
                        passes |-> MaxPassFailures]

Controller ==
    \/ CreateReplicaSet \/ BeginPass
    \/ ReconcilePreviewService
    \/ RemoveScaleDownDeadlines \/ ReconcileStableReplicaSet \/ ReconcileNewReplicaSet
    \/ ReconcileOtherReplicaSets \/ ReconcileRevisionHistoryLimit
    \/ ReconcileBlueGreenPause \/ ReconcileActiveService
    \/ ReconcileAnalysisRuns \/ SyncRolloutStatus

Cluster ==
    \/ \E h \in Hash : \/ PodBecomesAvailable(h) \/ PodBecomesUnavailable(h)
                       \/ PodsTerminate(h) \/ DeadlinePasses(h)
    \/ \E i \in RunIds : RunCompletes(i)
    \/ PauseElapses

User ==
    \/ Promote \/ PromoteFull \/ PatchStatus \/ PatchSpec \/ Abort \/ Retry \/ Pause
    \/ \E h \in Hash : SetTemplate(h)
    \/ \E n \in ReplicaCounts : Scale(n)

Next == Controller \/ OthersFail \/ PassFails \/ Cluster \/ User

Spec == Init /\ [][Next]_vars

(* The work queue keeps calling the controller, pods of a scaled ReplicaSet *)
(* start and stop, runs complete and time passes.                          *)
Fairness ==
    /\ WF_vars(Controller)
    /\ \A h \in Hash : /\ WF_vars(PodBecomesAvailable(h))
                       /\ WF_vars(PodsTerminate(h))
                       /\ WF_vars(DeadlinePasses(h))
    /\ \A i \in RunIds : WF_vars(RunCompletes(i))
    /\ WF_vars(PauseElapses)

FairSpec == Spec /\ Fairness

----------------------------------------------------------------------------
(* Properties.                                                             *)

Stages == {"previewService", "removeDeadlines", "scaleStable", "scaleNew", "scaleOthers",
           "revisionHistory", "pause", "activeService", "analysis", "sync"}

PassType == [spec : SpecType, status : StatusType, rs : [Hash -> ReplicaSetType],
             runs : [RunIds -> RunType], dirty : SUBSET Hash,
             approved : SUBSET (Hash \cup {NoHash}),
             within : BOOLEAN, scaling : BOOLEAN, analysed : BOOLEAN,
             pre : 0..MaxRuns, post : 0..MaxRuns, addPauses : SUBSET PauseReason,
             removePause : BOOLEAN, addAbort : BOOLEAN, removeAbort : BOOLEAN,
             visited : SUBSET Hash, annotated : Nat]

(* Every variable has its type, and a pass works on a real template.       *)
TypeOK ==
    /\ spec \in SpecType /\ spec.template \in Hash
    /\ status \in StatusType
    /\ active \in Hash \cup {NoHash} /\ preview \in Hash \cup {NoHash}
    /\ rs \in [Hash -> ReplicaSetType]
    /\ runs \in [RunIds -> RunType]
    /\ pauseElapsed \in BOOLEAN
    /\ pc \in Stages \cup {"idle"}
    /\ pass \in PassType
    /\ pc # "idle" => New \in Hash
    /\ approved \in SUBSET (Hash \cup {NoHash})
    /\ client \in SUBSET {"resume", "promoteFull", "unpause"}
    /\ budget \in [user : Nat, pods : Nat, passes : Nat]

(* A promotion a user or a rollback excuses from analysis and approval:     *)
(* promote --full, a rollback, or the Service's very first selector.       *)
Excused == pass.status.promoteFull \/ IsFastRollback \/ active = NoHash

HasSuccessfulRun(kind, h) ==
    \E i \in RunIds : /\ runs[i].kind = kind /\ runs[i].hash = h
                      /\ runs[i].phase = "Successful"

(* With a pre-promotion analysis, traffic moves to a version other than the *)
(* stable one only if an analysis of that very version succeeded, whatever *)
(* versions were requested, aborted and retried before.                    *)
SwitchNeedsAnalysis ==
    [][ PrePromotionAnalysis /\ active' \notin {active, status.stableRS} /\ ~Excused
          => HasSuccessfulRun("pre", active') ]_vars

(* Likewise a version becomes stable, and its predecessor liable to be      *)
(* scaled down, only after its own post-promotion analysis succeeded.      *)
PromotionNeedsAnalysis ==
    [][ PostPromotionAnalysis /\ status'.stableRS # status.stableRS
          /\ status.stableRS # NoHash /\ ~Excused
          => HasSuccessfulRun("post", status'.stableRS) ]_vars

(* A version becomes stable only while it receives the active traffic, but  *)
(* for the first version and a Service no version was given yet.           *)
PromotionFollowsTraffic ==
    [][ status'.stableRS # status.stableRS
          => \/ active = status'.stableRS
             \/ active = NoHash \/ status.stableRS = NoHash ]_vars

(* With autoPromotionEnabled: false, traffic moves to a version other than  *)
(* the stable one only after a user resumed the pause of that version.     *)
(* (A checkpoint with previewReplicaCount breaks it: BG_doc_checkpoint.)   *)
SwitchNeedsApproval ==
    [][ ~AutoPromotionEnabled /\ active' \notin {active, status.stableRS} /\ ~Excused
          => active' \in pass.approved ]_vars

(* The version to fall back to is always kept at a size the user asked for: *)
(* never 0, never previewReplicaCount, whatever fails or is aborted, unless *)
(* users pause and scale the Rollout after a pass stopped halfway.          *)
StableAtFullSize ==
    status.stableRS # NoHash => rs[status.stableRS].replicas \in ReplicaCounts

(* So is the version that receives the traffic.                            *)
ActiveAtFullSize == active # NoHash => rs[active].replicas \in ReplicaCounts

(* Nothing a Service or the status refers to is deleted.  (Without a limit  *)
(* on user actions a Rollout that a user pauses, or aborts with a pod down, *)
(* may delete the version it sends traffic to.)                            *)
ReferencedExist ==
    \A h \in {active, preview, status.stableRS} \ {NoHash} : rs[h].exists

(* A run the status refers to, whose verdict decides, is never deleted,     *)
(* though it is replaced and the pass that replaces it may stop half-way.  *)
CurrentRunsExist ==
    \A i \in {status.preRun, status.postRun} \ {0} : runs[i].phase # "none"

(* Once users leave it alone an update comes to an end: the template's      *)
(* version gets the traffic and is stable, or it is aborted, or it waits   *)
(* for a user.                                                             *)
Promoted == status.stableRS = spec.template /\ active = spec.template
WaitsForUser == \/ spec.paused \/ Inconclusive \in status.pauses
                \/ ~AutoPromotionEnabled /\ BGPause \in status.pauses
UpdateSettles == <>[](Promoted \/ status.abort \/ WaitsForUser)

(* An abort that stands gives all the traffic back to the stable version,   *)
(* unless the Rollout is paused as well: also an abort that comes after the *)
(* switch, from the analysis of a promoted version, whose passes may fail. *)
(* (An abort delay that runs out before the Service is switched back, for a *)
(* pod or a pass that failed, breaks it: BG_doc_abort.)                    *)
AbortRestoresTraffic == <>[](status.abort /\ ~spec.paused => active = status.stableRS)

(* After a promotion nobody holds up, the versions no longer in use are     *)
(* scaled down.                                                            *)
OldVersionsScaledDown ==
    <>[](Promoted /\ ~WaitsForUser => \A h \in Hash \ {spec.template} : rs[h].replicas = 0)

(* No AnalysisRun outlives its use, even one that a pass created and could  *)
(* not record before it stopped: those that remain are in the status.      *)
NoOrphanRuns ==
    <>[](\A i \in RunIds : \/ runs[i].phase = "none"
                           \/ i \in {status.preRun, status.postRun})
=============================================================================
