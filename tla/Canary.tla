------------------------------- MODULE Canary -------------------------------
(***************************************************************************)
(* The reconciliation loop of a canary Rollout with a traffic router:      *)
(* rollout/canary.go, rollout/trafficrouting.go and the files they call.   *)
(*                                                                         *)
(* A pass takes a snapshot, runs the canary stages of rollout/stages.go in *)
(* order and ends with a merge patch of the status; it may be cut short    *)
(* after any of its writes.  Pods, analysis runs, timers and users move    *)
(* between any two of them.  The weight of a version is what the router    *)
(* sends to the Service that selects it.                                   *)
(*                                                                         *)
(* The Rollout has had its first version promoted: there always is a       *)
(* stable ReplicaSet, and there are weights in the status.                 *)
(***************************************************************************)
EXTENDS CanaryReplicas, FiniteSetsExt

CONSTANTS
    Hash,              \* pod template hashes, one ReplicaSet each
    NoHash,            \* the empty hash ""
    ReplicaCounts,     \* values the user gives spec.replicas
    Strategies,        \* values of spec.strategy.canary, one in a behaviour
    UserActions,       \* what the user may do in this instance
    MaxRuns,           \* bound: AnalysisRuns that exist at a time
    MaxUserActions,    \* bound: user actions in a behaviour
    MaxPodFailures,    \* bound: pods that become unavailable
    MaxPassFailures    \* bound: passes cut short

RunIds == 1..MaxRuns

StepKinds == {"setWeight",   \* setWeight: value
              "setScale",    \* setCanaryScale: replicas: value
              "matchWeight", \* setCanaryScale: matchTrafficWeight
              "pause",       \* pause: {}
              "wait",        \* pause: with a duration
              "analysis"}    \* analysis
StepType == [kind : StepKinds, value : Nat]
ThresholdType == [kind : {"none", "percent", "pods"}, value : Nat]

\* abortDelay: abortScaleDownDelaySeconds is unset, 0 ("never") or positive.
\* background: analysis is configured, from startingStep on.
StrategyType == [steps : Seq(StepType), dynamic : BOOLEAN,
                 abortDelay : {"nil", "zero", "set"}, background : BOOLEAN,
                 startingStep : Nat, threshold : ThresholdType]

ASSUME HashAssumption == IsFiniteSet(Hash) /\ NoHash \notin Hash
ASSUME CountAssumption ==
    /\ ReplicaCounts \subseteq Nat \ {0} /\ MaxRuns \in Nat
    /\ MaxUserActions \in Nat /\ MaxPodFailures \in Nat /\ MaxPassFailures \in Nat
\* The steps that validation admits: a weight is a share of MaxWeight.
ASSUME StrategyAssumption ==
    \A s \in Strategies :
        /\ s \in StrategyType /\ s.steps # << >>
        /\ \A i \in DOMAIN s.steps :
              s.steps[i].kind = "setWeight" => s.steps[i].value <= MaxWeight

VARIABLES
    strategy,      \* spec.strategy.canary
    spec,          \* the rest of the spec: template, replicas, paused
    status,        \* Rollout.status as the API server stores it
    canarySvc,     \* the selector hash of the canary Service
    stableSvc,     \* the selector hash of the stable Service
    weight,        \* what the router sends to the canary Service, of 100
    rs,            \* the ReplicaSets, by hash
    runs,          \* the AnalysisRuns, by id
    pauseElapsed,  \* the duration of the pause step has passed
    pc,            \* the stage the controller is about to run, or "idle"
    pass,          \* rolloutContext and pauseContext of the current pass
    client,        \* the patches a kubectl promote has yet to send
    resumed,       \* history: a user resumed the controller's last pause
    budget         \* what is left of the Max... bounds

vars == <<strategy, spec, status, canarySvc, stableSvc, weight, rs, runs,
          pauseElapsed, pc, pass, client, resumed, budget>>
services == <<canarySvc, stableSvc>>
user == <<strategy, spec, client, resumed, budget>>

-----------------------------------------------------------------------------
(* The objects.                                                            *)

CanaryPause == "CanaryPauseStep"
Inconclusive == "InconclusiveAnalysisRun"
PauseReason == {CanaryPause, Inconclusive}
Background == -1     \* the step index of a background run

Deadlines == {"none", "pending", "expired"}
Phases == {"none", "Running", "Successful", "Failed", "Inconclusive"}
Completed == {"Successful", "Failed", "Inconclusive"}

SpecType == [template : Hash \cup {NoHash}, replicas : Nat, paused : BOOLEAN]
WeightsType == [canary : Nat, canaryHash : Hash \cup {NoHash},
                stableHash : Hash \cup {NoHash}]
StatusType == [stableRS : Hash \cup {NoHash}, currentPodHash : Hash \cup {NoHash},
               step : Nat, pauses : SUBSET PauseReason, controllerPause : BOOLEAN,
               abort : BOOLEAN, promoteFull : BOOLEAN, weights : WeightsType,
               stepRun : 0..MaxRuns, stepPhase : Phases, backRun : 0..MaxRuns]
ReplicaSetType == [exists : BOOLEAN, spec : Nat, avail : Nat, desired : Nat,
                   deadline : Deadlines, revision : Nat]
\* The status patch of a promote: of the step, the pauses or promoteFull
ClientType == [patch : {"none", "resume", "inconclusive", "step", "promoteFull"},
               step : Nat, unpause : BOOLEAN]
RunType == [step : {Background} \cup Nat, hash : Hash \cup {NoHash}, revision : Nat,
            phase : Phases, terminate : BOOLEAN]

NoWeights == [canary |-> 0, canaryHash |-> NoHash, stableHash |-> NoHash]
NoStatus == [stableRS |-> NoHash, currentPodHash |-> NoHash, step |-> 0,
             pauses |-> {}, controllerPause |-> FALSE, abort |-> FALSE,
             promoteFull |-> FALSE, weights |-> NoWeights, stepRun |-> 0,
             stepPhase |-> "none", backRun |-> 0]
NoReplicaSet == [exists |-> FALSE, spec |-> 0, avail |-> 0, desired |-> 0,
                 deadline |-> "none", revision |-> 0]
NoRun == [step |-> Background, hash |-> NoHash, revision |-> 0, phase |-> "none",
          terminate |-> FALSE]
NoClient == [patch |-> "none", step |-> 0, unpause |-> FALSE]
NoPass == [spec |-> [template |-> NoHash, replicas |-> 0, paused |-> FALSE],
           status |-> NoStatus, rs |-> [h \in Hash |-> NoReplicaSet],
           runs |-> [i \in RunIds |-> NoRun], dirty |-> {}, scaling |-> FALSE,
           weights |-> NoWeights, stepRun |-> 0, backRun |-> 0, addPauses |-> {},
           addAbort |-> FALSE, removeAbort |-> FALSE, visited |-> {},
           maxScaleDown |-> 0, scaledOld |-> FALSE]

-----------------------------------------------------------------------------
(* What a pass decides from its snapshot.                                  *)

New == pass.spec.template        \* c.newRS
Stable == pass.status.stableRS   \* c.stableRS
NewRS == pass.rs[New]
StableRS == pass.rs[Stable]
Replicas == pass.spec.replicas
Paused(reason) == reason \in pass.status.pauses

Steps == strategy.steps
Index == pass.status.step
\* GetCurrentCanaryStep: there is none once the steps are completed
StepIs(kind) == Index < Len(Steps) /\ Steps[Index + 1].kind = kind

\* haltProgress
HaltProgress == pass.spec.paused \/ Paused(Inconclusive)

\* pauseContext.IsAborted
IsAborted == ~pass.removeAbort /\ (pass.addAbort \/ pass.status.abort)

\* rolloututil.IsFullyPromoted
IsFullyPromoted(s) == s.stableRS = s.currentPodHash

\* replicasetutil.PodTemplateOrStepsChanged; the steps do not change
PodTemplateChanged == pass.status.currentPodHash # New

\* rolloututil.IsDynamicallyRollingBackToStable
IsDynamicallyRollingBackToStable ==
    /\ IsFullyPromoted(pass.status) /\ strategy.dynamic
    /\ pass.status.weights.canaryHash # New
    /\ NewRS.avail < Replicas

\* defaults.HasExplicitAbortScaleDownDelay
HasExplicitAbortScaleDownDelay == strategy.abortDelay = "set"

\* shouldDelayScaleDownOnAbort
ShouldDelayScaleDownOnAbort ==
    /\ IsAborted /\ strategy.abortDelay # "zero"
    /\ strategy.dynamic => HasExplicitAbortScaleDownDelay

-----------------------------------------------------------------------------
(* Weights and sizes (utils/replicaset/canary.go).                         *)

StepsUpTo(n, kinds) == {i \in 1..n : Steps[i].kind \in kinds}

\* The last setWeight among the first n steps, 0 if there is none
WeightUpTo(n) ==
    LET set == StepsUpTo(n, {"setWeight"})
    IN IF set = {} THEN 0 ELSE Steps[Max(set)].value

\* GetCurrentSetWeight
GetCurrentSetWeight ==
    CASE pass.status.abort -> 0
      [] ~pass.status.abort /\ Index >= Len(Steps) -> MaxWeight
      [] ~pass.status.abort /\ Index < Len(Steps) -> WeightUpTo(Index + 1)

\* Mutant: the weight that the canary's pods just serve is kept.
DesiredCanaryWeightKept ==
    LET canaryReplicas == Higher(Replicas - StableRS.avail, NewRS.avail)
        below == {i \in StepsUpTo(Len(Steps), {"setWeight"}) :
                    WeightToReplicas(Replicas, Steps[i].value) <= canaryReplicas}
    IN IF ~(pass.status.abort /\ strategy.dynamic) THEN GetCurrentSetWeight
       ELSE IF below = {} THEN 0 ELSE Steps[Max(below)].value

(* GetDesiredCanaryWeight: an abort with dynamicStableScale goes back       *)
(* through the steps, as the stable ReplicaSet grows and the canary drains. *)
GetDesiredCanaryWeight ==
    LET expected == Replicas - StableRS.avail
        canaryReplicas == IF HasExplicitAbortScaleDownDelay THEN expected
                          ELSE Higher(expected, NewRS.avail)
        below == {i \in StepsUpTo(Len(Steps), {"setWeight"}) :
                    WeightToReplicas(Replicas, Steps[i].value) < canaryReplicas}
    IN IF ~(pass.status.abort /\ strategy.dynamic) THEN GetCurrentSetWeight
       ELSE IF below = {} THEN 0 ELSE Steps[Max(below)].value

\* UseSetCanaryScale: the set of the one step whose replicas count, or {}
UseSetCanaryScale ==
    LET scales == StepsUpTo(Index + 1, {"setScale", "matchWeight"})
    IN IF \/ pass.status.abort /\ strategy.abortDelay # "zero"
          \/ Index >= Len(Steps)
          \/ scales = {}
       THEN {} ELSE {i \in {Max(scales)} : Steps[i].kind = "setScale"}

\* CalculateReplicaCountsForTrafficRoutedCanary, with the weights in w, a
\* singleton, or without any, {}; minPodsPerReplicaSet is 1
ReplicaCountsFor(w) ==
    LET full == pass.status.promoteFull \/ IsFullyPromoted(pass.status)
        scale == IF full THEN {} ELSE UseSetCanaryScale
        \* GetCanaryReplicasOrWeight
        desired == CASE full -> MaxWeight
                     [] ~full /\ scale # {} -> 0
                     [] ~full /\ scale = {} -> GetDesiredCanaryWeight
        Sized(n) == WeightToReplicas(Replicas, n)
        canary == IF scale # {} THEN Steps[Max(scale)].value ELSE Sized(desired)
        canaries == {canary} \cup (IF pass.status.abort
                                   THEN {Sized(x.canary) : x \in w} ELSE {})
        stables == {Sized(MaxWeight - desired)}
                     \cup {Sized(MaxWeight - x.canary) : x \in w}
    IN IF strategy.dynamic THEN [canary |-> Max(canaries), stable |-> Max(stables)]
                           ELSE [canary |-> canary, stable |-> Replicas]

\* AtDesiredReplicaCountsForCanary
AtDesiredReplicaCounts(w) ==
    LET want == ReplicaCountsFor(w)
    IN /\ ThresholdMet(strategy.threshold, NewRS, want.canary)
       /\ strategy.dynamic \/ StableRS.spec = want.stable

\* Mutant: the stable ReplicaSet needs a pod to spare.
CanTakeMoreThanTheRest(w) == StableRS.avail > ((MaxWeight - w) * Replicas) \div MaxWeight

\* checkReplicasAvailable: the stable ReplicaSet can take the rest
CanTakeTheRest(w) ==
    LET n == ((MaxWeight - w) * Replicas) \div MaxWeight
    IN StableRS.avail >= n \/ ThresholdMet(strategy.threshold, StableRS, n)

\* calculateDesiredWeightOnAbortOrStableRollback
DesiredWeightOnAbort ==
    LET desired == GetDesiredCanaryWeight
        current == pass.status.weights.canary
        stableWeight == (MaxWeight * StableRS.avail) \div Replicas
    IN IF ~strategy.dynamic THEN 0
       ELSE IF desired <= 0 THEN Lower(Higher(0, MaxWeight - stableWeight), current)
       ELSE IF stableWeight < MaxWeight - desired THEN current
       ELSE Lower(desired, current)

\* Mutant: a canary that is not ready for its weight gets it.
DesiredWeightAtOnce ==
    CASE IsDynamicallyRollingBackToStable -> DesiredWeightOnAbort
      [] OTHER ->
         CASE IsFullyPromoted(pass.status) -> 0
           [] ~IsFullyPromoted(pass.status) /\ IsAborted -> DesiredWeightOnAbort
           [] OTHER -> GetCurrentSetWeight

\* reconcileTrafficRouting: the weight this pass wants, in the code's order
DesiredWeight ==
    IF IsDynamicallyRollingBackToStable THEN DesiredWeightOnAbort
    ELSE IF IsFullyPromoted(pass.status) THEN 0
    ELSE IF IsAborted THEN DesiredWeightOnAbort
    ELSE IF NewRS.avail = 0 THEN 0
    ELSE IF pass.status.promoteFull
         THEN IF strategy.dynamic THEN (MaxWeight * NewRS.avail) \div Replicas
                                  ELSE pass.status.weights.canary
    ELSE IF ~AtDesiredReplicaCounts({}) THEN WeightUpTo(Index)
    ELSE GetCurrentSetWeight

\* otherRSs: neither new nor stable
IsOther(h) == pass.rs[h].exists /\ h \notin {New, Stable}

\* Mutant: the live Services are not asked.
IsReferencedByStatus(h) ==
    h \in {pass.status.stableRS, pass.status.currentPodHash}

\* isReplicaSetReferenced: by the status of the snapshot or by a live Service
IsReplicaSetReferenced(h) ==
    h \in {pass.status.stableRS, pass.status.currentPodHash, canarySvc, stableSvc,
           pass.status.weights.canaryHash, pass.status.weights.stableHash}

-----------------------------------------------------------------------------
(* How a pass starts, writes a ReplicaSet and ends.                        *)

EndPass == pc' = "idle" /\ pass' = NoPass

GoTo(stage) == pc' = stage /\ pass' = pass

\* Where the scaling leaves off: it changed a size, or it did not.
Scaled == "sync"
NotScaled == IF pass.scaling THEN "sync" ELSE "pause"

NeedsScale(h, n) == pass.rs[h].spec # n \/ pass.rs[h].desired # Replicas

(* The Update of ReplicaSet h to n replicas (scaleReplicaSet).  It is       *)
(* refused with a conflict when h was written after the snapshot.          *)
Write(h, n) ==
    /\ h \notin pass.dirty
    /\ rs' = [rs EXCEPT ![h].spec = n,
                        ![h].desired = Replicas,
                        ![h].deadline = IF n = 0 /\ ~ShouldDelayScaleDownOnAbort
                                        THEN "none" ELSE @]

\* scaleReplicaSetAndRecordEvent; only a change of size stops the pass
ScaleReplicaSet(h, n, stage) ==
    \/ /\ ~NeedsScale(h, n)
       /\ UNCHANGED rs /\ GoTo(stage)
    \/ /\ NeedsScale(h, n) /\ Write(h, n)
       /\ pc' = IF pass.rs[h].spec # n THEN Scaled ELSE stage
       /\ pass' = [pass EXCEPT !.dirty = @ \cup {h}]
    \/ /\ NeedsScale(h, n) /\ h \in pass.dirty
       /\ UNCHANGED rs /\ EndPass

\* A JSON patch of h's scale-down-deadline, which no conflict stops.
PatchDeadline(h, d) == rs' = [rs EXCEPT ![h].deadline = d]

-----------------------------------------------------------------------------
(* The stages of a pass.                                                   *)

NextRevision(h) ==
    LET others == Max({0} \cup {rs[g].revision : g \in Hash \ {h}})
    IN IF rs[h].revision < 1 + others THEN 1 + others ELSE rs[h].revision

(* newRolloutContext when the template has no ReplicaSet: create it with 0 *)
(* replicas (createDesiredReplicaSet) and leave the rest to the next pass. *)
CreateReplicaSet ==
    /\ pc = "idle" /\ ~rs[spec.template].exists
    /\ rs' = [rs EXCEPT ![spec.template] =
                [NoReplicaSet EXCEPT !.exists = TRUE, !.desired = spec.replicas,
                                     !.revision = NextRevision(spec.template)]]
    /\ UNCHANGED <<user, status, services, weight, runs, pauseElapsed, pc, pass>>

\* isScalingEvent: a scaled-up new or stable ReplicaSet with a stale annotation
IsScalingEvent ==
    \E h \in {spec.template, status.stableRS} :
        rs[h].spec > 0 /\ rs[h].desired # spec.replicas

(* newRolloutContext, isScalingEvent and the syncReplicaSets stage: the     *)
(* snapshot, with the new ReplicaSet's revision made the greatest.  A new  *)
(* template goes straight to the status sync (syncRevisionOnChange).       *)
BeginPass ==
    /\ pc = "idle" /\ rs[spec.template].exists
    /\ rs' = [rs EXCEPT ![spec.template].revision = NextRevision(spec.template)]
    /\ pass' = [NoPass EXCEPT
            !.spec = spec, !.status = status, !.rs = rs', !.runs = runs,
            !.scaling = IsScalingEvent, !.weights = status.weights,
            !.stepRun = status.stepRun, !.backRun = status.backRun,
            !.removeAbort = IsFullyPromoted(status) /\ status.abort]
    /\ pc' = CASE IsScalingEvent -> "removeDeadlines"
               [] ~IsScalingEvent /\ status.currentPodHash # spec.template -> "sync"
               [] ~IsScalingEvent /\ status.currentPodHash = spec.template -> "stableService"
    /\ UNCHANGED <<user, status, services, weight, runs, pauseElapsed>>

\* ensureSVCTargets, with the check that a pod of h is available
SwitchedTo(svc, h) == IF pass.rs[h].avail > 0 THEN h ELSE svc

(* reconcileStableAndCanaryService: the stable Service, then the canary's.  *)
ReconcileStableService ==
    /\ pc = "stableService"
    /\ stableSvc' = SwitchedTo(stableSvc, Stable)
    /\ GoTo("canaryService")
    /\ UNCHANGED <<user, status, canarySvc, weight, rs, runs, pauseElapsed>>

ReconcileCanaryService ==
    /\ pc = "canaryService"
    /\ canarySvc' = IF IsDynamicallyRollingBackToStable THEN canarySvc
                    ELSE SwitchedTo(canarySvc, New)
    /\ GoTo("abortService")
    /\ UNCHANGED <<user, status, stableSvc, weight, rs, runs, pauseElapsed>>

(* reconcileTrafficRouting, aborted: the canary Service selects the stable  *)
(* version, at once or, with dynamicStableScale, once the weight is 0.     *)
ResetCanaryServiceOnAbort ==
    /\ pc = "abortService"
    /\ canarySvc' = IF /\ ~IsFullyPromoted(pass.status) /\ IsAborted
                       /\ strategy.dynamic => DesiredWeight = 0
                    THEN Stable ELSE canarySvc
    /\ GoTo("trafficRouting")
    /\ UNCHANGED <<user, status, stableSvc, weight, rs, runs, pauseElapsed>>

(* reconcileTrafficRouting: SetWeight, and the weights of the new status.   *)
ReconcileTrafficRouting ==
    /\ pc = "trafficRouting"
    /\ pc' = "analysis"
    /\ \/ /\ CanTakeTheRest(DesiredWeight)
          /\ weight' = DesiredWeight
          /\ pass' = [pass EXCEPT !.weights =
                [canary |-> DesiredWeight, stableHash |-> Stable,
                 canaryHash |-> IF IsDynamicallyRollingBackToStable
                                THEN pass.status.weights.canaryHash ELSE New]]
       \/ ~CanTakeTheRest(DesiredWeight) /\ UNCHANGED <<weight, pass>>
    /\ UNCHANGED <<user, status, services, rs, runs, pauseElapsed>>

-----------------------------------------------------------------------------
(* reconcileAnalysisRuns.                                                  *)

ShouldCancelCurrentAnalysis ==
    IsFullyPromoted(pass.status) \/ IsAborted \/ pass.status.promoteFull

\* needsNewAnalysisRun; abortedAt and abort change together
NeedsNewAnalysisRun(id) ==
    id # 0 => IF pass.status.controllerPause /\ ~Paused(CanaryPause)
              THEN pass.runs[id].phase = "Inconclusive"
              ELSE pass.status.abort

(* CreateWithCollisionCounter: the run of this name that is still in        *)
(* progress, terminating or not, else a new one.                           *)
InProgress(step) ==
    {i \in RunIds : /\ runs[i].step = step /\ runs[i].hash = New
                    /\ runs[i].revision = NewRS.revision
                    /\ runs[i].phase = "Running"}
FreeIds == {i \in RunIds : runs[i].phase = "none"}
CreateIds(step) == IF InProgress(step) # {} THEN InProgress(step) ELSE FreeIds
Created(view, step, i) ==
    IF i \in InProgress(step) THEN view
    ELSE [view EXCEPT ![i] = [step |-> step, hash |-> New, revision |-> NewRS.revision,
                              phase |-> "Running", terminate |-> FALSE]]

\* cancelAnalysisRuns
Cancelled(view, ids) ==
    [i \in RunIds |-> IF i \in ids /\ pass.runs[i].phase = "Running"
                      THEN [view[i] EXCEPT !.terminate = TRUE] ELSE view[i]]

\* What a run's phase asks of the pause context
Verdict(ctx, id) ==
    LET phase == IF id = 0 THEN "none" ELSE pass.runs[id].phase
    IN [ctx EXCEPT !.addPauses = IF phase = "Inconclusive" THEN @ \cup {Inconclusive} ELSE @,
                   !.addAbort = @ \/ phase = "Failed"]

\* reconcileStepBasedAnalysisRun: keep the run, stop it, or see to a run
KeepsStepRun == pass.status.pauses # {} \/ pass.status.abort
HasStepRun ==
    /\ StepIs("analysis")
    /\ pass.stepRun # 0 => pass.runs[pass.stepRun].step = Index

ReconcileStepBasedAnalysisRun ==
    /\ pc = "analysis" /\ ~ShouldCancelCurrentAnalysis
    /\ pc' = "backgroundAnalysis"
    /\ \/ KeepsStepRun /\ UNCHANGED <<runs, pass>>
       \/ /\ ~KeepsStepRun /\ ~HasStepRun
          /\ runs' = Cancelled(runs, {pass.stepRun})
          /\ pass' = [pass EXCEPT !.stepRun = 0]
       \/ /\ ~KeepsStepRun /\ HasStepRun /\ NeedsNewAnalysisRun(pass.stepRun)
          /\ \E i \in CreateIds(Index) :
               /\ runs' = Created(runs, Index, i)
               /\ pass' = [pass EXCEPT !.stepRun = i, !.runs[i] = runs'[i]]
       \/ /\ ~KeepsStepRun /\ HasStepRun /\ ~NeedsNewAnalysisRun(pass.stepRun)
          /\ pass' = Verdict(pass, pass.stepRun)
          /\ UNCHANGED runs
    /\ UNCHANGED <<user, status, services, weight, rs, pauseElapsed>>

\* reconcileBackgroundAnalysisRun: before its first step there is none
HasBackgroundRun == strategy.background /\ Index >= strategy.startingStep

ReconcileBackgroundAnalysisRun ==
    /\ pc = "backgroundAnalysis" /\ pc' = "otherRuns"
    /\ \/ /\ ~HasBackgroundRun
          /\ pass' = [pass EXCEPT !.backRun = 0]
          /\ UNCHANGED runs
       \/ HasBackgroundRun /\ Paused(Inconclusive) /\ UNCHANGED <<runs, pass>>
       \/ /\ HasBackgroundRun /\ ~Paused(Inconclusive) /\ NeedsNewAnalysisRun(pass.backRun)
          /\ \E i \in CreateIds(Background) :
               /\ runs' = Created(runs, Background, i)
               /\ pass' = [pass EXCEPT !.backRun = i, !.runs[i] = runs'[i]]
       \/ /\ HasBackgroundRun /\ ~Paused(Inconclusive) /\ ~NeedsNewAnalysisRun(pass.backRun)
          /\ pass' = Verdict(pass, pass.backRun)
          /\ UNCHANGED runs
    /\ UNCHANGED <<user, status, services, weight, rs, pauseElapsed>>

(* An update that is over, aborted or promoted in full cancels its runs.    *)
CancelCurrentAnalysis ==
    /\ pc = "analysis" /\ ShouldCancelCurrentAnalysis
    /\ runs' = Cancelled(runs, {pass.stepRun, pass.backRun})
    /\ pass' = [pass EXCEPT !.stepRun = 0, !.backRun = 0]
    /\ pc' = "otherRuns"
    /\ UNCHANGED <<user, status, services, weight, rs, pauseElapsed>>

\* Mutant: the runs of a template that was replaced are left alone.
TidiedOfNew(id) ==
    LET other == runs[id].hash = New /\ id \notin {pass.status.stepRun,
                    pass.status.backRun, pass.stepRun, pass.backRun}
    IN CASE other /\ pass.runs[id].phase = "Running" -> [runs[id] EXCEPT !.terminate = TRUE]
         [] other /\ pass.runs[id].phase \in Completed -> NoRun
         [] OTHER -> runs[id]

\* c.otherArs, which are cancelled, and deleted once completed (both history
\* limits are 0): current neither in the snapshot nor now
Tidied(id) ==
    LET other == id \notin {pass.status.stepRun, pass.status.backRun,
                            pass.stepRun, pass.backRun}
    IN CASE other /\ pass.runs[id].phase = "Running" -> [runs[id] EXCEPT !.terminate = TRUE]
         [] other /\ pass.runs[id].phase \in Completed -> NoRun
         [] OTHER -> runs[id]

(* The other runs; then a new pause stops the stages.                       *)
ReconcileOtherRuns ==
    /\ pc = "otherRuns"
    /\ runs' = [i \in RunIds |-> Tidied(i)]
    /\ GoTo(IF pass.addPauses # {} THEN "sync" ELSE "removeDeadlines")
    /\ UNCHANGED <<user, status, services, weight, rs, pauseElapsed>>

-----------------------------------------------------------------------------
(* reconcileCanaryReplicaSets.                                             *)

(* removeScaleDownDeadlines, one patch at a time. *)
DeadlinesToRemove ==
    {h \in {Stable} \cup (IF ShouldDelayScaleDownOnAbort THEN {} ELSE {New}) :
        pass.rs[h].deadline # "none"}

RemoveScaleDownDeadlines ==
    /\ pc = "removeDeadlines"
    /\ \/ HaltProgress /\ GoTo(NotScaled) /\ UNCHANGED rs
       \/ ~HaltProgress /\ DeadlinesToRemove = {} /\ GoTo("scaleStable") /\ UNCHANGED rs
       \/ /\ ~HaltProgress
          /\ \E h \in DeadlinesToRemove :
               /\ New \in DeadlinesToRemove => h = New
               /\ PatchDeadline(h, "none")
               /\ pass' = [pass EXCEPT !.rs[h].deadline = "none", !.dirty = @ \cup {h}]
               /\ pc' = pc
    /\ UNCHANGED <<user, status, services, weight, runs, pauseElapsed>>

\* The weights of the snapshot: the stable size lags behind the router.
StableReplicas == ReplicaCountsFor({pass.status.weights}).stable

\* reconcileCanaryStableReplicaSet
ReconcileStableReplicaSet ==
    /\ pc = "scaleStable"
    /\ IF Stable = New THEN GoTo("scaleNew") /\ UNCHANGED rs
                       ELSE ScaleReplicaSet(Stable, StableReplicas, "scaleNew")
    /\ UNCHANGED <<user, status, services, weight, runs, pauseElapsed>>

\* NewRSNewReplicas, with the weights of the new status
NewReplicas == ReplicaCountsFor({pass.weights}).canary

(* syncNewRSReplicasAnnotation: an Update that keeps the size, after which  *)
(* c.newRS is the object the Update returned and not stale.                *)
CanAnnotateNew == NewRS.desired # Replicas => New \notin pass.dirty

(* reconcileNewReplicaSet, aborted, no deadline yet: hold the size, and     *)
(* start the delay once the stable ReplicaSet can serve all the traffic.    *)
StartAbortScaleDownDelay ==
    LET ready == StableRS.avail >= Replicas
    IN /\ rs' = [rs EXCEPT ![New].desired = Replicas,
                           ![New].deadline = IF ready THEN "pending" ELSE @]
       /\ pass' = [pass EXCEPT !.rs[New].desired = Replicas,
                               !.dirty = IF ready THEN @ \cup {New} ELSE @]
       /\ pc' = "cleanup"

(* reconcileNewReplicaSet, aborted, before the deadline: only the           *)
(* annotation is brought up to date.                                       *)
WaitAbortScaleDownDelay ==
    /\ rs' = [rs EXCEPT ![New].desired = Replicas]
    /\ pass' = [pass EXCEPT !.rs[New].desired = Replicas]
    /\ pc' = "cleanup"

AbortDelayOf(d) == ShouldDelayScaleDownOnAbort /\ NewRS.deadline = d

ReconcileNewReplicaSet ==
    /\ pc = "scaleNew"
    /\ \/ AbortDelayOf("none") /\ CanAnnotateNew /\ StartAbortScaleDownDelay
       \/ AbortDelayOf("pending") /\ CanAnnotateNew /\ WaitAbortScaleDownDelay
       \/ /\ AbortDelayOf("none") \/ AbortDelayOf("pending")
          /\ ~CanAnnotateNew
          /\ UNCHANGED rs /\ EndPass
       \/ AbortDelayOf("expired") /\ ScaleReplicaSet(New, 0, "cleanup")
       \/ ~ShouldDelayScaleDownOnAbort /\ ScaleReplicaSet(New, NewReplicas, "cleanup")
    /\ UNCHANGED <<user, status, services, weight, runs, pauseElapsed>>

(* cleanupUnhealthyReplicas: an old ReplicaSet gives up the pods that are   *)
(* not available, one at a time.  Pods still to stop, or a conflict, end   *)
(* the scaling of the old ReplicaSets, not the pass.                       *)
ToCleanUp == {h \in Hash : IsOther(h) /\ pass.rs[h].spec > 0
                           /\ pass.rs[h].avail # pass.rs[h].spec}
AvailablePods == UNION {{h} \X (1..pass.rs[h].avail) : h \in Hash}
Available == Cardinality(AvailablePods)
Quarter == [percent |-> TRUE, value |-> 25]   \* both default to 25%
LeastAvailable == Replicas - MaxUnavailable(Quarter, Quarter, Replicas)

CleanupUnhealthyReplicas ==
    /\ pc = "cleanup"
    /\ \/ /\ ToCleanUp = {} /\ Available <= LeastAvailable
          /\ GoTo(NotScaled) /\ UNCHANGED rs
       \/ /\ ToCleanUp = {} /\ Available > LeastAvailable
          /\ pc' = "scaleOthers"
          /\ pass' = [pass EXCEPT !.maxScaleDown = Available - LeastAvailable]
          /\ UNCHANGED rs
       \/ \E h \in ToCleanUp :
            /\ pass.rs[h].avail < pass.rs[h].spec
            /\ Write(h, pass.rs[h].avail)
            /\ pass' = [pass EXCEPT !.rs[h].spec = pass.rs[h].avail, !.scaledOld = TRUE]
            /\ pc' = pc
       \/ \E h \in ToCleanUp :
            /\ pass.rs[h].avail > pass.rs[h].spec \/ h \in pass.dirty
            /\ GoTo(IF pass.scaledOld THEN Scaled ELSE NotScaled) /\ UNCHANGED rs
    /\ UNCHANGED <<user, status, services, weight, runs, pauseElapsed>>

\* Mutant: the deadline of an old version starts over with every pass.
OldReplicasForever(h) == pass.rs[h].spec

\* scaleDownDelayHelper with the default delay and no revision limit
OldReplicas(h) ==
    LET delayed == IsFullyPromoted(pass.status) \/ pass.rs[h].deadline # "none"
    IN IF ~strategy.dynamic /\ delayed /\ pass.rs[h].deadline # "expired"
       THEN pass.rs[h].spec ELSE 0

StartsScaleDownDelay(h) == /\ ~strategy.dynamic /\ IsFullyPromoted(pass.status)
                           /\ pass.rs[h].deadline = "none"

OldToScaleDown == {h \in Hash \ pass.visited : /\ IsOther(h) /\ pass.rs[h].spec > 0
                                               /\ ~IsReplicaSetReferenced(h)}

(* scaleDownOldReplicaSetsForCanary, one old ReplicaSet at a time, the      *)
(* latest revision first.  A conflict ends the loop, not the pass.         *)
ReconcileOtherReplicaSets ==
    /\ pc = "scaleOthers"
    /\ \/ /\ OldToScaleDown = {} \/ pass.maxScaleDown <= 0
          /\ GoTo(IF pass.scaledOld THEN Scaled ELSE NotScaled) /\ UNCHANGED rs
       \/ /\ pass.maxScaleDown > 0
          /\ \E h \in OldToScaleDown :
               LET n == OldReplicas(h)
                   scales == n # pass.rs[h].spec
                   refused == scales /\ h \in pass.dirty
               IN /\ \A g \in OldToScaleDown : pass.rs[g].revision <= pass.rs[h].revision
                  /\ IF scales THEN Write(h, n) \/ (refused /\ UNCHANGED rs)
                     ELSE IF StartsScaleDownDelay(h) THEN PatchDeadline(h, "pending")
                     ELSE UNCHANGED rs
                  /\ IF refused THEN GoTo(NotScaled)
                     ELSE /\ pc' = pc
                          /\ pass' = [pass EXCEPT
                                !.visited = @ \cup {h},
                                !.scaledOld = @ \/ scales,
                                !.maxScaleDown = @ - (pass.rs[h].spec - n)]
    /\ UNCHANGED <<user, status, services, weight, runs, pauseElapsed>>

(* Any other error ends them as well: scaleDownOldReplicaSetsForCanary and  *)
(* reconcileOtherReplicaSets hide it, and the pass goes on.                *)
OthersFail ==
    /\ budget.passes > 0 /\ budget' = [budget EXCEPT !.passes = @ - 1]
    /\ \/ /\ pc = "cleanup" /\ ToCleanUp # {}
          /\ GoTo(IF pass.scaledOld THEN Scaled ELSE NotScaled)
       \/ /\ pc = "scaleOthers" /\ pass.maxScaleDown > 0 /\ OldToScaleDown # {}
          /\ GoTo(NotScaled)
    /\ UNCHANGED <<strategy, spec, client, resumed, status, services, weight, rs, runs,
                   pauseElapsed>>

-----------------------------------------------------------------------------
(* reconcileCanaryPause, syncRolloutStatusCanary, persistRolloutStatus.    *)

IsPauseStep == StepIs("pause") \/ StepIs("wait")

ReconcileCanaryPause ==
    /\ pc = "pause" /\ pc' = "sync"
    /\ LET starts == /\ ~pass.spec.paused /\ ~pass.status.promoteFull /\ IsPauseStep
                     /\ ~Paused(CanaryPause) /\ ~pass.status.controllerPause
       IN pass' = IF starts THEN [pass EXCEPT !.addPauses = @ \cup {CanaryPause}] ELSE pass
    /\ UNCHANGED <<user, status, services, weight, rs, runs, pauseElapsed>>

\* Mutant: the pause still in place counts as resumed.
CompletedCanaryPauseEarly ==
    pass.status.controllerPause \/ (StepIs("wait") /\ Paused(CanaryPause) /\ pauseElapsed)

\* Mutant: a duration does not end the pause.
CompletedCanaryPauseByUser == pass.status.controllerPause /\ ~Paused(CanaryPause)

\* CompletedCanaryPauseStep
CompletedCanaryPause ==
    \/ pass.status.controllerPause /\ ~Paused(CanaryPause)
    \/ StepIs("wait") /\ Paused(CanaryPause) /\ pauseElapsed

\* Mutant: a completed run of any verdict completes the step.
CompletedStepRunAny == pass.stepRun # 0 /\ pass.runs[pass.stepRun].phase \in Completed

CompletedStepRun == pass.stepRun # 0 /\ pass.runs[pass.stepRun].phase = "Successful"

\* completedCurrentCanaryStep
CompletedCurrentCanaryStep ==
    /\ ~pass.spec.paused
    /\ \/ IsPauseStep /\ CompletedCanaryPause
       \/ \E kind \in {"setWeight", "setScale", "matchWeight"} :
            StepIs(kind) /\ AtDesiredReplicaCounts({pass.weights})
       \/ StepIs("analysis") /\ CompletedStepRun

Restarts == ~pass.scaling /\ PodTemplateChanged

\* RemoveAbort, on a changed template, promoteFull or a fully promoted Rollout
RemovesAbort ==
    pass.removeAbort \/ (~pass.scaling /\ (Restarts \/ pass.status.promoteFull))
Aborted == pass.addAbort \/ (pass.status.abort /\ ~RemovesAbort)

\* shouldFullPromote
ShouldFullPromote ==
    /\ ~Restarts /\ ~Aborted
    /\ NewRS.avail >= Replicas \/ ThresholdMet(strategy.threshold, NewRS, Replicas)
    /\ pass.status.promoteFull \/ New = Stable \/ Index = Len(Steps)

\* The index once promoteFull has skipped the steps
SkippedTo == IF pass.status.promoteFull THEN Len(Steps) ELSE Index

NextStep ==
    IF Restarts \/ Aborted THEN IF New = Stable THEN Len(Steps) ELSE 0
    ELSE IF ShouldFullPromote THEN Len(Steps)
    ELSE IF CompletedCurrentCanaryStep THEN SkippedTo + 1
    ELSE SkippedTo

\* CalculatePauseStatus: the pause conditions, once it is not aborted
PausesAfterSync ==
    IF Aborted \/ Restarts \/ ShouldFullPromote \/ pass.status.promoteFull THEN {}
    ELSE (pass.status.pauses \ (IF CompletedCurrentCanaryStep THEN {CanaryPause} ELSE {}))
           \cup (pass.addPauses \ pass.status.pauses)

FullStatus ==
    LET ends == ~Restarts /\ ~ShouldFullPromote /\ ~Aborted /\ CompletedCurrentCanaryStep
        stepRun == IF Restarts \/ ends THEN 0 ELSE pass.stepRun
    IN [stableRS |-> IF ShouldFullPromote THEN New ELSE Stable,
        currentPodHash |-> New,
        step |-> NextStep,
        pauses |-> PausesAfterSync,
        controllerPause |-> /\ PausesAfterSync # {}
                            /\ \/ pass.status.controllerPause
                               \/ pass.addPauses \ pass.status.pauses # {},
        abort |-> Aborted,
        promoteFull |-> pass.status.promoteFull /\ ~Restarts /\ ~ShouldFullPromote,
        weights |-> pass.weights,
        stepRun |-> stepRun,
        stepPhase |-> IF stepRun = 0 THEN "none" ELSE pass.runs[stepRun].phase,
        backRun |-> IF Restarts THEN 0 ELSE pass.backRun]

\* syncReplicasOnly carries the rest of the status over
ScalingStatus == [pass.status EXCEPT !.abort = Aborted]

NewStatus == IF pass.scaling THEN ScalingStatus ELSE FullStatus

(* The merge patch: a field the pass leaves as its snapshot shows it keeps  *)
(* whatever value the user gave it by now.                                 *)
Merged(new, old, live) ==
    [field \in DOMAIN new |-> IF new[field] = old[field] THEN live[field] ELSE new[field]]

SyncRolloutStatus ==
    /\ pc = "sync"
    /\ \E new \in {NewStatus} :
         /\ status' = Merged(new, pass.status, status)
         /\ pauseElapsed' = (pauseElapsed /\ CanaryPause \notin new.pauses \ pass.status.pauses)
         /\ resumed' = IF status'.controllerPause /\ new.pauses \subseteq pass.status.pauses
                       THEN resumed ELSE FALSE
    /\ EndPass
    /\ UNCHANGED <<strategy, spec, client, budget, services, weight, rs, runs>>

(* An API error, a refused patch or a crash of the controller.             *)
PassFails ==
    /\ pc # "idle" /\ budget.passes > 0
    /\ budget' = [budget EXCEPT !.passes = @ - 1]
    /\ EndPass
    /\ UNCHANGED <<strategy, spec, client, resumed, status, services, weight, rs, runs,
                   pauseElapsed>>

-----------------------------------------------------------------------------
(* The cluster: pods, analysis runs and time.                              *)

\* The ReplicaSet controller updates the number of available pods.
SetAvailable(h, n) ==
    /\ rs' = [rs EXCEPT ![h].avail = n]
    /\ pass' = IF pc \in {"idle", "pause", "sync"} THEN pass
               ELSE [pass EXCEPT !.dirty = @ \cup {h}]

PodBecomesAvailable(h) ==
    /\ rs[h].avail < rs[h].spec
    /\ SetAvailable(h, rs[h].avail + 1)
    /\ UNCHANGED <<user, status, services, weight, runs, pauseElapsed, pc>>

PodsTerminate(h) ==
    /\ rs[h].avail > rs[h].spec
    /\ SetAvailable(h, rs[h].spec)
    /\ UNCHANGED <<user, status, services, weight, runs, pauseElapsed, pc>>

PodBecomesUnavailable(h) ==
    /\ rs[h].avail > 0 /\ budget.pods > 0
    /\ SetAvailable(h, rs[h].avail - 1)
    /\ budget' = [budget EXCEPT !.pods = @ - 1]
    /\ UNCHANGED <<strategy, spec, client, resumed, status, services, weight, runs,
                   pauseElapsed, pc>>

(* The analysis controller completes a run.  A terminated run without a     *)
(* failed measurement is Successful (assessRunStatus).                     *)
RunCompletes(i) ==
    /\ runs[i].phase = "Running"
    /\ \E phase \in Completed : runs' = [runs EXCEPT ![i].phase = phase]
    /\ UNCHANGED <<user, status, services, weight, rs, pauseElapsed, pc, pass>>

DeadlinePasses(h) ==
    /\ rs[h].deadline = "pending"
    /\ PatchDeadline(h, "expired")
    /\ UNCHANGED <<user, status, services, weight, runs, pauseElapsed, pc, pass>>

PauseElapses ==
    /\ CanaryPause \in status.pauses /\ ~pauseElapsed
    /\ status.step < Len(Steps) /\ Steps[status.step + 1].kind = "wait"
    /\ pauseElapsed' = TRUE
    /\ UNCHANGED <<user, status, services, weight, rs, runs, pc, pass>>

-----------------------------------------------------------------------------
(* The user, through the kubectl plugin or an edit of the spec.            *)

UserMay(a) ==
    /\ a \in UserActions /\ budget.user > 0
    /\ budget' = [budget EXCEPT !.user = @ - 1]
    /\ UNCHANGED <<strategy, services, weight, rs, runs, pauseElapsed, pc, pass>>

\* Mutant: past the last step as well.
OneStepOnAndOn == status.step + 1

\* One step on, but not past the last (kubectl argo rollouts promote)
OneStepOn == Lower(status.step + 1, Len(Steps))

(* kubectl argo rollouts promote, with and without --full, gets the Rollout *)
(* and computes its patches: past an inconclusive analysis step, else      *)
(* resume, else one step on.  One command is under way at a time.          *)
Promote ==
    /\ UserMay("promote")
    /\ LET paused == status.pauses # {}
           inconclusive == /\ status.stepPhase = "Inconclusive"
                           /\ paused /\ status.controllerPause
       IN client' = [patch |-> CASE inconclusive -> "inconclusive"
                                 [] ~inconclusive /\ paused -> "resume"
                                 [] ~inconclusive /\ ~paused -> "step",
                     step |-> OneStepOn, unpause |-> spec.paused]
    /\ UNCHANGED <<spec, status, resumed>>

PromoteFull ==
    /\ UserMay("promoteFull") /\ (~IsFullyPromoted(status) \/ spec.paused)
    /\ client' = [NoClient EXCEPT !.patch = IF IsFullyPromoted(status) THEN "none"
                                            ELSE "promoteFull",
                                  !.unpause = spec.paused]
    /\ UNCHANGED <<spec, status, resumed>>

(* It patches the status first: the step is the one after the step it read, *)
(* the pauses it clears are those in place by now.                         *)
PatchStatus ==
    /\ client.patch # "none" /\ client' = [NoClient EXCEPT !.unpause = client.unpause]
    /\ \/ /\ client.patch = "promoteFull"
          /\ status' = [status EXCEPT !.promoteFull = TRUE]
          /\ UNCHANGED resumed
       \/ /\ client.patch # "promoteFull"
          /\ status' = [status EXCEPT
                !.pauses = {},
                !.step = IF client.patch = "resume" THEN @ ELSE client.step,
                !.controllerPause = @ /\ client.patch # "inconclusive"]
          /\ resumed' = (resumed \/ status.pauses # {})
    /\ UNCHANGED <<strategy, spec, budget, services, weight, rs, runs, pauseElapsed, pc, pass>>

PatchSpec ==
    /\ client.patch = "none" /\ client.unpause /\ client' = NoClient
    /\ spec' = [spec EXCEPT !.paused = FALSE]
    /\ UNCHANGED <<strategy, resumed, budget, status, services, weight, rs, runs,
                   pauseElapsed, pc, pass>>

Abort ==
    /\ UserMay("abort") /\ ~status.abort
    /\ status' = [status EXCEPT !.abort = TRUE]
    /\ UNCHANGED <<spec, client, resumed>>

Retry ==
    /\ UserMay("retry") /\ status.abort
    /\ status' = [status EXCEPT !.abort = FALSE]
    /\ UNCHANGED <<spec, client, resumed>>

Pause ==
    /\ UserMay("pause") /\ ~spec.paused
    /\ spec' = [spec EXCEPT !.paused = TRUE]
    /\ UNCHANGED <<status, client, resumed>>

SetTemplate(h) ==
    /\ UserMay("setTemplate") /\ h # spec.template
    /\ spec' = [spec EXCEPT !.template = h]
    /\ UNCHANGED <<status, client, resumed>>

Scale(n) ==
    /\ UserMay("scale") /\ n # spec.replicas
    /\ spec' = [spec EXCEPT !.replicas = n]
    /\ UNCHANGED <<status, client, resumed>>

-----------------------------------------------------------------------------
(* The specification.                                                      *)

\* A Rollout whose first version is fully promoted and gets all the traffic.
Init ==
    /\ strategy \in Strategies
    /\ \E h \in Hash, n \in ReplicaCounts :
         /\ spec = [template |-> h, replicas |-> n, paused |-> FALSE]
         /\ status = [NoStatus EXCEPT !.stableRS = h, !.currentPodHash = h,
                        !.step = Len(strategy.steps),
                        !.weights = [canary |-> 0, canaryHash |-> h, stableHash |-> h]]
         /\ canarySvc = h /\ stableSvc = h
         /\ rs = [g \in Hash |-> IF g = h
                    THEN [exists |-> TRUE, spec |-> n, avail |-> n, desired |-> n,
                          deadline |-> "none", revision |-> 1]
                    ELSE NoReplicaSet]
    /\ weight = 0
    /\ runs = [i \in RunIds |-> NoRun]
    /\ pauseElapsed = FALSE
    /\ pc = "idle" /\ pass = NoPass
    /\ client = NoClient /\ resumed = FALSE
    /\ budget \in [user : 0..MaxUserActions, pods : 0..MaxPodFailures,
                  passes : 0..MaxPassFailures]

Controller ==
    \/ CreateReplicaSet \/ BeginPass
    \/ ReconcileStableService \/ ReconcileCanaryService \/ ResetCanaryServiceOnAbort
    \/ ReconcileTrafficRouting
    \/ CancelCurrentAnalysis \/ ReconcileStepBasedAnalysisRun
    \/ ReconcileBackgroundAnalysisRun \/ ReconcileOtherRuns
    \/ RemoveScaleDownDeadlines \/ ReconcileStableReplicaSet \/ ReconcileNewReplicaSet
    \/ CleanupUnhealthyReplicas \/ ReconcileOtherReplicaSets
    \/ ReconcileCanaryPause \/ SyncRolloutStatus

Cluster ==
    \/ \E h \in Hash : \/ PodBecomesAvailable(h) \/ PodBecomesUnavailable(h)
                       \/ PodsTerminate(h) \/ DeadlinePasses(h)
    \/ \E i \in RunIds : RunCompletes(i)
    \/ PauseElapses

User ==
    \/ Promote \/ PromoteFull \/ PatchStatus \/ PatchSpec
    \/ Abort \/ Retry \/ Pause
    \/ \E h \in Hash : SetTemplate(h)
    \/ \E n \in ReplicaCounts : Scale(n)

Next == Controller \/ OthersFail \/ PassFails \/ Cluster \/ User

Spec == Init /\ [][Next]_vars

(* The work queue keeps calling the controller, pods of a scaled ReplicaSet *)
(* start and stop, runs complete and time passes.                          *)
Fairness ==
    /\ WF_vars(Controller)
    /\ \A h \in Hash : /\ WF_vars(PodBecomesAvailable(h))
                       /\ WF_vars(PodsTerminate(h))
                       /\ WF_vars(DeadlinePasses(h))
    /\ \A i \in RunIds : WF_vars(RunCompletes(i))
    /\ WF_vars(PauseElapses)

FairSpec == Spec /\ Fairness

-----------------------------------------------------------------------------
(* Properties.                                                             *)

Stages == {"stableService", "canaryService", "abortService", "trafficRouting",
           "analysis", "backgroundAnalysis", "otherRuns", "removeDeadlines",
           "scaleStable", "scaleNew", "cleanup", "scaleOthers", "pause", "sync"}

PassType == [spec : SpecType, status : StatusType, rs : [Hash -> ReplicaSetType],
             runs : [RunIds -> RunType], dirty : SUBSET Hash, scaling : BOOLEAN,
             weights : WeightsType, stepRun : 0..MaxRuns, backRun : 0..MaxRuns,
             addPauses : SUBSET PauseReason, addAbort : BOOLEAN, removeAbort : BOOLEAN,
             visited : SUBSET Hash, maxScaleDown : Int, scaledOld : BOOLEAN]

(* Every variable has its type, a step is at most one past the last, and no *)
(* ReplicaSet a Service or the status refers to is missing.                *)
TypeOK ==
    /\ strategy \in Strategies
    /\ spec \in SpecType /\ spec.template \in Hash
    /\ status \in StatusType /\ status.step <= Len(Steps) + 1
    /\ \A h \in {canarySvc, stableSvc, status.stableRS} : h \in Hash /\ rs[h].exists
    /\ weight \in Nat
    /\ rs \in [Hash -> ReplicaSetType]
    /\ runs \in [RunIds -> RunType]
    /\ pauseElapsed \in BOOLEAN /\ resumed \in BOOLEAN
    /\ client \in ClientType /\ client.step <= Len(Steps)
    /\ pc \in Stages \cup {"idle"}
    /\ pass \in PassType
    /\ budget \in [user : Nat, pods : Nat, passes : Nat]

(* The router gets a weight it can split: never more than all of it.  (With *)
(* dynamicStableScale a user who scales in during a full promotion breaks   *)
(* it, and so does a setCanaryScale to more pods than there are replicas.)  *)
WeightInRange == weight <= MaxWeight

\* What the router sends to version h
Share(h) == (IF canarySvc = h THEN weight ELSE 0)
              + (IF stableSvc = h THEN MaxWeight - weight ELSE 0)

(* Without dynamicStableScale, no pass takes from a version the pods its    *)
(* share of the traffic needs, once the stable Service selects the stable   *)
(* version (promoted, it may yet lose its last pod).  (Where a setWeight is *)
(* below an earlier one, or a setCanaryScale below the weight, the canary   *)
(* shrinks before its weight does; and where pods fail in the stable        *)
(* version too, one that a third replaced gives up pods with its weight.)   *)
CapacityFollowsTraffic ==
    [][ \A h \in Hash :
          (~strategy.dynamic /\ stableSvc = status.stableRS /\ rs'[h].spec < rs[h].spec)
             => rs'[h].spec >= WeightToReplicas(Replicas, Share(h)) ]_vars

(* Nor does the router send a step's new weight to a canary that did not    *)
(* have the pods for it when the pass began                                *)
(* (AtDesiredReplicaCountsForCanary).  The weight of an earlier step it may *)
(* get back without them: a retry after an abort that a crash cut short.    *)
CanaryReadyForMore ==
    [][ (~strategy.dynamic /\ weight' > weight /\ canarySvc # stableSvc
                           /\ weight' # WeightUpTo(Index))
          => pass.rs[canarySvc].avail >= WeightToReplicas(Replicas, weight') ]_vars

\* The step of a pass that goes on with the update, none of it skipped
MovesOn == /\ pc = "sync" /\ pc' = "idle" /\ ~pass.scaling /\ ~PodTemplateChanged
           /\ status'.step > pass.status.step /\ ~pass.status.promoteFull
           /\ ~IsFullyPromoted(pass.status)

(* An indefinite pause step ends only because a user cleared the conditions *)
(* of the controller's last pause, skipped the step or replaced the update. *)
(* (While an inconclusive analysis still pauses the Rollout,                *)
(* CompletedCanaryPauseStep takes its pause for one that was resumed.)      *)
PauseNeedsUser ==
    [][ MovesOn /\ StepIs("pause") /\ ~Paused(Inconclusive)
          => resumed \/ status.step # pass.status.step ]_vars

(* The traffic of an update grows past an analysis step only after a        *)
(* successful run of that step for that version.                           *)
StepNeedsAnalysis ==
    [][ (MovesOn /\ StepIs("analysis") /\ status.step = pass.status.step)
          => \E i \in RunIds : /\ runs[i].hash = pass.spec.template
                               /\ runs[i].step = pass.status.step
                               /\ runs[i].phase = "Successful" ]_vars

(* Once users leave it alone an update is promoted, aborted, or waits for   *)
(* them at a pause without a duration.  (The pause of a pass may come to    *)
(* stand at another step, to which a promote of an older Rollout moved it.) *)
Promoted == /\ status.stableRS = spec.template /\ stableSvc = spec.template
            /\ canarySvc = spec.template /\ weight = 0
WaitsForUser == \/ spec.paused \/ Inconclusive \in status.pauses
                \/ /\ CanaryPause \in status.pauses /\ status.step < Len(Steps)
                   /\ Steps[status.step + 1].kind # "wait"
UpdateSettles == <>[](Promoted \/ status.abort \/ WaitsForUser)

\* haltProgress: the ReplicaSets are left as they are
Halted == spec.paused \/ Inconclusive \in status.pauses

(* An abort that stands takes all the traffic back to the stable version    *)
(* unless the Rollout is paused as well.                                   *)
AbortRestoresTraffic ==
    <>[](status.abort /\ ~Halted => weight = 0 /\ stableSvc = status.stableRS)

(* The versions no longer in use are scaled down.                           *)
OldVersionsScaledDown ==
    <>[](Promoted /\ ~WaitsForUser => \A h \in Hash \ {spec.template} : rs[h].spec = 0)

(* No AnalysisRun outlives its use: those that remain are in the status.    *)
(* (Paused and scaled, a Rollout sees to its ReplicaSets only.)            *)
NoOrphanRuns ==
    <>[](\A i \in RunIds : \/ Halted \/ runs[i].phase = "none"
                           \/ i \in {status.stepRun, status.backRun})
=============================================================================
