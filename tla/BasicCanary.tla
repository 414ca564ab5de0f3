---------------------------- MODULE BasicCanary ----------------------------
(***************************************************************************)
(* The canary strategy without a traffic router: the pods of all versions  *)
(* share one Service, so the traffic weight IS the number of pods          *)
(* (rollout/canary.go, rollout/replicaset.go, utils/replicaset/canary.go). *)
(*                                                                         *)
(* A pass of the controller reads the Rollout and its ReplicaSets, scales  *)
(* at most one of the new and the stable ReplicaSet (the scaling stage     *)
(* stops once it changed a size), or the older ones, and then patches the  *)
(* status; the patch may be lost.  Every Update of a ReplicaSet is refused *)
(* when that ReplicaSet changed since it was read, so a pass is one step   *)
(* here; module BlueGreen has passes whose stages interleave with the      *)
(* cluster.  The steps of the strategy are setWeight steps; pauses,        *)
(* analysis and spec.paused are in module Canary.                          *)
(***************************************************************************)
EXTENDS CanaryReplicas, FiniteSetsExt

CONSTANTS
    Hash,              \* pod template hashes, one ReplicaSet each
    NoHash,            \* the empty hash ""
    ReplicaCounts,     \* values the user gives spec.replicas
    SetWeights,        \* the setWeight steps, in percent
    MaxSurgeBound,     \* [percent, value]: spec.strategy.canary.maxSurge
    MaxUnavailableBound,  \* [percent, value]: maxUnavailable
    Threshold,         \* [kind, value]: replicaProgressThreshold
    UserActions,       \* what the user may do in this instance
    MaxUserActions,    \* bound: user actions in a behaviour
    MaxPodFailures,    \* bound: pods that become unavailable
    MaxPassFailures    \* bound: passes whose status patch is lost

ASSUME BasicCanaryAssumption ==
    /\ IsFiniteSet(Hash) /\ NoHash \notin Hash
    /\ ReplicaCounts \subseteq Nat
    /\ SetWeights \in Seq(0..MaxWeight)
    /\ {MaxSurgeBound, MaxUnavailableBound} \subseteq [percent : BOOLEAN, value : Nat]
    /\ Threshold \in [kind : {"none", "percent", "pods"}, value : Nat]
    /\ {MaxUserActions, MaxPodFailures, MaxPassFailures} \subseteq Nat

VARIABLES
    spec,     \* what the user wants: template, replicas
    status,   \* Rollout.status
    rs,       \* the ReplicaSets, by hash
    budget    \* what is left of the Max... bounds

vars == <<spec, status, rs, budget>>

StepCount == Len(SetWeights)

NoReplicaSet == [spec |-> 0, created |-> 0, avail |-> 0, desired |-> 0,
                 revision |-> 0, born |-> 0]

----------------------------------------------------------------------------
(* What a pass decides.                                                    *)

New == spec.template
Stable == status.stableRS
Exists(h) == rs[h].born > 0
HasStable == Stable # NoHash /\ Stable # New
Old == {h \in Hash : Exists(h) /\ h \notin {New, Stable}}
NewRS == rs[New]
StableRS == IF Stable = NoHash THEN NoReplicaSet ELSE rs[Stable]

\* The pods of the versions in S when h has count[h] of them, and how many.
PodsOf(S, count) == UNION {{h} \X (1..count[h]) : h \in S}
Total(S, count) == Cardinality(PodsOf(S, count))

Sizes(view) == [h \in Hash |-> view[h].spec]
Availables(view) == [h \in Hash |-> view[h].avail]
SpecTotal(S) == Total(S, Sizes(rs))
AvailTotal(S) == Total(S, Availables(rs))

Surge == MaxSurge(MaxSurgeBound, spec.replicas)
Unavailable == MaxUnavailable(MaxSurgeBound, MaxUnavailableBound, spec.replicas)

\* GetCanaryReplicasOrWeight and GetCurrentSetWeight
DesiredWeight ==
    IF status.promoteFull \/ Stable \in {NoHash, status.currentPodHash} THEN MaxWeight
    ELSE IF status.abort THEN 0
    ELSE IF status.step >= StepCount THEN MaxWeight
    ELSE SetWeights[status.step + 1]

\* CalculateReplicaCountsForBasicCanary
Bounds == [replicas |-> spec.replicas, surge |-> Surge, unavail |-> Unavailable]
Desired(approximated) ==
    BasicCounts(Bounds, approximated, NewRS, StableRS, HasStable, SpecTotal(Old))

\* AtDesiredReplicaCountsForCanary, with the desired counts
AtDesiredReplicaCounts(want) ==
    /\ ThresholdMet(Threshold, NewRS, want.canary)
    /\ AllCreated(StableRS, want.stable)
    /\ AvailTotal(Old) = 0

----------------------------------------------------------------------------
(* The scaling stage, reconcileCanaryReplicaSets, with the desired counts. *)

\* Mutant: the annotation stays behind, and every pass is a scaling event.
ScaledSizeOnly(h, n) == [rs EXCEPT ![h].spec = n]

\* scaleReplicaSet: the size and the desired-replicas annotation
Scaled(h, n) == [rs EXCEPT ![h].spec = n, ![h].desired = spec.replicas]

ScalesStable(want) == HasStable /\ StableRS.spec # want.stable
ScalesNew(want) == ~ScalesStable(want) /\ NewRS.spec # want.canary

\* cleanupUnhealthyReplicas, the oldest first, until one is found that has
\* more pods available than it asks for: that is an error, and ends the stage.
Running == {h \in Old : rs[h].spec > 0}
Exceeding == {h \in Running : rs[h].avail > rs[h].spec}
CleanedUp == [h \in Hash |->
    IF h \in Running /\ \A g \in Exceeding : rs[h].born < rs[g].born
    THEN rs[h].avail ELSE rs[h].spec]

\* scaleDownOldReplicaSetsForCanary: the latest revision first, as many pods
\* as are available beyond the minimum.

\* Mutant: pods that are not available yet count as well.
MaxScaleDownOfAll == SpecTotal({h \in Hash : Exists(h)}) - (spec.replicas - Unavailable)

MaxScaleDown == AvailTotal({h \in Hash : Exists(h)}) - (spec.replicas - Unavailable)
ScaledDownBefore(h) == Total({g \in Running : rs[g].revision > rs[h].revision}, CleanedUp)

\* Mutant: more pods are stopped than there are.
OldSizeUnclipped(h) == CleanedUp[h] - Higher(0, MaxScaleDown - ScaledDownBefore(h))

OldSize(h) ==
    IF Exceeding # {} THEN CleanedUp[h]
    ELSE Higher(0, CleanedUp[h] - Higher(0, MaxScaleDown - ScaledDownBefore(h)))

\* The ReplicaSets after the stage. An annotation alone stops nothing.
AfterStable(want) == IF HasStable THEN Scaled(Stable, want.stable) ELSE rs
AfterNew(want) == [AfterStable(want) EXCEPT ![New].spec = want.canary,
                                            ![New].desired = spec.replicas]
AfterOld(view) == [h \in Hash |->
    IF h \in Running /\ OldSize(h) # rs[h].spec
    THEN [view[h] EXCEPT !.spec = OldSize(h), !.desired = spec.replicas] ELSE view[h]]
AfterScaling(want) ==
    IF ScalesStable(want) THEN AfterStable(want)
    ELSE IF ScalesNew(want) THEN AfterNew(want)
    ELSE AfterOld(AfterNew(want))

----------------------------------------------------------------------------
(* The status sync, syncRolloutStatusCanary.                               *)

\* shouldFullPromote; isFastRollback without a rollback window
ShouldFullPromote ==
    \/ Stable = NoHash
    \/ /\ ~status.abort \/ status.promoteFull \/ Stable = status.currentPodHash
       /\ \/ NewRS.avail >= spec.replicas
          \/ ThresholdMet(Threshold, NewRS, spec.replicas)
       /\ status.promoteFull \/ New = Stable \/ status.step = StepCount

\* completedCurrentCanaryStep
CompletedCurrentStep(want) == status.step < StepCount /\ AtDesiredReplicaCounts(want)

\* promote --full sets the index past the steps, and a step that is completed
\* in the same pass counts on from there.
StepAfterSync(want) ==
    IF ShouldFullPromote THEN StepCount
    ELSE IF status.abort /\ ~status.promoteFull
    THEN IF Stable = New THEN StepCount ELSE 0
    ELSE (IF status.promoteFull THEN StepCount ELSE status.step)
           + (IF CompletedCurrentStep(want) THEN 1 ELSE 0)

StatusAfterSync(want) ==
    [status EXCEPT
        !.currentPodHash = New,
        !.stableRS = IF ShouldFullPromote THEN New ELSE @,
        !.step = StepAfterSync(want),
        !.abort = /\ @ /\ ~ShouldFullPromote /\ ~status.promoteFull
                  /\ Stable # status.currentPodHash,
        !.promoteFull = @ /\ ~ShouldFullPromote]

\* resetRolloutStatus; a rollback to the stable version skips the steps.
StatusAfterReset ==
    [status EXCEPT !.currentPodHash = New,
                   !.step = IF New = Stable THEN StepCount ELSE 0,
                   !.abort = FALSE, !.promoteFull = FALSE]

----------------------------------------------------------------------------
(* The passes of the controller.                                           *)

Others(h) == Hash \ {h}
Greatest(S) == Max({0} \cup S)

\* The desired counts, computed once per pass.
Wanted == {Desired(approximated) :
             approximated \in {Approximate(spec.replicas, DesiredWeight, Surge)}}

\* createDesiredReplicaSet
CreateReplicaSet ==
    /\ ~Exists(New)
    /\ rs' = [rs EXCEPT ![New] =
                [spec |-> 0, created |-> 0, avail |-> 0, desired |-> spec.replicas,
                 revision |-> 1 + Greatest({rs[h].revision : h \in Hash}),
                 born |-> 1 + Greatest({rs[h].born : h \in Hash})]]
    /\ UNCHANGED <<spec, status, budget>>

\* syncReplicaSetRevision: the new ReplicaSet has the greatest revision
WithRevision(view) ==
    [view EXCEPT ![New].revision =
        Higher(@, 1 + Greatest({rs[h].revision : h \in Others(New)}))]

\* isScalingEvent
IsScalingEvent == \E h \in {New, Stable} \ {NoHash} :
                     rs[h].spec > 0 /\ rs[h].desired # spec.replicas

\* PodTemplateOrStepsChanged
TemplateChanged == status.currentPodHash # New

\* The patch of the status, or its loss.
PatchStatus(newStatus) ==
    \/ status' = newStatus /\ UNCHANGED budget
    \/ /\ budget.passes > 0
       /\ budget' = [budget EXCEPT !.passes = @ - 1]
       /\ UNCHANGED status

\* syncReplicasOnly: the scaling stage and nothing of the status
SyncReplicasOnly ==
    /\ Exists(New) /\ IsScalingEvent
    /\ \E want \in Wanted : rs' = WithRevision(AfterScaling(want))
    /\ UNCHANGED <<spec, status, budget>>

SyncRevisionOnChange ==
    /\ Exists(New) /\ ~IsScalingEvent /\ TemplateChanged
    /\ rs' = WithRevision(rs)
    /\ PatchStatus(StatusAfterReset)
    /\ UNCHANGED spec

RolloutCanary ==
    /\ Exists(New) /\ ~IsScalingEvent /\ ~TemplateChanged
    /\ \E want \in Wanted : /\ rs' = WithRevision(AfterScaling(want))
                            /\ PatchStatus(StatusAfterSync(want))
    /\ UNCHANGED spec

Controller == \/ CreateReplicaSet \/ SyncReplicasOnly
              \/ SyncRevisionOnChange \/ RolloutCanary

----------------------------------------------------------------------------
(* The ReplicaSet controller and the pods.                                 *)

\* It stops pods that are not available first.
PodsFollowSpec(h) ==
    /\ rs[h].created # rs[h].spec
    /\ rs' = [rs EXCEPT ![h].created = rs[h].spec,
                        ![h].avail = Lower(@, rs[h].spec)]
    /\ UNCHANGED <<spec, status, budget>>

PodBecomesAvailable(h) ==
    /\ rs[h].avail < rs[h].created
    /\ rs' = [rs EXCEPT ![h].avail = @ + 1]
    /\ UNCHANGED <<spec, status, budget>>

PodBecomesUnavailable(h) ==
    /\ rs[h].avail > 0 /\ budget.pods > 0
    /\ rs' = [rs EXCEPT ![h].avail = @ - 1]
    /\ budget' = [budget EXCEPT !.pods = @ - 1]
    /\ UNCHANGED <<spec, status>>

----------------------------------------------------------------------------
(* The user.                                                               *)

UserMay(a) ==
    /\ a \in UserActions /\ budget.user > 0
    /\ budget' = [budget EXCEPT !.user = @ - 1]
    /\ UNCHANGED rs

SetTemplate(h) ==
    /\ UserMay("setTemplate") /\ h # spec.template
    /\ spec' = [spec EXCEPT !.template = h] /\ UNCHANGED status

Scale(n) ==
    /\ UserMay("scale") /\ n # spec.replicas
    /\ spec' = [spec EXCEPT !.replicas = n] /\ UNCHANGED status

Abort ==
    /\ UserMay("abort") /\ ~status.abort
    /\ status' = [status EXCEPT !.abort = TRUE] /\ UNCHANGED spec

Retry ==
    /\ UserMay("retry") /\ status.abort
    /\ status' = [status EXCEPT !.abort = FALSE] /\ UNCHANGED spec

PromoteFull ==
    /\ UserMay("promoteFull") /\ status.stableRS # status.currentPodHash
    /\ status' = [status EXCEPT !.promoteFull = TRUE] /\ UNCHANGED spec

User == \/ \E h \in Hash : SetTemplate(h)
        \/ \E n \in ReplicaCounts : Scale(n)
        \/ Abort \/ Retry \/ PromoteFull

----------------------------------------------------------------------------
(* The specification.                                                      *)

\* A Rollout whose first version is fully promoted.
Init ==
    \E h \in Hash, n \in ReplicaCounts :
        /\ spec = [template |-> h, replicas |-> n]
        /\ status = [stableRS |-> h, currentPodHash |-> h, step |-> StepCount,
                     abort |-> FALSE, promoteFull |-> FALSE]
        /\ rs = [g \in Hash |->
                   IF g = h THEN [spec |-> n, created |-> n, avail |-> n,
                                  desired |-> n, revision |-> 1, born |-> 1]
                   ELSE NoReplicaSet]
        /\ budget = [user |-> MaxUserActions, pods |-> MaxPodFailures,
                     passes |-> MaxPassFailures]

Pods == \E h \in Hash : \/ PodsFollowSpec(h) \/ PodBecomesAvailable(h)
                        \/ PodBecomesUnavailable(h)

Next == Controller \/ Pods \/ User

Spec == Init /\ [][Next]_vars

(* The work queue keeps calling the controller; the ReplicaSet controller  *)
(* keeps the number of pods, and the pods it starts become available.      *)
Fairness ==
    /\ WF_vars(Controller)
    /\ \A h \in Hash : WF_vars(PodsFollowSpec(h)) /\ WF_vars(PodBecomesAvailable(h))

FairSpec == Spec /\ Fairness

----------------------------------------------------------------------------
(* Properties.                                                             *)

ReplicaSetType == [spec : Nat, created : Nat, avail : Nat, desired : Nat,
                   revision : Nat, born : Nat]

(* Every variable has its type; the step index may exceed the steps by one. *)
TypeOK ==
    /\ spec \in [template : Hash, replicas : ReplicaCounts]
    /\ status \in [stableRS : Hash \cup {NoHash}, currentPodHash : Hash \cup {NoHash},
                   step : 0..(StepCount + 1), abort : BOOLEAN, promoteFull : BOOLEAN]
    /\ rs \in [Hash -> ReplicaSetType]
    /\ budget \in [user : Nat, pods : Nat, passes : Nat]

(* The properties below are about the steps that change a size.            *)
Resizes == \E h \in Hash : rs'[h].spec # rs[h].spec

(* Every pod told to stop has stopped.                                     *)
NonePending == \A h \in Hash : rs[h].avail <= rs[h].spec

(* However updates, aborts and sizes follow each other, a pass never asks   *)
(* for more pods in all than replicas + maxSurge, or than it found asked   *)
(* for (CalculateReplicaCountsForBasicCanary's scaleUpCount).              *)
SpecOf(view) == Total(Hash, Sizes(view))
SurgeRespected ==
    [][ Resizes /\ NonePending
          => SpecOf(rs') <= Higher(SpecOf(rs), spec.replicas + Surge) ]_vars

(* The pods that stay available once the ReplicaSet controller has brought  *)
(* every ReplicaSet to its size.                                           *)
Kept(view) == Total(Hash, [h \in Hash |-> Lower(view[h].spec, view[h].avail)])
(* No pass scales down below replicas - maxUnavailable available pods, or   *)
(* below what it found (scaleDownCount and maxScaleDown).                  *)
AvailabilityKept ==
    [][ Resizes /\ NonePending
          => Kept(rs') >= Lower(Kept(rs), spec.replicas - Unavailable) ]_vars

(* Each ReplicaSet of a version that is neither new nor stable ends at 0,   *)
(* the steps are gone through, and the version asked for becomes stable,   *)
(* unless it is aborted: then the stable version has all the pods again.   *)
AtFullSize(h) == rs[h].spec = spec.replicas /\ rs[h].avail = spec.replicas
OnlyVersion(h) == AtFullSize(h) /\ \A g \in Others(h) : rs[g].spec = 0
UpdateSettles ==
    <>[](IF status.abort THEN OnlyVersion(status.stableRS)
         ELSE status.stableRS = spec.template /\ OnlyVersion(spec.template))
=============================================================================
