----------------------------- MODULE Experiment -----------------------------
(***************************************************************************)
(* The experiment controller (experiments/experiment.go, replicaset.go,    *)
(* service.go, controller.go) working on one Experiment.                   *)
(*                                                                         *)
(* A reconcile takes a snapshot, sees to every template (its ReplicaSet,   *)
(* its Service and its status), then to every analysis, and ends with a    *)
(* merge patch of the status.  It does not stop at an error: it notes it   *)
(* in the status of the template or analysis.  Pods, AnalysisRuns, time    *)
(* and the user move between any two of these steps; the snapshot of the   *)
(* Experiment may be a version old, since nothing here compares resource   *)
(* versions; API calls fail, and so does the patch.                        *)
(*                                                                         *)
(* Every template has the same number of replicas.  Another owner's        *)
(* ReplicaSet or Service of the same name is left out.                     *)
(***************************************************************************)
EXTENDS Integers, FiniteSets, FiniteSetsExt

CONSTANTS
    Template,         \* the names in spec.templates
    WithService,      \* the templates with a service and ports
    Analysis,         \* the names in spec.analyses
    Specs,            \* the rest of the spec, one of them in a behaviour
    Replicas,         \* .replicas of the templates
    Endings,          \* bound: the phases runs complete with
    MaxRuns,          \* bound: AnalysisRuns of one analysis
    MaxPodFailures,   \* bound: pods that become unavailable
    MaxApiFailures,   \* bound: API calls that fail
    MaxPassFailures,  \* bound: passes that never get to their patch
    MaxStalePasses    \* bound: passes whose snapshot is a version old

\* required: the analyses that are requiredForCompletion; duration: there is
\* one; delay: scaleDownDelaySeconds is positive, as by default
SpecType == [required : SUBSET Analysis, duration : BOOLEAN, delay : BOOLEAN]

ASSUME NamesAssumption == Template \cap Analysis = {} /\ WithService \subseteq Template
ASSUME SpecsAssumption == Specs \subseteq SpecType
ASSUME EndingsAssumption ==
    Endings \subseteq {"Successful", "Inconclusive", "Error", "Failed"} /\ Endings # {}
ASSUME BoundsAssumption ==
    /\ Replicas \in Nat /\ MaxRuns \in Nat \ {0} /\ MaxPodFailures \in Nat
    /\ MaxApiFailures \in Nat /\ MaxPassFailures \in Nat /\ MaxStalePasses \in Nat

VARIABLES
    spec,           \* the Experiment's spec, but for terminate
    terminate,      \* spec.terminate
    status,         \* the Experiment's status as the API server stores it
    cached,         \* terminate and status before their last change
    outdated,       \* history: a pass started from a version before the last
    rs,             \* the ReplicaSets, by template
    services,       \* the templates that have their Service
    runs,           \* the AnalysisRuns, by analysis and number
    late,           \* templates: the progress deadline has passed
    durationPassed, \* the duration since availableAt has passed
    reconciling,    \* a pass is under way
    pass,           \* its experimentContext
    budget          \* what is left of the Max... bounds

vars == <<spec, terminate, status, cached, outdated, rs, services, runs, late,
          durationPassed, reconciling, pass, budget>>
experiment == <<spec, terminate, status, cached>>
cluster == <<rs, services, runs>>
time == <<late, durationPassed>>

-----------------------------------------------------------------------------
(* The objects.                                                            *)

RunIds == 1..MaxRuns

TemplateStatuses == {"", "Progressing", "Running", "Successful", "Failed", "Error"}
Phases == {"", "Pending", "Running", "Successful", "Inconclusive", "Error", "Failed"}
Completed == {"Successful", "Inconclusive", "Error", "Failed"}

StatusType == [phase : Phases, available : BOOLEAN,
               templates : [Template -> [status : TemplateStatuses, avail : Nat]],
               runs : [Analysis -> [run : {0} \cup RunIds, phase : Phases]]]
ReplicaSetType == [exists : BOOLEAN, size : Nat, avail : Nat,
                   deadline : {"none", "pending", "expired"}]
RunType == [exists : BOOLEAN, phase : Phases \ {"Pending"}, terminate : BOOLEAN]
PassType == [terminate : BOOLEAN, status : StatusType, new : StatusType,
             rs : [Template -> ReplicaSetType], dirty : SUBSET Template,
             moved : SUBSET Template, todo : SUBSET (Template \cup Analysis)]

NoStatus == [phase |-> "", available |-> FALSE,
             templates |-> [t \in Template |-> [status |-> "", avail |-> 0]],
             runs |-> [a \in Analysis |-> [run |-> 0, phase |-> ""]]]
NoReplicaSet == [exists |-> FALSE, size |-> 0, avail |-> 0, deadline |-> "none"]
NoRun == [exists |-> FALSE, phase |-> "", terminate |-> FALSE]
NoPass == [terminate |-> FALSE, status |-> NoStatus, new |-> NoStatus,
           rs |-> [t \in Template |-> NoReplicaSet], dirty |-> {}, moved |-> {},
           todo |-> {}]

\* A template or an analysis: the loops of reconcile see to them one by one,
\* and what one does another does not read.
First(S) == CHOOSE x \in S : TRUE

-----------------------------------------------------------------------------
(* What a pass decides (utils/experiment/experiment.go).                   *)

\* RequiredAnalysisRunsSuccessful
RequiredSuccessful(s) ==
    spec.required # {} /\ \A a \in spec.required : s.runs[a].phase = "Successful"

\* IsTerminating
IsTerminating ==
    \/ pass.terminate
    \/ pass.status.phase \in Completed
    \/ \E t \in Template : pass.status.templates[t].status \in {"Failed", "Error"}
    \/ \E a \in Analysis : pass.status.runs[a].phase \in Completed \ {"Successful"}
    \/ RequiredSuccessful(pass.status)

\* PassedDurations
PassedDuration == spec.duration /\ pass.status.available /\ durationPassed

\* CalculateTemplateReplicasCount
DesiredReplicas(t) ==
    IF IsTerminating \/ pass.status.templates[t].status \in Completed THEN 0 ELSE Replicas

\* templateStatusOrder and analysisStatusOrder: the worst of a set is the
\* first of these in it; a phase of neither list counts as the best.
TemplateOrder == << "Failed", "Error", "Progressing", "Running", "Successful" >>
PhaseOrder == << "Failed", "Error", "Inconclusive", "Pending", "Running", "Successful" >>
Worst(order, S) ==
    LET places == {i \in DOMAIN order : order[i] \in S}
    IN IF places = {} THEN "Successful" ELSE order[Min(places)]

\* Mutant: a template that makes progress is reported as it is.
AssessTemplatesAsTheyAre ==
    Worst(TemplateOrder, {pass.new.templates[t].status : t \in Template})

\* assessTemplates
AssessTemplates ==
    LET worst == Worst(TemplateOrder, {pass.new.templates[t].status : t \in Template})
    IN IF worst = "Progressing" THEN "Pending" ELSE worst

\* assessAnalysisRuns
AssessAnalysisRuns ==
    LET worst == Worst(PhaseOrder, {pass.new.runs[a].phase : a \in Analysis})
    IN IF worst = "Pending" THEN "Running" ELSE worst

\* Mutant: templates that are done do not wait for required runs.
NewPhaseOfTemplates ==
    CASE pass.new.phase = "" -> "Pending"
      [] pass.new.phase \in Completed -> pass.new.phase
      [] OTHER -> IF AssessTemplates = "Successful" /\ AssessAnalysisRuns \in Completed
                  THEN AssessAnalysisRuns ELSE AssessTemplates

\* Mutant: templates that are done wait for all the runs.
NewPhaseOfAll ==
    CASE pass.new.phase = "" -> "Pending"
      [] pass.new.phase \in Completed -> pass.new.phase
      [] OTHER -> IF AssessTemplates = "Successful" \/ AssessAnalysisRuns \in Completed \ {"Successful"}
                  THEN AssessAnalysisRuns ELSE AssessTemplates

\* calculateStatus, in the code's order
NewPhase ==
    LET templates == AssessTemplates
        analyses == AssessAnalysisRuns
        hasRequired == spec.required # {}
    IN CASE pass.new.phase = "" -> "Pending"
         [] pass.new.phase \in Completed -> pass.new.phase
         [] OTHER ->
            IF templates \in Completed
            THEN IF templates = "Successful" /\ (analyses \in Completed \/ hasRequired)
                 THEN analyses ELSE templates
            ELSE IF \/ analyses \in Completed \ {"Successful"}
                    \/ RequiredSuccessful(pass.new)
                 THEN analyses ELSE templates

MarksAvailable == /\ pass.new.phase \in {"Pending", "Running"}
                  /\ AssessTemplates = "Running"

-----------------------------------------------------------------------------
(* A pass.                                                                 *)

Current == [terminate |-> terminate, status |-> status]

\* The version there was, while a pass may still read an outdated one.
CacheLags == cached' = IF budget.stale > 0 THEN Current ELSE Current'

EndPass == reconciling' = FALSE /\ pass' = NoPass

ApiFailures(n) == n <= budget.api /\ budget' = [budget EXCEPT !.api = @ - n]

(* syncHandler: the snapshot.  The Experiment comes from the informer cache *)
(* and may be the version before the last change.                          *)
BeginPass ==
    /\ ~reconciling /\ reconciling' = TRUE
    /\ \E version \in {Current, cached} :
         /\ \/ version = Current /\ UNCHANGED <<outdated, budget>>
            \/ /\ version # Current /\ budget.stale > 0
               /\ outdated' = TRUE /\ budget' = [budget EXCEPT !.stale = @ - 1]
         /\ pass' = [NoPass EXCEPT !.terminate = version.terminate, !.status = version.status,
                                   !.new = version.status, !.rs = rs,
                                   !.todo = Template \cup Analysis]
    /\ UNCHANGED <<experiment, cluster, time>>

(* The end of reconcileTemplate: the template's status, from the pods its   *)
(* ReplicaSet had, and whether this pass moved it on.  A completed status   *)
(* stays.                                                                  *)
AssessTemplate(t, code, avail, moved) ==
    LET moves == moved \/ avail # pass.status.templates[t].avail
        assessed ==
            CASE code \in Completed -> code
              [] code \notin Completed /\ DesiredReplicas(t) = avail ->
                   IF PassedDuration \/ IsTerminating THEN "Successful" ELSE "Running"
              [] code \notin Completed /\ DesiredReplicas(t) # avail ->
                   IF t \in late /\ ~moves THEN "Failed"
                   ELSE IF IsTerminating THEN "Successful" ELSE "Progressing"
    IN pass' = [pass EXCEPT !.new.templates[t] = [status |-> assessed, avail |-> avail],
                            !.moved = IF moves THEN @ \cup {t} ELSE @,
                            !.todo = @ \ {t}]

\* createReplicaSetForTemplate: of size 0, even when terminating
CreateReplicaSet(t) ==
    /\ ~pass.rs[t].exists
    /\ \/ /\ rs' = [rs EXCEPT ![t] = [NoReplicaSet EXCEPT !.exists = TRUE]]
          /\ AssessTemplate(t, pass.status.templates[t].status, 0, TRUE)
          /\ UNCHANGED budget
       \/ /\ ApiFailures(1)
          /\ AssessTemplate(t, "Error", 0, FALSE)
          /\ UNCHANGED rs
    /\ UNCHANGED services

\* The Service call of a template that has a ReplicaSet
CreatesService(t) == t \in WithService \ services /\ DesiredReplicas(t) # 0
DeletesService(t) == t \in services /\ DesiredReplicas(t) = 0 /\ pass.rs[t].avail = 0

\* Mutant: a deadline that has passed is set again.
AddsDelayAgain(t) == DesiredReplicas(t) = 0 /\ spec.delay /\ pass.rs[t].deadline # "pending"

\* addScaleDownDelay
AddsDelay(t) == DesiredReplicas(t) = 0 /\ spec.delay /\ pass.rs[t].deadline = "none"

\* scaleTemplateRS: a ReplicaSet with a deadline to come keeps its pods
ScaleTarget(t, view) ==
    IF DesiredReplicas(t) = 0 /\ view.deadline = "pending" THEN Replicas
    ELSE DesiredReplicas(t)

(* reconcileTemplate with a ReplicaSet: the Service, the delay, the size.   *)
(* The size of the snapshot is updated unless the ReplicaSet was written    *)
(* since; after a patch of the delay, or to scale up, it is read again.     *)
(* The calls in fails go wrong: without the delay it scales down at once,   *)
(* and where it cannot be read after the patch the update is a conflict.    *)
ScaleTemplate(t, fails) ==
    LET patched == AddsDelay(t) /\ "delay" \notin fails
        delayed == patched /\ "get" \notin fails
        read == IF delayed THEN [rs[t] EXCEPT !.deadline = "pending"] ELSE pass.rs[t]
        moves == read.size # DesiredReplicas(t)
        fresh == delayed \/ DesiredReplicas(t) # 0
        stale == t \in pass.dirty \/ patched
        view == IF DesiredReplicas(t) # 0 THEN rs[t] ELSE read
        updates == moves /\ view.size # ScaleTarget(t, view) /\ (fresh \/ ~stale)
        code == IF fails \cap {"service", "scale"} # {} THEN "Error"
                ELSE pass.status.templates[t].status
    IN /\ "service" \in fails => CreatesService(t) \/ DeletesService(t)
       /\ "delay" \in fails => AddsDelay(t)
       /\ "get" \in fails => patched
       /\ "scale" \in fails => updates
       /\ services' = CASE "service" \in fails -> services
                        [] "service" \notin fails /\ CreatesService(t) -> services \cup {t}
                        [] "service" \notin fails /\ DeletesService(t) -> services \ {t}
                        [] OTHER -> services
       /\ rs' = [rs EXCEPT ![t].deadline = IF patched THEN "pending" ELSE @,
                           ![t].size = IF updates /\ "scale" \notin fails
                                       THEN ScaleTarget(t, view) ELSE @]
       /\ AssessTemplate(t, code, read.avail, moves)

ReconcileTemplate ==
    /\ pass.todo \cap Template # {}
    /\ \E t \in {First(pass.todo \cap Template)} :
         \/ CreateReplicaSet(t)
         \/ /\ pass.rs[t].exists
            /\ \E fails \in SUBSET {"service", "delay", "get", "scale"} :
                 ApiFailures(Cardinality(fails)) /\ ScaleTemplate(t, fails)
    /\ UNCHANGED <<experiment, outdated, runs, time, reconciling>>

-----------------------------------------------------------------------------
(* reconcileAnalysisRun.                                                   *)

Recorded(a) == pass.status.runs[a]
SetRun(a, run, phase) ==
    pass' = [pass EXCEPT !.new.runs[a] = [run |-> run, phase |-> phase], !.todo = @ \ {a}]
KeepRun(a) == SetRun(a, Recorded(a).run, Recorded(a).phase)

(* Not available yet: only look whether its template exists. *)
VerifyAnalysisTemplate(a) ==
    /\ ~pass.status.available
    /\ \/ KeepRun(a) /\ UNCHANGED budget
       \/ SetRun(a, Recorded(a).run, "Error") /\ ApiFailures(1)
    /\ UNCHANGED runs

(* CreateWithCollisionCounter: the first name that is free, or taken by a  *)
(* run in progress.                                                        *)
Taken(a, i) == runs[a][i].exists /\ runs[a][i].phase \in Completed
CreateIds(a) == {i \in RunIds : ~Taken(a, i) /\ \A j \in 1..(i - 1) : Taken(a, j)}

\* Mutant: a run is created for a terminating Experiment too.
CreateAnalysisRunAnyway(a) ==
    /\ pass.status.available /\ Recorded(a).run = 0
    /\ \/ /\ \E i \in CreateIds(a) :
               runs' = [runs EXCEPT ![a][i].exists = TRUE] /\ SetRun(a, i, "Pending")
          /\ UNCHANGED budget
       \/ /\ SetRun(a, 0, "Error") /\ ApiFailures(1)
          /\ UNCHANGED runs

CreateAnalysisRun(a) ==
    /\ pass.status.available /\ Recorded(a).run = 0
    /\ \/ /\ IsTerminating /\ KeepRun(a)
          /\ UNCHANGED <<runs, budget>>
       \/ /\ ~IsTerminating
          /\ \E i \in CreateIds(a) :
               /\ runs' = [runs EXCEPT ![a][i].exists = TRUE]
               /\ SetRun(a, i, "Pending")
          /\ UNCHANGED budget
       \/ /\ ~IsTerminating /\ SetRun(a, 0, "Error") /\ ApiFailures(1)
          /\ UNCHANGED runs

(* A recorded run: read its phase, or terminate it.  A completed phase      *)
(* stays; a run that cannot be read or terminated is an Error.             *)
WatchAnalysisRun(a) ==
    /\ pass.status.available /\ Recorded(a).run # 0
    /\ \/ /\ Recorded(a).phase \in Completed /\ KeepRun(a)
          /\ UNCHANGED <<runs, budget>>
       \/ /\ Recorded(a).phase \notin Completed /\ ~IsTerminating
          /\ SetRun(a, Recorded(a).run, runs[a][Recorded(a).run].phase)
          /\ UNCHANGED <<runs, budget>>
       \/ /\ Recorded(a).phase \notin Completed /\ IsTerminating
          /\ KeepRun(a)
          /\ runs' = [runs EXCEPT ![a][Recorded(a).run].terminate =
                        @ \/ runs[a][Recorded(a).run].phase \notin Completed]
          /\ UNCHANGED budget
       \/ /\ Recorded(a).phase \notin Completed
          /\ SetRun(a, Recorded(a).run, "Error") /\ ApiFailures(1)
          /\ UNCHANGED runs

ReconcileAnalysisRun ==
    /\ pass.todo # {} /\ pass.todo \subseteq Analysis
    /\ \E a \in {First(pass.todo)} :
         VerifyAnalysisTemplate(a) \/ CreateAnalysisRun(a) \/ WatchAnalysisRun(a)
    /\ UNCHANGED <<experiment, outdated, rs, services, time, reconciling>>

NewStatus == [pass.new EXCEPT !.phase = NewPhase, !.available = @ \/ MarksAvailable]

(* The merge patch: a field that is as in the snapshot is left alone, a     *)
(* list with any change, a new lastTransitionTime among them, is replaced.  *)
Merged ==
    [field \in DOMAIN status |->
        IF NewStatus[field] = pass.status[field] /\ ~(field = "templates" /\ pass.moved # {})
        THEN status[field] ELSE NewStatus[field]]

(* calculateStatus and persistExperimentStatus *)
PersistStatus ==
    /\ reconciling /\ pass.todo = {}
    /\ \E patched \in {Merged} : status' = patched
    /\ UNCHANGED terminate /\ CacheLags
    /\ late' = late \ pass.moved
    /\ EndPass
    /\ UNCHANGED <<spec, outdated, cluster, durationPassed, budget>>

(* The controller restarts, or the patch is refused. *)
PassFails ==
    /\ reconciling /\ budget.passes > 0
    /\ budget' = [budget EXCEPT !.passes = @ - 1]
    /\ EndPass
    /\ UNCHANGED <<experiment, outdated, cluster, time>>

-----------------------------------------------------------------------------
(* The cluster, time and the user.                                         *)

SetAvailable(t, n) ==
    /\ rs' = [rs EXCEPT ![t].avail = n]
    /\ pass' = IF t \in pass.todo THEN [pass EXCEPT !.dirty = @ \cup {t}] ELSE pass
    /\ UNCHANGED <<experiment, outdated, services, runs, time, reconciling>>

PodBecomesAvailable(t) ==
    rs[t].avail < rs[t].size /\ SetAvailable(t, rs[t].avail + 1) /\ UNCHANGED budget

PodsTerminate(t) ==
    rs[t].avail > rs[t].size /\ SetAvailable(t, rs[t].size) /\ UNCHANGED budget

PodBecomesUnavailable(t) ==
    /\ rs[t].avail > 0 /\ budget.pods > 0
    /\ SetAvailable(t, rs[t].avail - 1)
    /\ budget' = [budget EXCEPT !.pods = @ - 1]

(* The analysis controller picks up a run, and completes it.                *)
RunMoves(a, i, phases) ==
    /\ \E phase \in phases : runs' = [runs EXCEPT ![a][i].phase = phase]
    /\ UNCHANGED <<experiment, outdated, rs, services, time, reconciling, pass, budget>>

RunStarts(a, i) ==
    runs[a][i].exists /\ runs[a][i].phase = "" /\ RunMoves(a, i, {"Running"})

RunCompletes(a, i) ==
    runs[a][i].phase = "Running" /\ RunMoves(a, i, Endings)

\* A run that is terminated, or required, does not go on for ever.
RunEnds(a, i) ==
    (runs[a][i].terminate \/ a \in spec.required) /\ RunCompletes(a, i)

ProgressDeadlinePasses(t) ==
    /\ t \notin late /\ status.templates[t].status # ""
    /\ late' = late \cup {t}
    /\ UNCHANGED <<experiment, outdated, cluster, durationPassed, reconciling, pass, budget>>

DurationPasses ==
    /\ spec.duration /\ status.available /\ ~durationPassed
    /\ durationPassed' = TRUE
    /\ UNCHANGED <<experiment, outdated, cluster, late, reconciling, pass, budget>>

ScaleDownDelayPasses(t) ==
    /\ rs[t].deadline = "pending"
    /\ rs' = [rs EXCEPT ![t].deadline = "expired"]
    /\ UNCHANGED <<experiment, outdated, services, runs, time, reconciling, pass, budget>>

\* kubectl, or the Rollout that started the experiment (cancelExperiments)
Terminate ==
    /\ ~terminate /\ status.phase \notin Completed
    /\ terminate' = TRUE /\ UNCHANGED status /\ CacheLags
    /\ UNCHANGED <<spec, outdated, cluster, time, reconciling, pass, budget>>

-----------------------------------------------------------------------------
(* The specification.                                                      *)

InitWith(budgets) ==
    /\ spec \in Specs
    /\ terminate = FALSE
    /\ status = NoStatus /\ cached = Current /\ outdated = FALSE
    /\ rs = [t \in Template |-> NoReplicaSet]
    /\ services = {}
    /\ runs = [a \in Analysis |-> [i \in RunIds |-> NoRun]]
    /\ late = {} /\ durationPassed = FALSE
    /\ reconciling = FALSE /\ pass = NoPass
    /\ budget \in budgets

Init == InitWith({[pods |-> MaxPodFailures, api |-> MaxApiFailures,
                   passes |-> MaxPassFailures, stale |-> MaxStalePasses]})

Controller ==
    BeginPass \/ ReconcileTemplate \/ ReconcileAnalysisRun \/ PersistStatus

Cluster ==
    \/ \E t \in Template : \/ PodBecomesAvailable(t) \/ PodsTerminate(t)
                           \/ PodBecomesUnavailable(t)
                           \/ ProgressDeadlinePasses(t) \/ ScaleDownDelayPasses(t)
    \/ \E a \in Analysis, i \in RunIds : RunStarts(a, i) \/ RunCompletes(a, i)
    \/ DurationPasses

Next == Controller \/ PassFails \/ Cluster \/ Terminate

Spec == Init /\ [][Next]_vars

(* The Experiment's informer resyncs and every change of it, its pods and   *)
(* its runs enqueues it; pods start and stop, runs end and time passes.     *)
Fairness ==
    /\ WF_vars(Controller)
    /\ \A t \in Template : /\ WF_vars(PodBecomesAvailable(t))
                           /\ WF_vars(PodsTerminate(t))
                           /\ WF_vars(ScaleDownDelayPasses(t))
    /\ \A a \in Analysis, i \in RunIds : WF_vars(RunStarts(a, i)) /\ WF_vars(RunEnds(a, i))
    /\ WF_vars(DurationPasses)

FairSpec == Spec /\ Fairness

-----------------------------------------------------------------------------
(* Properties.                                                             *)

(* Every variable stays in its range. *)
TypeOK ==
    /\ spec \in SpecType /\ terminate \in BOOLEAN
    /\ status \in StatusType /\ outdated \in BOOLEAN
    /\ cached \in [terminate : BOOLEAN, status : StatusType]
    /\ rs \in [Template -> ReplicaSetType]
    /\ services \subseteq WithService
    /\ runs \in [Analysis -> [RunIds -> RunType]]
    /\ late \subseteq Template /\ durationPassed \in BOOLEAN
    /\ reconciling \in BOOLEAN /\ pass \in PassType
    /\ budget \in [pods : Nat, api : Nat, passes : Nat, stale : Nat]

UnderWay(a, i) ==
    runs[a][i].exists /\ runs[a][i].phase \notin Completed /\ ~runs[a][i].terminate

(* The controller is an implementation of Trial: whatever fails, the verdict *)
(* is stored once, and after it no template is scaled up and no AnalysisRun  *)
(* is started any more; unless a pass takes an outdated version for the      *)
(* current one, for persistExperimentStatus does not notice.                *)
Promise == INSTANCE Trial WITH
    Verdict <- Completed,
    phase <- status.phase,
    pods <- {t \in Template : rs[t].size > 0},
    analyses <- {a \in Analysis : \E i \in RunIds : UnderWay(a, i)},
    void <- outdated
TrialIsImplemented == Promise!Spec

(* A verdict is Successful only if nothing is recorded as failed, and the    *)
(* Experiment was terminated, or all its required runs succeeded, or its     *)
(* duration passed and no required run is recorded as under way.  A run that *)
(* is recorded while its own phase is still empty counts as Successful, as   *)
(* a phase outside analysisStatusOrder does for assessAnalysisRuns.  Not so, *)
(* as for Trial, once a pass started from an outdated version: its patch     *)
(* mixes what two passes recorded.                                          *)
SuccessIsEarned ==
    [][ (~outdated /\ status.phase \notin Completed /\ status'.phase = "Successful") =>
          /\ \A t \in Template : status'.templates[t].status \notin {"Failed", "Error"}
          /\ \A a \in Analysis : status'.runs[a].phase \in {"", "Pending", "Running", "Successful"}
          /\ \/ pass.terminate
             \/ RequiredSuccessful(status')
             \/ /\ durationPassed
                /\ \A a \in spec.required : status'.runs[a].phase \in {"", "Successful"} ]_vars

(* An Experiment that is terminated, whose duration passed or whose required *)
(* runs succeeded comes to a verdict; one with required runs unless it is    *)
(* terminated or has other runs too (RequiredEndsIt).                       *)
ExperimentEnds ==
    LET ends == terminate \/ durationPassed \/ RequiredSuccessful(status)
        waits == spec.required # {} /\ (terminate \/ spec.required # Analysis)
    IN <>[](ends /\ ~waits => status.phase \in Completed)

(* After the verdict the pods, the Services and the recorded runs of the    *)
(* Experiment go away, but for a run that once could not be read or         *)
(* terminated.  A run created by a pass that stopped before its patch, and   *)
(* that no later pass finds again under its name, is recorded nowhere: no    *)
(* pass ever ends it, and nothing is said of it.                            *)
CleansUp ==
    <>[](status.phase \in Completed =>
            /\ \A t \in Template : rs[t].size = 0 /\ rs[t].avail = 0 /\ t \notin services
            /\ \A a \in Analysis :
                 status.runs[a].run # 0 /\ status.runs[a].phase # "Error"
                    => ~UnderWay(a, status.runs[a].run))

(* docs/features/experiment.md:41: an Experiment runs "until terminated, or  *)
(* until all analyses which were marked `requiredForCompletion` have         *)
(* completed".                                                              *)
RequiredEndsIt ==
    <>[](terminate \/ RequiredSuccessful(status) => status.phase \in Completed)
=============================================================================
