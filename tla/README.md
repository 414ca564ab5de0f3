# A TLA+ model of Argo Rollouts

Argo Rollouts is a Kubernetes controller that replaces one version of a workload by another
gradually: blue-green (two Services, one switch) or canary (steps of weights, pauses, analyses and
experiments).  This directory holds TLA+ modules translated from its Go source, the TLC
configurations that check them, and proofs for TLAPS.

* `PROJECT.json` lists the components, the runs, the mutants, the source lines of every definition,
  the findings, the hazards and the theorems.
* `tlc -workers 2 -config BG_faults.cfg MCBlueGreen.tla` model-checks one run (section 3 names the
  others; each takes three minutes at most with two workers); `tlapm BlueGreen_proofs.tla` checks the
  proofs of one component.

## 1. Inventory

State is in Kubernetes objects; the controllers keep none between two reconciliations.  A *pass* is
one reconciliation of one object: it reads its informers' caches, writes to the API server in a
fixed order and ends with a patch of the object's status.

| Component | State | Operations | Hard behaviour | What makes it correct |
|---|---|---|---|---|
| Blue-green strategy (`rollout/bluegreen.go`, `service.go`, `stages.go`) | selectors of two Services, `status.blueGreen`, `stableRS` | the stages of `runBlueGreenStages` | decisions taken on a snapshot and on live Services; order of stages; a pass that stops | traffic moves only to analysed, approved, full-size versions; an abort brings it back; updates end |
| Pause and abort (`pause.go`, `context.go`) | `pauseConditions`, `controllerPause`, `abort`, `abortedAt`, `spec.paused` | `AddPauseCondition`, `CompletedBlueGreenPause`, `CalculatePauseStatus` | the user writes the same fields; timeouts | a resume ends the pause, an abort wins over a pause |
| ReplicaSet scaling (`replicaset.go`, `sync.go`, `utils/replicaset`, `utils/annotations`) | sizes, desired-replicas and scale-down-deadline annotations | `reconcileNewReplicaSet`, `reconcileOtherReplicaSets`, `addScaleDownDelay`, `reconcileRevisionHistoryLimit`, `isScalingEvent` | write conflicts, stale copies, deadlines | the versions with traffic and the stable one keep their size, old ones go |
| Status sync and promotion (`sync.go`, `conditions.go`) | `currentPodHash`, `stableRS`, deadline conditions | `shouldFullPromote`, `resetRolloutStatus`, `persistRolloutStatus` | a merge patch against newer user input | promotion follows traffic and analysis |
| Analysis runs of a rollout (`rollout/analysis.go`, `utils/analysis`) | AnalysisRuns, references to them in the status | start, reuse, cancel, delete | a run created but not recorded; a retry | one verdict per version and attempt |
| kubectl plugin (`pkg/kubectl-argo-rollouts/cmd`) | none | promote, promote --full, abort, retry, pause | concurrent with a pass | the command takes effect |
| Rollout controller (`controller.go`, `utils/resourceversion`) | work queue, `Tracker` | `syncHandler`, `newRolloutContext` | stale caches | a pass starts from its own last write |
| AnalysisRun controller (`analysis/`) | measurements and counters per metric, run phase, timestamps | `reconcileAnalysisRun`, `runMeasurements`, `assessRunStatus`, garbage collection | many metrics, limits, dry runs, termination, asynchronous providers | the verdict follows from the measurements; a run ends |
| Canary replica counts (`utils/replicaset/canary.go`) | none | `CalculateReplicaCountsForBasicCanary`, `...TrafficRoutedCanary` | rounding, surge at small counts | availability and surge limits; the weight is reached |
| Canary strategy (`canary.go`) | step index, weights, pauses, step and background runs | the stages of `runCanaryStages` | weights and sizes change in different stages; aborts; rollbacks | weight only to pods that exist; steps in order |
| Traffic routing (`trafficrouting.go`, providers) | weights of a mesh or an ingress | `SetWeight`, `VerifyWeight`, managed routes | eventually consistent | as above |
| Experiments (`experiments/`, `utils/experiment`) | ReplicaSets per template, AnalysisRuns, template status | create, scale, start runs, terminate | partial failures, durations | ends, cleans up, fails when a template fails |
| Step plugins (`stepplugin.go`, `steps/plugin`) | status per plugin and step | run, terminate, abort, back off | retries with an RPC in between | a step completes once |
| Pod restarts (`restart.go`) | `restartedAt` | evictions | limits under concurrent failures | never below `maxUnavailable` |
| Services, ingresses, manager, validation, API types, UI, metric providers, workload references, ephemeral metadata | | | | see `PROJECT.json` for why they are left out |

The parts interact through the objects: the rollout controller writes ReplicaSets, Services,
AnalysisRuns and Experiments; the AnalysisRun and experiment controllers write only the status of
theirs; the ReplicaSet controller of Kubernetes reports available pods; users write the Rollout's
spec and status.  Every one of these writes may fall between two writes of a pass.

## 2. Modules

| Module | What it is |
|---|---|
| `BlueGreen.tla` | the blue-green reconciliation loop, the cluster around it and the user; its properties |
| `MCBlueGreen.tla` | its instance for TLC (symmetry of the hashes) |
| `BlueGreen_proofs.tla` | theorems about `BlueGreen`: types, promotion, what keeps its size and exists |
| `BlueGreenAnalysis_proofs.tla` | theorems about its analyses, approvals and previews, over `BlueGreen_proofs` |
| `AnalysisRun.tla` | the analysis controller on one AnalysisRun, with the Jobs of the Job provider; its properties |
| `MCAnalysisRun.tla` | its instances for TLC (the limits of three metrics) |
| `AnalysisRun_proofs.tla` | theorems about `AnalysisRun`: every safety property of it |
| `CanaryReplicas.tla` | the replica arithmetic of the canary strategy, as operators |
| `CanaryReplicas_proofs.tla`, `BasicCanary_proofs.tla` | theorems about the counts of the basic canary, and about its passes |
| `BasicCanary.tla` | the canary without a traffic router, over `CanaryReplicas` |
| `Canary.tla` | the reconciliation loop of a canary with a traffic router, over `CanaryReplicas` |
| `Canary_proofs.tla` | theorems about `Canary`: types, pauses, weights, readiness |
| `CanaryAnalysis_proofs.tla` | a theorem about its analysis steps, over `Canary_proofs` |
| `MCBasicCanary.tla`, `MCCanary.tla` | their instances for TLC (limits; strategies and budgets) |
| `Trial.tla` | what an experiment promises to whoever started it: the abstract specification |
| `Experiment.tla` | the experiment controller on one Experiment, shown to implement `Trial` |
| `MCExperiment.tla`, `Experiment_proofs.tla` | its instances; theorems about it, the refinement among them |

`AnalysisRun` is the detailed form of what `BlueGreen`, `Canary` and `Experiment` assume of an
AnalysisRun (`RunCompletes`): it gets a verdict once, and a terminated run ends.  `VerdictIsFinal`
says how far the first holds, `RunCompletes` of `AnalysisRun` is the second.  `BasicCanary` and
`Canary` extend `CanaryReplicas`, and what is proved of its operators holds in `BasicCanary`.
`Experiment` instantiates `Trial` (`Promise == INSTANCE Trial WITH ...`).

### BlueGreen

A pass is a sequence of actions, one per stage, in the order of `runBlueGreenStages`; `pc` is the
stage about to run.  Everything else may happen between two stages.

| Action | Code |
|---|---|
| `CreateReplicaSet` | `newRolloutContext` when the template is new: create a ReplicaSet of size 0 and end the pass |
| `BeginPass` | the snapshot in `pass`, `syncReplicaSetRevision`, `isScalingEvent` (the pass is then `syncReplicasOnly`), `IsAborted` |
| `ReconcilePreviewService` | `reconcilePreviewService`, then the jump to the status sync for a changed template |
| `RemoveScaleDownDeadlines` | one patch per step |
| `ReconcileStableReplicaSet`, `ReconcileNewReplicaSet`, `ReconcileOtherReplicaSets` | scaling; an Update of an object written since the snapshot (`pass.dirty`) is refused |
| `ReconcileRevisionHistoryLimit` | deletion of old ReplicaSets and of their runs |
| `ReconcileBlueGreenPause`, `ReconcileActiveService`, `ReconcileAnalysisRuns` | the stages of these names |
| `SyncRolloutStatus` | `syncRolloutStatusBlueGreen`, `CalculatePauseStatus`, `evaluateProgressDeadlineAbort`, `persistRolloutStatus` (`Merged`: a field the pass did not change keeps what the user wrote meanwhile) |
| `PassFails` | an API error, a refused patch or a crash after any step |
| `PodBecomesAvailable`, `PodsTerminate`, `PodBecomesUnavailable`, `RunCompletes`, `DeadlinePasses`, `PauseElapses` | the ReplicaSet controller, the AnalysisRun controller and time |
| `OthersFail` | an error in `reconcileOtherReplicaSets`, which hides it: the pass goes on |
| `Promote`, `PromoteFull`, then `PatchStatus` and `PatchSpec` | the three calls of `PromoteRollout`: get the Rollout and compute the patches (`getPatches`), patch the status, patch the spec |
| `Abort`, `Retry`, `Pause`, `SetTemplate`, `Scale` | the plugin's other patches and edits of the spec |

`spec` and `status` are the Rollout; `rs` the ReplicaSets by pod template hash; `runs` the
AnalysisRuns; `active` and `preview` the Services' selectors; `pass` holds `rolloutContext` and
`pauseContext`; `approved` is a history variable: the hashes whose pause a user resumed, asked for by
`SwitchNeedsApproval` only; `client` holds the patches a promote has yet to send; `budget` holds what is left
of the bounds.

Abstractions, each with its reason:

* A template is its hash.  `collisionCount` and `workloadRef` only produce the hash.
* Time is whether a deadline has passed, and it may pass at any moment.
* The pass reads its own earlier writes of the Rollout (`utils/resourceversion/tracker.go` refuses a
  cached Rollout older than the controller's last write) and a fresh snapshot of the ReplicaSets at
  `BeginPass`; what is stale later in the pass shows as a refused Update (`pass.dirty`).  JSON patches
  and Service writes are not refused.
* Strategy fields are CONSTANTS: editing them during an update is not modelled.  The preview Service
  is configured.  Both AnalysisRun history limits are 0.
* `rs.Status.Replicas` is represented by the available pods.
* The API calls of the analysis stage are one step, and so are the deletions of the clean-up; the
  revision update is one step with the snapshot.
* An AnalysisRun in phase Error counts as Failed: no decision of a Rollout distinguishes them.
* Early exits of `patchCondition` and `checkPausedConditions`, which write conditions only, are
  stuttering.  Conditions, the phase and the duration metric are read by no decision modelled.
* Pod restarts, ephemeral metadata and AWS target group verification are left out.
* One controller runs (leader election), and one promote at a time: what another user does falls between its
  calls, but a second promote starts over with what the first has not sent.  Nothing obliges a promote to send
  its patches.

### AnalysisRun

A reconcile is one step up to its patch (`Reconcile`: it touches nothing outside the run but Jobs)
and a second step for the patch, so that `TerminateRun`, Jobs and restarts fall between them.

| Action | Code |
|---|---|
| `Reconcile` | `reconcileAnalysisRun` of a run without a verdict: `generateMetricTasks` (`Tasks`), `runMeasurements` (`TakeMeasurement`, `Record`, `JobsAfter`), `assessRunStatus` (`Assess`), `garbageCollectMeasurements` (`Trim`), `calculateNextReconcileTime` (`NeedsReconcile`) |
| `SkipCompleted` | its early return |
| `LoseSecret` | `resolveArgs` fails: phase Error, no `completedAt` |
| `Persist`, `PersistFails` | `persistAnalysisRunStatus`; the patch holds only what differs from the copy that was read, and the list of results as a whole |
| `TimerFires`, `Deliver`, `JobEnds` | what puts the run in the work queue: `enqueueAnalysisAfter`, the run's informer, the job informer |
| `JobSeen`, `JobStuck`, `Restart`, `TerminateRun` | Kubernetes, a restart of the controller, the rollout controller or a user |

`status` and `terminate` are the stored run, `cache` the lister's copy, `watch` the versions between
them; `new` is the status about to be patched; `jobs` holds the Jobs as the lister shows them;
`history` (in each result), `ended` and `overwritten` are history variables.

Abstractions: whether an interval, a resume time or a delay has passed is a choice of each reconcile
(`due`); an event of the run's informer that arrives during a reconcile is handled after it, since
the reconcile has read its copy and the event changes only the cache and the queue; a Job changes
when the lister sees it change, except that a new Job is created before it is seen (`created`) and
stays a while after its deletion (`deleting`); a Job that has ended is deleted at once; providers
other than the Job provider answer at once with any phase, and an error of an API call of a Job is
the answer Error.  Deletion after `ttlStrategy`, run summaries, messages and events are left out, and
so are the errors of argument templates and regular expressions, which end the run as a lost Secret
does.

### CanaryReplicas and BasicCanary

`CanaryReplicas` holds what `utils/replicaset/canary.go` and the fenceposts of
`utils/replicaset/replicaset.go` compute, without a state: `Approximate` picks the counts that stand
for a weight, in the order and with the ties of the code; `BasicCounts` is
`CalculateReplicaCountsForBasicCanary`.  The code divides in floating point and compares distances;
here fractions are multiplied out.  `maxTrafficWeight` is its default, 100.

In `BasicCanary` a pass is one step: without a router it writes ReplicaSets and the status only, and
every Update of a ReplicaSet is refused if that ReplicaSet changed since it was read.  `SyncReplicasOnly`,
`SyncRevisionOnChange` and `RolloutCanary` are the three ways a pass goes; `AfterScaling` is
`reconcileCanaryReplicaSets` (at most one of the stable and the new ReplicaSet changes its size, else the
old ones do), `StatusAfterSync` is `syncRolloutStatusCanary`, `PatchStatus` the patch or its loss.
ReplicaSets have, besides their size, the pods that exist and those that are available
(`PodsFollowSpec`, `PodBecomesAvailable`, `PodBecomesUnavailable`).  Steps are `setWeight` steps.
A promote is one step here, and an error that `reconcileOtherReplicaSets` hides ends the pass like any
other: neither changes a size, and the properties of this module are about sizes and their end.

### Canary

As in `BlueGreen`, a pass is a sequence of actions and `pc` is the stage about to run, in the order of
`canaryStages`.

| Action | Code |
|---|---|
| `CreateReplicaSet`, `BeginPass` | `newRolloutContext`, `syncReplicaSetRevision`, `isScalingEvent`; a new template goes straight to the status sync |
| `ReconcileStableService`, `ReconcileCanaryService` | `reconcileStableAndCanaryService`: a Service is switched once a pod of the version is available |
| `ResetCanaryServiceOnAbort`, `ReconcileTrafficRouting` | `reconcileTrafficRouting`: `DesiredWeight` is its case analysis, in its order; then `SetWeight`, if `checkReplicasAvailable` lets it |
| `CancelCurrentAnalysis`, `ReconcileStepBasedAnalysisRun`, `ReconcileBackgroundAnalysisRun`, `ReconcileOtherRuns` | `reconcileAnalysisRuns` |
| `RemoveScaleDownDeadlines`, `ReconcileStableReplicaSet`, `ReconcileNewReplicaSet`, `CleanupUnhealthyReplicas`, `ReconcileOtherReplicaSets` | `reconcileCanaryReplicaSets`, with the delays of an abort |
| `ReconcileCanaryPause` | the stage of this name |
| `SyncRolloutStatus` | `syncRolloutStatusCanary` and the merge patch (`Merged`); after a scaling event `syncReplicasOnly`, which keeps the status |
| `OthersFail`, `PassFails` and the actions of pods, runs, time and users | as in `BlueGreen`; the status patch of a promote may hold the step after the one it read |

`strategy` is one of `Strategies`, records of steps, `dynamicStableScale`, the abort delay (unset, 0 or
positive), background analysis and the progress threshold.  `weight` is what the router sends to the
canary Service; `canarySvc` and `stableSvc` are the Services' selectors; `resumed` is a history
variable: a user resumed the controller's last pause.

Abstractions beyond those of `BlueGreen`: the router does what it is told (`SetWeight` succeeds or the
pass fails; `VerifyWeight` is left out); a ReplicaSet's scale-down delay is its default, 30 seconds; a
Rollout starts with its first version promoted and weights in its status; the steps are not edited.
`minPodsPerReplicaSet` is 1.  The pods that stop are counted as available until they are gone, as
`availableReplicas` does.

### Experiment and Trial

A pass of `Experiment` takes a snapshot (`BeginPass`; it may be the version before the last change,
since the experiment controller has no tracker of resource versions), sees to each template
(`ReconcileTemplate`: `CreateReplicaSet`, or `ScaleTemplate` with the Service, the delay and the size)
and each analysis (`VerifyAnalysisTemplate`, `CreateAnalysisRun`, `WatchAnalysisRun`), and patches the
status (`PersistStatus`: `NewPhase` is `calculateStatus`).  Any of its API calls may fail, which the code
notes in the status of the template or of the analysis without stopping the pass (a ReplicaSet that cannot be
read again after its deadline was stored keeps its pods until the next pass); any pass may be lost
(`PassFails`).  `late` holds the templates whose progress deadline has passed, `durationPassed` whether
the duration has; `outdated` is a history variable.

`Trial` has no controller: a phase, the templates with pods, the analyses under way.  Before a verdict
anything may start and stop (`Proceed`), the verdict is given once (`Decide`), after it pods and analyses
are only given back (`Release`).  `Lapse` ends the promise: the mapping sets it to `outdated`, a pass
that used an old version, the one thing the code has no guard against.

Abstractions: one number of replicas for all templates; ReplicaSets and Services of the same name with
another owner, collision counts, the metadata and arguments of runs, conditions, events and workload
references are left out; the panic of `scaleTemplateRS` on a ReplicaSet that was deleted counts as a pass
that fails.  The loops over templates and over analyses take them in a fixed order: what is done for
one of them reads nothing of another.

## 3. Runs

| Run | Instance | Question |
|---|---|---|
| `BG_faults` | first deployment, 2 versions, both analyses, 2 user actions of 5 kinds, a pass that stops anywhere | can a verdict of another version move traffic or promote, are runs lost or leaked, is anything promoted without the traffic, does an abort after the switch give it back, does the update end, is the old version scaled down? |
| `BG_history` | 3 versions, manual promotion, history limit 0, rollback window 1, 4 user actions, a pass that stops | is anything in use deleted, is any approval skipped? |
| `BG_scale` | 2 versions, 2 or 3 replicas, preview count 1, `autoPromotionSeconds`, progress deadline, aborts, a pod that fails | sizes of the versions with traffic; do the stages wait for each other's sizes? |
| `AR_live` | a Job, a query and a delayed dry-run query, one failure; no lag | does the run complete, with the right verdict and nothing in flight? |
| `AR_stale` | a Job run twice, two successes in a row asked for, a cache one version behind, one failure | what do stale reads, lost patches and trimmed measurements do to counters and verdicts? |
| `BC_scaling` | 3 versions, 1 or 3 replicas, steps 30 and 50, surge 1, unavailable 40%, 2 user actions of 5 kinds, a pod that fails, a lost patch | do the replica counts keep `maxSurge` and `maxUnavailable` through updates, aborts and scaling, and does the update end? |
| `CN_traffic` | 2 versions, 1 or 2 replicas, 3 strategies (`setCanaryScale` steps; `dynamicStableScale` with the default and with an explicit abort delay), up to 3 user actions, a pod that fails or a pass that stops | does traffic find its pods; where does it end after an update, an abort, a retry? |
| `CN_steps` | 2 versions, a strategy with a step analysis and an indefinite pause, one with a background analysis and a timed pause, 3 runs, up to 3 user actions, a pass that stops | is a step passed without its run or its user, is a run lost, does the update end? |
| `EX_faults` | a template with a Service, an analysis; a timed experiment with a scale-down delay, and one that is timed and awaits its analysis; a failing pod, API call or pass, or a stale pass | does it implement `Trial`, does it end, is its success earned, does it clean up? |
| `BG_doc_abort`, `BG_doc_checkpoint`, `EX_doc_complete` | the smallest instance of each disagreement | see section 5 |

The bounds are on the environment only: user actions, pod failures, passes cut short, API failures
and AnalysisRuns that exist at a time.  Two versions are enough for a new and a stable one; three add an
*old* version that is neither, which is what the clean-up, the rollback window and the old pods of the
basic canary are about.  Two to four user actions allow an update, its abort, its retry and an undo.
`MaxRuns` is never exhausted: a run always finds a free identifier.  Most of the depth of a behaviour
(70 steps and more) is the controller's own, which is not bounded.

The liveness runs cannot use `SYMMETRY`; `MCBlueGreen` and `MCCanary` start from one of the hashes
instead, since they are interchangeable, and `MCCanary` from budgets that differ by strategy: a
behaviour has failing pods, or a crash and one more user action, and the smallest instances have both.
`MCExperiment` allows one kind of fault in a behaviour.  In `BC_scaling`, 3 replicas with surge 1 and
40% unavailable leave one pod to move either way, 1 replica with 40% none but the surge.  An experiment
with two templates, without faults, has been checked against the same properties as `EX_faults`; it
takes four minutes and is not among the runs.

Deadlock is checked in every run but those of `AnalysisRun`, where a completed run rests: a controller
whose work is done keeps running passes that change nothing.

The bounds of `AnalysisRun` are `MaxFaults` (failed patches, restarts, lost Secrets), `MaxLag` (how
far behind the cache may be when a reconcile starts; one version is what a patch, or a termination
before it, leaves behind) and `MaxMeasurements`.  In `AR_live` the last is never reached: a metric
ends after two measurements at most.  In `AR_stale` it cuts the behaviours with a fourth measurement.
The measurements kept (`Retention`) are one, so that trimming happens at the second.

Fairness (`FairSpec`; `MCFairSpec` where an MC module narrows `Init`) is weak fairness of the controller
(the work queue and the resync period call it again and again), of pods starting and stopping, of runs
completing and of deadlines passing. There is none for users, for pod failures or for passes that stop,
which are bounded instead: the liveness properties say what happens once they leave the object alone.
In `Experiment` only the runs that are terminated or required end: others may measure for ever.

In `AnalysisRun`, fairness is weak for the patch, the informers, the timer and the end of Jobs, and
strong for a reconcile that finds everything due: the work queue hands the run out again and again as
long as something puts it there, and time goes on meanwhile.  A run that nothing puts in the queue is
not reconciled: the resync of the informer is left out, so that `RunCompletes` rests on
`calculateNextReconcileTime` and the informers' events alone.

Every property is broken by a mutant of the code (`PROJECT.json`, "mutants"; the mutated operators
stand before the originals, marked *Mutant*).

## 4. Proofs

`BlueGreen_proofs.tla` proves, for every finite set of hashes, every strategy and every bound:

* `TypeCorrect`: `Spec => []TypeOK`.
* `StableKept`: the ReplicaSet of `status.stableRS` exists in every state.  `StableExists` alone is
  not inductive: the clean-up deletes what the snapshot of the pass calls old, so the invariant has to
  relate the snapshot to the stored status.  `StableInv` adds `PassSeesStable`: during a pass the
  stored `stableRS` is the snapshot's, and the ReplicaSets of the snapshot exist.  It holds because
  only the last step of a pass writes `stableRS`, and every pass removes only `IsOther` ReplicaSets.
* `PromotionFollows`: `Spec => PromotionFollowsTraffic`.  `SyncRolloutStatus` changes `stableRS` only
  to the template of the pass (`StableInv` makes the merge with the stored status harmless), and
  `ShouldFullPromote` then asks the active Service.
* `ActiveKeepsSize` and `StableKeepsSize`: the version with the traffic, and the one to fall back to, have
  a size the user asked for (`ActiveAtFullSize`, `StableAtFullSize`), assuming `FullSizePreview`: neither
  `previewReplicaCount` nor an abort delay.  They hold whatever is aborted, paused or scaled and wherever a
  pass stops, and `SizeInv` says why: until the other ReplicaSets are scaled down, every size is the one the
  pass saw or one the user asked for (`SizeSeen`), and after its stage the stable ReplicaSet, then the new
  one, has such a size (`PassSizes`), so that a switch or a promotion finds it.  Outside the hypothesis they
  are false: with a preview size, when a pass stops between the switch and the promotion and a user then
  pauses and scales; with an abort delay, for an aborted version that still has the traffic (section 5,
  `BG_doc_abort`).
  `StableKeepsSize` is about a Rollout deployed once before: on a first deployment, a template changed
  before the Service selects anything makes a version stable that was never scaled.
* `ActiveKept`: where nobody asks for zero replicas, the ReplicaSet with the traffic exists.
* `ReferencedKept`: nor is that of the preview Service deleted, or the stable one (`ReferencedExist`), where
  users neither pause nor scale (`SteadyUsers`).  The preview is the difficult
  one: it is not kept by its size, but because every pass moves the preview Service before it cleans up.
  A pass that is paused or a scaling event does not, and with a history limit of 0 it deletes a ReplicaSet
  the preview Service still selects.  `HistoryInv` therefore says that no pass is such a pass: every
  ReplicaSet has the `desired-replicas` annotation of the spec (`Steady`), and after the first stage the
  preview is the new version (`Previewed`).

`BlueGreenAnalysis_proofs.tla` proves, in the same generality:

* `CurrentRunsKept`: a run the status refers to exists (`CurrentRunsExist`).
* `SwitchesAreAnalysed` and `PromotionsAreAnalysed`: `Spec => SwitchNeedsAnalysis` and
  `Spec => PromotionNeedsAnalysis`.

All three rest on `AnalysisInv`, which adds five facts to `StableInv`: which stages a pass reaches with
a changed template or a scaling event (`PassPath`), what of its snapshot is still as stored
(`PassOfStatus`), that the runs of the status are of its `currentPodHash` (`StatusRuns`), that a verdict a
pass has seen is still that of the run (`PassRuns`), and which versions the active Service may select
(`TrafficKnown`).  The last is needed for one case only: a pass that finds a new template still reads the
post-promotion run of the version before, and could promote on its verdict if the Service selected the
new one.

It also has what holds of a promotion by users, and with a preview size:

* `SwitchesAreApproved`: `Spec => SwitchNeedsApproval`, assuming `OnlyBlueGreenPause`: no analysis, which may
  pause the Rollout as inconclusive and take the resume for an approval, and no `previewReplicaCount`, whose
  checkpoint outlives the template (section 5, `BG_doc_checkpoint`).  `BG_history` satisfies it.  `PauseKnown`
  adds to `AnalysisInv` that `controllerPause` without the blue-green pause condition means that a user
  resumed the pause of the version the status is of, also in the snapshot of a pass.
* `ActiveKeepsSizeWithPreview`, `StableKeepsSizeWithPreview`: the sizes again, for every preview size,
  assuming `UpdatesOnly`: users request, resume, abort and retry updates, but neither pause, scale nor
  promote in full; the Rollout was deployed before, aborted versions have no delay, and the preview size
  is none of the sizes users ask for.  Any pass may stop anywhere, also between the switch of the traffic
  and the status patch; any analysis may come there too.  That is the case the two theorems are about: the
  stored status then still names the old version, and the new one must not get its preview size back
  before it is stable. `ServingInv` says why it does not.  A switch needs the checkpoint, or a rollback
  (`Serving`), and `NewRSNewReplicas` takes the checkpoint of the snapshot for a reason to give the new
  version its full size. The status may therefore not know where the traffic is, but it knows enough
  (`TrafficOf`): the Service selects the stable version, or the one of the status, which then has no
  pause.  `PassServes` says the same of the snapshot of a pass, and of the sizes it is about to write.
  Section 5 has what happens with a full promotion; a pause or a scaling breaks the properties in the same
  place.
* `ReferencedKeptWithPreview`: `ReferencedExist` under `UpdatesOnly`, with the clean-up after a pass that
  stopped.  The versions in use are not deleted because `ServingInv` gives them their size, and the preview is
  not, because of `HistoryInv`.

`AnalysisRun_proofs.tla` proves every safety property of `AnalysisRun`, for every set of metrics, their
limits and every number of faults and every lag:

* `VerdictFinal`: `Spec => VerdictIsFinal`.  The invariant is `PatchesUnfinished`: while a patch is
  pending, the copy the reconcile read has no verdict.  A patch against the current status therefore
  never meets a verdict; every other step leaves the status alone.
* `TypeCorrect` and `MeasuredUntilDecidedHolds`.  Because a status may be computed from an old copy, the
  invariant `SoundInv` says of every version there is (the stored one, the cached one, those the informer
  has yet to deliver, the one about to be patched) that its counters agree with the history of its
  measurements (`Counted`) and that the phase of each metric is the verdict of that history (`Assessed`).
  The merge of a patch with a newer version (`terminate`) keeps that.
* `RunVerdictIsWorstHolds` and `NothingLeftInFlightHolds`, from `GoodInv`: what a completed status shows,
  of the stored one and of the patch that will be applied to it.
* `JobsCountedOnceHolds`, from `CountInv`: the measurements any version counts belong to different Jobs
  (their numbers are positions in the history), each of which has ended with that verdict; the
  cardinality of that set bounds the counter.

`Canary_proofs.tla` proves, for every set of hashes, every strategy (any steps) and every bound:

* `TypeCorrect`: `Spec => []TypeOK`.  The type of a pass needs more than types: that its ReplicaSets exist
  and its step index stays within the steps, although users move the stored one meanwhile.  The inductive
  `StepInv` is `TypeOK` with `Snapshot` and `StepsKept`, which say so.
* `PauseNeedsUserHolds`: `Spec => PauseNeedsUser`, from `PausesKept`: a pause whose conditions are
  gone while `controllerPause` is still set has been resumed, also in the snapshot of a pass.
* `WeightStaysInRange`: `Spec => []WeightInRange`, assuming `FixedSize`: users do not scale a Rollout with
  `dynamicStableScale`, and no `setCanaryScale` step of it asks for more pods than it has replicas.  Without
  the assumption the property is false (section 5).  The invariant says that no version of such a
  Rollout has more pods than the Rollout has replicas (`SizesFit`), and that the weights recorded in the
  status, in the snapshot and in the pass are within range (`WeightsFit`).  No run lists the property: it
  holds on the instance of `CN_traffic`, too.
* `CanaryIsReady`: `Spec => CanaryReadyForMore`, assuming `ScalesFit`: nobody promotes in full, and a
  strategy without `dynamicStableScale` has no progress threshold, and no `setCanaryScale` that holds at a
  `setWeight` step and asks for fewer pods than that weight.  The router's stage wants more than the
  weight of the steps before only if the pass saw the new version available at its desired size
  (`AtDesiredReplicaCounts`), which at a `setWeight` step is at least the size of its weight
  (`ReadyForWeight`).  But that is the new version, and the weight goes to whatever the canary Service
  selects: `CanaryRouted` adds to `StepInv` that when the weight is set the two are the same, if the new
  version has a pod and is not aborted, because the Services were reconciled before.  Each part of
  `ScalesFit` is needed: a percentage of the pods counts as ready, a smaller canary is ready at its own
  size, and a full promotion raises the weight by another path, which after a crash finds a canary that is
  not ready.  `CN_traffic` satisfies it but for its full promotions.

The stages of a pass fall into five kinds (`ServiceStage`, `TrafficStage`, `AnalysisStage`,
`ScalingStage`, `PauseStage`).  One lemma per action says of which kind it is; the invariants are proved
kept by what a kind says, so that a new invariant needs a handful of cases instead of twenty actions.
That the maximum of a finite set of numbers exists, which the `CHOOSE` behind `Max` rests on, follows
from the library's theorem on well-founded orders.

`CanaryAnalysis_proofs.tla` proves `StepNeedsAnalysisHolds`: `Spec => StepNeedsAnalysis`, assuming
`OneAnalysis`: a strategy with background analysis has one analysis step at most.  Without it the property
is false (section 5).  A strategy without background analysis may have any number.  `RunInv` adds to
the invariant of the pauses: which stages a pass reaches (`StagesKept`), that the step run of the status
and of the pass is a run of the current version and of an analysis step, as far as the pass knows
(`RunsKept`), and that a Rollout which pauses while it has a step run pauses because of that run
(`PausesTell`), so that no run of an earlier step is left when the next analysis step begins.
 `CanaryReplicas_proofs.tla` proves `BasicCountsKeepTheLimits`, for every rollout, every new and stable
ReplicaSet (two different ones: an update is under way) and any number of older pods: the counts of the
next pass are natural numbers, ask for at most `replicas + maxSurge` pods or as many as there were, and
keep as many pods available as `replicas - maxUnavailable` or as there were.  The same holds in between,
when the stable ReplicaSet has its count and the new one waits for the next pass.  The lemmas follow the
code: a ReplicaSet is raised by at most the room the surge leaves (`ScaledUpFacts`), drained by at most
the excess (`DrainedFacts`), and `adjustReplicaWithinLimits` takes back what the two steps together exceed
(`WithinLimitsFacts`).  It assumes that `maxUnavailable` is at most `replicas` (which `MaxUnavailable`
sees to), and that the approximated counts fit `replicas + maxSurge`.  `ApproximateFits` proves the latter
of the counts the code computes for a weight of 0 to 100: their sum is `replicas`, or one more where there
is a surge. Every option has such a sum (`OptionsFacts`), and a closest one exists because `Closer`
compares numbers, the distances put on the two totals' product (`CloserFacts`, `FirstLeastExists`);
without that the `CHOOSE` in `Approximate` would say nothing.  `SingleCountKeepsTheLimits` is the case
without another stable ReplicaSet.

`BasicCanary_proofs.tla` proves every safety property of `BasicCanary`, for every set of versions, every
`maxSurge`, `maxUnavailable` and list of weights, and every bound:

* `TypeCorrect`: `Spec => []TypeOK`.  The inductive `IInv` is `TypeOK` with three facts about the
  ReplicaSets: a version without one has no pods (`UnbornEmpty`), two of them have two revisions
  (`RevisionsDiffer`), and the stable one exists (`StableExists`).
* `SurgeRespectedHolds` and `AvailabilityKeptHolds`: `Spec => SurgeRespected`, `Spec => AvailabilityKept`.
  A step that changes a size is a pass (`ResizingStep`), and its scaling stage does one of three things
  (`StageFacts`): it sets the size of the stable ReplicaSet, of the new one, or of the older ones.  For
  the first two the theorems about the counts apply.  For the third (`OldStep`), of the versions that
  lose available pods the one with the least revision comes last and loses what the others left over, so
  all of them together lose no more than there are beyond the minimum; this is where `RevisionsDiffer`
  is needed.  The sums over versions are cardinalities of sets of pods (`Total`), because the prover
  knows how a set splits but not what a recursive sum computes.

`Experiment_proofs.tla` proves, for every set of templates and analyses, every spec and every bound:

* `TypeCorrect`: `Spec => []TypeOK`.  Each action has a lemma; `ClusterChanges` states once what all the
  actions of pods, runs and time leave alone, and the refinement uses it again.
* `ImplementsTrial`: `Spec => TrialIsImplemented`.  The invariant that carries it is `Snapshot`: unless
  a pass took an outdated version, the status stored during a pass is the status of its snapshot, and
  the templates it has not seen to have the sizes of the snapshot.  After a verdict a pass therefore is
  terminating: it takes up neither pods nor runs (`GivesBack`), and the phase it stores is the verdict
  (`VerdictKept`).
* `SuccessIsEarnedHolds`: `SuccessIsEarned`, for an Experiment with a template (the CRD allows an empty list,
  and then the second pass stores Successful).  The invariant is `Justification`: a template recorded as
  Successful before the verdict has a reason (terminated, duration passed, required runs successful), or
  something recorded as failed, and a pass keeps both in what it makes of the templates and runs it has
  seen to (`Seen`, `ReasonStays`).  The first attempt, without `outdated`, failed for a good reason: a patch
  leaves a field alone that is as in its snapshot, so a pass that starts from an outdated version can store
  the verdict Successful next to a template another pass recorded as Error.  TLC finds that with bounds of
  three outdated passes, a failed call and five crashes, which no run has.  The property now leaves such
  behaviours out, as `Trial` does.

Assumptions: the named assumptions of the modules on their constants (finite sets, types, positive bounds,
weights of at most 100); TLC evaluates them in every run.  Hypotheses of single theorems are the named
conditions above (`FullSizePreview`, `SteadyUsers`, `OnlyBlueGreenPause`, `UpdatesOnly`, `FixedSize`,
`ScalesFit`, `OneAnalysis`), `0 \notin ReplicaCounts` and `Template # {}`: all are conditions on the
strategy, on the size or on what users do, none on a state.  The proofs have one lemma per action and
conjunct it can disturb.
 TLC checked every inductive invariant first, on the constants of the runs: `StableInv`,
`PatchesUnfinished`, `Snapshot`, `Justification`; `SoundInv`, `GoodInv` and `CountInv` on `AR_live` and
`AR_stale`; `AnalysisInv` on `BG_faults` and with three user actions, aborts and retries among them;
`IInv` of `BasicCanary` on `BC_scaling`; `StepInv`, `PausesKept` and `RunInv` on `CN_steps` and on two
analysis steps with a pause between them; `SizeInv` and `PauseKnown` on every state with two hashes, and
by simulation with three; `ServingInv` with two hashes, analyses and two stopping passes, and with three
and one; `HistoryInv` on twelve million states with three hashes and an analysis; `CanaryRouted` by
simulation, with three hashes, crashes and failing pods.

Only model-checked, and why:

* Liveness under fairness (`UpdateSettles`, `AbortRestoresTraffic`, `OldVersionsScaledDown`, `NoOrphanRuns`,
  `RunCompletes`, `ExperimentEnds`, `CleansUp`) and ENABLED: outside the prover's reach.
* `CapacityFollowsTraffic` has no theorem.  It fails where a `setWeight` step is below an earlier one, where
  a third version comes while pods of two fail, and where a scaling comes with a rollback (section 5).  A
  hypothesis that excludes all that would say little more than the run does: it holds on the instance of
  `CN_traffic`, whose constants exclude those steps, and in simulations with larger ones.
* The properties with a hypothesis, outside it.  Where they are known to fail there, the bullets above say
  how; what is left rests on the runs: `ReferencedExist` with an abort delay and a failing pass
  (`BG_history`), `CanaryReadyForMore` with full promotions (`CN_traffic`).

## 5. Disagreements between documentation and code

Three have a run:

* `BG_doc_abort`: with a pod of the new version down, an abort after the switch leaves the traffic on
  the aborted version, which is later scaled to 0 (`rollout/service.go:99` returns before `status.abort`
  is read).
* `BG_doc_checkpoint`: `scaleUpPreviewCheckPoint` survives a new template (`rollout/bluegreen.go:294` reads
  the old status after the reset; its comment says it is reset), whose pause is then skipped: traffic moves
  to a version nobody approved.  With a pre-promotion analysis the same stale checkpoint can make the
  update wait for ever.
* `EX_doc_complete`: an experiment with a `requiredForCompletion` analysis that is terminated stays
  Running for ever (`experiments/experiment.go:499` to 509: a terminating pass does not read the phase
  of a run, and `calculateStatus` waits for it), contrary to `docs/features/experiment.md:41`.  With a
  further analysis that is not required, it also goes on after the required ones succeeded:
  `assessAnalysisRuns` (641) has the arguments of `IsWorse` the other way round.

The others are reproduced by changing the constants named, or are what the comment of a property
excludes.  Blue-green and analysis:

* A resume before `autoPromotionSeconds` have passed starts the pause again (`pause.go:187`;
  `docs/features/bluegreen.md:88` says it resumes).
* With a preview size, a full promotion that a crash interrupts between the switch and the status patch,
  and that a rollback to the stable version replaces, leaves the stable version with the size of a preview
  (`replicaset.go:256` of `utils/replicaset`: the checkpoint was skipped): `StableAtFullSize` in
  `BG_scale` with three user actions (`setTemplate`, `promoteFull`), a pass that stops and no abort
  delay.  A pause or a scaling at that point does the same to the version with the traffic.
* The patches of a promote are made from the Rollout it read (`promote.go:117`, `129`) and carry no resource
  version: one that arrives late resumes the pause, or promotes in full the version, that is there by then.
  `SwitchNeedsApproval` takes it for an approval of that version.
* `scaleDownDelaySeconds: 0` keeps the old version running (`replicaset.go:346`):
  `OldVersionsScaledDown` in `BG_faults` with `ScaleDownDelay = "zero"`.
* A run that is asked to terminate while a Job runs ends Inconclusive (`job.go:264`), not Successful as
  `docs/features/analysis.md:854` says.

Canary:

* A paused Rollout does not scale (`rollout/context.go:159`).  Paused and aborted with
  `dynamicStableScale`, or paused and scaled, its traffic never goes back to the stable version, while
  `cmd/abort/abort.go` promises "reverts all steps".  An inconclusive analysis does the same.
  (`Halted` in `AbortRestoresTraffic`.)
* A retry after an abort that a crash cut short, or a promote that skips steps, gives a canary that is
  not ready the weight of an earlier step (`trafficrouting.go:252`; `CanaryReadyForMore`).
* `dynamicStableScale` sizes the stable ReplicaSet by the weights of the previous pass, so that it may
  for a moment be smaller than its traffic (`CapacityFollowsTraffic`).  Pods that are stopping still
  count as available when an abort moves traffic back.
* Where a `setWeight` is below an earlier one, the canary shrinks before its weight does: its old size is not
  the desired one, so the router keeps the earlier weight (`trafficrouting.go:250`) while the same pass scales
  to the new one.  With 4 replicas and `setWeight` 75, then 25, one pod gets 75% of the traffic for a pass
  or more: `CapacityFollowsTraffic` with these steps.
* A rollback to the stable version, requested together with a scaling before the next pass, is handled as a
  scaling event (`rollout/sync.go:305`).  `IsFullyPromoted` still sees the old `currentPodHash`, so the
  stable ReplicaSet, which is the new one as well, gets the size of the interrupted step's weight
  (`utils/replicaset/canary.go:377`), although the comment at `canary.go:390` has it "left fully scaled
  (100%)": all the traffic goes to a quarter of the pods for a pass.  `CapacityFollowsTraffic` in
  `CN_traffic` with `scale` and a second user action.
* A canary version that a third one replaced keeps its weight while the stable version misses pods
  (`checkReplicasAvailable`), and meanwhile gives up its own pods that failed (`cleanupUnhealthyReplicas`).
* After a promotion, a pod failure and a new update, the stable Service keeps its version until a pod is
  available again.
* Of two promotes before the next pass, the second skips the first of two pause steps and leaves
  `controllerPause` set, so that the second pause counts as resumed before the Rollout has paused for it
  (`pause.go:199`; `docs/features/specification.md:291` says a pause waits until it is resumed).  `CN_steps`
  reaches it with the steps `<< PauseStep, PauseStep >>`.
* A promote whose status patch comes late sets the step after the one it read, also on a newer template or a
  Rollout that is fully promoted by then.  A pass that is about to pause for its step then leaves the pause at
  another one, an analysis step for instance, where only a user ends it (`WaitsForUser` in `Canary`).
* A promote out of an analysis step, while a pass is about to pause the Rollout for an inconclusive
  background analysis, leaves the run of that step to decide the next analysis step (`analysis.go:411`;
  `docs/features/analysis.md:102`; `promote.go:190` has a TODO for it): `StepNeedsAnalysis` with
  `<< AnalysisStep, AnalysisStep >>` and background analysis (`OneAnalysis` in section 4).
* While an inconclusive analysis pauses the Rollout, an indefinite pause step counts as resumed
  (`pause.go:199`; the passes `PauseNeedsUser` leaves out).
* A full promotion with `dynamicStableScale` during a scale-in from 2 replicas to 1 asks the router for the
  weight 200 (`trafficrouting.go:239`): `WeightInRange`, as an invariant of `CN_traffic` with `scale`.  A
  `setCanaryScale` to more pods than there are replicas has the same effect; at `replicas: 0` it divides by
  zero.
* An abort during a full promotion is obeyed for one pass and then removed.
* Without a router, pods that are still stopping make a pass keep less available, or have more pods, than
  its limits say (`NonePending` in `SurgeRespected` and `AvailabilityKept`).

Experiments:

* A run that cannot be read or terminated is recorded as Error and never terminated; a run created
  before a crash and not recorded is an orphan if the experiment is terminated next (`CleansUp`), while
  `docs/features/experiment.md:144` says that AnalysisRuns are terminated.
* A recorded run with an empty phase counts as Successful when the duration passes (`SuccessIsEarned`).
* A pass from an outdated version overwrites a verdict, and its patch mixes the status of two passes
  (`outdated` in `TrialIsImplemented` and `SuccessIsEarned`).
* A ReplicaSet of size 0 is created even when terminating, contrary to the comment at
  `experiments/experiment.go:55`; a deadline that cannot be stored scales the ReplicaSet down at once.

## 6. Not modelled, and what is left

About 60000 of the 102500 implementation lines are generated (protobuf, OpenAPI, deep copies, clients),
and most of the rest are provider clients, validation, printing and user interfaces that keep no state.
What is modelled is the part of the source where state and order matter; its share of all lines is small.

* Rollout: experiment steps and plugin steps, pod restarts, ephemeral metadata, header and mirror
  routes, ping-pong Services, Istio subsets, weight verification, edits of the strategy during an
  update; for the canary also the revision history, the rollback window, the progress deadline and the
  first deployment; `minPodsPerReplicaSet` above 1.
* AnalysisRun: ttl deletion, run summaries, asynchronous web providers.
* The provider clients of `metricproviders/` and `rollout/trafficrouting/` translate to other systems;
  Service, ingress and manager controllers only enqueue; `PROJECT.json` has the reason for each component.

Next, most important first: the experiment step of a canary, composed of `Canary` and `Trial`; step plugins
and pod restarts; `CapacityFollowsTraffic` for a Rollout that is not scaled, with steps that go up.
