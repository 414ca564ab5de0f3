----------------------- MODULE CanaryAnalysis_proofs ------------------------
(***************************************************************************)
(* Proofs about the analysis steps of Canary, for every set of hashes,     *)
(* every strategy and every bound:                                         *)
(*   StepNeedsAnalysisHolds  an analysis step is left with a Successful    *)
(*                           run of that step and version.                 *)
(* RunInv adds to PauseInv where the stages of a pass stand (StagesKept),  *)
(* whose run the step run is and how stale the pass may see it (RunsKept), *)
(* and what a pause of the Rollout says of it (PausesTell).                *)
(***************************************************************************)
EXTENDS Canary_proofs

----------------------------------------------------------------------------
(* The state of the analysis in a pass and between two.                     *)

\* The stages of a full pass before the analysis, and from then on.
BeforeAnalysis == {"stableService", "canaryService", "abortService", "trafficRouting",
                   "analysis"}
FullStages == BeforeAnalysis \cup {"backgroundAnalysis", "otherRuns", "pause"}

\* A pass that scales, or meets a new template, takes a short cut.
StagesKept ==
    /\ pc \in BeforeAnalysis => /\ pass.addPauses = {}
                                /\ pass.removeAbort => IsFullyPromoted(pass.status)
    /\ pc \in FullStages => ~pass.scaling
    /\ pc \notin {"idle", "sync"} /\ ~pass.scaling => ~PodTemplateChanged

\* The analysis of this pass has been seen to.
AfterAnalysis == /\ pc \notin BeforeAnalysis \cup {"idle"}
                 /\ ~pass.scaling /\ ~PodTemplateChanged

AnalysisSteps == {i \in 1..Len(Steps) : Steps[i].kind = "analysis"}

\* The run of some analysis step of the current version
IsStepRun(view, id) ==
    id # 0 => /\ view[id].phase # "none" /\ view[id].hash = status.currentPodHash
              /\ view[id].step + 1 \in AnalysisSteps

\* A run as the snapshot shows it is the run there is, but for its progress.
AsSeen(id) ==
    id # 0 => /\ runs[id].step = pass.runs[id].step /\ runs[id].hash = pass.runs[id].hash
              /\ runs[id].phase # "none"
              /\ pass.runs[id].phase \in Completed => runs[id].phase = pass.runs[id].phase

(* The step run in the status and in the context is one of the current      *)
(* version that the clean-up of other runs leaves alone.                    *)
RunsKept ==
    /\ IsStepRun(runs, status.stepRun)
    /\ pc # "idle" =>
         /\ pass.status.stepRun = status.stepRun
         /\ \A id \in {pass.status.stepRun, pass.stepRun} :
               IsStepRun(pass.runs, id) /\ AsSeen(id)

(* Without background analysis a Rollout that has a step run pauses because *)
(* of that run, and goes on without a pause only with the run of the step.  *)
PausesTell ==
    ~strategy.background =>
        /\ status.stepRun # 0 /\ status.pauses # {}
             => runs[status.stepRun].phase = "Inconclusive"
        /\ pc # "idle" =>
             /\ pass.stepRun # 0 /\ pass.addPauses \cup pass.status.pauses # {}
                  => pass.runs[pass.stepRun].phase = "Inconclusive"
             /\ AfterAnalysis /\ pass.stepRun # 0 /\ pass.status.pauses = {}
                  => StepIs("analysis") /\ pass.runs[pass.stepRun].step = Index

RunInv == PauseInv /\ StagesKept /\ RunsKept /\ PausesTell

LEMMA AnalysisStepsFacts ==
    ASSUME InPass
    PROVE StepIs("analysis") => Index \in Nat /\ Index + 1 \in AnalysisSteps
BY InPassFields DEF StepIs, AnalysisSteps

LEMMA NoRunTouched ==
    ASSUME RunsKept, runs' = runs, Steps' = Steps, status'.stepRun = status.stepRun,
           status'.currentPodHash = status.currentPodHash,
           pc # "idle" \/ pc' = "idle",
           pc' # "idle" => /\ pass'.status = pass.status /\ pass'.runs = pass.runs
                           /\ pass'.stepRun = pass.stepRun
    PROVE RunsKept'
BY DEF RunsKept, IsStepRun, AsSeen, AnalysisSteps

LEMMA RunInit == ASSUME Init PROVE RunInv
<1>1. PauseInv /\ pc = "idle"
  BY PauseInit DEF Init
<1>2. PICK h \in Hash : status = [NoStatus EXCEPT !.stableRS = h, !.currentPodHash = h,
                        !.step = Len(strategy.steps),
                        !.weights = [canary |-> 0, canaryHash |-> h, stableHash |-> h]]
  BY Zenon DEF Init
<1>3. status.stepRun = 0
  BY <1>2 DEF NoStatus
<1>4. StagesKept
  BY <1>1 DEF StagesKept, BeforeAnalysis, FullStages
<1> QED BY <1>1, <1>3, <1>4 DEF RunInv, RunsKept, PausesTell, IsStepRun

\* Where each kind of stage stands.
LEMMA StagesInOrder ==
    ASSUME StepInv, Controller, ~CreateReplicaSet, ~BeginPass, ~SyncRolloutStatus
    PROVE \/ /\ ServiceStage \/ TrafficStage
             /\ pc \in BeforeAnalysis /\ pc' \in BeforeAnalysis
             /\ pass'.removeAbort = pass.removeAbort
          \/ AnalysisStage /\ pc = "analysis" /\ pc' = "backgroundAnalysis"
                /\ ReconcileStepBasedAnalysisRun
          \/ AnalysisStage /\ pc = "analysis" /\ pc' = "otherRuns" /\ CancelCurrentAnalysis
          \/ AnalysisStage /\ pc = "backgroundAnalysis" /\ pc' = "otherRuns"
                /\ ReconcileBackgroundAnalysisRun
          \/ AnalysisStage /\ pc = "otherRuns" /\ pc' \in {"sync", "removeDeadlines"}
                /\ ReconcileOtherRuns
          \/ ScalingStage /\ pc \in ScalingStages \ {"pause", "sync"}
          \/ PauseStage /\ pc = "pause"
<1>1. pass \in PassType
  BY Typed DEF StepInv
<1>2. ASSUME ReconcileStableService \/ ReconcileCanaryService \/ ResetCanaryServiceOnAbort
      PROVE ServiceStage /\ pc \in BeforeAnalysis /\ pc' \in BeforeAnalysis
            /\ pass'.removeAbort = pass.removeAbort
  <2>1. ServiceStage
    BY <1>2, ServicesStage
  <2>2. pc \in BeforeAnalysis
    BY <1>2 DEF ReconcileStableService, ReconcileCanaryService, ResetCanaryServiceOnAbort,
                BeforeAnalysis
  <2> QED BY <2>1, <2>2 DEF ServiceStage, BeforeAnalysis
<1>3. ASSUME ReconcileTrafficRouting
      PROVE TrafficStage /\ pc \in BeforeAnalysis /\ pc' \in BeforeAnalysis
            /\ pass'.removeAbort = pass.removeAbort
  <2>1. pc = "trafficRouting" /\ pc' = "analysis"
    BY <1>3 DEF ReconcileTrafficRouting
  <2>2. pass' = pass \/ \E w : pass' = [pass EXCEPT !.weights = w]
    BY <1>3, Zenon DEF ReconcileTrafficRouting
  <2>3. pass'.removeAbort = pass.removeAbort
    BY <1>1, <2>2 DEF PassType
  <2> QED BY <1>3, <2>1, <2>3, RoutingStage DEF BeforeAnalysis
<1>4. ASSUME ReconcileStepBasedAnalysisRun
      PROVE AnalysisStage /\ pc = "analysis" /\ pc' = "backgroundAnalysis"
  BY <1>4, StepAnalysisStage DEF ReconcileStepBasedAnalysisRun
<1>5. ASSUME CancelCurrentAnalysis
      PROVE AnalysisStage /\ pc = "analysis" /\ pc' = "otherRuns"
  BY <1>5, OtherRunsStage DEF CancelCurrentAnalysis
<1>6. ASSUME ReconcileBackgroundAnalysisRun
      PROVE AnalysisStage /\ pc = "backgroundAnalysis" /\ pc' = "otherRuns"
  BY <1>6, BackgroundAnalysisStage DEF ReconcileBackgroundAnalysisRun
<1>7. ASSUME ReconcileOtherRuns
      PROVE AnalysisStage /\ pc = "otherRuns" /\ pc' \in {"sync", "removeDeadlines"}
  BY <1>7, OtherRunsStage DEF ReconcileOtherRuns, GoTo
<1>8. ASSUME \/ RemoveScaleDownDeadlines \/ ReconcileStableReplicaSet
             \/ ReconcileNewReplicaSet \/ CleanupUnhealthyReplicas
             \/ ReconcileOtherReplicaSets
      PROVE ScalingStage /\ pc \in ScalingStages \ {"pause", "sync"}
  <2>1. pc \in ScalingStages \ {"pause", "sync"}
    BY <1>8 DEF RemoveScaleDownDeadlines, ReconcileStableReplicaSet, ReconcileNewReplicaSet,
                CleanupUnhealthyReplicas, ReconcileOtherReplicaSets, ScalingStages
  <2> QED BY <1>8, <2>1, StableScales, NewScales, CleanupScales, OthersScale
<1>9. ASSUME ReconcileCanaryPause PROVE PauseStage /\ pc = "pause"
  BY <1>1, <1>9, PausingStage DEF ReconcileCanaryPause
<1> QED BY <1>2, <1>3, <1>4, <1>5, <1>6, <1>7, <1>8, <1>9 DEF Controller

\* The short cuts are kept by every stage.
LEMMA StagesStay ==
    ASSUME StepInv, StagesKept, pc' # "idle" => pc # "idle",
           pc' # "idle" => pass'.spec = pass.spec /\ pass'.status = pass.status
                           /\ pass'.scaling = pass.scaling,
           pc' \in BeforeAnalysis => /\ pc \in BeforeAnalysis
                                     /\ pass'.addPauses = pass.addPauses
                                     /\ pass'.removeAbort = pass.removeAbort,
           pc' = "pause" => ~pass.scaling,
           pc' \in FullStages => pc \in FullStages \/ pc' = "pause",
           pc' \notin {"idle", "sync"} => pc # "sync"
    PROVE StagesKept'
<1>1. ASSUME pc' # "idle"
      PROVE PodTemplateChanged' = PodTemplateChanged
            /\ IsFullyPromoted(pass.status)' = IsFullyPromoted(pass.status)
  BY <1>1 DEF PodTemplateChanged, New, IsFullyPromoted
<1> QED BY <1>1 DEF StagesKept, BeforeAnalysis, FullStages

----------------------------------------------------------------------------
(* What the stages of the analysis do to the runs of the update.            *)

\* A run in use is, at most, asked to terminate.
KeepsRun(id) ==
    id # 0 => /\ runs'[id].step = runs[id].step /\ runs'[id].hash = runs[id].hash
              /\ runs'[id].phase = runs[id].phase

\* A run that CreateWithCollisionCounter finds, or makes.
LEMMA CreatedFacts ==
    ASSUME StepInv, pc # "idle", NEW step \in {Background} \cup Nat, NEW i \in CreateIds(step),
           runs' = Created(runs, step, i)
    PROVE /\ i \in RunIds /\ i \in 0..MaxRuns /\ i # 0
          /\ runs'[i].step = step /\ runs'[i].hash = New /\ runs'[i].phase = "Running"
          /\ \A k \in RunIds : k # i \/ runs[k].phase # "none" => runs'[k] = runs[k]
<1>1. i \in RunIds /\ i \in 0..MaxRuns /\ i # 0 /\ runs \in [RunIds -> RunType]
  BY Typed, CreatedType DEF RunIds, StepInv
<1>2. CASE i \in InProgress(step)
  <2>1. runs' = runs
    BY <1>2 DEF Created
  <2> QED BY <1>1, <1>2, <2>1 DEF InProgress
<1>3. CASE i \notin InProgress(step)
  <2> DEFINE run == [step |-> step, hash |-> New, revision |-> NewRS.revision,
                     phase |-> "Running", terminate |-> FALSE]
  <2>1. runs' = [runs EXCEPT ![i] = run]
    BY <1>3, Zenon DEF Created
  <2>2. runs[i].phase = "none"
    BY <1>3, Zenon DEF CreateIds, FreeIds
  <2>3. run.step = step /\ run.hash = New /\ run.phase = "Running"
    OBVIOUS
  <2> HIDE DEF run
  <2> QED BY <1>1, <2>1, <2>2, <2>3
<1> QED BY <1>2, <1>3

\* The runs that the status or the context refers to are not touched.
LEMMA UsedRuns ==
    ASSUME StepInv, RunsKept, pc # "idle"
    PROVE \A id \in {status.stepRun, pass.stepRun} \ {0} :
            id \in RunIds /\ runs[id].phase # "none"
<1>1. status.stepRun \in 0..MaxRuns /\ pass.stepRun \in 0..MaxRuns /\ MaxRuns \in Nat
  BY Typed, StatusFields, PassFields, CountAssumption DEF StepInv
<1> QED BY <1>1 DEF RunsKept, IsStepRun, AsSeen, RunIds

\* The analysis of an update that is aborted or over.
LEMMA CancelRuns ==
    ASSUME StepInv, RunsKept, CancelCurrentAnalysis
    PROVE /\ \A id \in {status.stepRun, pass.stepRun} : KeepsRun(id)
          /\ pass'.runs = pass.runs /\ pass'.stepRun = 0
<1>1. /\ runs' = Cancelled(runs, {pass.stepRun, pass.backRun})
      /\ pass' = [pass EXCEPT !.stepRun = 0, !.backRun = 0] /\ pc # "idle"
      /\ pass \in PassType /\ runs \in [RunIds -> RunType]
  BY Typed DEF CancelCurrentAnalysis, StepInv
<1>2. pass'.runs = pass.runs /\ pass'.stepRun = 0
  BY <1>1 DEF PassType
<1>3. \A id \in {status.stepRun, pass.stepRun} : KeepsRun(id)
  BY <1>1, UsedRuns, CancelledFacts DEF KeepsRun
<1> QED BY <1>2, <1>3

\* The other runs are those that neither the status nor the context refers to.
LEMMA TidyRuns ==
    ASSUME StepInv, RunsKept, ReconcileOtherRuns
    PROVE /\ \A id \in {status.stepRun, pass.stepRun} : KeepsRun(id)
          /\ pass' = pass
<1>1. runs' = [i \in RunIds |-> Tidied(i)] /\ pass' = pass /\ pc # "idle"
      /\ runs \in [RunIds -> RunType]
  BY Typed DEF ReconcileOtherRuns, GoTo, StepInv
<1>2. pass.status.stepRun = status.stepRun
  BY <1>1 DEF RunsKept
<1>3. ASSUME NEW id \in {status.stepRun, pass.stepRun}, id # 0 PROVE runs'[id] = runs[id]
  <2>1. id \in RunIds
    BY <1>1, <1>3, UsedRuns
  <2>2. id \in {pass.status.stepRun, pass.status.backRun, pass.stepRun, pass.backRun}
    BY <1>2, <1>3
  <2>3. Tidied(id) = runs[id]
    BY <2>2, Zenon DEF Tidied
  <2> QED BY <1>1, <2>1, <2>3
<1> QED BY <1>1, <1>3 DEF KeepsRun

\* The background run is no run of a step.
LEMMA BackgroundRuns ==
    ASSUME StepInv, RunsKept, ReconcileBackgroundAnalysisRun
    PROVE /\ \A id \in {status.stepRun, pass.stepRun} :
               KeepsRun(id) /\ (id # 0 => pass'.runs[id] \in {pass.runs[id], runs[id]})
          /\ pass'.stepRun = pass.stepRun
          /\ ~strategy.background => runs' = runs /\ pass'.runs = pass.runs
                                     /\ pass'.addPauses = pass.addPauses
<1>1. /\ pc # "idle" /\ pass \in PassType /\ runs \in [RunIds -> RunType]
      /\ pass.runs \in [RunIds -> RunType] /\ pass.backRun \in 0..MaxRuns
  BY Typed, PassFields DEF ReconcileBackgroundAnalysisRun, StepInv
<1>2. CASE UNCHANGED <<runs, pass>>
  BY <1>1, <1>2 DEF KeepsRun
<1>3. CASE UNCHANGED runs /\ pass' = [pass EXCEPT !.backRun = 0]
  <2>1. pass'.runs = pass.runs /\ pass'.stepRun = pass.stepRun
        /\ pass'.addPauses = pass.addPauses
    BY <1>1, <1>3 DEF PassType
  <2> QED BY <1>3, <2>1 DEF KeepsRun
<1>4. ASSUME strategy.background, NEW i \in CreateIds(Background),
             runs' = Created(runs, Background, i),
             pass' = [pass EXCEPT !.backRun = i, !.runs = [pass.runs EXCEPT ![i] = runs'[i]]]
      PROVE /\ \A id \in {status.stepRun, pass.stepRun} :
                 KeepsRun(id) /\ (id # 0 => pass'.runs[id] \in {pass.runs[id], runs[id]})
            /\ pass'.stepRun = pass.stepRun
  <2>1. /\ i \in RunIds
        /\ \A k \in RunIds : k # i \/ runs[k].phase # "none" => runs'[k] = runs[k]
    BY <1>1, <1>4, CreatedFacts
  <2> DEFINE view == [pass.runs EXCEPT ![i] = runs'[i]]
  <2>2. pass' = [pass EXCEPT !.backRun = i, !.runs = view]
    BY <1>4
  <2>3. \A k \in RunIds : view[k] = IF k = i THEN runs'[i] ELSE pass.runs[k]
    BY <1>1, <2>1
  <2> HIDE DEF view
  <2>4. pass'.runs = view /\ pass'.stepRun = pass.stepRun
    BY <1>1, <2>2 DEF PassType
  <2>5. ASSUME NEW id \in {status.stepRun, pass.stepRun}, id # 0
        PROVE runs'[id] = runs[id] /\ view[id] \in {pass.runs[id], runs[id]}
    <3>1. id \in RunIds /\ runs[id].phase # "none"
      BY <1>1, <2>5, UsedRuns
    <3> QED BY <2>1, <2>3, <3>1
  <2> QED BY <2>4, <2>5 DEF KeepsRun
<1>5. CASE UNCHANGED runs /\ strategy.background /\ pass' = Verdict(pass, pass.backRun)
  <2>1. pass'.runs = pass.runs /\ pass'.stepRun = pass.stepRun
    BY <1>1, <1>5, VerdictFacts
  <2> QED BY <1>5, <2>1 DEF KeepsRun
<1> QED BY <1>2, <1>3, <1>4, <1>5
    DEF ReconcileBackgroundAnalysisRun, HasBackgroundRun

\* The run of a step: kept, given up, or seen to.
LEMMA StepRuns ==
    ASSUME StepInv, StagesKept, RunsKept, ReconcileStepBasedAnalysisRun
    PROVE /\ \A id \in {status.stepRun, pass.stepRun} :
               KeepsRun(id) /\ (id # 0 => pass'.runs[id] \in {pass.runs[id], runs[id]})
          /\ \/ /\ pass'.stepRun = pass.stepRun /\ pass'.runs = pass.runs
                /\ \/ pass'.addPauses = {}
                   \/ pass.stepRun # 0 => pass.runs[pass.stepRun].phase = "Inconclusive"
                /\ pass.stepRun # 0 /\ pass.status.pauses = {}
                     => StepIs("analysis") /\ pass.runs[pass.stepRun].step = Index
             \/ pass'.stepRun = 0
             \/ /\ pass'.stepRun # 0 /\ pass'.addPauses = {} /\ pass.status.pauses = {}
                /\ pass'.runs[pass'.stepRun] = runs'[pass'.stepRun] /\ StepIs("analysis")
                /\ runs'[pass'.stepRun].step = Index /\ runs'[pass'.stepRun].hash = New
                /\ runs'[pass'.stepRun].phase = "Running"
<1>1. /\ pc = "analysis" /\ pass \in PassType /\ runs \in [RunIds -> RunType]
      /\ pass.runs \in [RunIds -> RunType] /\ pass.stepRun \in 0..MaxRuns
      /\ pass.addPauses = {} /\ Index \in Nat
  <2>1. pc = "analysis" /\ pass.addPauses = {}
    BY DEF ReconcileStepBasedAnalysisRun, StagesKept, BeforeAnalysis
  <2>2. Index \in Nat
    BY <2>1, PassInProgress, InPassFields
  <2> QED BY <2>1, <2>2, Typed, PassFields DEF StepInv
<1>2. ~pass.status.abort
  <2>1. ~IsFullyPromoted(pass.status) /\ ~IsAborted
    BY DEF ReconcileStepBasedAnalysisRun, ShouldCancelCurrentAnalysis
  <2>2. ~pass.removeAbort
    BY <1>1, <2>1 DEF StagesKept, BeforeAnalysis
  <2> QED BY <2>1, <2>2 DEF IsAborted
<1>3. CASE KeepsStepRun /\ UNCHANGED <<runs, pass>>
  <2>1. pass.status.pauses # {}
    BY <1>2, <1>3 DEF KeepsStepRun
  <2> QED BY <1>1, <1>3, <2>1 DEF KeepsRun
<1>4. CASE runs' = Cancelled(runs, {pass.stepRun}) /\ pass' = [pass EXCEPT !.stepRun = 0]
  <2>1. pass'.stepRun = 0 /\ pass'.runs = pass.runs
    BY <1>1, <1>4 DEF PassType
  <2>2. \A id \in {status.stepRun, pass.stepRun} : KeepsRun(id)
    BY <1>1, <1>4, UsedRuns, CancelledFacts DEF KeepsRun
  <2> QED BY <2>1, <2>2
<1>5. ASSUME ~KeepsStepRun, HasStepRun, NEW i \in CreateIds(Index),
             runs' = Created(runs, Index, i),
             pass' = [pass EXCEPT !.stepRun = i, !.runs = [pass.runs EXCEPT ![i] = runs'[i]]]
      PROVE /\ \A id \in {status.stepRun, pass.stepRun} :
                 KeepsRun(id) /\ (id # 0 => pass'.runs[id] \in {pass.runs[id], runs[id]})
            /\ pass'.stepRun # 0 /\ pass'.addPauses = {} /\ pass.status.pauses = {}
            /\ pass'.runs[pass'.stepRun] = runs'[pass'.stepRun] /\ StepIs("analysis")
            /\ runs'[pass'.stepRun].step = Index /\ runs'[pass'.stepRun].hash = New
            /\ runs'[pass'.stepRun].phase = "Running"
  <2>1. /\ i \in RunIds /\ i # 0 /\ runs'[i].step = Index /\ runs'[i].hash = New
        /\ runs'[i].phase = "Running"
        /\ \A k \in RunIds : k # i \/ runs[k].phase # "none" => runs'[k] = runs[k]
    BY <1>1, <1>5, CreatedFacts
  <2> DEFINE view == [pass.runs EXCEPT ![i] = runs'[i]]
  <2>2. pass' = [pass EXCEPT !.stepRun = i, !.runs = view]
    BY <1>5
  <2>3. \A k \in RunIds : view[k] = IF k = i THEN runs'[i] ELSE pass.runs[k]
    BY <1>1, <2>1
  <2> HIDE DEF view
  <2>4. pass'.runs = view /\ pass'.stepRun = i /\ pass'.addPauses = pass.addPauses
    BY <1>1, <2>2 DEF PassType
  <2>5. ASSUME NEW id \in {status.stepRun, pass.stepRun}, id # 0
        PROVE runs'[id] = runs[id] /\ view[id] \in {pass.runs[id], runs[id]}
    <3>1. id \in RunIds /\ runs[id].phase # "none"
      BY <1>1, <2>5, UsedRuns
    <3> QED BY <2>1, <2>3, <3>1
  <2>6. pass.status.pauses = {} /\ StepIs("analysis")
    BY <1>5 DEF KeepsStepRun, HasStepRun
  <2> QED BY <1>1, <2>1, <2>3, <2>4, <2>5, <2>6 DEF KeepsRun
<1>6. CASE HasStepRun /\ pass' = Verdict(pass, pass.stepRun) /\ UNCHANGED runs
  <2>1. /\ pass'.runs = pass.runs /\ pass'.stepRun = pass.stepRun
        /\ \/ pass'.addPauses = pass.addPauses
           \/ pass.stepRun # 0 /\ pass.runs[pass.stepRun].phase = "Inconclusive"
    BY <1>1, <1>6, VerdictFacts
  <2> QED BY <1>1, <1>6, <2>1 DEF KeepsRun, HasStepRun
<1> QED BY <1>3, <1>4, <1>5, <1>6 DEF ReconcileStepBasedAnalysisRun

\* What these lemmas say of the runs in use is enough to keep them in use.
LEMMA RunsStay ==
    ASSUME StepInv, RunsKept, pc # "idle", pc' # "idle", status' = status, Steps' = Steps,
           pass'.status = pass.status,
           \A id \in {status.stepRun, pass.stepRun} :
               KeepsRun(id) /\ (id # 0 => pass'.runs[id] \in {pass.runs[id], runs[id]}),
           \/ pass'.stepRun \in {0, pass.stepRun}
           \/ /\ pass'.runs[pass'.stepRun] = runs'[pass'.stepRun]
              /\ runs'[pass'.stepRun].hash = status.currentPodHash
              /\ runs'[pass'.stepRun].phase = "Running"
              /\ runs'[pass'.stepRun].step + 1 \in AnalysisSteps
    PROVE /\ RunsKept'
          /\ \A id \in {status.stepRun, pass.stepRun} : id # 0 =>
               /\ pass'.runs[id].step = pass.runs[id].step
               /\ pass.runs[id].phase = "Inconclusive"
                    => pass'.runs[id].phase = "Inconclusive"
<1>1. pass.status.stepRun = status.stepRun /\ AnalysisSteps' = AnalysisSteps
  BY DEF RunsKept, AnalysisSteps
<1>2. ASSUME NEW id \in {status.stepRun, pass.stepRun}, id # 0
      PROVE /\ runs'[id].phase # "none" /\ runs'[id].hash = status.currentPodHash
            /\ runs'[id].step + 1 \in AnalysisSteps
            /\ pass'.runs[id].phase # "none" /\ pass'.runs[id].hash = status.currentPodHash
            /\ pass'.runs[id].step + 1 \in AnalysisSteps
            /\ runs'[id].step = pass'.runs[id].step /\ runs'[id].hash = pass'.runs[id].hash
            /\ pass'.runs[id].phase \in Completed => runs'[id].phase = pass'.runs[id].phase
            /\ pass'.runs[id].step = pass.runs[id].step
            /\ pass.runs[id].phase = "Inconclusive" => pass'.runs[id].phase = "Inconclusive"
  <2>1. IsStepRun(pass.runs, id) /\ AsSeen(id)
    BY <1>1, <1>2 DEF RunsKept
  <2>2. KeepsRun(id) /\ pass'.runs[id] \in {pass.runs[id], runs[id]}
    BY <1>2
  <2> QED BY <1>2, <2>1, <2>2 DEF IsStepRun, AsSeen, KeepsRun, Completed
<1>3. RunsKept'
  <2>1. ASSUME NEW id \in {status.stepRun, pass'.stepRun}, id # 0
        PROVE /\ runs'[id].phase # "none" /\ runs'[id].hash = status.currentPodHash
              /\ runs'[id].step + 1 \in AnalysisSteps
              /\ pass'.runs[id].phase # "none" /\ pass'.runs[id].hash = status.currentPodHash
              /\ pass'.runs[id].step + 1 \in AnalysisSteps
              /\ runs'[id].step = pass'.runs[id].step /\ runs'[id].hash = pass'.runs[id].hash
              /\ pass'.runs[id].phase \in Completed
                   => runs'[id].phase = pass'.runs[id].phase
    BY <1>2, <2>1
  <2> QED BY <1>1, <2>1 DEF RunsKept, IsStepRun, AsSeen
<1> QED BY <1>2, <1>3

----------------------------------------------------------------------------
(* The runs in use, from step to step.                                      *)

\* Stages that have nothing to do with analysis.
LEMMA OtherStages ==
    ASSUME RunInv, pc # "idle", StagesKept',
           \/ /\ ServiceStage \/ TrafficStage
              /\ pc' \in BeforeAnalysis
           \/ ScalingStage /\ pc \in ScalingStages
           \/ PauseStage /\ pc = "pause"
    PROVE RunsKept' /\ PausesTell'
<1>1. /\ runs' = runs /\ status' = status /\ strategy' = strategy /\ Steps' = Steps
      /\ pc' # "idle" => /\ pass'.spec = pass.spec /\ pass'.status = pass.status
                         /\ pass'.scaling = pass.scaling
                         /\ pass'.runs = pass.runs /\ pass'.stepRun = pass.stepRun
      /\ pc' # "idle" /\ pass'.addPauses # pass.addPauses => PauseStage /\ IsPauseStep
  BY DEF ServiceStage, TrafficStage, ScalingStage, PauseStage, Stage, KeepsVerdict, user, Steps
<1>2. RunsKept'
  BY <1>1, NoRunTouched DEF RunInv
<1>3. PausesTell'
  <2> SUFFICES ASSUME ~strategy.background PROVE PausesTell'
    BY <1>1 DEF PausesTell
  <2>1. PausesTell /\ StagesKept
    BY DEF RunInv
  <2>2. CASE pc' = "idle"
    BY <1>1, <2>1, <2>2 DEF PausesTell
  <2>3. CASE pc' # "idle"
    <3>1. /\ Index' = Index /\ StepIs("analysis")' = StepIs("analysis")
          /\ PodTemplateChanged' = PodTemplateChanged
      BY <1>1, <2>3 DEF Index, StepIs, PodTemplateChanged, New
    <3>2. AfterAnalysis' => AfterAnalysis
      BY <1>1, <2>3, <3>1 DEF AfterAnalysis, BeforeAnalysis, ScalingStages, ServiceStage,
                              TrafficStage
    <3>3. AfterAnalysis' /\ pass'.stepRun # 0 /\ pass'.status.pauses = {}
            => StepIs("analysis")' /\ pass'.runs[pass'.stepRun].step = Index'
      BY <1>1, <2>1, <2>3, <3>1, <3>2 DEF PausesTell
    <3>4. pass'.stepRun # 0 /\ pass'.addPauses \cup pass'.status.pauses # {}
            => pass'.runs[pass'.stepRun].phase = "Inconclusive"
      <4>1. CASE pass'.addPauses = pass.addPauses
        BY <1>1, <2>1, <2>3, <4>1 DEF PausesTell
      <4>2. CASE pass'.addPauses # pass.addPauses
        <5>1. IsPauseStep => ~StepIs("analysis")
          BY DEF IsPauseStep, StepIs
        <5>2. pc = "pause"
          BY <1>1, <2>3, <4>2 DEF PauseStage, ServiceStage, TrafficStage, ScalingStage,
                                  BeforeAnalysis, ScalingStages, KeepsVerdict
        <5>3. AfterAnalysis
          BY <2>1, <5>2 DEF AfterAnalysis, StagesKept, FullStages, BeforeAnalysis
        <5>4. pass.stepRun # 0 => pass.status.pauses # {}
          BY <1>1, <2>1, <2>3, <4>2, <5>1, <5>3 DEF PausesTell
        <5> QED BY <1>1, <2>1, <2>3, <5>2, <5>4 DEF PausesTell
      <4> QED BY <4>1, <4>2
    <3> QED BY <1>1, <2>1, <2>3, <3>3, <3>4 DEF PausesTell
  <2> QED BY <2>2, <2>3
<1> QED BY <1>2, <1>3

\* The stages of the analysis.
LEMMA AnalysisStages ==
    ASSUME RunInv, AnalysisStage,
           \/ ReconcileStepBasedAnalysisRun \/ CancelCurrentAnalysis
           \/ ReconcileBackgroundAnalysisRun \/ ReconcileOtherRuns
    PROVE RunsKept' /\ PausesTell'
<1>1. /\ StepInv /\ StagesKept /\ RunsKept /\ PausesTell /\ pc # "idle" /\ pc' # "idle"
      /\ pc \in FullStages /\ (ReconcileOtherRuns \/ ReconcileBackgroundAnalysisRun
                                 => pc \notin BeforeAnalysis \cup {"idle"})
  BY DEF RunInv, PauseInv, ReconcileStepBasedAnalysisRun, CancelCurrentAnalysis,
         ReconcileBackgroundAnalysisRun, ReconcileOtherRuns, FullStages, BeforeAnalysis,
         AnalysisStage, Stages
<1>2. /\ status' = status /\ strategy' = strategy /\ Steps' = Steps
      /\ pass'.spec = pass.spec /\ pass'.status = pass.status /\ pass'.scaling = pass.scaling
      /\ Index' = Index /\ StepIs("analysis")' = StepIs("analysis")
      /\ ~pass.scaling /\ ~PodTemplateChanged
  <2>1. /\ status' = status /\ strategy' = strategy /\ Steps' = Steps
        /\ pass'.spec = pass.spec /\ pass'.status = pass.status
        /\ pass'.scaling = pass.scaling
    BY <1>1 DEF AnalysisStage, Stage, user, Steps
  <2> QED BY <1>1, <2>1 DEF Index, StepIs, StagesKept, FullStages, BeforeAnalysis
<1>3. pass.status.stepRun = status.stepRun
  BY <1>1 DEF RunsKept
\* with another step run, and then without
<1>4. ASSUME \A id \in {status.stepRun, pass.stepRun} :
               KeepsRun(id) /\ (id # 0 => pass'.runs[id] \in {pass.runs[id], runs[id]}),
             \/ pass'.stepRun \in {0, pass.stepRun}
             \/ /\ pass'.runs[pass'.stepRun] = runs'[pass'.stepRun]
                /\ runs'[pass'.stepRun].hash = status.currentPodHash
                /\ runs'[pass'.stepRun].phase = "Running"
                /\ runs'[pass'.stepRun].step + 1 \in AnalysisSteps,
             ~strategy.background /\ pass'.stepRun # 0 =>
               /\ pass'.addPauses \cup pass.status.pauses # {}
                    => pass'.runs[pass'.stepRun].phase = "Inconclusive"
               /\ pass.status.pauses = {}
                    => StepIs("analysis") /\ pass'.runs[pass'.stepRun].step = Index
      PROVE RunsKept' /\ PausesTell'
  <2>1. RunsKept'
    BY <1>1, <1>2, <1>4, RunsStay
  <2>2. status.stepRun # 0 /\ runs[status.stepRun].phase = "Inconclusive"
          => runs'[status.stepRun].phase = "Inconclusive"
    BY <1>4 DEF KeepsRun
  <2> QED BY <1>1, <1>2, <1>4, <2>1, <2>2 DEF PausesTell
\* and the verdict on the step run, where it stays
<1>5. ASSUME \A id \in {status.stepRun, pass.stepRun} :
               KeepsRun(id) /\ (id # 0 => pass'.runs[id] \in {pass.runs[id], runs[id]}),
             pass'.stepRun = pass.stepRun, pass'.addPauses = pass.addPauses,
             pc \notin BeforeAnalysis \cup {"idle"}
      PROVE ~strategy.background /\ pass'.stepRun # 0 =>
               /\ pass'.addPauses \cup pass.status.pauses # {}
                    => pass'.runs[pass'.stepRun].phase = "Inconclusive"
               /\ pass.status.pauses = {}
                    => StepIs("analysis") /\ pass'.runs[pass'.stepRun].step = Index
  <2>1. pass.stepRun # 0 =>
          /\ pass'.runs[pass.stepRun].step = pass.runs[pass.stepRun].step
          /\ pass.runs[pass.stepRun].phase = "Inconclusive"
               => pass'.runs[pass.stepRun].phase = "Inconclusive"
    BY <1>1, <1>2, <1>5, RunsStay
  <2>2. AfterAnalysis
    BY <1>2, <1>5 DEF AfterAnalysis
  <2> QED BY <1>1, <1>5, <2>1, <2>2 DEF PausesTell
<1>6. CASE CancelCurrentAnalysis
  <2>1. /\ \A id \in {status.stepRun, pass.stepRun} : KeepsRun(id)
        /\ pass'.runs = pass.runs /\ pass'.stepRun = 0
    BY <1>1, <1>6, CancelRuns
  <2> QED BY <1>4, <2>1
<1>7. CASE ReconcileOtherRuns
  <2>1. (\A id \in {status.stepRun, pass.stepRun} : KeepsRun(id)) /\ pass' = pass
    BY <1>1, <1>7, TidyRuns
  <2> QED BY <1>1, <1>4, <1>5, <1>7, <2>1
<1>8. CASE ReconcileBackgroundAnalysisRun
  <2>1. /\ \A id \in {status.stepRun, pass.stepRun} :
               KeepsRun(id) /\ (id # 0 => pass'.runs[id] \in {pass.runs[id], runs[id]})
        /\ pass'.stepRun = pass.stepRun
        /\ ~strategy.background => pass'.addPauses = pass.addPauses
    BY <1>1, <1>8, BackgroundRuns
  <2> QED BY <1>1, <1>4, <1>5, <1>8, <2>1
<1>9. CASE ReconcileStepBasedAnalysisRun
  <2>1. \A id \in {status.stepRun, pass.stepRun} :
               KeepsRun(id) /\ (id # 0 => pass'.runs[id] \in {pass.runs[id], runs[id]})
    BY <1>1, <1>9, StepRuns
  <2>2. CASE pass'.stepRun = 0
    BY <1>4, <2>1, <2>2
  <2>3. CASE /\ pass'.stepRun = pass.stepRun /\ pass'.runs = pass.runs
             /\ \/ pass'.addPauses = {}
                \/ pass.stepRun # 0 => pass.runs[pass.stepRun].phase = "Inconclusive"
             /\ pass.stepRun # 0 /\ pass.status.pauses = {}
                  => StepIs("analysis") /\ pass.runs[pass.stepRun].step = Index
    <3>1. ~strategy.background /\ pass.stepRun # 0 /\ pass.status.pauses # {}
            => pass.runs[pass.stepRun].phase = "Inconclusive"
      BY <1>1 DEF PausesTell
    <3> QED BY <1>4, <2>1, <2>3, <3>1
  <2>4. CASE /\ pass'.stepRun # 0 /\ pass'.addPauses = {} /\ pass.status.pauses = {}
             /\ pass'.runs[pass'.stepRun] = runs'[pass'.stepRun] /\ StepIs("analysis")
             /\ runs'[pass'.stepRun].step = Index /\ runs'[pass'.stepRun].hash = New
             /\ runs'[pass'.stepRun].phase = "Running"
    <3>1. Index + 1 \in AnalysisSteps
      BY <1>1, <2>4, PassInProgress, AnalysisStepsFacts
    <3>2. New = status.currentPodHash
      BY <1>1, <1>2 DEF PodTemplateChanged, StepInv, Snapshot
    <3> QED BY <1>4, <2>1, <2>4, <3>1, <3>2
  <2> QED BY <1>1, <1>9, <2>2, <2>3, <2>4, StepRuns
<1> QED BY <1>6, <1>7, <1>8, <1>9

\* A pass that ends leaves its step run in the status, or none.
LEMMA RunSync == ASSUME RunInv, SyncRolloutStatus PROVE RunsKept' /\ PausesTell'
<1>1. SyncStep /\ InPass /\ StepInv /\ PausesKept /\ RunsKept /\ PausesTell /\ pc # "idle"
  BY SyncFacts DEF RunInv, PauseInv, SyncRolloutStatus
<1>2. /\ runs' = runs /\ strategy' = strategy /\ Steps' = Steps /\ pc' = "idle"
      /\ AnalysisSteps' = AnalysisSteps
      /\ pass.status.stepRun = status.stepRun
      /\ pass.status.currentPodHash = status.currentPodHash
      /\ status.pauses \in {{}, pass.status.pauses}
  BY <1>1 DEF SyncStep, Steps, AnalysisSteps, RunsKept, StepInv, Snapshot, PausesKept
<1>3. CASE pass.scaling
  <2>1. /\ status'.stepRun = status.stepRun /\ status'.pauses = status.pauses
        /\ status'.currentPodHash = status.currentPodHash
    BY <1>1, <1>3, ScalingStatusFields DEF SyncStep
  <2> QED BY <1>1, <1>2, <2>1 DEF RunsKept, PausesTell, IsStepRun
<1>4. CASE ~pass.scaling
  <2>1. /\ NewStatus.stepRun \in {0, pass.stepRun} /\ (Restarts => NewStatus.stepRun = 0)
        /\ NewStatus.currentPodHash = New /\ NewStatus.pauses = PausesAfterSync
    BY <1>4, FullStatusFields
  <2>2. status'.stepRun # 0 => ~Restarts /\ status'.stepRun = pass.stepRun
    BY <1>1, <1>2, <2>1 DEF SyncStep
  <2>3. status'.stepRun # 0 => status'.currentPodHash = status.currentPodHash
    BY <1>1, <1>2, <1>4, <2>1, <2>2 DEF SyncStep, Restarts, PodTemplateChanged
  <2>4. status'.pauses # {} => pass.addPauses \cup pass.status.pauses # {}
    <3>1. PausesAfterSync \subseteq pass.addPauses \cup pass.status.pauses
      BY DEF PausesAfterSync
    <3>2. status'.pauses \in {status.pauses, PausesAfterSync}
      BY <1>1, <2>1 DEF SyncStep
    <3> QED BY <1>2, <3>1, <3>2
  <2>5. IsStepRun(pass.runs, pass.stepRun) /\ AsSeen(pass.stepRun)
    BY <1>1 DEF RunsKept
  <2>6. RunsKept'
    BY <1>2, <2>2, <2>3, <2>5 DEF RunsKept, IsStepRun, AsSeen
  <2>7. PausesTell'
    BY <1>1, <1>2, <2>2, <2>4, <2>5 DEF PausesTell, AsSeen, Completed
  <2> QED BY <2>6, <2>7
<1> QED BY <1>3, <1>4

LEMMA RunKept == ASSUME RunInv, [Next]_vars PROVE RunInv'
<1>1. PauseInv /\ StepInv /\ StagesKept /\ RunsKept /\ PausesTell
  BY DEF RunInv, PauseInv
<1>2. PauseInv'
  BY <1>1, PauseKept
<1>3. StagesKept' /\ RunsKept' /\ PausesTell'
  <2>1. CASE CreateReplicaSet
    <3>1. /\ runs' = runs /\ status' = status /\ strategy' = strategy /\ pc' = pc
          /\ pc = "idle" /\ Steps' = Steps
      BY <1>1, <2>1, CreateFacts DEF user, Steps
    <3>2. StagesKept'
      BY <3>1 DEF StagesKept, BeforeAnalysis, FullStages
    <3> QED BY <1>1, <3>1, <3>2, NoRunTouched DEF PausesTell
  <2>2. CASE BeginPass
    <3>1. BeginStep
      BY <1>1, <2>2, BeginFacts
    <3>2. /\ runs' = runs /\ status' = status /\ strategy' = strategy /\ Steps' = Steps
          /\ pass'.spec = spec /\ pass'.status = status /\ pass'.runs = runs
          /\ pass'.stepRun = status.stepRun /\ pass'.addPauses = {}
          /\ pass'.removeAbort => IsFullyPromoted(status)
          /\ pc' \in {"removeDeadlines", "sync", "stableService"}
          /\ pc' = "removeDeadlines" => pass'.scaling
          /\ pc' = "sync" => ~pass'.scaling /\ status.currentPodHash # spec.template
          /\ pc' = "stableService" => ~pass'.scaling /\ status.currentPodHash = spec.template
      BY <3>1 DEF BeginStep, user, Steps
    <3>3. StagesKept' /\ ~AfterAnalysis'
      BY <3>2 DEF StagesKept, AfterAnalysis, BeforeAnalysis, FullStages, PodTemplateChanged,
                  New, IsFullyPromoted
    <3>4. RunsKept'
      BY <1>1, <3>2 DEF RunsKept, IsStepRun, AsSeen, AnalysisSteps
    <3>5. PausesTell'
      BY <1>1, <3>2, <3>3 DEF PausesTell
    <3> QED BY <3>3, <3>4, <3>5
  <2>3. CASE SyncRolloutStatus
    <3>1. pc' = "idle"
      BY <2>3 DEF SyncRolloutStatus, EndPass
    <3>2. StagesKept'
      BY <3>1 DEF StagesKept, BeforeAnalysis, FullStages
    <3> QED BY <2>3, <3>2, RunSync
  <2>4. CASE Controller /\ ~CreateReplicaSet /\ ~BeginPass /\ ~SyncRolloutStatus
    <3>1. pc # "idle"
      BY <1>1, <2>4, StageKinds
    <3>2. CASE /\ ServiceStage \/ TrafficStage
               /\ pc \in BeforeAnalysis /\ pc' \in BeforeAnalysis
               /\ pass'.removeAbort = pass.removeAbort
      <4>1. StagesKept'
        BY <1>1, <3>1, <3>2, StagesStay
        DEF ServiceStage, TrafficStage, Stage, KeepsVerdict, BeforeAnalysis, FullStages
      <4> QED BY <3>1, <3>2, <4>1, OtherStages
    <3>3. CASE /\ AnalysisStage /\ pc \in FullStages
               /\ pc' \in {"backgroundAnalysis", "otherRuns", "sync", "removeDeadlines"}
               /\ \/ ReconcileStepBasedAnalysisRun \/ CancelCurrentAnalysis
                  \/ ReconcileBackgroundAnalysisRun \/ ReconcileOtherRuns
      <4>1. StagesKept'
        BY <1>1, <3>1, <3>3, StagesStay DEF AnalysisStage, Stage, BeforeAnalysis, FullStages
      <4> QED BY <3>3, <4>1, AnalysisStages
    <3>4. CASE ScalingStage /\ pc \in ScalingStages \ {"pause", "sync"}
      <4>1. StagesKept'
        BY <1>1, <3>1, <3>4, StagesStay
        DEF ScalingStage, ScalingStages, Stage, BeforeAnalysis, FullStages
      <4> QED BY <3>1, <3>4, <4>1, OtherStages
    <3>5. CASE PauseStage /\ pc = "pause"
      <4>1. StagesKept'
        BY <1>1, <3>1, <3>5, StagesStay DEF PauseStage, Stage, BeforeAnalysis, FullStages
      <4> QED BY <3>1, <3>5, <4>1, OtherStages
    <3> QED BY <1>1, <2>4, <3>2, <3>3, <3>4, <3>5, StagesInOrder
            DEF FullStages, BeforeAnalysis
  <2>5. CASE PassFails
    <3>1. /\ runs' = runs /\ status' = status /\ strategy' = strategy /\ pc' = "idle"
          /\ Steps' = Steps
      BY <2>5 DEF PassFails, EndPass, Steps
    <3>2. StagesKept'
      BY <3>1 DEF StagesKept, BeforeAnalysis, FullStages
    <3> QED BY <1>1, <3>1, <3>2, NoRunTouched DEF PausesTell
  <2>6. CASE Cluster
    <3>1. ClusterStep
      BY <1>1, <2>6, ClusterSteps
    <3>2. /\ status' = status /\ strategy' = strategy /\ Steps' = Steps /\ pc' = pc
          /\ pass'.spec = pass.spec /\ pass'.status = pass.status
          /\ pass'.scaling = pass.scaling /\ pass'.runs = pass.runs
          /\ pass'.stepRun = pass.stepRun /\ pass'.addPauses = pass.addPauses
          /\ pass'.removeAbort = pass.removeAbort
          /\ \A i \in RunIds : \/ runs'[i] = runs[i]
                               \/ /\ runs[i].phase = "Running" /\ runs'[i].phase \in Completed
                                  /\ runs'[i].step = runs[i].step /\ runs'[i].hash = runs[i].hash
      BY <3>1 DEF ClusterStep, Steps
    <3>3. /\ PodTemplateChanged' = PodTemplateChanged /\ Index' = Index
          /\ IsFullyPromoted(pass.status)' = IsFullyPromoted(pass.status)
          /\ StepIs("analysis")' = StepIs("analysis") /\ AfterAnalysis' = AfterAnalysis
      BY <3>2 DEF PodTemplateChanged, New, Index, StepIs, IsFullyPromoted, AfterAnalysis
    <3>4. StagesKept'
      BY <1>1, <3>2, <3>3 DEF StagesKept
    <3>5. status.stepRun # 0 => status.stepRun \in RunIds
      BY <1>1, Typed, StatusFields, CountAssumption DEF StepInv, RunIds
    <3>6. pc # "idle" /\ pass.stepRun # 0 => pass.stepRun \in RunIds
      BY <1>1, UsedRuns
    <3>7. RunsKept'
      BY <1>1, <3>2, <3>5, <3>6, SMTT(90) DEF RunsKept, IsStepRun, AsSeen, AnalysisSteps, Completed
    <3>8. PausesTell'
      BY <1>1, <3>2, <3>3, <3>5 DEF PausesTell, Completed
    <3> QED BY <3>4, <3>7, <3>8
  <2>7. CASE User
    <3>1. /\ runs' = runs /\ strategy' = strategy /\ Steps' = Steps /\ pc' = pc
          /\ pass' = pass /\ status'.currentPodHash = status.currentPodHash
          /\ status'.stepRun = status.stepRun /\ status'.pauses \in {{}, status.pauses}
      BY <1>1, <2>7, UserStatus DEF Steps
    <3>2. AfterAnalysis' = AfterAnalysis /\ Index' = Index
          /\ StepIs("analysis")' = StepIs("analysis")
          /\ PodTemplateChanged' = PodTemplateChanged
          /\ IsFullyPromoted(pass.status)' = IsFullyPromoted(pass.status)
      BY <3>1 DEF AfterAnalysis, Index, StepIs, PodTemplateChanged, New, IsFullyPromoted
    <3>3. StagesKept'
      BY <1>1, <3>1, <3>2 DEF StagesKept
    <3>4. RunsKept'
      BY <1>1, <3>1 DEF RunsKept, IsStepRun, AsSeen, AnalysisSteps
    <3>5. PausesTell'
      BY <1>1, <3>1, <3>2 DEF PausesTell
    <3> QED BY <3>3, <3>4, <3>5
  <2>8. CASE UNCHANGED vars
    <3>1. /\ runs' = runs /\ strategy' = strategy /\ Steps' = Steps /\ pc' = pc
          /\ pass' = pass /\ status' = status
      BY <2>8 DEF vars, Steps
    <3>2. AfterAnalysis' = AfterAnalysis /\ Index' = Index
          /\ StepIs("analysis")' = StepIs("analysis")
          /\ PodTemplateChanged' = PodTemplateChanged
          /\ IsFullyPromoted(pass.status)' = IsFullyPromoted(pass.status)
      BY <3>1 DEF AfterAnalysis, Index, StepIs, PodTemplateChanged, New, IsFullyPromoted
    <3>3. StagesKept'
      BY <1>1, <3>1, <3>2 DEF StagesKept
    <3>4. RunsKept' /\ PausesTell'
      BY <1>1, <3>1, <3>2 DEF RunsKept, PausesTell, IsStepRun, AsSeen, AnalysisSteps
    <3> QED BY <3>3, <3>4
  <2>9. CASE OthersFail
    <3>1. /\ runs' = runs /\ strategy' = strategy /\ Steps' = Steps
          /\ pass' = pass /\ status' = status
          /\ pc \in {"cleanup", "scaleOthers"} /\ pc' \in {"pause", "sync"}
          /\ (pc' = "pause" => ~pass.scaling)
      BY <1>1, <2>9, OthersFailFacts DEF OthersFailStep, Steps
    <3>2. Index' = Index /\ StepIs("analysis")' = StepIs("analysis")
          /\ PodTemplateChanged' = PodTemplateChanged
      BY <3>1 DEF Index, StepIs, PodTemplateChanged, New
    <3>3. AfterAnalysis' => AfterAnalysis
      BY <3>1, <3>2 DEF AfterAnalysis, BeforeAnalysis
    <3>4. StagesKept'
      BY <1>1, <3>1, <3>2 DEF StagesKept, BeforeAnalysis, FullStages
    <3>5. RunsKept'
      BY <1>1, <3>1, NoRunTouched
    <3>6. PausesTell'
      BY <1>1, <3>1, <3>2, <3>3 DEF PausesTell
    <3> QED BY <3>4, <3>5, <3>6
  <2> QED BY <2>1, <2>2, <2>3, <2>4, <2>5, <2>6, <2>7, <2>8, <2>9 DEF Next
<1> QED BY <1>2, <1>3 DEF RunInv

(* A Rollout with background analysis has one analysis step at most: the    *)
(* run of another one may stand in for it while the background run pauses   *)
(* the Rollout, and a user promotes it.                                    *)
OneAnalysis ==
    \A s \in Strategies : s.background =>
        \A i, j \in DOMAIN s.steps :
            s.steps[i].kind = "analysis" /\ s.steps[j].kind = "analysis" => i = j

(* No analysis step is left without a successful run of that step for that  *)
(* version, whatever passes fail, however stale the runs a pass has seen,   *)
(* and whenever users promote, abort, retry or replace the update           *)
(* (completedCurrentCanaryStep of rollout/canary.go).                      *)
THEOREM StepNeedsAnalysisHolds == ASSUME OneAnalysis PROVE Spec => StepNeedsAnalysis
<1>1. Init => RunInv
  BY RunInit
<1>2. RunInv /\ [Next]_vars => RunInv'
  BY RunKept
<1>3. ASSUME RunInv, [Next]_vars, MovesOn, StepIs("analysis"), status.step = pass.status.step
      PROVE \E i \in RunIds : /\ runs[i].hash = pass.spec.template
                              /\ runs[i].step = pass.status.step
                              /\ runs[i].phase = "Successful"
  <2>1. StepInv /\ RunsKept /\ PausesTell
    BY <1>3 DEF RunInv, PauseInv
  <2>2. Index < Len(Steps) /\ status.step = Index /\ Steps[Index + 1].kind = "analysis"
        /\ pc = "sync" /\ ~pass.scaling /\ ~PodTemplateChanged
    BY <1>3 DEF StepIs, Index, MovesOn
  <2>3. CompletedCurrentCanaryStep /\ InPass /\ pass.status.currentPodHash = New
    BY <1>3, <2>1, <2>2, MovesOnCompleted
  <2>4. pass.stepRun # 0 /\ pass.runs[pass.stepRun].phase = "Successful"
    BY <2>2, <2>3 DEF CompletedCurrentCanaryStep, IsPauseStep, StepIs, CompletedStepRun
  <2>5. pass.stepRun \in RunIds /\ IsStepRun(pass.runs, pass.stepRun) /\ AsSeen(pass.stepRun)
    BY <2>1, <2>2, <2>4, UsedRuns DEF RunsKept
  <2>6. /\ runs[pass.stepRun].phase = "Successful" /\ runs[pass.stepRun].hash = New
        /\ runs[pass.stepRun].step = pass.runs[pass.stepRun].step
        /\ pass.runs[pass.stepRun].step + 1 \in AnalysisSteps
    <3>1. status.currentPodHash = New
      BY <2>1, <2>2, <2>3 DEF StepInv, Snapshot
    <3>2. "Successful" \in Completed
      BY DEF Completed
    <3> QED BY <2>4, <2>5, <3>1, <3>2 DEF IsStepRun, AsSeen
  <2>7. pass.runs[pass.stepRun].step = Index
    <3>1. CASE ~strategy.background
      <4>1. AfterAnalysis
        BY <2>2 DEF AfterAnalysis, BeforeAnalysis
      <4>2. pass.status.pauses = {}
        BY <2>1, <2>2, <2>4, <3>1 DEF PausesTell
      <4> QED BY <2>1, <2>2, <2>4, <3>1, <4>1, <4>2 DEF PausesTell
    <3>2. CASE strategy.background
      <4>1. Index \in Nat /\ Index + 1 \in AnalysisSteps
        BY <1>3, <2>3, AnalysisStepsFacts
      <4>2. strategy \in Strategies /\ DOMAIN Steps = 1..Len(Steps)
        BY <2>3, StepsType DEF InPass
      <4>3. \A i, j \in AnalysisSteps : i = j
        BY <3>2, <4>2 DEF OneAnalysis, AnalysisSteps, Steps
      <4>4. pass.runs[pass.stepRun].step \in Int
        <5>1. pass.runs \in [RunIds -> RunType]
          BY <2>3, PassFields DEF InPass
        <5> QED BY <2>5, <5>1 DEF RunType, Background
      <4>5. pass.runs[pass.stepRun].step + 1 = Index + 1
        BY <2>6, <4>1, <4>3
      <4> QED BY <4>1, <4>4, <4>5
    <3> QED BY <3>1, <3>2
  <2> QED BY <2>5, <2>6, <2>7 DEF New, Index
<1>4. RunInv /\ [Next]_vars =>
        [(MovesOn /\ StepIs("analysis") /\ status.step = pass.status.step)
          => \E i \in RunIds : /\ runs[i].hash = pass.spec.template
                               /\ runs[i].step = pass.status.step
                               /\ runs[i].phase = "Successful"]_vars
  BY <1>3
<1> QED BY <1>1, <1>2, <1>4, PTL DEF Spec, StepNeedsAnalysis
=============================================================================
