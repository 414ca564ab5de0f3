---------------------- MODULE BlueGreenAnalysis_proofs ----------------------
(***************************************************************************)
(* Proofs about the promotion of a version in BlueGreen, by analyses and   *)
(* by the user, for every set of hashes, every strategy and every bound:   *)
(*   CurrentRunsKept       a run the status refers to is never deleted;    *)
(*   SwitchesAreAnalysed   traffic moves only to an analysed version;      *)
(*   PromotionsAreAnalysed a version becomes stable only once analysed;    *)
(*   SwitchesAreApproved   without analyses and previewReplicaCount,       *)
(*                         traffic moves to a version only when a user     *)
(*                         resumed its pause;                              *)
(* and where all a user does to it is to update a Rollout with a preview   *)
(* size, whatever passes fail:                                             *)
(*   ActiveKeepsSizeWithPreview, StableKeepsSizeWithPreview                *)
(*                         both versions in use keep their size;           *)
(*   ReferencedKeptWithPreview                                             *)
(*                         and exist, as does the preview.                 *)
(* All rest on AnalysisInv: what the status and a pass in progress know of *)
(* the runs, of the version they are runs of, and of the traffic.  To it   *)
(* the others add PauseKnown, what they know of the pause, or Serving and  *)
(* PassServes: the version that gets the traffic before it is stable keeps *)
(* its size until a pass has promoted it.                                  *)
(***************************************************************************)
EXTENDS BlueGreen_proofs

(* The fields of the status that only a pass writes. *)
PassFieldsOfStatus == <<status.stableRS, status.currentPodHash, status.activeSelector,
                        status.preRun, status.postRun>>

(* What the stages know of their pass: those of an update run only in a     *)
(* pass whose template is the one of the status, and no scaling event.     *)
PassPath ==
    pc # "idle" =>
        /\ pc \in {"pause", "activeService", "analysis"} => ~pass.scaling
        /\ pc \notin {"previewService", "sync"} => pass.scaling \/ ~CheckPodSpecChange
        /\ pc = "sync" => pass.scaling \/ pass.analysed \/ CheckPodSpecChange
        /\ pass.analysed => pc = "sync" /\ ~pass.scaling /\ ~CheckPodSpecChange

(* Those fields are in the snapshot as they still are, and the current runs *)
(* are the ones of the status until the analysis stage chooses others.     *)
PassOfStatus ==
    pc # "idle" =>
        /\ pass.status.currentPodHash = status.currentPodHash
        /\ pass.status.activeSelector = status.activeSelector
        /\ pass.status.preRun = status.preRun /\ pass.status.postRun = status.postRun
        /\ ~pass.analysed => pass.pre = status.preRun /\ pass.post = status.postRun

(* Run i, if there is one, exists, is of that kind and of version h. *)
RunOf(kind, i, h) ==
    i # 0 => runs[i].phase # "none" /\ runs[i].kind = kind /\ runs[i].hash = h

(* The runs of the status are those of the version it is the status of. *)
StatusRuns ==
    /\ RunOf("pre", status.preRun, status.currentPodHash)
    /\ RunOf("post", status.postRun, status.currentPodHash)
    /\ status.stableRS = NoHash => status.preRun = 0 /\ status.postRun = 0
    /\ status.stableRS # NoHash => status.currentPodHash # NoHash

(* A verdict a pass has seen is still that of the run. *)
SeenVerdict(i) ==
    pass.runs[i].phase \in Completed => runs[i].phase = pass.runs[i].phase

(* Runs are only created and deleted by the pass, which keeps its view of   *)
(* them up to date, and its current runs are of the new version.           *)
PassRuns ==
    pc # "idle" =>
        /\ ~pass.analysed => \A i \in RunIds :
              /\ pass.runs[i].phase = "none" <=> runs[i].phase = "none"
              /\ pass.runs[i].hash = runs[i].hash
              /\ SeenVerdict(i)
        /\ pass.analysed =>
              /\ RunOf("pre", pass.pre, New) /\ RunOf("post", pass.post, New)
              /\ \A i \in {pass.pre, pass.post} \ {0} : SeenVerdict(i)

(* The active Service selects the version the status says, the one being    *)
(* updated to or, after an abort, the stable one; and once there is a      *)
(* post-promotion run, one of the last two.                                *)
TrafficKnown ==
    /\ status.stableRS # NoHash =>
         active \in {status.activeSelector, status.currentPodHash, status.stableRS}
    /\ status.postRun # 0 => active \in {status.currentPodHash, status.stableRS}
    /\ pc # "idle" /\ pass.analysed /\ pass.post # 0
         => active \in {New, status.stableRS} /\ status.stableRS # NoHash

AnalysisInv == /\ StableInv
               /\ PassPath /\ PassOfStatus /\ StatusRuns /\ PassRuns /\ TrafficKnown

\* The types of those fields, and of a run's number.
LEMMA RunNumbers ==
    ASSUME TypeOK
    PROVE /\ status.preRun \in 0..MaxRuns /\ status.postRun \in 0..MaxRuns
          /\ pass.pre \in 0..MaxRuns /\ pass.post \in 0..MaxRuns
          /\ status.stableRS \in Hash \cup {NoHash}
          /\ status.currentPodHash \in Hash \cup {NoHash}
          /\ status.activeSelector \in Hash \cup {NoHash}
          /\ \A i \in 0..MaxRuns : i # 0 => i \in RunIds
BY CountAssumption DEF TypeOK, StatusType, PassType, RunIds

(* A step that leaves the pass what it was but for its ReplicaSets and its  *)
(* pauses.                                                                 *)
KeepsPass ==
    /\ pc # "idle" /\ pass'.spec = pass.spec /\ pass'.status = pass.status
    /\ pass'.scaling = pass.scaling /\ pass'.analysed = pass.analysed
    /\ pass'.pre = pass.pre /\ pass'.post = pass.post /\ pass'.runs = pass.runs

\* Steps that write nothing the invariant reads but the stage.
LEMMA AnalysisKept ==
    ASSUME AnalysisInv, StableInv', UNCHANGED PassFieldsOfStatus, UNCHANGED <<runs, active>>,
           pc' = "idle" \/ (KeepsPass /\ PassPath')
    PROVE AnalysisInv'
<1> USE DEF AnalysisInv, PassFieldsOfStatus
<1>1. StatusRuns'
  BY DEF StatusRuns, RunOf
<1>2. CASE pc' = "idle"
  BY <1>1, <1>2 DEF PassPath, PassOfStatus, PassRuns, TrafficKnown
<1>3. CASE KeepsPass /\ PassPath'
  <2>1. New' = New
    BY <1>3 DEF KeepsPass, New
  <2>2. PassOfStatus'
    BY <1>3 DEF KeepsPass, PassOfStatus
  <2>3. PassRuns'
    BY <1>3, <2>1 DEF KeepsPass, PassRuns, RunOf, SeenVerdict
  <2>4. TrafficKnown'
    BY <1>3, <2>1 DEF KeepsPass, TrafficKnown
  <2> QED BY <1>1, <1>3, <2>2, <2>3, <2>4
<1> QED BY <1>2, <1>3

\* The path of a pass that stays where it is.
LEMMA PathKept ==
    ASSUME AnalysisInv, KeepsPass, pc' = pc PROVE PassPath'
BY DEF AnalysisInv, KeepsPass, PassPath, CheckPodSpecChange, New

\* The analysis controller completes a run: its verdict was not seen before.
LEMMA AnalysisRunCompletes ==
    ASSUME AnalysisInv, StableInv', NEW k \in RunIds, RunCompletes(k) PROVE AnalysisInv'
<1> USE DEF AnalysisInv
<1>1. UNCHANGED <<status, active, pc, pass>> /\ runs[k].phase = "Running"
  BY DEF RunCompletes
<1>2. PICK phase \in Completed : runs' = [runs EXCEPT ![k].phase = phase]
  BY DEF RunCompletes
<1>3. \A i \in RunIds : /\ runs'[i].kind = runs[i].kind /\ runs'[i].hash = runs[i].hash
                        /\ runs'[i].phase = "none" <=> runs[i].phase = "none"
                        /\ runs[i].phase \in Completed => runs'[i].phase = runs[i].phase
  BY <1>1, <1>2 DEF StableInv, TypeOK, RunType, Completed, Phases
<1>4. \A kind, h : \A i \in 0..MaxRuns : RunOf(kind, i, h) => RunOf(kind, i, h)'
  BY <1>3, RunNumbers DEF RunOf, StableInv
<1>5. \A i \in RunIds : SeenVerdict(i) => SeenVerdict(i)'
  BY <1>1, <1>3 DEF SeenVerdict
<1>6. StatusRuns'
  <2>1. RunOf("pre", status.preRun, status.currentPodHash)'
    BY <1>1, <1>4, RunNumbers DEF StatusRuns, StableInv, RunOf
  <2>2. RunOf("post", status.postRun, status.currentPodHash)'
    BY <1>1, <1>4, RunNumbers DEF StatusRuns, StableInv, RunOf
  <2> QED BY <1>1, <2>1, <2>2 DEF StatusRuns
<1>7. PassRuns'
  <2> SUFFICES ASSUME pc # "idle" PROVE PassRuns'
    BY <1>1 DEF PassRuns
  <2>1. New' = New
    BY <1>1 DEF New
  <2>2. CASE ~pass.analysed
    BY <1>1, <1>3, <1>5, <2>2 DEF PassRuns
  <2>3. CASE pass.analysed
    <3>1. RunOf("pre", pass.pre, New)' /\ RunOf("post", pass.post, New)'
      BY <1>1, <1>4, <2>1, <2>3, RunNumbers DEF PassRuns, StableInv, RunOf
    <3>2. \A i \in {pass.pre, pass.post} \ {0} : SeenVerdict(i)'
      BY <1>5, <2>3, RunNumbers DEF PassRuns, StableInv
    <3> QED BY <1>1, <2>3, <3>1, <3>2 DEF PassRuns
  <2> QED BY <2>2, <2>3
<1>8. PassPath' /\ PassOfStatus' /\ TrafficKnown'
  BY <1>1 DEF PassPath, PassOfStatus, TrafficKnown, CheckPodSpecChange, New
<1> QED BY <1>6, <1>7, <1>8

\* The rest of the cluster, the user and a pass that fails.
LEMMA AnalysisCluster ==
    ASSUME AnalysisInv, StableInv',
           OthersFail \/ PassFails \/ Cluster \/ User \/ UNCHANGED vars
    PROVE AnalysisInv'
<1> USE DEF AnalysisInv, StableInv
<1>1. ASSUME UNCHANGED <<runs, active, pc, pass>>, UNCHANGED PassFieldsOfStatus
      PROVE AnalysisInv'
  <2>1. CASE pc = "idle"
    BY <1>1, <2>1, AnalysisKept
  <2>2. CASE pc # "idle"
    <3>1. KeepsPass
      BY <1>1, <2>2 DEF KeepsPass
    <3> QED BY <1>1, <3>1, AnalysisKept, PathKept
  <2> QED BY <2>1, <2>2
<1>2. ASSUME NEW h \in Hash, NEW n, SetAvailable(h, n), UNCHANGED <<status, active, runs, pc>>
      PROVE AnalysisInv'
  <2>0. UNCHANGED PassFieldsOfStatus
    BY <1>2 DEF PassFieldsOfStatus
  <2>1. CASE pc = "idle"
    BY <1>2, <2>0, <2>1, AnalysisKept
  <2>2. CASE pc # "idle"
    <3>1. KeepsPass
      BY <1>2, <2>2 DEF SetAvailable, KeepsPass, TypeOK, PassType
    <3> QED BY <1>2, <2>0, <3>1, AnalysisKept, PathKept
  <2> QED BY <2>1, <2>2
<1>3. CASE \E h \in Hash : \/ PodBecomesAvailable(h) \/ PodBecomesUnavailable(h)
                           \/ PodsTerminate(h)
  BY <1>2, <1>3 DEF PodBecomesAvailable, PodBecomesUnavailable, PodsTerminate
<1>4. CASE (\E h \in Hash : DeadlinePasses(h)) \/ PauseElapses \/ UNCHANGED vars
  BY <1>1, <1>4 DEF DeadlinePasses, PauseElapses, cluster, vars, PassFieldsOfStatus
<1>5. CASE PassFails
  <2>1. pc' = "idle" /\ UNCHANGED <<status, active, runs>>
    BY <1>5 DEF PassFails, EndPass, cluster
  <2> QED BY <2>1, AnalysisKept DEF PassFieldsOfStatus
<1>6. CASE User
  <2>1. UNCHANGED <<runs, active, pc, pass>>
    BY <1>6 DEF User, Promote, PromoteFull, PatchStatus, PatchSpec, Abort, Retry, Pause,
       SetTemplate, Scale, UserMay,
       cluster
  <2>2. UNCHANGED PassFieldsOfStatus
    BY <1>6 DEF User, Promote, PromoteFull, PatchStatus, PatchSpec, Abort, Retry, Pause,
       SetTemplate, Scale,
       TypeOK, StatusType, PassFieldsOfStatus
  <2> QED BY <1>1, <2>1, <2>2
<1>7. CASE \E k \in RunIds : RunCompletes(k)
  BY <1>7, AnalysisRunCompletes
<1>8. CASE OthersFail
  <2>1. /\ pc = "scaleOthers" /\ pc' = "revisionHistory" /\ pass' = pass
        /\ UNCHANGED <<status, active, runs>>
    BY <1>8 DEF OthersFail, GoTo, cluster
  <2>2. KeepsPass /\ PassPath'
    BY <2>1 DEF KeepsPass, PassPath, CheckPodSpecChange, New
  <2> QED BY <2>1, <2>2, AnalysisKept DEF PassFieldsOfStatus
<1> QED BY <1>3, <1>4, <1>5, <1>6, <1>7, <1>8 DEF Cluster

\* A pass begins with the runs of the status.
LEMMA AnalysisBegin ==
    ASSUME AnalysisInv, StableInv', CreateReplicaSet \/ BeginPass PROVE AnalysisInv'
<1> USE DEF AnalysisInv
<1>1. pc = "idle" /\ UNCHANGED <<status, runs, active>>
  BY DEF CreateReplicaSet, BeginPass
<1>2. CASE CreateReplicaSet
  BY <1>1, <1>2, AnalysisKept DEF CreateReplicaSet, PassFieldsOfStatus
<1>3. CASE BeginPass
  <2>1. /\ pass'.status = status /\ pass'.runs = runs /\ pass'.analysed = FALSE
        /\ pass'.pre = status.preRun /\ pass'.post = status.postRun
        /\ pass'.scaling = IsScalingEvent
    BY <1>3 DEF BeginPass, NoPass
  <2>2. pc' = IF IsScalingEvent THEN "removeDeadlines" ELSE "previewService"
    BY <1>3 DEF BeginPass
  <2>3. PassPath'
    BY <2>1, <2>2 DEF PassPath
  <2>4. PassOfStatus'
    BY <1>1, <2>1 DEF PassOfStatus
  <2>5. StatusRuns'
    BY <1>1 DEF StatusRuns, RunOf
  <2>6. PassRuns'
    BY <1>1, <2>1 DEF PassRuns, SeenVerdict
  <2>7. TrafficKnown'
    BY <1>1, <2>1 DEF TrafficKnown
  <2> QED BY <2>3, <2>4, <2>5, <2>6, <2>7
<1> QED BY <1>2, <1>3

\* The stages that scale ReplicaSets.
LEMMA AnalysisScaling ==
    ASSUME AnalysisInv, StableInv',
           \/ RemoveScaleDownDeadlines \/ ReconcileStableReplicaSet
           \/ ReconcileNewReplicaSet \/ ReconcileOtherReplicaSets
    PROVE AnalysisInv'
<1> USE DEF AnalysisInv, StableInv
<1> DEFINE scaling == {"removeDeadlines", "scaleStable", "scaleNew", "scaleOthers"}
           after == {"scaleStable", "scaleNew", "scaleOthers", "revisionHistory"}
<1>1. pc \in scaling /\ UNCHANGED <<status, runs, active>> /\ UNCHANGED PassFieldsOfStatus
  BY DEF RemoveScaleDownDeadlines, ReconcileStableReplicaSet, ReconcileNewReplicaSet,
         ReconcileOtherReplicaSets, PassFieldsOfStatus
<1>2. ASSUME pc' = "idle" PROVE AnalysisInv'
  BY <1>1, <1>2, AnalysisKept
<1>3. ASSUME pc' = pc \/ pc' \in after,
             /\ pass'.spec = pass.spec /\ pass'.status = pass.status
             /\ pass'.scaling = pass.scaling /\ pass'.analysed = pass.analysed
             /\ pass'.pre = pass.pre /\ pass'.post = pass.post /\ pass'.runs = pass.runs
      PROVE AnalysisInv'
  <2>1. KeepsPass
    BY <1>1, <1>3 DEF KeepsPass
  <2>2. PassPath'
    BY <1>1, <1>3, Zenon DEF PassPath, CheckPodSpecChange, New
  <2> QED BY <1>1, <2>1, <2>2, AnalysisKept
<1>4. ASSUME NEW stage \in after, GoTo(stage) PROVE AnalysisInv'
  BY <1>3, <1>4 DEF GoTo
<1>5. ASSUME NEW h, NEW n, NEW stage \in after, ScaleReplicaSet(h, n, stage)
      PROVE AnalysisInv'
  <2>1. CASE GoTo(stage)
    BY <1>4, <2>1
  <2>2. CASE EndPass
    BY <1>2, <2>2 DEF EndPass
  <2>3. CASE pc' = stage /\ pass' = [pass EXCEPT !.dirty = @ \cup {h}]
    BY <1>3, <2>3 DEF TypeOK, PassType
  <2> QED BY <1>5, <2>1, <2>2, <2>3 DEF ScaleReplicaSet
<1>6. CASE RemoveScaleDownDeadlines
  <2>1. ASSUME NEW h, pc' = pc,
               pass' = [pass EXCEPT !.rs = [@ EXCEPT ![h].deadline = "none"],
                                    !.dirty = @ \cup {h}]
        PROVE AnalysisInv'
    BY <1>3, <2>1 DEF TypeOK, PassType
  <2> QED BY <1>4, <1>6, <2>1 DEF RemoveScaleDownDeadlines
<1>7. CASE ReconcileStableReplicaSet
  BY <1>4, <1>5, <1>7 DEF ReconcileStableReplicaSet
<1>8. CASE ReconcileNewReplicaSet
  <2>1. CASE StartAbortScaleDownDelay
    BY <1>3, <2>1 DEF StartAbortScaleDownDelay, TypeOK, PassType
  <2>2. CASE WaitAbortScaleDownDelay
    BY <1>3, <2>2 DEF WaitAbortScaleDownDelay, TypeOK, PassType
  <2>3. CASE EndPass
    BY <1>2, <2>3 DEF EndPass
  <2>4. ASSUME NEW n, ScaleReplicaSet(New, n, "scaleOthers") PROVE AnalysisInv'
    BY <1>5, <2>4
  <2> QED BY <1>8, <2>1, <2>2, <2>3, <2>4 DEF ReconcileNewReplicaSet
<1>9. CASE ReconcileOtherReplicaSets
  <2>1. ASSUME NEW V, NEW D, NEW k, pc' = pc,
               pass' = [pass EXCEPT !.visited = V, !.dirty = D, !.annotated = k]
        PROVE AnalysisInv'
    BY <1>3, <2>1 DEF TypeOK, PassType
  <2>2. \/ GoTo("revisionHistory")
        \/ /\ pc' = pc
           /\ \E V, D, k : pass' = [pass EXCEPT !.visited = V, !.dirty = D, !.annotated = k]
    <3>1. ASSUME NEW h, ~GoTo("revisionHistory"),
                 LET n == OldReplicas(h)
                     scales == n # pass.rs[h].replicas
                     wrote == scales \/ StartsScaleDownDelay(h)
                 IN IF scales /\ h \in pass.dirty
                    THEN GoTo("revisionHistory")
                    ELSE /\ pc' = pc
                         /\ pass' = [pass EXCEPT
                              !.visited = @ \cup {h},
                              !.dirty = IF wrote THEN @ \cup {h} ELSE @,
                              !.annotated = IF pass.rs[h].deadline # "none" \/ n # 0
                                            THEN @ + 1 ELSE @]
          PROVE /\ pc' = pc
                /\ \E V, D, k : pass' = [pass EXCEPT !.visited = V, !.dirty = D,
                                                     !.annotated = k]
      <4> DEFINE V == pass.visited \cup {h}
                 D == IF OldReplicas(h) # pass.rs[h].replicas \/ StartsScaleDownDelay(h)
                      THEN pass.dirty \cup {h} ELSE pass.dirty
                 k == IF pass.rs[h].deadline # "none" \/ OldReplicas(h) # 0
                      THEN pass.annotated + 1 ELSE pass.annotated
      <4>1. pc' = pc /\ pass' = [pass EXCEPT !.visited = V, !.dirty = D, !.annotated = k]
        BY <3>1
      <4> HIDE DEF V, D, k
      <4> QED BY <4>1
    <3> QED BY <1>9, <3>1, Zenon DEF ReconcileOtherReplicaSets
  <2> QED BY <1>4, <2>1, <2>2
<1> QED BY <1>6, <1>7, <1>8, <1>9

\* The stages that choose the Services' selectors and the pause.
LEMMA AnalysisServices ==
    ASSUME AnalysisInv, StableInv',
           ReconcilePreviewService \/ ReconcileBlueGreenPause \/ ReconcileActiveService
    PROVE AnalysisInv'
<1> USE DEF AnalysisInv, StableInv
<1>1. pc # "idle" /\ UNCHANGED <<status, runs>> /\ UNCHANGED PassFieldsOfStatus
  BY DEF ReconcilePreviewService, ReconcileBlueGreenPause, ReconcileActiveService, cluster,
         PassFieldsOfStatus
<1>2. CASE ReconcilePreviewService
  <2>1. /\ pc = "previewService" /\ UNCHANGED active /\ pass' = pass
        /\ pc' = IF CheckPodSpecChange THEN "sync" ELSE "removeDeadlines"
    BY <1>2 DEF ReconcilePreviewService, GoTo
  <2>2. PassPath'
    BY <2>1 DEF PassPath, CheckPodSpecChange, New
  <2> QED BY <1>1, <2>1, <2>2, AnalysisKept DEF KeepsPass
<1>3. CASE ReconcileBlueGreenPause
  <2>1. pc = "pause" /\ pc' = "activeService" /\ UNCHANGED active
    BY <1>3 DEF ReconcileBlueGreenPause, cluster
  <2>2. KeepsPass
    BY <1>1, <1>3 DEF ReconcileBlueGreenPause, KeepsPass, TypeOK, PassType
  <2>3. PassPath'
    BY <2>1, <2>2 DEF PassPath, KeepsPass, CheckPodSpecChange, New
  <2> QED BY <1>1, <2>1, <2>2, <2>3, AnalysisKept
<1>4. CASE ReconcileActiveService
  <2>1. pc = "activeService" /\ pc' = "analysis" /\ pass' = pass
    BY <1>4 DEF ReconcileActiveService, GoTo
  <2>2. PassPath' /\ PassOfStatus' /\ StatusRuns' /\ PassRuns'
    <3>1. PassPath'
      BY <2>1 DEF PassPath, CheckPodSpecChange, New
    <3>2. PassOfStatus'
      BY <1>1, <2>1 DEF PassOfStatus
    <3>3. StatusRuns'
      BY <1>1 DEF StatusRuns, RunOf
    <3>4. PassRuns'
      BY <1>1, <2>1 DEF PassRuns, RunOf, SeenVerdict, New
    <3> QED BY <3>1, <3>2, <3>3, <3>4
  <2>3. active' \in {active, New, status.stableRS}
    BY <1>1, <1>4 DEF ReconcileActiveService, ActiveHash, PassSeesStable, Stable
  <2>4. status.currentPodHash \in {NoHash, New} /\ ~pass.analysed
    BY <2>1 DEF PassPath, PassOfStatus, CheckPodSpecChange
  <2>5. status.stableRS # NoHash => New = status.currentPodHash
    BY <2>4 DEF StatusRuns
  <2>6. status.postRun # 0 => status.stableRS # NoHash
    BY DEF StatusRuns
  <2>7. TrafficKnown'
    BY <1>1, <2>1, <2>3, <2>4, <2>5, <2>6 DEF TrafficKnown
  <2> QED BY <2>2, <2>7
<1> QED BY <1>2, <1>3, <1>4

\* The runs of the status survive their ReplicaSets.
LEMMA AnalysisHistory ==
    ASSUME AnalysisInv, StableInv', ReconcileRevisionHistoryLimit PROVE AnalysisInv'
<1> USE DEF AnalysisInv, StableInv
<1>1. /\ pc = "revisionHistory" /\ UNCHANGED <<status, active>>
      /\ pc' = IF pass.scaling THEN "sync" ELSE "pause"
  BY DEF ReconcileRevisionHistoryLimit
<1>2. ~pass.analysed /\ (pass.scaling \/ ~CheckPodSpecChange)
  BY <1>1 DEF PassPath
<1>3. PICK gone : /\ runs' = WithoutRunsOf(gone, runs)
                  /\ pass' = [pass EXCEPT !.runs = WithoutRunsOf(gone, pass.runs),
                                          !.visited = {}, !.annotated = 0, !.dirty = {}]
  BY DEF ReconcileRevisionHistoryLimit
<1>4. /\ pass'.spec = pass.spec /\ pass'.status = pass.status
      /\ pass'.scaling = pass.scaling /\ pass'.analysed = pass.analysed
      /\ pass'.pre = pass.pre /\ pass'.post = pass.post
      /\ pass'.runs = WithoutRunsOf(gone, pass.runs)
  BY <1>3 DEF TypeOK, PassType
<1>5. \A i \in {status.preRun, status.postRun} \ {0} : runs'[i] = runs[i]
  BY <1>1, <1>3, RunNumbers DEF WithoutRunsOf, PassOfStatus
<1>6. \A i \in RunIds : \/ runs'[i] = runs[i] /\ pass'.runs[i] = pass.runs[i]
                        \/ runs'[i] = NoRun /\ pass'.runs[i] = NoRun
  BY <1>1, <1>2, <1>3, <1>4 DEF WithoutRunsOf, PassRuns
<1>7. PassPath' /\ PassOfStatus' /\ TrafficKnown'
  BY <1>1, <1>2, <1>4 DEF PassPath, PassOfStatus, TrafficKnown, CheckPodSpecChange, New
<1>8. StatusRuns'
  BY <1>1, <1>5 DEF StatusRuns, RunOf
<1>9. PassRuns'
  <2>1. \A i \in RunIds : /\ pass.runs[i].phase = "none" <=> runs[i].phase = "none"
                          /\ pass.runs[i].hash = runs[i].hash
                          /\ SeenVerdict(i)
    BY <1>1, <1>2 DEF PassRuns
  <2>2. \A i \in RunIds : /\ pass'.runs[i].phase = "none" <=> runs'[i].phase = "none"
                          /\ pass'.runs[i].hash = runs'[i].hash
                          /\ SeenVerdict(i)'
    BY <1>6, <2>1 DEF SeenVerdict
  <2> QED BY <1>2, <1>4, <2>2 DEF PassRuns
<1> QED BY <1>7, <1>8, <1>9

(* The end of the analysis stage, for current runs i and j that are those   *)
(* of the status, in progress for the new version, or none.                *)
LEMMA AnalysisFinished ==
    ASSUME AnalysisInv, StableInv', pc = "analysis", UNCHANGED <<status, active>>,
           NEW i \in 0..MaxRuns, NEW j \in 0..MaxRuns, NEW view \in [RunIds -> RunType], NEW S,
           FinishAnalysis(i, j, view, S),
           \A k \in RunIds : view[k] = runs[k] \/ runs[k].phase = "none",
           i \in {0, pass.pre} \/ (/\ view[i].kind = "pre" /\ view[i].hash = New
                                   /\ view[i].phase = "Running"),
           j \in {0, pass.post} \/ (/\ view[j].kind = "post" /\ view[j].hash = New
                                    /\ view[j].phase = "Running"),
           j # 0 => active \in {New, status.stableRS} /\ status.stableRS # NoHash
    PROVE AnalysisInv'
<1> USE DEF AnalysisInv, StableInv
<1> DEFINE seen == [k \in RunIds |-> IF pass.runs[k].phase = "none" THEN view[k]
                                                                ELSE pass.runs[k]]
<1>1. ~pass.analysed /\ ~pass.scaling /\ ~CheckPodSpecChange
  BY DEF PassPath
<1>2. /\ pass.pre = status.preRun /\ pass.post = status.postRun
      /\ pass.status.currentPodHash = status.currentPodHash
  BY <1>1 DEF PassOfStatus
<1>3. status.preRun # 0 \/ status.postRun # 0 => status.currentPodHash = New
  BY <1>1, <1>2 DEF StatusRuns, CheckPodSpecChange
<1>4. /\ pass'.spec = pass.spec /\ pass'.status = pass.status /\ pass'.scaling = pass.scaling
      /\ pass'.analysed = TRUE /\ pass'.pre = i /\ pass'.post = j /\ pass'.runs = seen
  <2>1. PICK pauses, aborts :
           pass' = [pass EXCEPT !.pre = i, !.post = j, !.runs = seen, !.analysed = TRUE,
                                !.addPauses = pauses, !.addAbort = aborts]
    BY Zenon DEF FinishAnalysis
  <2>2. pass \in PassType
    BY DEF TypeOK
  <2> HIDE DEF seen, AnalysisInv, StableInv
  <2> QED BY <2>1, <2>2 DEF PassType
<1>5. pc' = "sync" /\ runs' = Tidied(view, S, {i, j})
  BY DEF FinishAnalysis
<1>6. ASSUME NEW k \in RunIds, k \in {i, j, status.preRun, status.postRun}
      PROVE /\ runs'[k].phase = view[k].phase /\ runs'[k].kind = view[k].kind
            /\ runs'[k].hash = view[k].hash
  <2>1. ~IsOtherRun(k, {i, j})
    BY <1>2, <1>6 DEF IsOtherRun
  <2>2. runs'[k] = view[k] \/ runs'[k] = [view[k] EXCEPT !.terminate = TRUE]
    BY <1>5, <2>1 DEF Tidied
  <2>3. view[k] \in RunType
    OBVIOUS
  <2> QED BY <2>2, <2>3 DEF RunType
<1>7. ASSUME NEW k \in {status.preRun, status.postRun}, k # 0
      PROVE /\ k \in RunIds /\ runs'[k].phase = runs[k].phase
            /\ runs'[k].kind = runs[k].kind /\ runs'[k].hash = runs[k].hash
  <2>1. k \in RunIds
    BY <1>7, RunNumbers
  <2>2. view[k] = runs[k]
    BY <1>7, <2>1 DEF StatusRuns, RunOf
  <2> QED BY <1>6, <2>1, <2>2
<1>8. StatusRuns'
  BY <1>7 DEF StatusRuns, RunOf
<1>9. PassPath' /\ PassOfStatus'
  BY <1>1, <1>4, <1>5 DEF PassPath, PassOfStatus, CheckPodSpecChange, New
<1>10. New' = New
  BY <1>4 DEF New
<1>11. RunOf("pre", i, New)' /\ RunOf("post", j, New)'
  <2>1. i # 0 => i \in RunIds
    BY CountAssumption DEF RunIds
  <2>2. j # 0 => j \in RunIds
    BY CountAssumption DEF RunIds
  <2>3. RunOf("pre", i, New)'
    <3>1. CASE i \in {0, pass.pre}
      BY <1>2, <1>3, <1>7, <1>10, <3>1 DEF RunOf, StatusRuns
    <3>2. CASE i \notin {0, pass.pre}
      BY <1>6, <1>10, <2>1, <3>2 DEF RunOf
    <3> QED BY <3>1, <3>2
  <2>4. RunOf("post", j, New)'
    <3>1. CASE j \in {0, pass.post}
      BY <1>2, <1>3, <1>7, <1>10, <3>1 DEF RunOf, StatusRuns
    <3>2. CASE j \notin {0, pass.post}
      BY <1>6, <1>10, <2>2, <3>2 DEF RunOf
    <3> QED BY <3>1, <3>2
  <2> QED BY <2>3, <2>4
<1>12. ASSUME NEW k \in {i, j} \ {0} PROVE SeenVerdict(k)'
  <2>1. k \in RunIds
    BY CountAssumption DEF RunIds
  <2>2. runs'[k].phase = view[k].phase
    BY <1>6, <2>1
  <2>3. CASE pass.runs[k].phase = "none"
    BY <1>4, <2>1, <2>2, <2>3 DEF SeenVerdict
  <2>4. CASE pass.runs[k].phase # "none"
    <3>1. pass'.runs[k] = pass.runs[k]
      BY <1>4, <2>1, <2>4
    <3>2. runs[k].phase # "none" /\ SeenVerdict(k)
      BY <1>1, <2>1, <2>4 DEF PassRuns
    <3>3. view[k] = runs[k]
      BY <2>1, <3>2
    <3> QED BY <2>2, <3>1, <3>2, <3>3 DEF SeenVerdict
  <2> QED BY <2>3, <2>4
<1>13. PassRuns'
  BY <1>4, <1>10, <1>11, <1>12 DEF PassRuns, RunOf
<1>14. TrafficKnown'
  BY <1>4, <1>10 DEF TrafficKnown
<1> QED BY <1>8, <1>9, <1>13, <1>14

\* The run of a stage that starts one, in progress before or created now.
LEMMA RunStarted ==
    ASSUME TypeOK, pc # "idle", NEW kind \in {"pre", "post"}, NEW i \in CreateIds(kind)
    PROVE /\ i \in RunIds /\ i \in 0..MaxRuns
          /\ CreatedRuns(kind, i) \in [RunIds -> RunType]
          /\ CreatedRuns(kind, i)[i].kind = kind /\ CreatedRuns(kind, i)[i].hash = New
          /\ CreatedRuns(kind, i)[i].phase = "Running"
          /\ \A k \in RunIds : CreatedRuns(kind, i)[k] = runs[k] \/ runs[k].phase = "none"
<1>1. i \in RunIds /\ i \in 0..MaxRuns
  BY DEF CreateIds, InProgress, FreeIds, RunIds
<1>2. CreatedRuns(kind, i) \in [RunIds -> RunType]
  BY <1>1, CreatedRunsType
<1>3. CASE i \in InProgress(kind)
  BY <1>1, <1>2, <1>3 DEF CreatedRuns, InProgress
<1>4. CASE i \notin InProgress(kind)
  <2>1. runs[i].phase = "none"
    BY <1>4 DEF CreateIds, FreeIds
  <2> QED BY <1>1, <1>2, <1>4, <2>1 DEF CreatedRuns, TypeOK
<1> QED BY <1>3, <1>4

\* reconcileAnalysisRuns chooses the runs of the version it is updating to.
LEMMA AnalysisStage ==
    ASSUME AnalysisInv, StableInv', ReconcileAnalysisRuns PROVE AnalysisInv'
<1> USE DEF AnalysisInv, StableInv
<1>1. pc = "analysis" /\ UNCHANGED <<status, active>> /\ ~pass.analysed
  BY DEF ReconcileAnalysisRuns, PassPath
<1>2. /\ pass.pre \in 0..MaxRuns /\ pass.post \in 0..MaxRuns
      /\ CurrentPre \in 0..MaxRuns /\ CurrentPost \in 0..MaxRuns
      /\ CurrentPre \in {0, pass.pre} /\ CurrentPost \in {0, pass.post}
  BY <1>1, PassFields, CountAssumption DEF CurrentPre, CurrentPost
<1>3. runs \in [RunIds -> RunType]
  BY DEF TypeOK
<1>4. pass.post # 0 => active \in {New, status.stableRS} /\ status.stableRS # NoHash
  <2>1. pass.post = status.postRun
    BY <1>1 DEF PassOfStatus
  <2>2. pass.post # 0 => status.currentPodHash = New
    BY <1>1, <2>1 DEF PassPath, PassOfStatus, CheckPodSpecChange, StatusRuns
  <2> QED BY <2>1, <2>2 DEF TrafficKnown, StatusRuns
<1>5. CASE FinishAnalysis(pass.pre, pass.post, runs, {pass.pre, pass.post})
  BY <1>1, <1>2, <1>3, <1>4, <1>5, AnalysisFinished
<1>6. CASE FinishAnalysis(CurrentPre, CurrentPost, runs, Skipped)
  BY <1>1, <1>2, <1>3, <1>4, <1>6, AnalysisFinished
<1>7. ASSUME NEW i \in CreateIds("pre"),
             FinishAnalysis(i, CurrentPost, CreatedRuns("pre", i), Skipped)
      PROVE AnalysisInv'
  BY <1>1, <1>2, <1>4, <1>7, RunStarted, AnalysisFinished
<1>8. ASSUME ~ShouldCancelCurrentAnalysis, StartsPostRun, NEW i \in CreateIds("post"),
             FinishAnalysis(CurrentPre, i, CreatedRuns("post", i), Skipped)
      PROVE AnalysisInv'
  <2>1. active \in {New, status.stableRS} /\ status.stableRS # NoHash
    <3>1. Stable # NoHash /\ Stable = status.stableRS
      BY <1>1, <1>8 DEF ShouldCancelCurrentAnalysis, PassSeesStable
    <3>2. status.activeSelector = New
      BY <1>1, <1>8 DEF StartsPostRun, SkipPostPromotion, PassOfStatus
    <3>3. status.currentPodHash = New
      BY <1>1, <3>1 DEF PassPath, PassOfStatus, CheckPodSpecChange, StatusRuns
    <3> QED BY <3>1, <3>2, <3>3 DEF TrafficKnown
  <2> QED BY <1>1, <1>2, <1>8, <2>1, RunStarted, AnalysisFinished
<1> QED BY <1>5, <1>6, <1>7, <1>8 DEF ReconcileAnalysisRuns

(* What the status patch of a pass writes to the fields only passes write:  *)
(* nothing in a scaling event.                                             *)
LEMMA SyncedFields ==
    ASSUME AnalysisInv, SyncRolloutStatus
    PROVE /\ pass.scaling => UNCHANGED PassFieldsOfStatus
          /\ ~pass.scaling =>
               /\ status'.stableRS = StableAfterSync /\ status'.currentPodHash = New
               /\ status'.activeSelector = active
               /\ status'.preRun = IF pass.analysed THEN pass.pre ELSE 0
               /\ status'.postRun = IF pass.analysed THEN pass.post ELSE 0
<1> USE DEF AnalysisInv, StableInv
<1>1. pc = "sync"
  BY DEF SyncRolloutStatus
<1>2. PICK t \in BOOLEAN : status' = Merged(NewStatus(t), pass.status, status)
  BY DEF SyncRolloutStatus
<1>3. PICK a \in BOOLEAN :
        NewStatus(t) = IF pass.scaling THEN ScalingStatus(a) ELSE FullStatus(a)
  BY Zenon DEF NewStatus
<1>4. /\ pass.status.stableRS = status.stableRS
      /\ pass.status.currentPodHash = status.currentPodHash
      /\ pass.status.activeSelector = status.activeSelector
      /\ pass.status.preRun = status.preRun /\ pass.status.postRun = status.postRun
  BY <1>1 DEF PassOfStatus, PassSeesStable, Stable
<1>5. /\ status'.stableRS = NewStatus(t).stableRS
      /\ status'.currentPodHash = NewStatus(t).currentPodHash
      /\ status'.activeSelector = NewStatus(t).activeSelector
      /\ status'.preRun = NewStatus(t).preRun /\ status'.postRun = NewStatus(t).postRun
  <2> HIDE DEF NewStatus
  <2> QED BY <1>2, <1>4 DEF Merged, Merge
<1>6. CASE pass.scaling
  <2>1. NewStatus(t) = [pass.status EXCEPT !.abort = a, !.abortedAt = a]
    BY <1>3, <1>6 DEF ScalingStatus
  <2>2. pass.status \in StatusType
    BY <1>1, PassFields
  <2>3. /\ NewStatus(t).stableRS = pass.status.stableRS
        /\ NewStatus(t).currentPodHash = pass.status.currentPodHash
        /\ NewStatus(t).activeSelector = pass.status.activeSelector
        /\ NewStatus(t).preRun = pass.status.preRun
        /\ NewStatus(t).postRun = pass.status.postRun
    BY <2>1, <2>2 DEF StatusType
  <2> QED BY <1>4, <1>5, <1>6, <2>3 DEF PassFieldsOfStatus
<1>7. CASE ~pass.scaling
  BY <1>3, <1>5, <1>7 DEF FullStatus
<1> QED BY <1>6, <1>7

\* The status takes the runs the pass has made current.
LEMMA AnalysisSync ==
    ASSUME AnalysisInv, StableInv', SyncRolloutStatus PROVE AnalysisInv'
<1> USE DEF AnalysisInv, StableInv
<1>1. pc = "sync" /\ pc' = "idle" /\ UNCHANGED <<active, runs>>
  BY DEF SyncRolloutStatus, EndPass, cluster
<1>2. CASE pass.scaling
  BY <1>1, <1>2, SyncedFields, AnalysisKept
<1>3. CASE ~pass.scaling
  <2>1. /\ status'.stableRS = StableAfterSync /\ status'.currentPodHash = New
        /\ status'.activeSelector = active
        /\ status'.preRun = IF pass.analysed THEN pass.pre ELSE 0
        /\ status'.postRun = IF pass.analysed THEN pass.post ELSE 0
    BY <1>3, SyncedFields
  <2>2. New \in Hash /\ New # NoHash
    BY <1>1, PassFields, HashAssumption
  <2>3. Stable = status.stableRS /\ (HasStable <=> Stable # NoHash)
    BY <1>1 DEF PassSeesStable, HasStable
  <2>4. status'.stableRS \in {New, status.stableRS} \ {NoHash}
    BY <2>1, <2>2, <2>3 DEF StableAfterSync, ShouldFullPromote
  <2>5. StatusRuns'
    <3>1. RunOf("pre", status.preRun, status.currentPodHash)'
      BY <1>1, <2>1 DEF PassRuns, RunOf
    <3>2. RunOf("post", status.postRun, status.currentPodHash)'
      BY <1>1, <2>1 DEF PassRuns, RunOf
    <3> QED BY <2>1, <2>2, <2>4, <3>1, <3>2 DEF StatusRuns
  <2>6. status'.postRun # 0 => active \in {New, status'.stableRS}
    <3>1. CASE ShouldFullPromote
      BY <1>1, <2>1, <2>2, <2>3, <3>1 DEF TrafficKnown, ShouldFullPromote, StableAfterSync
    <3>2. CASE ~ShouldFullPromote
      BY <1>1, <2>1, <2>3, <3>2 DEF TrafficKnown, StableAfterSync
    <3> QED BY <3>1, <3>2
  <2>7. TrafficKnown'
    BY <1>1, <2>1, <2>6 DEF TrafficKnown
  <2> QED BY <1>1, <2>5, <2>7 DEF PassPath, PassOfStatus, PassRuns
<1> QED BY <1>2, <1>3

\* The runs and the traffic are known in every state.
LEMMA AnalysisInvariant == Spec => []AnalysisInv
<1>1. Init => AnalysisInv
  <2> SUFFICES ASSUME Init PROVE AnalysisInv
    OBVIOUS
  <2>1. StableInv
    BY StableInit
  <2>2. pc = "idle" /\ status.preRun = 0 /\ status.postRun = 0
    BY DEF Init, NoStatus
  <2>3. status.stableRS # NoHash =>
          /\ status.currentPodHash = status.stableRS /\ active = status.stableRS
    BY DEF Init, NoStatus
  <2> QED BY <2>1, <2>2, <2>3
      DEF AnalysisInv, PassPath, PassOfStatus, StatusRuns, RunOf, PassRuns, TrafficKnown
<1>2. AnalysisInv /\ [Next]_vars => AnalysisInv'
  <2> SUFFICES ASSUME AnalysisInv, [Next]_vars PROVE AnalysisInv'
    OBVIOUS
  <2>1. StableInv'
    BY StableStep DEF AnalysisInv
  <2>2. CASE Controller
    BY <2>1, <2>2, AnalysisBegin, AnalysisScaling, AnalysisServices, AnalysisHistory,
       AnalysisStage, AnalysisSync DEF Controller
  <2> QED BY <2>1, <2>2, AnalysisCluster DEF Next
<1> QED BY <1>1, <1>2, PTL DEF Spec

(* CurrentRunsExist: a run the status refers to is not deleted, neither     *)
(* with its ReplicaSet nor when it is replaced, wherever a pass stops.     *)
THEOREM CurrentRunsKept == Spec => []CurrentRunsExist
<1>1. AnalysisInv => CurrentRunsExist
  BY DEF AnalysisInv, StatusRuns, RunOf, CurrentRunsExist
<1> QED BY <1>1, AnalysisInvariant, PTL

\* Only two stages of a pass write the active Service or the stable version.
LEMMA OnlySwitches ==
    ASSUME TypeOK, Next, active' # active PROVE ReconcileActiveService
<1>1. CASE Controller
  BY <1>1
  DEF Controller, CreateReplicaSet, BeginPass, ReconcilePreviewService,
      RemoveScaleDownDeadlines, ReconcileStableReplicaSet, ReconcileNewReplicaSet,
      ReconcileOtherReplicaSets, ReconcileRevisionHistoryLimit, ReconcileBlueGreenPause,
      ReconcileAnalysisRuns, SyncRolloutStatus, cluster
<1>2. CASE OthersFail \/ PassFails \/ Cluster
  BY <1>2 DEF OthersFail, PassFails, Cluster, PodBecomesAvailable, PodBecomesUnavailable,
     PodsTerminate, DeadlinePasses, RunCompletes, PauseElapses, cluster
<1>3. CASE User
  BY <1>3 DEF User, Promote, PromoteFull, PatchStatus, PatchSpec, Abort, Retry, Pause,
       SetTemplate, Scale, UserMay,
     cluster
<1> QED BY <1>1, <1>2, <1>3 DEF Next

\* A verdict the snapshot shows of a current run is that of a run that exists.
LEMMA VerdictOfRun ==
    ASSUME TypeOK, NEW kind, NEW h, NEW i \in 1..MaxRuns,
           RunOf(kind, i, h), SeenVerdict(i), pass.runs[i].phase = "Successful"
    PROVE HasSuccessfulRun(kind, h)
BY DEF RunOf, SeenVerdict, HasSuccessfulRun, Completed, RunIds

(* SwitchNeedsAnalysis: with a pre-promotion analysis the active Service    *)
(* moves to a version that is not the stable one only if a run of that     *)
(* version succeeded, or a user or a rollback excuses it.  The run of the  *)
(* status is of the version the traffic moves to, and the Successful that  *)
(* completedPrePromotionAnalysis reads in its snapshot is still its phase. *)
THEOREM SwitchesAreAnalysed == Spec => SwitchNeedsAnalysis
<1>1. ASSUME AnalysisInv, [Next]_vars, PrePromotionAnalysis,
             active' \notin {active, status.stableRS}, ~Excused
      PROVE HasSuccessfulRun("pre", active')
  <2> USE DEF AnalysisInv, StableInv
  <2>1. ReconcileActiveService
    BY <1>1, OnlySwitches DEF vars
  <2>2. pc = "activeService" /\ active' = ActiveHash
    BY <1>1, <2>1 DEF ReconcileActiveService
  <2>3. active' = New /\ CompletedPrePromotionAnalysis
    <3>1. pass.status.stableRS = status.stableRS
      BY <1>1, <2>2 DEF PassSeesStable, Stable
    <3> QED BY <1>1, <2>2, <3>1 DEF ActiveHash, IsBlueGreenFastTracked, Excused
  <2>4. pass.pre # 0 /\ pass.runs[pass.pre].phase = "Successful"
    BY <1>1, <2>3 DEF CompletedPrePromotionAnalysis
  <2>5. ~pass.analysed /\ ~CheckPodSpecChange
    BY <1>1, <2>2 DEF PassPath
  <2>6. pass.pre = status.preRun /\ pass.pre \in RunIds
    BY <1>1, <2>2, <2>4, <2>5, RunNumbers DEF PassOfStatus
  <2>7. status.currentPodHash = New
    BY <1>1, <2>2, <2>4, <2>5, <2>6 DEF CheckPodSpecChange, StatusRuns, PassOfStatus
  <2>8. RunOf("pre", pass.pre, New) /\ SeenVerdict(pass.pre)
    BY <1>1, <2>2, <2>5, <2>6, <2>7 DEF StatusRuns, PassRuns
  <2> QED BY <1>1, <2>3, <2>4, <2>6, <2>8, VerdictOfRun DEF RunIds
<1>2. AnalysisInv /\ [Next]_vars =>
        (PrePromotionAnalysis /\ active' \notin {active, status.stableRS} /\ ~Excused
           => HasSuccessfulRun("pre", active'))
  BY <1>1
<1>3. AnalysisInv /\ [Next]_vars =>
        [PrePromotionAnalysis /\ active' \notin {active, status.stableRS} /\ ~Excused
           => HasSuccessfulRun("pre", active')]_vars
  BY <1>2
<1> QED BY <1>3, AnalysisInvariant, PTL DEF Spec, SwitchNeedsAnalysis

(* PromotionNeedsAnalysis: with a post-promotion analysis a version becomes *)
(* stable only if a run of that version succeeded, or it is excused.  For  *)
(* a pass in which the template has just changed, which asks the runs of   *)
(* another version, TrafficKnown shows that it can only be a rollback.     *)
THEOREM PromotionsAreAnalysed == Spec => PromotionNeedsAnalysis
<1>1. ASSUME AnalysisInv, [Next]_vars, PostPromotionAnalysis,
             status'.stableRS # status.stableRS, status.stableRS # NoHash, ~Excused
      PROVE HasSuccessfulRun("post", status'.stableRS)
  <2> USE DEF AnalysisInv, StableInv
  <2>1. SyncRolloutStatus
    BY <1>1, OnlyPromotions DEF vars
  <2>2. pc = "sync" /\ ShouldFullPromote /\ status'.stableRS = New
    BY <1>1, <2>1, PromotionIsFull DEF SyncRolloutStatus
  <2>3. ~pass.scaling
    BY <1>1, <2>1, SyncedFields DEF PassFieldsOfStatus
  <2>4. Stable = status.stableRS /\ HasStable
    BY <1>1, <2>2 DEF PassSeesStable, HasStable
  <2>5. active = New /\ CompletedPostPromotionAnalysis /\ New # Stable
    BY <1>1, <2>2, <2>4 DEF ShouldFullPromote, Excused
  <2>6. pass.post # 0 /\ pass.runs[pass.post].phase = "Successful"
    BY <1>1, <2>5 DEF CompletedPostPromotionAnalysis
  <2>7. pass.analysed
    <3> SUFFICES ASSUME ~pass.analysed PROVE FALSE
      OBVIOUS
    <3>1. CheckPodSpecChange
      BY <1>1, <2>2, <2>3 DEF PassPath
    <3>2. pass.post = status.postRun /\ New # status.currentPodHash
      BY <1>1, <2>2, <3>1 DEF PassOfStatus, CheckPodSpecChange
    <3> QED BY <1>1, <2>4, <2>5, <2>6, <3>2 DEF TrafficKnown
  <2>8. pass.post \in RunIds
    BY <1>1, <2>6, RunNumbers
  <2>9. RunOf("post", pass.post, New) /\ SeenVerdict(pass.post)
    BY <1>1, <2>2, <2>6, <2>7 DEF PassRuns
  <2> QED BY <1>1, <2>2, <2>6, <2>8, <2>9, VerdictOfRun DEF RunIds
<1>2. AnalysisInv /\ [Next]_vars =>
        (PostPromotionAnalysis /\ status'.stableRS # status.stableRS
           /\ status.stableRS # NoHash /\ ~Excused
           => HasSuccessfulRun("post", status'.stableRS))
  BY <1>1
<1>3. AnalysisInv /\ [Next]_vars =>
        [PostPromotionAnalysis /\ status'.stableRS # status.stableRS
           /\ status.stableRS # NoHash /\ ~Excused
           => HasSuccessfulRun("post", status'.stableRS)]_vars
  BY <1>2
<1> QED BY <1>3, AnalysisInvariant, PTL DEF Spec, PromotionNeedsAnalysis

----------------------------------------------------------------------------
(* The approval of a user, where the blue-green pause is the only pause and *)
(* nothing makes up for it: without analyses, whose inconclusive pause a    *)
(* user resumes in the same way, and without previewReplicaCount, whose     *)
(* checkpoint outlives the approved version.                               *)
OnlyBlueGreenPause == NoAnalysis /\ PreviewReplicaCount = NoCount

(* A controllerPause that is left over without its pause is a resumed one, *)
(* of the version the status is about.                                     *)
Resumed(s, hashes) ==
    s.controllerPause => /\ s.currentPodHash # NoHash
                         /\ BGPause \in s.pauses \/ s.currentPodHash \in hashes

(* What the status, and the snapshot a pass has of it, say of the pause:    *)
(* between the two the user can only have resumed it.                      *)
PauseKnown ==
    /\ ~status.checkPoint /\ Resumed(status, approved)
    /\ BGPause \in status.pauses => status.controllerPause
    /\ pc # "idle" =>
         /\ ~pass.status.checkPoint /\ Resumed(pass.status, pass.approved)
         /\ BGPause \in pass.status.pauses => pass.status.controllerPause
         /\ status.controllerPause = pass.status.controllerPause
         /\ status.pauses \in {pass.status.pauses, {}}

ApprovalInv == AnalysisInv /\ NoInconclusive /\ PauseKnown

\* Steps of a pass that leave the status and the approvals alone.
LEMMA PauseKept ==
    ASSUME PauseKnown, UNCHANGED <<status, approved>>,
           \/ pc' = "idle"
           \/ pc # "idle" /\ pass'.status = pass.status /\ pass'.approved = pass.approved
    PROVE PauseKnown'
BY DEF PauseKnown, Resumed

\* A resume approves the version paused; a new template withdraws its approval.
LEMMA PauseUser == ASSUME ApprovalInv, User PROVE PauseKnown'
<1> USE DEF ApprovalInv, AnalysisInv, StableInv
<1>1. UNCHANGED <<pc, pass>>
  BY DEF User, Promote, PromoteFull, PatchStatus, PatchSpec, Abort, Retry, Pause,
       SetTemplate, Scale, UserMay
<1>2. CASE PatchStatus /\ "resume" \in client /\ status' = [status EXCEPT !.pauses = {}]
           /\ approved' = IF BGPause \in status.pauses
                          THEN approved \cup {status.currentPodHash} ELSE approved
  <2>1. /\ status'.pauses = {} /\ status'.controllerPause = status.controllerPause
        /\ status'.currentPodHash = status.currentPodHash
        /\ status'.checkPoint = status.checkPoint
        /\ approved' = IF BGPause \in status.pauses
                       THEN approved \cup {status.currentPodHash} ELSE approved
    BY <1>2 DEF TypeOK, StatusType
  <2> QED BY <1>1, <2>1 DEF PauseKnown, Resumed
<1>3. CASE \/ PatchStatus /\ status' = [status EXCEPT !.promoteFull = TRUE] /\ UNCHANGED approved
           \/ Promote \/ PromoteFull \/ PatchSpec \/ Abort \/ Retry \/ Pause
           \/ \E n \in ReplicaCounts : Scale(n)
  <2>1. /\ status'.pauses = status.pauses
        /\ status'.controllerPause = status.controllerPause
        /\ status'.currentPodHash = status.currentPodHash
        /\ status'.checkPoint = status.checkPoint /\ approved' = approved
    BY <1>3 DEF Promote, PromoteFull, PatchSpec, Abort, Retry, Pause, Scale, TypeOK, StatusType
  <2> QED BY <1>1, <2>1 DEF PauseKnown, Resumed
<1>4. CASE \E h \in Hash : SetTemplate(h)
  BY <1>1, <1>4 DEF SetTemplate, PauseKnown, Resumed
<1> QED BY <1>2, <1>3, <1>4 DEF User, PatchStatus

(* What the status patch of a pass writes of the pause: the pauses of its   *)
(* snapshot stay as they are by then, and others are written with the      *)
(* controllerPause that goes with them.                                    *)
LEMMA PauseSync ==
    ASSUME OnlyBlueGreenPause, ApprovalInv, SyncRolloutStatus PROVE PauseKnown'
<1> USE DEF ApprovalInv, AnalysisInv, StableInv
<1>1. pc = "sync" /\ pc' = "idle" /\ UNCHANGED approved
  BY DEF SyncRolloutStatus, EndPass
<1>2. PICK t \in BOOLEAN : status' = Merged(NewStatus(t), pass.status, status)
  BY DEF SyncRolloutStatus
<1>3. PICK a \in BOOLEAN :
        NewStatus(t) = IF pass.scaling THEN ScalingStatus(a) ELSE FullStatus(a)
  BY Zenon DEF NewStatus
<1>4. /\ pass.status \in StatusType /\ pass.addPauses \in SUBSET PauseReason
      /\ New # NoHash
  BY <1>1, PassFields, HashAssumption
<1>5. /\ status'.pauses = Merge(NewStatus(t).pauses, pass.status.pauses, status.pauses)
      /\ status'.controllerPause = NewStatus(t).controllerPause
      /\ status'.checkPoint = NewStatus(t).checkPoint
  <2>1. ~status.checkPoint /\ ~pass.status.checkPoint
        /\ status.controllerPause = pass.status.controllerPause
    BY <1>1 DEF PauseKnown
  <2>2. status.checkPoint = pass.status.checkPoint
    BY <1>4, <2>1 DEF TypeOK, StatusType
  <2> HIDE DEF NewStatus
  <2> QED BY <1>2, <2>1, <2>2 DEF Merged, Merge
<1>6. CASE pass.scaling
  <2>1. /\ NewStatus(t).pauses = pass.status.pauses
        /\ NewStatus(t).controllerPause = pass.status.controllerPause
        /\ NewStatus(t).checkPoint = pass.status.checkPoint
    BY <1>3, <1>4, <1>6 DEF ScalingStatus, StatusType
  <2>2. status'.currentPodHash = status.currentPodHash
    BY <1>6, SyncedFields DEF PassFieldsOfStatus
  <2> QED BY <1>1, <1>5, <2>1, <2>2 DEF PauseKnown, Resumed, Merge
<1>7. CASE ~pass.scaling
  <2> DEFINE P == IF a THEN {} ELSE PausesAfterSync
  <2>1. /\ NewStatus(t).pauses = P
        /\ NewStatus(t).controllerPause <=> (/\ P # {}
                                             /\ \/ pass.status.controllerPause
                                                \/ pass.addPauses \ pass.status.pauses # {})
        /\ ~NewStatus(t).checkPoint
    <3>1. NewStatus(t) = FullStatus(a)
      BY Zenon, <1>3, <1>7
    <3>2. /\ FullStatus(a).pauses = P
          /\ FullStatus(a).controllerPause = (/\ P # {}
                                              /\ \/ pass.status.controllerPause
                                                 \/ pass.addPauses \ pass.status.pauses # {})
          /\ FullStatus(a).checkPoint
               = (~ShouldFullPromote /\ CalculateScaleUpPreviewCheckPoint)
      BY Zenon DEF FullStatus
    <3>3. ~CalculateScaleUpPreviewCheckPoint
      BY DEF CalculateScaleUpPreviewCheckPoint, OnlyBlueGreenPause
    <3> HIDE DEF NewStatus, P
    <3> QED BY Zenon, <3>1, <3>2, <3>3
  <2>2. status'.currentPodHash = New
    BY <1>7, SyncedFields
  <2>3. /\ pass.status.pauses \in {{}, {BGPause}} /\ pass.addPauses \in {{}, {BGPause}}
    BY <1>1, <1>4 DEF NoInconclusive, PauseReason, StatusType, BGPause, Inconclusive
  <2>4. P # {} => /\ P = {BGPause} /\ ~CheckPodSpecChange
                  /\ \/ BGPause \in pass.status.pauses
                     \/ pass.addPauses \ pass.status.pauses # {}
    BY <1>7, <2>3 DEF PausesAfterSync, ClearsAndResumes, Restarts
  <2>5. pass.status.currentPodHash = status.currentPodHash
    BY <1>1 DEF PassOfStatus
  <2> HIDE DEF P
  <2>6. BGPause \in status'.pauses => status'.controllerPause
    BY <1>1, <1>5, <2>1, <2>4 DEF Merge, PauseKnown
  <2>7. Resumed(status', approved)
    <3> SUFFICES ASSUME status'.controllerPause, BGPause \notin status'.pauses
                 PROVE New \in approved
      BY <1>4, <2>2 DEF Resumed
    <3>1. P = {BGPause} /\ ~CheckPodSpecChange
      BY <1>5, <2>1, <2>4
    <3>2. pass.status.pauses = {BGPause} /\ status'.pauses = status.pauses
      BY <1>5, <2>1, <3>1 DEF Merge
    <3>3. status.controllerPause
      BY <1>1, <3>2 DEF PauseKnown
    <3>4. status.currentPodHash # NoHash /\ status.currentPodHash \in approved
      BY <3>2, <3>3 DEF PauseKnown, Resumed
    <3> QED BY <2>5, <3>1, <3>4 DEF CheckPodSpecChange
  <2> QED BY <1>1, <1>5, <2>1, <2>6, <2>7 DEF PauseKnown, Resumed
<1> QED BY <1>6, <1>7

\* Every step keeps what is known of the pause.
LEMMA ApprovalStep ==
    ASSUME OnlyBlueGreenPause, ApprovalInv, [Next]_vars PROVE PauseKnown'
<1> USE DEF ApprovalInv
<1>1. TypeOK
  BY DEF AnalysisInv, StableInv
<1>2. CASE CreateReplicaSet \/ PassFails
  BY <1>2, PauseKept DEF CreateReplicaSet, PassFails, EndPass, PauseKnown
<1>3. CASE BeginPass
  <2>1. /\ pass'.status = status /\ pass'.approved = approved
        /\ UNCHANGED <<status, approved>>
    BY <1>3 DEF BeginPass, NoPass
  <2> QED BY <2>1 DEF PauseKnown, Resumed
<1>4. CASE ReconcilePreviewService \/ ReconcileActiveService
  BY <1>4, PauseKept DEF ReconcilePreviewService, ReconcileActiveService, GoTo
<1>5. CASE \/ RemoveScaleDownDeadlines \/ ReconcileStableReplicaSet
           \/ ReconcileNewReplicaSet \/ ReconcileOtherReplicaSets
           \/ ReconcileRevisionHistoryLimit
  BY <1>1, <1>5, ScalingKeepsPass, PauseKept DEF PassKept
<1>6. CASE ReconcileBlueGreenPause
  <2>1. pass'.status = pass.status /\ pass'.approved = pass.approved
    BY <1>1, <1>6 DEF ReconcileBlueGreenPause, TypeOK, PassType
  <2> QED BY <1>6, <2>1, PauseKept DEF ReconcileBlueGreenPause
<1>7. CASE ReconcileAnalysisRuns
  <2>1. ASSUME NEW i, NEW j, NEW view, NEW S, FinishAnalysis(i, j, view, S)
        PROVE pass'.status = pass.status /\ pass'.approved = pass.approved
    BY <1>1, <2>1 DEF FinishAnalysis, TypeOK, PassType
  <2> QED BY <1>7, <2>1, PauseKept DEF ReconcileAnalysisRuns
<1>8. CASE Cluster
  <2>1. /\ UNCHANGED <<status, approved, pc>> /\ (pc # "idle" => PassKept)
    BY <1>1, <1>8, ClusterKeepsPass
  <2> QED BY <2>1, PauseKept DEF PassKept
<1>9. CASE OthersFail \/ UNCHANGED vars
  BY <1>9, PauseKept DEF OthersFail, GoTo, vars, PauseKnown, Resumed
<1> QED BY <1>2, <1>3, <1>4, <1>5, <1>6, <1>7, <1>8, <1>9, PauseUser, PauseSync
    DEF Next, Controller

(* SwitchNeedsApproval: with autoPromotionEnabled: false traffic moves to a *)
(* version only after a user resumed the pause of that very version, in    *)
(* whatever order templates, resumes, aborts and retries arrive between    *)
(* the steps of a pass and wherever a pass stops.                          *)
THEOREM SwitchesAreApproved ==
    ASSUME OnlyBlueGreenPause PROVE Spec => SwitchNeedsApproval
<1>1. ASSUME ApprovalInv, [Next]_vars, ~AutoPromotionEnabled,
             active' \notin {active, status.stableRS}, ~Excused
      PROVE active' \in pass.approved
  <2> USE DEF ApprovalInv, AnalysisInv, StableInv
  <2>1. ReconcileActiveService
    BY <1>1, OnlySwitches DEF vars
  <2>2. pc = "activeService" /\ active' = ActiveHash
    BY <1>1, <2>1 DEF ReconcileActiveService
  <2>3. active' = New /\ CompletedBlueGreenPause
    <3>1. pass.status.stableRS = status.stableRS
      BY <1>1, <2>2 DEF PassSeesStable, Stable
    <3> QED BY <1>1, <2>2, <3>1 DEF ActiveHash, IsBlueGreenFastTracked, Excused
  <2>4. pass.status.controllerPause /\ BGPause \notin pass.status.pauses
    BY <1>1, <2>2, <2>3 DEF CompletedBlueGreenPause, PauseKnown, Paused
  <2>5. /\ pass.status.currentPodHash # NoHash
        /\ pass.status.currentPodHash \in pass.approved
    BY <1>1, <2>2, <2>4 DEF PauseKnown, Resumed
  <2>6. ~CheckPodSpecChange
    BY <1>1, <2>2 DEF PassPath
  <2> QED BY <2>3, <2>5, <2>6 DEF CheckPodSpecChange
<1>2. ApprovalInv /\ [Next]_vars => PauseKnown' /\ NoInconclusive'
  <2>1. ApprovalInv => TypeOK
    BY DEF ApprovalInv, AnalysisInv, StableInv
  <2> QED BY <2>1, ApprovalStep, NoInconclusiveStep DEF ApprovalInv, OnlyBlueGreenPause
<1>3. Init => PauseKnown /\ NoInconclusive
  <2> SUFFICES ASSUME Init PROVE PauseKnown /\ NoInconclusive
    OBVIOUS
  <2>1. /\ pc = "idle" /\ status.pauses = {} /\ ~status.checkPoint
        /\ ~status.controllerPause
    BY DEF Init, NoStatus
  <2> QED BY <2>1 DEF PauseKnown, Resumed, NoInconclusive
<1>4. ApprovalInv /\ [Next]_vars =>
        [~AutoPromotionEnabled /\ active' \notin {active, status.stableRS} /\ ~Excused
           => active' \in pass.approved]_vars
  BY <1>1
<1>5. Spec => []ApprovalInv
  <2>1. AnalysisInv /\ PauseKnown /\ NoInconclusive => ApprovalInv
    BY DEF ApprovalInv
  <2>2. ApprovalInv => PauseKnown /\ NoInconclusive
    BY DEF ApprovalInv
  <2> QED BY <1>2, <1>3, <2>1, <2>2, AnalysisInvariant, PTL DEF Spec
<1> QED BY <1>4, <1>5, PTL DEF Spec, SwitchNeedsApproval

----------------------------------------------------------------------------
(* The sizes of the versions that serve, for every preview size, wherever a *)
(* pass stops and whatever the analyses find, while users only request,     *)
(* resume, abort and retry updates, and aborted versions have no delay.     *)
UpdatesOnly ==
    /\ {"pause", "scale", "promoteFull"} \cap UserActions = {}
    /\ ~FirstDeploy /\ ~AbortScaleDownDelay
    /\ 0 \notin ReplicaCounts /\ PreviewReplicaCount \in Nat \ ReplicaCounts

FullSize(h) == rs[h].replicas \in ReplicaCounts /\ rs[h].exists

(* Where the traffic is that such a status does not know of: a pass that    *)
(* moved it never wrote its status.                                        *)
TrafficOf(s) ==
    /\ active # s.activeSelector =>
         active = s.stableRS \/ (active = s.currentPodHash /\ s.pauses = {})
    /\ s.currentPodHash = s.stableRS => s.pauses = {}

(* The versions in use have their size; traffic that is not, or was not, at *)
(* the stable version has passed the checkpoint, which keeps up the size.   *)
Serving ==
    /\ {active, status.stableRS, status.activeSelector} \subseteq Hash
    /\ FullSize(active) /\ FullSize(status.stableRS) /\ FullSize(status.activeSelector)
    /\ active # status.stableRS \/ status.activeSelector # status.stableRS => status.checkPoint
    /\ TrafficOf(status)

SizesSeen == {"previewService", "removeDeadlines", "scaleStable", "scaleNew",
              "scaleOthers", "revisionHistory"}

(* What a pass knows of it, and of the size of the new ReplicaSet: that of  *)
(* its snapshot, or one written since.                                     *)
PassServes ==
    pc # "idle" =>
        /\ pass.status.checkPoint = status.checkPoint
        /\ pc \notin {"analysis", "sync"} => TrafficOf(pass.status)
        /\ pass.status.currentPodHash = pass.status.stableRS => pass.status.pauses = {}
        /\ New = Stable => pass.addPauses = {}
        /\ pass.rs[status.activeSelector].exists
        /\ pc \in SizesSeen => \A h \in {active, status.activeSelector} :
                                  pass.rs[h].replicas \in ReplicaCounts
        /\ rs[New].replicas \in {pass.rs[New].replicas, NewRSNewReplicas} \cup ReplicaCounts

NoFullPromotion ==
    /\ ~status.promoteFull /\ "promoteFull" \notin client
    /\ pc # "idle" => ~pass.status.promoteFull

ServingInv ==
    /\ AnalysisInv /\ HistoryInv /\ spec.replicas \in ReplicaCounts
    /\ NoFullPromotion /\ Serving /\ PassServes

\* A step after which the snapshot shows the same sizes of the same ReplicaSets.
SeesTheSame ==
    /\ pc # "idle" /\ pass'.spec = pass.spec /\ pass'.status = pass.status
    /\ \A h \in Hash : /\ pass'.rs[h].replicas = pass.rs[h].replicas
                       /\ pass'.rs[h].exists = pass.rs[h].exists

\* The size it asks of the new ReplicaSet is the same, too.
LEMMA SameNewSize ==
    ASSUME TypeOK, SeesTheSame
    PROVE /\ New' = New /\ Stable' = Stable /\ New \in Hash
          /\ NewRSNewReplicas' = NewRSNewReplicas
          /\ pass'.rs[New'].replicas = pass.rs[New].replicas
<1>1. New' = New /\ Stable' = Stable
  BY DEF SeesTheSame, New, Stable
<1>2. New \in Hash /\ pass.status.activeSelector \in Hash \cup {NoHash}
  BY PassFields DEF SeesTheSame, StatusType
<1>3. NewRSNewReplicas' = NewRSNewReplicas
  BY <1>1, <1>2 DEF SeesTheSame, NewRSNewReplicas
<1> QED BY <1>1, <1>2, <1>3 DEF SeesTheSame

\* What a pass that sees such a Rollout knows of it.
LEMMA PassKnows ==
    ASSUME ServingInv, pc # "idle"
    PROVE /\ Stable = status.stableRS /\ HasStable /\ Stable \in Hash /\ New \in Hash
          /\ pass.status.activeSelector = status.activeSelector
          /\ pass.status.currentPodHash = status.currentPodHash
          /\ status.pauses \subseteq pass.status.pauses
          /\ pass.spec.replicas \in ReplicaCounts /\ pass.spec.replicas \in Nat
          /\ ~pass.scaling /\ ~pass.spec.paused
          /\ rs[New].exists /\ active # NoHash
<1> USE DEF ServingInv, AnalysisInv, HistoryInv, StableInv
<1>1. Stable = status.stableRS /\ Stable \in Hash /\ Stable # NoHash /\ active # NoHash
  BY HashAssumption DEF PassSeesStable, Serving
<1>2. New \in Hash /\ HasStable
  BY <1>1, PassFields DEF HasStable, PassSeesStable
<1>3. pass.spec.replicas \in ReplicaCounts /\ ~pass.scaling /\ ~pass.spec.paused
  BY DEF Steady
<1> QED BY <1>1, <1>2, <1>3, CountAssumption DEF PassOfStatus, Previewed, PassSeesStable

(* A step that leaves the traffic alone, keeps the sizes of the versions in *)
(* use, and from which the pass goes on with the same sizes.               *)
LEMMA ServingKept ==
    ASSUME ServingInv, AnalysisInv', HistoryInv', spec'.replicas \in ReplicaCounts,
           active' = active, "promoteFull" \notin client',
           status'.stableRS = status.stableRS,
           status'.activeSelector = status.activeSelector,
           status'.currentPodHash = status.currentPodHash,
           status'.checkPoint = status.checkPoint,
           status'.promoteFull = status.promoteFull,
           status'.pauses \subseteq status.pauses,
           \A h \in {active, status.stableRS, status.activeSelector} :
              rs'[h].replicas \in ReplicaCounts /\ rs'[h].exists,
           \/ pc' = "idle"
           \/ /\ SeesTheSame
              /\ pc' \in SizesSeen => pc \in SizesSeen
              /\ pc \in {"analysis", "sync"} => pc' \in {"analysis", "sync"}
              /\ New = Stable => pass'.addPauses = {}
              /\ rs'[New].replicas \in {pass.rs[New].replicas, NewRSNewReplicas} \cup ReplicaCounts
    PROVE ServingInv'
<1> USE DEF ServingInv, AnalysisInv, HistoryInv, StableInv
<1>1. TrafficOf(status)'
  BY DEF TrafficOf, Serving
<1>2. Serving'
  BY <1>1 DEF Serving, FullSize
<1>3. CASE pc' = "idle"
  BY <1>2, <1>3 DEF PassServes, NoFullPromotion
<1>4. CASE /\ SeesTheSame
           /\ pc' \in SizesSeen => pc \in SizesSeen
           /\ pc \in {"analysis", "sync"} => pc' \in {"analysis", "sync"}
           /\ New = Stable => pass'.addPauses = {}
           /\ rs'[New].replicas \in {pass.rs[New].replicas, NewRSNewReplicas} \cup ReplicaCounts
  <2>1. pc # "idle" /\ pass'.status = pass.status
    BY <1>4 DEF SeesTheSame
  <2>2. /\ New' = New /\ Stable' = Stable /\ NewRSNewReplicas' = NewRSNewReplicas
        /\ pass'.rs[New'].replicas = pass.rs[New].replicas
    BY <1>4, SameNewSize
  <2>3. /\ pass'.rs[status'.activeSelector].exists
        /\ pc' \in SizesSeen => \A h \in {active', status'.activeSelector} :
                                   pass'.rs[h].replicas \in ReplicaCounts
    BY <1>4, <2>1 DEF SeesTheSame, PassServes, Serving
  <2>4. pc' \notin {"analysis", "sync"} => TrafficOf(pass.status)'
    BY <1>4, <2>1 DEF PassServes, TrafficOf
  <2>5. rs'[New'].replicas \in {pass'.rs[New'].replicas, NewRSNewReplicas'} \cup ReplicaCounts
    BY <1>4, <2>2
  <2>6. PassServes'
    BY <1>4, <2>1, <2>2, <2>3, <2>4, <2>5 DEF PassServes
  <2> QED BY <1>2, <2>1, <2>6 DEF NoFullPromotion
<1> QED BY <1>3, <1>4

\* The same, of a step that touches no size.
LEMMA ServingSame ==
    ASSUME ServingInv, AnalysisInv', HistoryInv', spec'.replicas \in ReplicaCounts,
           active' = active, "promoteFull" \notin client',
           status'.stableRS = status.stableRS,
           status'.activeSelector = status.activeSelector,
           status'.currentPodHash = status.currentPodHash,
           status'.checkPoint = status.checkPoint,
           status'.promoteFull = status.promoteFull,
           status'.pauses \subseteq status.pauses,
           \A h \in Hash : rs'[h].replicas = rs[h].replicas /\ rs'[h].exists = rs[h].exists,
           \/ pc' = "idle"
           \/ /\ SeesTheSame
              /\ pc' \in SizesSeen => pc \in SizesSeen
              /\ pc \in {"analysis", "sync"} => pc' \in {"analysis", "sync"}
              /\ New = Stable => pass'.addPauses = {}
    PROVE ServingInv'
<1>1. \A h \in {active, status.stableRS, status.activeSelector} :
         rs'[h].replicas \in ReplicaCounts /\ rs'[h].exists
  BY DEF ServingInv, Serving, FullSize
<1>2. SeesTheSame =>
        rs'[New].replicas \in {pass.rs[New].replicas, NewRSNewReplicas} \cup ReplicaCounts
  BY PassKnows DEF ServingInv, PassServes, SeesTheSame
<1> QED BY <1>1, <1>2, ServingKept

\* The cluster, the user, a pass or its loop that fails, and a step of none.
LEMMA ServingCluster ==
    ASSUME UpdatesOnly, ServingInv, AnalysisInv', HistoryInv',
           OthersFail \/ PassFails \/ Cluster \/ User \/ UNCHANGED vars
    PROVE ServingInv'
<1> USE DEF ServingInv, AnalysisInv, HistoryInv, StableInv, NoFullPromotion
<1>1. ASSUME UNCHANGED <<active, pc, pass>>, spec'.replicas \in ReplicaCounts,
             "promoteFull" \notin client',
             status'.stableRS = status.stableRS,
             status'.activeSelector = status.activeSelector,
             status'.currentPodHash = status.currentPodHash,
             status'.checkPoint = status.checkPoint,
             status'.promoteFull = status.promoteFull,
             status'.pauses \subseteq status.pauses,
             \A h \in Hash : rs'[h].replicas = rs[h].replicas /\ rs'[h].exists = rs[h].exists
      PROVE ServingInv'
  <2>1. CASE pc = "idle"
    BY <1>1, <2>1, ServingSame
  <2>2. CASE pc # "idle"
    <3>1. SeesTheSame
      BY <1>1, <2>2 DEF SeesTheSame
    <3> QED BY <1>1, <2>2, <3>1, ServingSame DEF PassServes
  <2> QED BY <2>1, <2>2
<1>2. ASSUME NEW h \in Hash, NEW n, SetAvailable(h, n),
             UNCHANGED <<spec, status, active, pc, client>>
      PROVE ServingInv'
  <2>1. \A g \in Hash : rs'[g].replicas = rs[g].replicas /\ rs'[g].exists = rs[g].exists
    BY <1>2 DEF SetAvailable, TypeOK, ReplicaSetType
  <2>2. pc # "idle" => SeesTheSame /\ pass'.addPauses = pass.addPauses
    BY <1>2 DEF SetAvailable, SeesTheSame, TypeOK, PassType
  <2>3. CASE pc = "idle"
    BY <1>2, <2>1, <2>3, ServingSame
  <2>4. CASE pc # "idle"
    BY <1>2, <2>1, <2>2, <2>4, ServingSame DEF PassServes
  <2> QED BY <2>3, <2>4
<1>3. CASE \E h \in Hash : \/ PodBecomesAvailable(h) \/ PodBecomesUnavailable(h)
                           \/ PodsTerminate(h)
  BY <1>2, <1>3 DEF PodBecomesAvailable, PodBecomesUnavailable, PodsTerminate
<1>4. CASE \E h \in Hash : DeadlinePasses(h)
  <2>1. PICK h \in Hash : DeadlinePasses(h)
    BY <1>4
  <2>2. \A g \in Hash : rs'[g].replicas = rs[g].replicas /\ rs'[g].exists = rs[g].exists
    BY <2>1 DEF DeadlinePasses, PatchDeadline, TypeOK, ReplicaSetType
  <2> QED BY <1>1, <2>1, <2>2 DEF DeadlinePasses
<1>5. CASE (\E i \in RunIds : RunCompletes(i)) \/ PauseElapses \/ UNCHANGED vars
  BY <1>1, <1>5 DEF RunCompletes, PauseElapses, cluster, vars
<1>6. CASE PassFails
  BY <1>6, ServingSame DEF PassFails, EndPass, cluster
<1>7. CASE OthersFail
  <2>1. /\ pc = "scaleOthers" /\ pc' = "revisionHistory" /\ pass' = pass
        /\ UNCHANGED <<spec, status, active, rs, client>>
    BY <1>7 DEF OthersFail, GoTo, cluster
  <2>2. SeesTheSame
    BY <2>1 DEF SeesTheSame
  <2> QED BY <2>1, <2>2, ServingSame DEF PassServes, SizesSeen
<1>8. CASE User
  <2>1. UNCHANGED <<active, rs, pc, pass>>
    BY <1>8 DEF User, Promote, PromoteFull, PatchStatus, PatchSpec, Abort, Retry, Pause,
       SetTemplate, Scale, UserMay, cluster
  <2>2. ~PromoteFull /\ "promoteFull" \notin client
    BY DEF UpdatesOnly, PromoteFull, UserMay, NoFullPromotion
  <2>3. /\ status'.stableRS = status.stableRS /\ status'.activeSelector = status.activeSelector
        /\ status'.currentPodHash = status.currentPodHash
        /\ status'.checkPoint = status.checkPoint
        /\ status'.promoteFull = status.promoteFull
        /\ status'.pauses \subseteq status.pauses
    BY <1>8, <2>2 DEF User, Promote, PatchStatus, PatchSpec, Abort, Retry, Pause,
       SetTemplate, Scale, TypeOK, StatusType
  <2>4. spec'.replicas \in ReplicaCounts
    BY <1>8, <2>2 DEF User, Promote, PatchStatus, PatchSpec, Abort, Retry, Pause,
       SetTemplate, Scale, TypeOK, SpecType
  <2>5. "promoteFull" \notin client'
    BY <1>8, <2>2 DEF User, Promote, PatchesFor, PatchStatus, PatchSpec, Abort, Retry, Pause,
       SetTemplate, Scale
  <2> QED BY <1>1, <2>1, <2>3, <2>4, <2>5
<1> QED BY <1>3, <1>4, <1>5, <1>6, <1>7, <1>8 DEF Cluster

\* A new version starts without replicas; a pass starts from its snapshot.
LEMMA ServingBegin ==
    ASSUME ServingInv, AnalysisInv', HistoryInv', CreateReplicaSet \/ BeginPass
    PROVE ServingInv'
<1> USE DEF ServingInv, AnalysisInv, HistoryInv, StableInv
<1>1. /\ pc = "idle" /\ UNCHANGED <<spec, status, active, client>>
      /\ {active, status.stableRS, status.activeSelector} \subseteq Hash
  BY DEF CreateReplicaSet, BeginPass, Serving
<1>2. CASE CreateReplicaSet
  <2>1. pc' = "idle" /\ \A h \in Hash : rs[h].exists => rs'[h] = rs[h]
    BY <1>1, <1>2 DEF CreateReplicaSet, TypeOK
  <2> QED BY <1>1, <2>1, ServingKept DEF Serving, FullSize, NoFullPromotion
<1>3. CASE BeginPass
  <2>1. PICK n : rs' = [rs EXCEPT ![spec.template].revision = n]
    BY <1>3 DEF BeginPass
  <2>2. \A h \in Hash : rs'[h].replicas = rs[h].replicas /\ rs'[h].exists = rs[h].exists
    BY <2>1 DEF TypeOK, ReplicaSetType
  <2>3. pass'.status = status /\ pass'.rs = rs' /\ pass'.addPauses = {}
    BY <1>3 DEF BeginPass, NoPass
  <2>4. Serving'
    BY <1>1, <2>2 DEF Serving, FullSize, TrafficOf
  <2>5. PassServes'
    BY <1>1, <2>3, <2>4 DEF PassServes, Serving, FullSize, TrafficOf
  <2>6. NoFullPromotion'
    BY <1>1, <2>3 DEF NoFullPromotion
  <2> QED BY <1>1, <2>4, <2>5, <2>6
<1> QED BY <1>2, <1>3

(* A stage before the switch that writes some of the ReplicaSets and goes   *)
(* on with the same pass, or ends it.                                      *)
LEMMA ServingStage ==
    ASSUME ServingInv, AnalysisInv', HistoryInv', pc \notin {"idle", "analysis", "sync"},
           UNCHANGED <<spec, status, active, client>>,
           \A h \in {active, status.stableRS, status.activeSelector} :
              rs'[h].replicas \in ReplicaCounts /\ rs'[h].exists,
           \/ pc' = "idle"
           \/ /\ SeesTheSame
              /\ pc' \in SizesSeen => pc \in SizesSeen
              /\ pass'.addPauses = pass.addPauses
              /\ rs'[New].replicas \in {pass.rs[New].replicas, NewRSNewReplicas} \cup ReplicaCounts
    PROVE ServingInv'
BY ServingKept DEF ServingInv, NoFullPromotion, PassServes

(* scaleReplicaSet writes the size it is asked for, if it is not the one    *)
(* the snapshot shows.                                                     *)
LEMMA ScaleReplicaSetSize ==
    ASSUME TypeOK, pc # "idle", NEW stage
    PROVE \A h \in Hash, n \in Nat : ScaleReplicaSet(h, n, stage) =>
            /\ \A g \in Hash : /\ g # h => rs'[g].replicas = rs[g].replicas
                               /\ rs'[g].exists = rs[g].exists
            /\ \/ pc' = "idle" /\ UNCHANGED rs
               \/ /\ pc' = stage /\ SeesTheSame /\ pass'.addPauses = pass.addPauses
                  /\ \/ rs'[h].replicas = n
                     \/ UNCHANGED rs /\ pass.rs[h].replicas = n
<1> SUFFICES ASSUME NEW h \in Hash, NEW n \in Nat, ScaleReplicaSet(h, n, stage)
             PROVE /\ \A g \in Hash : /\ g # h => rs'[g].replicas = rs[g].replicas
                                      /\ rs'[g].exists = rs[g].exists
                   /\ \/ pc' = "idle" /\ UNCHANGED rs
                      \/ /\ pc' = stage /\ SeesTheSame /\ pass'.addPauses = pass.addPauses
                         /\ \/ rs'[h].replicas = n
                            \/ UNCHANGED rs /\ pass.rs[h].replicas = n
  OBVIOUS
<1>1. CASE UNCHANGED rs /\ GoTo(stage) /\ ~NeedsScale(h, n)
  BY <1>1 DEF GoTo, NeedsScale, SeesTheSame
<1>2. CASE /\ Write(h, n) /\ pc' = stage
           /\ pass' = [pass EXCEPT !.dirty = @ \cup {h}]
  <2>1. /\ \A g \in Hash : /\ g # h => rs'[g].replicas = rs[g].replicas
                           /\ rs'[g].exists = rs[g].exists
        /\ rs'[h].replicas = n
    BY <1>2 DEF Write, TypeOK, ReplicaSetType
  <2>2. SeesTheSame /\ pass'.addPauses = pass.addPauses
    BY <1>2 DEF SeesTheSame, TypeOK, PassType
  <2> QED BY <1>2, <2>1, <2>2
<1>3. CASE UNCHANGED rs /\ EndPass
  BY <1>3 DEF EndPass
<1> QED BY <1>1, <1>2, <1>3 DEF ScaleReplicaSet

\* The stages that change no size: the preview Service, the deadlines, the pause.
LEMMA ServingStages ==
    ASSUME ServingInv, AnalysisInv', HistoryInv',
           ReconcilePreviewService \/ RemoveScaleDownDeadlines \/ ReconcileBlueGreenPause
    PROVE ServingInv'
<1> USE DEF ServingInv, AnalysisInv, HistoryInv, StableInv
<1>1. /\ pc \in {"previewService", "removeDeadlines", "pause"}
      /\ UNCHANGED <<spec, status, active, client>>
  BY DEF ReconcilePreviewService, RemoveScaleDownDeadlines, ReconcileBlueGreenPause, cluster
<1>2. HasStable /\ Stable \in Hash /\ New \in Hash
  BY <1>1, PassKnows
<1>3. \A g \in Hash : rs'[g].replicas = rs[g].replicas /\ rs'[g].exists = rs[g].exists
  <2>1. ASSUME NEW h, PatchDeadline(h, "none")
        PROVE \A g \in Hash : rs'[g].replicas = rs[g].replicas /\ rs'[g].exists = rs[g].exists
    BY <2>1 DEF PatchDeadline, TypeOK, ReplicaSetType
  <2> QED BY <2>1
      DEF ReconcilePreviewService, RemoveScaleDownDeadlines, ReconcileBlueGreenPause, cluster
<1>4. CASE ReconcilePreviewService
  <2>1. SeesTheSame /\ pass'.addPauses = pass.addPauses /\ pc = "previewService"
    BY <1>4 DEF ReconcilePreviewService, GoTo, SeesTheSame
  <2> QED BY <1>1, <1>3, <2>1, ServingSame DEF SizesSeen, NoFullPromotion, PassServes
<1>5. CASE RemoveScaleDownDeadlines
  <2>1. pc = "removeDeadlines"
    BY <1>5 DEF RemoveScaleDownDeadlines
  <2>2. SeesTheSame /\ pass'.addPauses = pass.addPauses
    <3>1. ASSUME NEW h \in DeadlinesToRemove,
                 pass' = [pass EXCEPT !.rs = [@ EXCEPT ![h].deadline = "none"],
                                      !.dirty = @ \cup {h}]
          PROVE SeesTheSame /\ pass'.addPauses = pass.addPauses
      <4>1. /\ pass'.spec = pass.spec /\ pass'.status = pass.status
            /\ pass'.addPauses = pass.addPauses
            /\ pass'.rs = [pass.rs EXCEPT ![h].deadline = "none"]
        BY <3>1 DEF TypeOK, PassType
      <4> QED BY <2>1, <4>1, PassFields DEF SeesTheSame, ReplicaSetType
    <3>2. GoTo("scaleStable") => SeesTheSame /\ pass'.addPauses = pass.addPauses
      BY <2>1 DEF GoTo, SeesTheSame
    <3> QED BY <1>5, <3>1, <3>2 DEF RemoveScaleDownDeadlines
  <2> QED BY <1>1, <1>3, <2>1, <2>2, ServingSame DEF SizesSeen, NoFullPromotion, PassServes
<1>6. CASE ReconcileBlueGreenPause
  <2>1. /\ pc = "pause" /\ pc' = "activeService" /\ SeesTheSame
        /\ pass'.addPauses = IF StartsPause THEN {BGPause} ELSE {}
    BY <1>6 DEF ReconcileBlueGreenPause, SeesTheSame, TypeOK, PassType
  <2>2. New = Stable => ~StartsPause
    BY <1>2 DEF StartsPause, SkipsPause, IsBlueGreenFastTracked, IsFastRollback
  <2> QED BY <1>1, <1>3, <2>1, <2>2, ServingSame DEF SizesSeen, NoFullPromotion
<1> QED BY <1>4, <1>5, <1>6

\* The stable version is scaled to spec.replicas.
LEMMA ServingStable ==
    ASSUME ServingInv, AnalysisInv', HistoryInv', ReconcileStableReplicaSet PROVE ServingInv'
<1> USE DEF ServingInv, AnalysisInv, HistoryInv, StableInv
<1>1. pc = "scaleStable" /\ UNCHANGED <<spec, status, active, client>>
  BY DEF ReconcileStableReplicaSet
<1>2. /\ HasStable /\ Stable \in Hash /\ New \in Hash
      /\ pass.spec.replicas \in ReplicaCounts /\ pass.spec.replicas \in Nat
  BY <1>1, PassKnows
<1>3. ScaleReplicaSet(Stable, pass.spec.replicas, "scaleNew")
  BY <1>2 DEF ReconcileStableReplicaSet
<1>4. /\ \A g \in Hash : /\ g # Stable => rs'[g].replicas = rs[g].replicas
                         /\ rs'[g].exists = rs[g].exists
      /\ \/ pc' = "idle" /\ UNCHANGED rs
         \/ /\ pc' = "scaleNew" /\ SeesTheSame /\ pass'.addPauses = pass.addPauses
            /\ \/ rs'[Stable].replicas = pass.spec.replicas
               \/ UNCHANGED rs /\ pass.rs[Stable].replicas = pass.spec.replicas
  BY <1>1, <1>2, <1>3, ScaleReplicaSetSize
<1>5. \A h \in {active, status.stableRS, status.activeSelector} :
         rs'[h].replicas \in ReplicaCounts /\ rs'[h].exists
  BY <1>2, <1>4 DEF Serving, FullSize
<1>6. SeesTheSame => rs'[New].replicas \in {pass.rs[New].replicas, NewRSNewReplicas}
                                              \cup ReplicaCounts
  BY <1>1, <1>2, <1>4 DEF PassServes
<1> QED BY <1>1, <1>4, <1>5, <1>6, ServingStage DEF SizesSeen

(* The new version is scaled to the preview size only if it is not in use:  *)
(* the traffic is at the version of the status, which asks for the full     *)
(* size, or the checkpoint does.                                           *)
LEMMA NewIsFullSize ==
    ASSUME UpdatesOnly, ServingInv, pc = "scaleNew",
           New \in {active, status.stableRS, status.activeSelector}
    PROVE NewRSNewReplicas = pass.spec.replicas
<1> USE DEF ServingInv, AnalysisInv, HistoryInv, StableInv
<1>1. /\ Stable = status.stableRS /\ ~pass.scaling /\ ~pass.spec.paused
      /\ pass.status.activeSelector = status.activeSelector
  BY PassKnows
<1>2. New = pass.status.currentPodHash
  BY <1>1, HashAssumption DEF PassPath, CheckPodSpecChange, StatusRuns, PassOfStatus, Serving
<1>3. TrafficOf(pass.status) /\ pass.status.checkPoint = status.checkPoint
  BY DEF PassServes
<1>4. CASE New = status.activeSelector
  BY <1>1, <1>4 DEF NewRSNewReplicas
<1>5. CASE New # status.activeSelector
  <2>1. New = Stable => pass.status.pauses = {}
    BY <1>2, <1>3 DEF TrafficOf, Stable
  <2>2. New = active => New = Stable \/ pass.status.pauses = {}
    BY <1>1, <1>3, <1>5 DEF TrafficOf, Stable
  <2>3. status.checkPoint
    BY <1>1, <1>5 DEF Serving
  <2> QED BY <1>1, <1>2, <1>3, <1>5, <2>1, <2>2, <2>3 DEF NewRSNewReplicas
<1> QED BY <1>4, <1>5

\* The new version is scaled.
LEMMA ServingNew ==
    ASSUME UpdatesOnly, ServingInv, AnalysisInv', HistoryInv', ReconcileNewReplicaSet
    PROVE ServingInv'
<1> USE DEF ServingInv, AnalysisInv, HistoryInv, StableInv
<1>1. pc = "scaleNew" /\ UNCHANGED <<spec, status, active, client>>
  BY DEF ReconcileNewReplicaSet
<1>2. /\ New \in Hash /\ pass.spec.replicas \in ReplicaCounts /\ pass.spec.replicas \in Nat
  BY <1>1, PassKnows
<1>3. ScaleReplicaSet(New, NewRSNewReplicas, "scaleOthers")
  BY DEF ReconcileNewReplicaSet, AbortDelayOf, ShouldDelayScaleDownOnAbort, UpdatesOnly
<1>4. NewRSNewReplicas \in Nat
  BY <1>2 DEF NewRSNewReplicas, UpdatesOnly
<1>5. /\ \A g \in Hash : /\ g # New => rs'[g].replicas = rs[g].replicas
                         /\ rs'[g].exists = rs[g].exists
      /\ \/ pc' = "idle" /\ UNCHANGED rs
         \/ /\ pc' = "scaleOthers" /\ SeesTheSame /\ pass'.addPauses = pass.addPauses
            /\ \/ rs'[New].replicas = NewRSNewReplicas
               \/ UNCHANGED rs /\ pass.rs[New].replicas = NewRSNewReplicas
  BY <1>1, <1>2, <1>3, <1>4, ScaleReplicaSetSize
<1>6. \A h \in {active, status.stableRS, status.activeSelector} :
         rs'[h].replicas \in ReplicaCounts /\ rs'[h].exists
  BY <1>1, <1>2, <1>5, NewIsFullSize DEF Serving, FullSize
<1>7. SeesTheSame => rs'[New].replicas \in {pass.rs[New].replicas, NewRSNewReplicas}
                                              \cup ReplicaCounts
  BY <1>1, <1>5 DEF PassServes
<1> QED BY <1>1, <1>5, <1>6, <1>7, ServingStage DEF SizesSeen

(* No version in use is among the old ones that are scaled down, which it   *)
(* refers to, nor among those deleted, which have no replicas left.        *)
LEMMA ServingOthers ==
    ASSUME UpdatesOnly, ServingInv, AnalysisInv', HistoryInv',
           ReconcileOtherReplicaSets \/ ReconcileRevisionHistoryLimit
    PROVE ServingInv'
<1> USE DEF ServingInv, AnalysisInv, HistoryInv, StableInv
<1>1. /\ pc \in {"scaleOthers", "revisionHistory"}
      /\ UNCHANGED <<spec, status, active, client>>
  BY DEF ReconcileOtherReplicaSets, ReconcileRevisionHistoryLimit
<1>2. /\ Stable = status.stableRS /\ HasStable /\ New \in Hash
      /\ pass.status.activeSelector = status.activeSelector
  BY <1>1, PassKnows
<1> DEFINE InUseNow == {active, status.stableRS, status.activeSelector}
<1>3. ASSUME \A h \in InUseNow \cup {New} : rs'[h].replicas = rs[h].replicas
                                            /\ rs'[h].exists = rs[h].exists,
             SeesTheSame, pass'.addPauses = pass.addPauses
      PROVE ServingInv'
  <2>1. \A h \in {active, status.stableRS, status.activeSelector} :
           rs'[h].replicas \in ReplicaCounts /\ rs'[h].exists
    BY <1>3 DEF Serving, FullSize
  <2>2. rs'[New].replicas \in {pass.rs[New].replicas, NewRSNewReplicas} \cup ReplicaCounts
    BY <1>1, <1>3 DEF PassServes
  <2> QED BY <1>1, <1>3, <2>1, <2>2, ServingStage DEF SizesSeen
<1>4. InUseNow \cup {New} \subseteq Hash
  BY <1>2 DEF Serving
<1>5. CASE ReconcileOtherReplicaSets
  <2>1. \A h \in OldToScaleDown : h \in Hash /\ h \notin InUseNow \cup {New}
    BY <1>2 DEF OldToScaleDown, IsOther, IsReplicaSetReferenced, Stable
  <2>2. ASSUME NEW h \in OldToScaleDown,
               \/ PatchDeadline(h, "pending") \/ UNCHANGED rs
               \/ Write(h, OldReplicas(h))
        PROVE \A g \in InUseNow \cup {New} : rs'[g].replicas = rs[g].replicas
                                             /\ rs'[g].exists = rs[g].exists
    <3>1. h \in Hash /\ h \notin InUseNow \cup {New}
      BY <2>1
    <3> HIDE DEF InUseNow
    <3> QED BY <1>4, <2>2, <3>1 DEF PatchDeadline, Write, TypeOK, ReplicaSetType
  <2>3. \A g \in InUseNow \cup {New} : rs'[g].replicas = rs[g].replicas
                                       /\ rs'[g].exists = rs[g].exists
    <3> HIDE DEF InUseNow
    <3> QED BY <1>5, <2>2, OthersStep
  <2>4. SeesTheSame /\ pass'.addPauses = pass.addPauses
    <3>1. ASSUME NEW D, NEW V, NEW k,
                 pass' = [pass EXCEPT !.visited = V, !.dirty = D, !.annotated = k]
          PROVE SeesTheSame /\ pass'.addPauses = pass.addPauses
      BY <1>1, <3>1 DEF SeesTheSame, TypeOK, PassType
    <3>2. GoTo("revisionHistory") => SeesTheSame /\ pass'.addPauses = pass.addPauses
      BY <1>1 DEF GoTo, SeesTheSame
    <3> QED BY <1>5, <3>1, <3>2, OthersStep
  <2> HIDE DEF InUseNow
  <2> QED BY <1>3, <2>3, <2>4
<1>6. CASE ReconcileRevisionHistoryLimit
  <2>1. pc = "revisionHistory"
    BY <1>6 DEF ReconcileRevisionHistoryLimit
  <2>2. \A h \in Hash : rs'[h] = rs[h] \/ (h \in BeyondHistoryLimit /\ Deletable(h))
    BY <1>6 DEF ReconcileRevisionHistoryLimit
  <2>3. \A h \in {New, Stable} : h \notin BeyondHistoryLimit
    BY <1>2 DEF BeyondHistoryLimit, IsOther
  <2>4. \A h \in {active, status.activeSelector} : ~Deletable(h)
    BY <2>1 DEF Deletable, PassServes, SizesSeen, UpdatesOnly
  <2>5. \A h \in InUseNow \cup {New} : rs'[h] = rs[h]
    BY <1>2, <1>4, <2>2, <2>3, <2>4
  <2>6. SeesTheSame /\ pass'.addPauses = pass.addPauses
    BY <1>1, <1>6 DEF ReconcileRevisionHistoryLimit, SeesTheSame, TypeOK, PassType
  <2> HIDE DEF InUseNow
  <2> QED BY <1>3, <2>5, <2>6
<1> QED BY <1>5, <1>6

(* Traffic moves to a version that has its full size in the snapshot: if it *)
(* is not the stable one, it has passed the checkpoint.                    *)
LEMMA ServingSwitch ==
    ASSUME UpdatesOnly, ServingInv, AnalysisInv', HistoryInv', ReconcileActiveService
    PROVE ServingInv'
<1> USE DEF ServingInv, AnalysisInv, HistoryInv, StableInv
<1>1. /\ pc = "activeService" /\ pc' = "analysis" /\ pass' = pass
      /\ UNCHANGED <<spec, status, rs, client>>
  BY DEF ReconcileActiveService, GoTo
<1>2. /\ Stable = status.stableRS /\ New \in Hash /\ rs[New].exists
      /\ pass.status.activeSelector = status.activeSelector
      /\ pass.status.currentPodHash = status.currentPodHash
      /\ status.pauses \subseteq pass.status.pauses
      /\ pass.spec.replicas \in ReplicaCounts /\ SeesTheSame
  BY <1>1, PassKnows DEF SeesTheSame
<1>3. CASE active' = active
  BY <1>1, <1>2, <1>3, ServingSame DEF SizesSeen, PassServes, NoFullPromotion
<1>4. CASE active' # active
  <2>1. MaySwitchActiveService /\ active' = ActiveHash
    BY <1>4 DEF ReconcileActiveService
  <2>2. active' \in {status.stableRS, New}
    BY <1>2, <1>4, <2>1 DEF ActiveHash, Stable
  <2>3. /\ rs[New].replicas \in ReplicaCounts
        /\ New = status.activeSelector
             \/ (/\ New = status.currentPodHash /\ pass.status.pauses = {}
                 /\ status.checkPoint)
    <3>1. /\ pass.rs[New].replicas = pass.spec.replicas
          /\ NewRSNewReplicas = pass.spec.replicas
      BY <2>1 DEF MaySwitchActiveService, ReadyForPause, IsSaturated
    <3>2. rs[New].replicas \in ReplicaCounts
      BY <1>1, <1>2, <3>1 DEF PassServes
    <3>3. NewRSNewReplicas # PreviewReplicaCount
      BY <1>2, <3>1 DEF UpdatesOnly
    <3>4. /\ PreviewReplicaCount # NoCount /\ status.activeSelector # NoHash
          /\ pass.rs[status.activeSelector].exists /\ ~pass.status.promoteFull
          /\ pass.status.checkPoint = status.checkPoint
      BY <1>1, CountAssumption, HashAssumption
      DEF UpdatesOnly, Serving, PassServes, NoFullPromotion
    <3> QED BY <1>2, <3>2, <3>3, <3>4 DEF NewRSNewReplicas
  <2>4. FullSize(active)' /\ active' \in Hash
    BY <1>1, <1>2, <2>2, <2>3 DEF FullSize, Serving
  <2>5. active' # status.stableRS => status.checkPoint
    BY <2>2, <2>3 DEF Serving
  <2>6. TrafficOf(status)'
    <3>1. status.pauses = {} \/ pass.status.pauses # {}
      BY <1>2
    <3> QED BY <1>1, <2>2, <2>3, <3>1 DEF TrafficOf, Serving
  <2>7. Serving'
    BY <1>1, <2>4, <2>5, <2>6 DEF Serving, FullSize
  <2>8. PassServes'
    <3>1. New' = New /\ Stable' = Stable /\ NewRSNewReplicas' = NewRSNewReplicas
      BY <1>2, SameNewSize
    <3> QED BY <1>1, <3>1 DEF PassServes, SizesSeen
  <2> QED BY <1>1, <2>7, <2>8 DEF NoFullPromotion
<1> QED BY <1>3, <1>4

\* The analysis stage of a pass back to the stable version finds no runs to ask.
LEMMA ServingAnalysis ==
    ASSUME ServingInv, AnalysisInv', HistoryInv', ReconcileAnalysisRuns PROVE ServingInv'
<1> USE DEF ServingInv, AnalysisInv, HistoryInv, StableInv
<1>1. /\ pc = "analysis" /\ pc' = "sync" /\ UNCHANGED <<spec, status, active, rs, client>>
  BY DEF ReconcileAnalysisRuns, FinishAnalysis
<1>2. HasStable
  BY <1>1, PassKnows
<1>3. ASSUME NEW i, NEW j, NEW view, NEW S, FinishAnalysis(i, j, view, S)
      PROVE SeesTheSame /\ (ShouldCancelCurrentAnalysis => pass'.addPauses = pass.addPauses)
  <2> DEFINE seen == [k \in RunIds |-> IF pass.runs[k].phase = "none" THEN view[k]
                                                                  ELSE pass.runs[k]]
             phases == IF ShouldCancelCurrentAnalysis THEN {}
                       ELSE {seen[k].phase : k \in {i, j} \ {0}}
  <2>1. /\ pass'.spec = pass.spec /\ pass'.status = pass.status /\ pass'.rs = pass.rs
        /\ pass'.addPauses = IF "Inconclusive" \in phases
                             THEN pass.addPauses \cup {Inconclusive} ELSE pass.addPauses
    BY <1>3, ZenonT(30) DEF FinishAnalysis, TypeOK, PassType
  <2>2. ShouldCancelCurrentAnalysis => phases = {}
    OBVIOUS
  <2> HIDE DEF phases
  <2> QED BY <1>1, <2>1, <2>2 DEF SeesTheSame
<1>4. New = Stable => ShouldCancelCurrentAnalysis
  BY <1>2 DEF ShouldCancelCurrentAnalysis, IsFastRollback
<1>5. SeesTheSame /\ (New = Stable => pass'.addPauses = {})
  BY <1>1, <1>3, <1>4 DEF ReconcileAnalysisRuns, PassServes
<1> QED BY <1>1, <1>5, ServingSame DEF SizesSeen, NoFullPromotion

(* The status patch of a pass names the version that has the traffic.  The  *)
(* checkpoint goes with the promotion of that version, and no sooner.      *)
LEMMA ServingSync ==
    ASSUME UpdatesOnly, ServingInv, AnalysisInv', HistoryInv', SyncRolloutStatus
    PROVE ServingInv'
<1> USE DEF ServingInv, AnalysisInv, HistoryInv, StableInv
<1>1. /\ pc = "sync" /\ pc' = "idle" /\ UNCHANGED <<spec, active, rs, client>>
  BY DEF SyncRolloutStatus, EndPass, cluster
<1>2. /\ Stable = status.stableRS /\ HasStable /\ active # NoHash /\ ~pass.scaling
      /\ pass.status.currentPodHash = status.currentPodHash
      /\ status.pauses \subseteq pass.status.pauses
  BY <1>1, PassKnows
<1>3. /\ status'.stableRS = StableAfterSync /\ status'.currentPodHash = New
      /\ status'.activeSelector = active
  BY <1>2, SyncedFields
<1>4. PICK t \in BOOLEAN : status' = Merged(NewStatus(t), pass.status, status)
  BY DEF SyncRolloutStatus
<1>5. PICK a \in BOOLEAN : NewStatus(t) = FullStatus(a)
  BY <1>2, Zenon DEF NewStatus
<1>6. /\ FullStatus(a).pauses = IF a THEN {} ELSE PausesAfterSync
      /\ FullStatus(a).promoteFull = (pass.status.promoteFull /\ ~Restarts /\ ~ShouldFullPromote)
      /\ FullStatus(a).checkPoint = (~ShouldFullPromote /\ CalculateScaleUpPreviewCheckPoint)
  BY Zenon DEF FullStatus
<1>7. /\ status'.pauses = FullStatus(a).pauses
         \/ (FullStatus(a).pauses = pass.status.pauses /\ status'.pauses = status.pauses)
      /\ status'.promoteFull \in {FullStatus(a).promoteFull, status.promoteFull}
      /\ status'.checkPoint = FullStatus(a).checkPoint
         \/ (FullStatus(a).checkPoint = pass.status.checkPoint
               /\ status'.checkPoint = status.checkPoint)
  <2> HIDE DEF FullStatus
  <2> QED BY <1>4, <1>5 DEF Merged, Merge
<1>8. NoFullPromotion'
  BY <1>1, <1>6, <1>7 DEF NoFullPromotion
<1>9. status'.stableRS = active \/ (~ShouldFullPromote /\ status'.stableRS = status.stableRS)
  BY <1>2, <1>3 DEF StableAfterSync, ShouldFullPromote
<1>10. active # status'.stableRS => status'.checkPoint
  <2> SUFFICES ASSUME active # status'.stableRS PROVE status'.checkPoint
    OBVIOUS
  <2>1. ~ShouldFullPromote /\ status.checkPoint /\ pass.status.checkPoint
    BY <1>1, <1>9 DEF Serving, PassServes
  <2>2. CalculateScaleUpPreviewCheckPoint
    BY <2>1, CountAssumption DEF CalculateScaleUpPreviewCheckPoint, UpdatesOnly
  <2> QED BY <1>6, <1>7, <2>1, <2>2
<1>11. New = status'.stableRS => status'.pauses = {}
  <2> SUFFICES ASSUME New = status'.stableRS PROVE FullStatus(a).pauses = {}
    BY <1>2, <1>7
  <2>1. CASE ShouldFullPromote \/ CheckPodSpecChange
    BY <1>2, <1>6, <2>1 DEF PausesAfterSync, ClearsAndResumes, Restarts
  <2>2. CASE ~ShouldFullPromote /\ ~CheckPodSpecChange
    <3>1. New = Stable
      BY <1>3, <2>2 DEF StableAfterSync
    <3>2. pass.status.currentPodHash = New
      BY <1>1, <1>2, <2>2, HashAssumption DEF CheckPodSpecChange, StatusRuns, Serving
    <3>3. pass.status.pauses = {} /\ pass.addPauses = {}
      BY <1>1, <3>1, <3>2 DEF PassServes, Stable
    <3> QED BY <1>6, <3>3 DEF PausesAfterSync
  <2> QED BY <2>1, <2>2
<1>12. Serving'
  <2>1. {active', status'.stableRS, status'.activeSelector} \subseteq Hash
    BY <1>1, <1>3, <1>9 DEF Serving
  <2>2. FullSize(active)' /\ FullSize(status.stableRS)' /\ FullSize(status.activeSelector)'
    BY <1>1, <1>3, <1>9 DEF Serving, FullSize
  <2>3. TrafficOf(status)'
    BY <1>1, <1>3, <1>11 DEF TrafficOf
  <2> QED BY <1>1, <1>3, <1>10, <2>1, <2>2, <2>3 DEF Serving
<1> QED BY <1>1, <1>8, <1>12 DEF PassServes

\* It starts so: the version deployed before has the traffic and its size.
LEMMA ServingInit ==
    ASSUME UpdatesOnly PROVE Init /\ AnalysisInv /\ HistoryInv => ServingInv
<1> SUFFICES ASSUME Init, AnalysisInv, HistoryInv PROVE ServingInv
  OBVIOUS
<1>1. PICK h \in Hash, n \in ReplicaCounts :
        /\ spec = [template |-> h, replicas |-> n, paused |-> FALSE]
        /\ status = IF FirstDeploy THEN NoStatus
                       ELSE [NoStatus EXCEPT !.stableRS = h, !.currentPodHash = h,
                                             !.activeSelector = h, !.previewSelector = h]
        /\ active = IF FirstDeploy THEN NoHash ELSE h
        /\ rs = [g \in Hash |-> IF g = h /\ ~FirstDeploy THEN
              [exists |-> TRUE, replicas |-> n, available |-> n, desired |-> n,
                        deadline |-> "none", revision |-> 1, born |-> 1] ELSE NoReplicaSet]
  BY Zenon DEF Init
<1>2. /\ status.stableRS = h /\ status.activeSelector = h /\ active = h
      /\ status.pauses = {} /\ ~status.promoteFull
      /\ rs[h].replicas = n /\ rs[h].exists /\ spec.replicas = n
  BY <1>1 DEF UpdatesOnly, NoStatus
<1>3. pc = "idle" /\ client = {}
  BY DEF Init
<1> QED BY <1>2, <1>3
    DEF ServingInv, FullSize, Serving, TrafficOf, PassServes, NoFullPromotion

\* Every step keeps all that.
LEMMA ServingInvariant == ASSUME UpdatesOnly PROVE Spec => []ServingInv
<1>1. ServingInv /\ AnalysisInv' /\ HistoryInv' /\ [Next]_vars => ServingInv'
  <2> SUFFICES ASSUME ServingInv, AnalysisInv', HistoryInv', [Next]_vars PROVE ServingInv'
    OBVIOUS
  <2>1. CASE Controller
    BY <2>1, ServingBegin, ServingStages, ServingStable, ServingNew, ServingOthers,
       ServingSwitch, ServingAnalysis, ServingSync DEF Controller
  <2> QED BY <2>1, ServingCluster DEF Next
<1>2. Init /\ AnalysisInv /\ HistoryInv => ServingInv
  BY ServingInit
<1>3. Spec => []HistoryInv
  BY HistoryInvariant DEF UpdatesOnly, SteadyUsers
<1> QED BY <1>1, <1>2, <1>3, AnalysisInvariant, PTL DEF Spec

(* ActiveAtFullSize: the version that receives the traffic keeps a size the *)
(* user asked for, even with a preview size and with aborted versions that *)
(* are scaled down, also where a pass stops between the switch of the      *)
(* traffic and the status patch, or an analysis comes between them.        *)
THEOREM ActiveKeepsSizeWithPreview ==
    ASSUME UpdatesOnly PROVE Spec => []ActiveAtFullSize
<1>1. ServingInv => ActiveAtFullSize
  BY DEF ServingInv, Serving, FullSize, ActiveAtFullSize
<1> QED BY <1>1, ServingInvariant, PTL

(* StableAtFullSize: and so does the version to fall back to, which a new   *)
(* update, an abort or a rollback may find without the traffic.            *)
THEOREM StableKeepsSizeWithPreview ==
    ASSUME UpdatesOnly PROVE Spec => []StableAtFullSize
<1>1. ServingInv => StableAtFullSize
  BY DEF ServingInv, Serving, FullSize, StableAtFullSize
<1> QED BY <1>1, ServingInvariant, PTL

(* ReferencedExist: so no clean-up, not even after a pass that switched the *)
(* traffic stopped, deletes a ReplicaSet that a Service or the stable       *)
(* version refers to: the versions in use by their size, and the preview   *)
(* because a pass that deletes has moved the preview Service before.       *)
THEOREM ReferencedKeptWithPreview ==
    ASSUME UpdatesOnly PROVE Spec => []ReferencedExist
<1>1. ServingInv => ReferencedExist
  BY DEF ServingInv, Serving, FullSize, HistoryInv, Previewed, ReferencedExist
<1> QED BY <1>1, ServingInvariant, PTL

=============================================================================
