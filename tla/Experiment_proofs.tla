------------------------- MODULE Experiment_proofs -------------------------
(***************************************************************************)
(* Proofs about Experiment, for all templates, analyses and bounds:        *)
(*   TypeCorrect      the type invariant;                                  *)
(*   ImplementsTrial  the controller keeps the promise of Trial;           *)
(*   SuccessIsEarnedHolds  a Successful verdict has its reasons.           *)
(***************************************************************************)
EXTENDS Experiment, FiniteSetTheorems, WellFoundedInduction, TLAPS

TemplateStatusType == [status : TemplateStatuses, avail : Nat]
RunStatusType == [run : {0} \cup RunIds, phase : Phases]

\* The context of no pass, and of a pass that starts.
LEMMA StartType ==
    ASSUME NEW v \in BOOLEAN, NEW s \in StatusType, NEW r \in [Template -> ReplicaSetType]
    PROVE /\ NoStatus \in StatusType /\ NoPass \in PassType
          /\ [NoPass EXCEPT !.terminate = v, !.status = s, !.new = s, !.rs = r,
                            !.todo = Template \cup Analysis] \in PassType
<1>1. NoStatus \in StatusType
  BY DEF NoStatus, StatusType, Phases, TemplateStatuses
<1>2. NoReplicaSet \in ReplicaSetType
  BY DEF NoReplicaSet, ReplicaSetType
<1>3. NoPass \in PassType
  BY <1>1, <1>2 DEF NoPass, PassType
<1> QED BY <1>1, <1>3 DEF PassType

\* A template's assessment, or an analysis's, is put into the new status.
LEMMA NewTemplateType ==
    ASSUME pass \in PassType, NEW t \in Template, NEW r \in TemplateStatusType,
           NEW m \in SUBSET Template, NEW d \in SUBSET (Template \cup Analysis)
    PROVE [pass EXCEPT !.new.templates[t] = r, !.moved = m, !.todo = d] \in PassType
<1>1. [pass.new.templates EXCEPT ![t] = r] \in [Template -> TemplateStatusType]
  BY DEF PassType, StatusType, TemplateStatusType
<1>2. [pass.new EXCEPT !.templates = [pass.new.templates EXCEPT ![t] = r]] \in StatusType
  BY <1>1 DEF PassType, StatusType, TemplateStatusType
<1> DEFINE n == [pass.new EXCEPT !.templates = [pass.new.templates EXCEPT ![t] = r]]
<1>3. [pass EXCEPT !.new.templates[t] = r, !.moved = m, !.todo = d]
        = [pass EXCEPT !.new = n, !.moved = m, !.todo = d]
  BY DEF PassType, StatusType
<1>4. n \in StatusType
  BY <1>2
<1> HIDE DEF n
<1> QED BY <1>3, <1>4 DEF PassType

LEMMA NewRunType ==
    ASSUME pass \in PassType, NEW a \in Analysis, NEW r \in RunStatusType,
           NEW d \in SUBSET (Template \cup Analysis)
    PROVE [pass EXCEPT !.new.runs[a] = r, !.todo = d] \in PassType
<1>1. [pass.new.runs EXCEPT ![a] = r] \in [Analysis -> RunStatusType]
  BY DEF PassType, StatusType, RunStatusType
<1> DEFINE n == [pass.new EXCEPT !.runs = [pass.new.runs EXCEPT ![a] = r]]
<1>2. n \in StatusType
  BY <1>1 DEF PassType, StatusType, RunStatusType
<1>3. [pass EXCEPT !.new.runs[a] = r, !.todo = d] = [pass EXCEPT !.new = n, !.todo = d]
  BY DEF PassType, StatusType
<1> HIDE DEF n
<1> QED BY <1>2, <1>3 DEF PassType

\* The worst of some statuses: the first of the order that is one of them, or
\* Successful when none is.
LEMMA WorstOf ==
    ASSUME NEW order, NEW S, NEW n \in Nat, DOMAIN order \subseteq 1..n
    PROVE \/ Worst(order, S) = "Successful" /\ \A i \in DOMAIN order : order[i] \notin S
          \/ \E i \in DOMAIN order :
               /\ Worst(order, S) = order[i] /\ order[i] \in S
               /\ \A j \in DOMAIN order : j < i => order[j] \notin S
<1> DEFINE places == {i \in DOMAIN order : order[i] \in S}
<1>1. CASE places # {}
  <2>1. \E x \in places : \A y \in places : x <= y
    <3>1. places \in SUBSET Nat /\ places # {}
      BY <1>1
    <3> HIDE DEF places
    <3>2. \E x \in places : \A y \in places : <<y, x>> \notin OpToRel(<, Nat)
      BY <3>1, WFMin, NatLessThanWellFounded
    <3>3. PICK x \in places : \A y \in places : <<y, x>> \notin OpToRel(<, Nat)
      BY <3>2
    <3>4. ASSUME NEW y \in places PROVE x <= y
      <4>1. x \in Nat /\ y \in Nat
        BY <3>1
      <4>2. ~(y < x)
        BY <3>3, <4>1, Zenon DEF OpToRel
      <4> QED BY <4>1, <4>2
    <3> QED BY <3>4
  <2>2. Min(places) \in places /\ \A y \in places : Min(places) <= y
    BY <2>1 DEF Min
  <2>3. Worst(order, S) = order[Min(places)]
    BY <1>1 DEF Worst
  <2>4. \A j \in DOMAIN order : j < Min(places) => order[j] \notin S
    <3> SUFFICES ASSUME NEW j \in DOMAIN order, j < Min(places), order[j] \in S
                 PROVE FALSE
      OBVIOUS
    <3>1. j \in places
      OBVIOUS
    <3>2. j \in Nat /\ Min(places) \in Nat
      BY <2>2
    <3> HIDE DEF places
    <3> QED BY <2>2, <3>1, <3>2
  <2>5. Min(places) \in DOMAIN order /\ order[Min(places)] \in S
    BY <2>2
  <2> HIDE DEF places
  <2> QED BY <2>3, <2>4, <2>5
<1>2. CASE places = {}
  BY <1>2 DEF Worst
<1> QED BY <1>1, <1>2

\* What assessTemplates and assessAnalysisRuns make of the new statuses.
LEMMA TemplatesAssessed ==
    /\ AssessTemplates \in {"Failed", "Error", "Pending", "Running", "Successful"}
    /\ AssessTemplates = "Successful" =>
         \A t \in Template : pass.new.templates[t].status
                               \notin {"Failed", "Error", "Progressing", "Running"}
    /\ AssessTemplates \notin {"Failed", "Error"} =>
         \A t \in Template : pass.new.templates[t].status \notin {"Failed", "Error"}
<1> DEFINE S == {pass.new.templates[t].status : t \in Template}
<1>1. /\ DOMAIN TemplateOrder = 1..5
      /\ TemplateOrder[1] = "Failed" /\ TemplateOrder[2] = "Error"
      /\ TemplateOrder[3] = "Progressing" /\ TemplateOrder[4] = "Running"
      /\ TemplateOrder[5] = "Successful"
  BY DEF TemplateOrder
<1>2. \A i \in 1..5 : i = 1 \/ i = 2 \/ i = 3 \/ i = 4 \/ i = 5
  OBVIOUS
<1>3. \A t \in Template : pass.new.templates[t].status \in S
  OBVIOUS
<1>4. AssessTemplates = IF Worst(TemplateOrder, S) = "Progressing" THEN "Pending"
                        ELSE Worst(TemplateOrder, S)
  BY DEF AssessTemplates
<1> HIDE DEF S
<1>5. \/ Worst(TemplateOrder, S) = "Successful" /\ \A i \in 1..5 : TemplateOrder[i] \notin S
      \/ \E i \in 1..5 : /\ Worst(TemplateOrder, S) = TemplateOrder[i] /\ TemplateOrder[i] \in S
                         /\ \A j \in 1..5 : j < i => TemplateOrder[j] \notin S
  BY <1>1, WorstOf
<1>6. /\ Worst(TemplateOrder, S) \in {"Failed", "Error", "Progressing", "Running", "Successful"}
      /\ Worst(TemplateOrder, S) = "Successful" =>
           "Failed" \notin S /\ "Error" \notin S /\ "Progressing" \notin S /\ "Running" \notin S
      /\ Worst(TemplateOrder, S) \notin {"Failed", "Error"} =>
           "Failed" \notin S /\ "Error" \notin S
  BY <1>1, <1>2, <1>5
<1> QED BY <1>3, <1>4, <1>6

LEMMA RunsAssessed ==
    /\ AssessAnalysisRuns \in {"Failed", "Error", "Inconclusive", "Running", "Successful"}
    /\ AssessAnalysisRuns = "Successful" =>
         \A a \in Analysis : pass.new.runs[a].phase
                               \notin {"Failed", "Error", "Inconclusive", "Pending", "Running"}
    /\ AssessAnalysisRuns \notin {"Failed", "Error", "Inconclusive"} =>
         \A a \in Analysis : pass.new.runs[a].phase \notin {"Failed", "Error", "Inconclusive"}
<1> DEFINE S == {pass.new.runs[a].phase : a \in Analysis}
<1>1. /\ DOMAIN PhaseOrder = 1..6
      /\ PhaseOrder[1] = "Failed" /\ PhaseOrder[2] = "Error" /\ PhaseOrder[3] = "Inconclusive"
      /\ PhaseOrder[4] = "Pending" /\ PhaseOrder[5] = "Running" /\ PhaseOrder[6] = "Successful"
  BY DEF PhaseOrder
<1>2. \A i \in 1..6 : i = 1 \/ i = 2 \/ i = 3 \/ i = 4 \/ i = 5 \/ i = 6
  OBVIOUS
<1>3. \A a \in Analysis : pass.new.runs[a].phase \in S
  OBVIOUS
<1>4. AssessAnalysisRuns = IF Worst(PhaseOrder, S) = "Pending" THEN "Running"
                           ELSE Worst(PhaseOrder, S)
  BY DEF AssessAnalysisRuns
<1> HIDE DEF S
<1>5. \/ Worst(PhaseOrder, S) = "Successful" /\ \A i \in 1..6 : PhaseOrder[i] \notin S
      \/ \E i \in 1..6 : /\ Worst(PhaseOrder, S) = PhaseOrder[i] /\ PhaseOrder[i] \in S
                         /\ \A j \in 1..6 : j < i => PhaseOrder[j] \notin S
  BY <1>1, WorstOf
<1>6. /\ Worst(PhaseOrder, S)
           \in {"Failed", "Error", "Inconclusive", "Pending", "Running", "Successful"}
      /\ Worst(PhaseOrder, S) = "Successful" =>
           /\ "Failed" \notin S /\ "Error" \notin S /\ "Inconclusive" \notin S
           /\ "Pending" \notin S /\ "Running" \notin S
      /\ Worst(PhaseOrder, S) \notin {"Failed", "Error", "Inconclusive"} =>
           "Failed" \notin S /\ "Error" \notin S /\ "Inconclusive" \notin S
  BY <1>1, <1>2, <1>5
<1> QED BY <1>3, <1>4, <1>6

\* So what calculateStatus decides on is a phase.
LEMMA AssessmentType == AssessTemplates \in Phases /\ AssessAnalysisRuns \in Phases
BY TemplatesAssessed, RunsAssessed DEF Phases

LEMMA NewPhaseType == ASSUME pass \in PassType PROVE NewPhase \in Phases
<1>2. pass.new.phase \in Phases
  BY DEF PassType, StatusType
<1> QED BY <1>2, AssessmentType DEF NewPhase, Phases, Completed

LEMMA MergedType ==
    ASSUME pass \in PassType, status \in StatusType PROVE Merged \in StatusType
<1>1. NewStatus \in StatusType
  <2>1. pass.new.available \/ MarksAvailable \in BOOLEAN
    BY DEF MarksAvailable
  <2> QED BY <2>1, NewPhaseType DEF NewStatus, PassType, StatusType
<1> QED BY <1>1 DEF Merged, StatusType

-----------------------------------------------------------------------------
(* The type invariant.                                                     *)

LEMMA TypeInit == Init => TypeOK
<1> SUFFICES ASSUME Init PROVE TypeOK
  OBVIOUS
<1>1. NoStatus \in StatusType /\ NoPass \in PassType
  BY DEF NoStatus, StatusType, Phases, TemplateStatuses, NoReplicaSet, ReplicaSetType, NoPass,
         PassType
<1>2. spec \in SpecType /\ terminate \in BOOLEAN /\ outdated \in BOOLEAN
        /\ services \subseteq WithService /\ late \subseteq Template
        /\ durationPassed \in BOOLEAN /\ reconciling \in BOOLEAN
  BY SpecsAssumption DEF Init, InitWith
<1>3. status \in StatusType /\ cached \in [terminate : BOOLEAN, status : StatusType]
        /\ pass \in PassType
  BY <1>1 DEF Init, InitWith, Current
<1>4. rs \in [Template -> ReplicaSetType]
  BY DEF Init, InitWith, NoReplicaSet, ReplicaSetType
<1>5. runs \in [Analysis -> [RunIds -> RunType]]
  BY DEF Init, InitWith, NoRun, RunType, Phases
<1>6. budget \in [pods : Nat, api : Nat, passes : Nat, stale : Nat]
  BY BoundsAssumption DEF Init, InitWith
<1> QED BY <1>2, <1>3, <1>4, <1>5, <1>6 DEF TypeOK

\* Calls that fail are counted.
LEMMA ApiFailuresType ==
    ASSUME TypeOK, NEW n \in Nat, ApiFailures(n)
    PROVE budget' \in [pods : Nat, api : Nat, passes : Nat, stale : Nat]
<1>1. budget.api - n \in Nat
  BY DEF ApiFailures, TypeOK
<1> QED BY <1>1 DEF ApiFailures, TypeOK

\* What the end of reconcileTemplate leaves of the context.
LEMMA AssessTemplateType ==
    ASSUME TypeOK, NEW t \in Template, NEW code \in TemplateStatuses, NEW avail \in Nat,
           NEW moved \in BOOLEAN, AssessTemplate(t, code, avail, moved)
    PROVE /\ pass' \in PassType /\ pass'.status = pass.status /\ pass'.rs = pass.rs
          /\ pass'.new.phase = pass.new.phase /\ pass'.todo = pass.todo \ {t}
<1> DEFINE moves == moved \/ avail # pass.status.templates[t].avail
           assessed ==
            CASE code \in Completed -> code
              [] code \notin Completed /\ DesiredReplicas(t) = avail ->
                   IF PassedDuration \/ IsTerminating THEN "Successful" ELSE "Running"
              [] code \notin Completed /\ DesiredReplicas(t) # avail ->
                   IF t \in late /\ ~moves THEN "Failed"
                   ELSE IF IsTerminating THEN "Successful" ELSE "Progressing"
           r == [status |-> assessed, avail |-> avail]
           m == IF moves THEN pass.moved \cup {t} ELSE pass.moved
           d == pass.todo \ {t}
<1>1. pass' = [pass EXCEPT !.new.templates[t] = r, !.moved = m, !.todo = d]
  BY Zenon DEF AssessTemplate
<1>2. assessed \in TemplateStatuses
  BY DEF TemplateStatuses
<1>3. r \in TemplateStatusType
  BY <1>2 DEF TemplateStatusType
<1>4. m \in SUBSET Template /\ d \in SUBSET (Template \cup Analysis) /\ pass \in PassType
  BY DEF TypeOK, PassType
<1>5. d = pass.todo \ {t}
  OBVIOUS
<1> HIDE DEF r, m, d
<1>6. pass' \in PassType
  BY <1>1, <1>3, <1>4, NewTemplateType
<1>7. /\ pass'.status = pass.status /\ pass'.rs = pass.rs
      /\ pass'.new.phase = pass.new.phase /\ pass'.todo = d
  BY <1>1, <1>4 DEF PassType, StatusType
<1> QED BY <1>5, <1>6, <1>7

\* A recorded run.
LEMMA SetRunType ==
    ASSUME TypeOK, NEW a \in Analysis, NEW i \in {0} \cup RunIds, NEW phase \in Phases,
           SetRun(a, i, phase)
    PROVE /\ pass' \in PassType /\ pass'.status = pass.status /\ pass'.rs = pass.rs
          /\ pass'.new.phase = pass.new.phase /\ pass'.todo = pass.todo \ {a}
<1> DEFINE r == [run |-> i, phase |-> phase]
           d == pass.todo \ {a}
<1>1. pass' = [pass EXCEPT !.new.runs[a] = r, !.todo = d]
  BY Zenon DEF SetRun
<1>2. r \in RunStatusType
  BY DEF RunStatusType
<1>3. d \in SUBSET (Template \cup Analysis) /\ pass \in PassType /\ d = pass.todo \ {a}
  BY DEF TypeOK, PassType
<1> HIDE DEF r, d
<1>4. pass' \in PassType
  BY <1>1, <1>2, <1>3, NewRunType
<1>5. /\ pass'.status = pass.status /\ pass'.rs = pass.rs
      /\ pass'.new.phase = pass.new.phase /\ pass'.todo = d
  BY <1>1, <1>3 DEF PassType, StatusType
<1> QED BY <1>3, <1>4, <1>5

\* The next template of the loop is one that is left to do.
LEMMA FirstOf == ASSUME NEW S, S # {} PROVE First(S) \in S
BY DEF First

(* A template: what is left of the pass, and the sizes of the ReplicaSets.  *)
(* Only the template's own size changes; after a verdict it never grows.    *)
LEMMA ReconcileTemplateType ==
    ASSUME TypeOK, ReconcileTemplate
    PROVE \E t \in pass.todo \cap Template :
            /\ services' \subseteq WithService /\ rs' \in [Template -> ReplicaSetType]
            /\ pass' \in PassType /\ pass'.status = pass.status /\ pass'.rs = pass.rs
            /\ pass'.new.phase = pass.new.phase /\ pass'.todo = pass.todo \ {t}
            /\ budget' \in [pods : Nat, api : Nat, passes : Nat, stale : Nat]
            /\ \A u \in Template \ {t} : rs'[u].size = rs[u].size
            /\ pass.status.phase \in Completed /\ rs[t].size = pass.rs[t].size
                 => (rs'[t].size > 0 => rs[t].size > 0)
<1>1. PICK t \in pass.todo \cap Template :
         \/ CreateReplicaSet(t)
         \/ /\ pass.rs[t].exists
            /\ \E fails \in SUBSET {"service", "delay", "get", "scale"} :
                 ApiFailures(Cardinality(fails)) /\ ScaleTemplate(t, fails)
  BY FirstOf DEF ReconcileTemplate
<1> DEFINE Goal ==
            /\ services' \subseteq WithService /\ rs' \in [Template -> ReplicaSetType]
            /\ pass' \in PassType /\ pass'.status = pass.status /\ pass'.rs = pass.rs
            /\ pass'.new.phase = pass.new.phase /\ pass'.todo = pass.todo \ {t}
            /\ budget' \in [pods : Nat, api : Nat, passes : Nat, stale : Nat]
            /\ \A u \in Template \ {t} : rs'[u].size = rs[u].size
            /\ pass.status.phase \in Completed /\ rs[t].size = pass.rs[t].size
                 => (rs'[t].size > 0 => rs[t].size > 0)
<1>2. pass.status.templates[t].status \in TemplateStatuses /\ pass.rs[t] \in ReplicaSetType
        /\ rs[t] \in ReplicaSetType
  BY DEF TypeOK, PassType, StatusType
<1>3. ASSUME CreateReplicaSet(t) PROVE Goal
  <2>1. services' \subseteq WithService
    BY <1>3 DEF CreateReplicaSet, TypeOK
  <2>2. CASE /\ rs' = [rs EXCEPT ![t] = [NoReplicaSet EXCEPT !.exists = TRUE]]
             /\ AssessTemplate(t, pass.status.templates[t].status, 0, TRUE)
             /\ UNCHANGED budget
    <3>1. /\ pass' \in PassType /\ pass'.status = pass.status /\ pass'.rs = pass.rs
          /\ pass'.new.phase = pass.new.phase /\ pass'.todo = pass.todo \ {t}
      BY <1>2, <2>2, AssessTemplateType
    <3>2. [NoReplicaSet EXCEPT !.exists = TRUE] \in ReplicaSetType
            /\ [NoReplicaSet EXCEPT !.exists = TRUE].size = 0
      BY DEF NoReplicaSet, ReplicaSetType
    <3>3. /\ rs' \in [Template -> ReplicaSetType] /\ rs'[t].size = 0
          /\ \A u \in Template \ {t} : rs'[u].size = rs[u].size
      BY <2>2, <3>2 DEF TypeOK
    <3>4. budget' \in [pods : Nat, api : Nat, passes : Nat, stale : Nat]
      BY <2>2 DEF TypeOK
    <3>5. ~(rs'[t].size > 0)
      BY <3>3
    <3> QED BY <2>1, <3>1, <3>3, <3>4, <3>5
  <2>3. CASE /\ ApiFailures(1) /\ AssessTemplate(t, "Error", 0, FALSE) /\ UNCHANGED rs
    <3>1. "Error" \in TemplateStatuses
      BY DEF TemplateStatuses
    <3>2. /\ pass' \in PassType /\ pass'.status = pass.status /\ pass'.rs = pass.rs
          /\ pass'.new.phase = pass.new.phase /\ pass'.todo = pass.todo \ {t}
      BY <2>3, <3>1, AssessTemplateType
    <3>3. budget' \in [pods : Nat, api : Nat, passes : Nat, stale : Nat]
      BY <2>3, ApiFailuresType
    <3> QED BY <2>1, <2>3, <3>2, <3>3 DEF TypeOK
  <2> QED BY <1>3, <2>2, <2>3 DEF CreateReplicaSet
<1>4. ASSUME NEW fails \in SUBSET {"service", "delay", "get", "scale"},
             ApiFailures(Cardinality(fails)), ScaleTemplate(t, fails)
      PROVE Goal
  <2> DEFINE patched == AddsDelay(t) /\ "delay" \notin fails
             delayed == patched /\ "get" \notin fails
             stale == t \in pass.dirty \/ patched
             read == IF delayed THEN [rs[t] EXCEPT !.deadline = "pending"] ELSE pass.rs[t]
             moves == read.size # DesiredReplicas(t)
             fresh == delayed \/ DesiredReplicas(t) # 0
             view == IF DesiredReplicas(t) # 0 THEN rs[t] ELSE read
             updates == /\ moves /\ view.size # ScaleTarget(t, view)
                        /\ (fresh \/ ~stale)
             code == IF fails \cap {"service", "scale"} # {} THEN "Error"
                     ELSE pass.status.templates[t].status
             deadline == IF patched THEN "pending" ELSE rs[t].deadline
             size == IF updates /\ "scale" \notin fails THEN ScaleTarget(t, view)
                     ELSE rs[t].size
  <2>1. /\ services' = CASE "service" \in fails -> services
                        [] "service" \notin fails /\ CreatesService(t) -> services \cup {t}
                        [] "service" \notin fails /\ DeletesService(t) -> services \ {t}
                        [] OTHER -> services
        /\ rs' = [rs EXCEPT ![t].deadline = deadline, ![t].size = size]
        /\ AssessTemplate(t, code, read.avail, moves)
    BY <1>4, Zenon DEF ScaleTemplate
  <2>2. services' \subseteq WithService
    BY <2>1 DEF CreatesService, TypeOK
  <2>3. DesiredReplicas(t) \in Nat
    BY BoundsAssumption DEF DesiredReplicas
  <2>4. read \in ReplicaSetType
    BY <1>2 DEF ReplicaSetType
  <2>5. size \in Nat /\ deadline \in {"none", "pending", "expired"}
    BY <1>2, <2>3, BoundsAssumption DEF ScaleTarget, ReplicaSetType
  <2>6. pass.status.phase \in Completed /\ rs[t].size = pass.rs[t].size
          => (size > 0 => rs[t].size > 0)
    <3> SUFFICES ASSUME pass.status.phase \in Completed, rs[t].size = pass.rs[t].size,
                        updates, rs[t].size = 0
                 PROVE FALSE
      BY <1>2 DEF ReplicaSetType
    <3>1. DesiredReplicas(t) = 0
      BY DEF DesiredReplicas, IsTerminating
    <3>2. read.size = 0
      BY <1>2 DEF ReplicaSetType
    <3> QED BY <3>1, <3>2
  <2>7. code \in TemplateStatuses /\ read.avail \in Nat /\ moves \in BOOLEAN
    BY <1>2, <2>4 DEF TemplateStatuses, ReplicaSetType
  <2> HIDE DEF read, moves, code, deadline, size
  <2>8. /\ pass' \in PassType /\ pass'.status = pass.status /\ pass'.rs = pass.rs
        /\ pass'.new.phase = pass.new.phase /\ pass'.todo = pass.todo \ {t}
    BY <2>1, <2>7, AssessTemplateType
  <2>9. /\ rs' \in [Template -> ReplicaSetType] /\ rs'[t].size = size
        /\ \A u \in Template \ {t} : rs'[u].size = rs[u].size
    BY <2>1, <2>5, ZenonT(30) DEF TypeOK, ReplicaSetType
  <2>10. budget' \in [pods : Nat, api : Nat, passes : Nat, stale : Nat]
    <3>1. IsFiniteSet({"service", "delay", "get", "scale"})
      <4>1. IsFiniteSet({"service"})
        BY FS_Singleton
      <4>2. IsFiniteSet({"service"} \cup {"delay"})
        BY <4>1, FS_AddElement
      <4>3. IsFiniteSet(({"service"} \cup {"delay"}) \cup {"scale"})
        BY <4>2, FS_AddElement
      <4>4. IsFiniteSet((({"service"} \cup {"delay"}) \cup {"scale"}) \cup {"get"})
        BY <4>3, FS_AddElement
      <4>5. {"service", "delay", "get", "scale"}
              = (({"service"} \cup {"delay"}) \cup {"scale"}) \cup {"get"}
        OBVIOUS
      <4> QED BY <4>4, <4>5
    <3>2. Cardinality(fails) \in Nat
      BY <3>1, FS_Subset, FS_CardinalityType
    <3> QED BY <1>4, <3>2, ApiFailuresType
  <2> QED BY <2>2, <2>6, <2>8, <2>9, <2>10
<1> QED BY <1>1, <1>3, <1>4

(* An analysis: what is left of the pass, and the runs.  After a verdict no *)
(* run is under way that was not before.                                   *)
LEMMA ReconcileAnalysisRunType ==
    ASSUME TypeOK, ReconcileAnalysisRun
    PROVE \E a \in pass.todo \cap Analysis :
            /\ runs' \in [Analysis -> [RunIds -> RunType]]
            /\ pass' \in PassType /\ pass'.status = pass.status /\ pass'.rs = pass.rs
            /\ pass'.new.phase = pass.new.phase /\ pass'.todo = pass.todo \ {a}
            /\ budget' \in [pods : Nat, api : Nat, passes : Nat, stale : Nat]
            /\ pass.status.phase \in Completed =>
                 \A b \in Analysis, i \in RunIds : UnderWay(b, i)' => UnderWay(b, i)
<1>1. PICK a \in pass.todo \cap Analysis :
         VerifyAnalysisTemplate(a) \/ CreateAnalysisRun(a) \/ WatchAnalysisRun(a)
  BY FirstOf DEF ReconcileAnalysisRun
<1> DEFINE Passed ==
            /\ pass' \in PassType /\ pass'.status = pass.status /\ pass'.rs = pass.rs
            /\ pass'.new.phase = pass.new.phase /\ pass'.todo = pass.todo \ {a}
           Counted == budget' \in [pods : Nat, api : Nat, passes : Nat, stale : Nat]
           Runs ==
            /\ runs' \in [Analysis -> [RunIds -> RunType]]
            /\ pass.status.phase \in Completed =>
                 \A b \in Analysis, i \in RunIds : UnderWay(b, i)' => UnderWay(b, i)
<1>2. Recorded(a).run \in {0} \cup RunIds /\ Recorded(a).phase \in Phases
  BY DEF Recorded, TypeOK, PassType, StatusType
<1>3. "Error" \in Phases /\ "Pending" \in Phases
  BY DEF Phases
<1>4. KeepRun(a) => Passed
  BY <1>2, SetRunType DEF KeepRun
<1>5. \A i \in {0} \cup RunIds, phase \in Phases : SetRun(a, i, phase) => Passed
  BY SetRunType
<1>6. (UNCHANGED budget => Counted) /\ (ApiFailures(1) => Counted)
  BY ApiFailuresType DEF TypeOK
<1>7. UNCHANGED runs => Runs
  BY DEF TypeOK, UnderWay
<1> HIDE DEF Passed, Counted, Runs
<1>8. CASE VerifyAnalysisTemplate(a)
  BY <1>2, <1>3, <1>4, <1>5, <1>6, <1>7, <1>8 DEF VerifyAnalysisTemplate, Passed, Counted, Runs
<1>9. CASE CreateAnalysisRun(a)
  <2>1. CASE IsTerminating /\ KeepRun(a) /\ UNCHANGED <<runs, budget>>
    BY <2>1, <1>4, <1>6, <1>7 DEF Passed, Counted, Runs
  <2>2. ASSUME ~IsTerminating, NEW i \in CreateIds(a),
               runs' = [runs EXCEPT ![a][i].exists = TRUE], SetRun(a, i, "Pending"),
               UNCHANGED budget
        PROVE Passed /\ Counted /\ Runs
    <3>1. i \in RunIds
      BY DEF CreateIds
    <3>2. Passed
      BY <2>2, <3>1, <1>3, <1>5
    <3>3. pass.status.phase \notin Completed
      BY <2>2 DEF IsTerminating
    <3>4. runs' \in [Analysis -> [RunIds -> RunType]]
      <4> DEFINE run == [runs[a][i] EXCEPT !.exists = TRUE]
      <4>1. run \in RunType
        <5>1. runs[a][i] \in RunType
          BY <3>1 DEF TypeOK
        <5> QED BY <5>1 DEF RunType
      <4>2. runs' = [runs EXCEPT ![a] = [runs[a] EXCEPT ![i] = run]]
        BY <2>2, <3>1 DEF TypeOK
      <4> HIDE DEF run
      <4> QED BY <4>1, <4>2, <3>1 DEF TypeOK
    <3> QED BY <2>2, <3>2, <3>3, <3>4, <1>6 DEF Runs
  <2>3. CASE ~IsTerminating /\ SetRun(a, 0, "Error") /\ ApiFailures(1) /\ UNCHANGED runs
    BY <2>3, <1>3, <1>5, <1>6, <1>7 DEF Passed, Counted, Runs
  <2> QED BY <1>9, <2>1, <2>2, <2>3 DEF CreateAnalysisRun, Passed, Counted, Runs
<1>10. CASE WatchAnalysisRun(a)
  <2> DEFINE n == Recorded(a).run
  <2>1. n \in RunIds
    BY <1>2, <1>10 DEF WatchAnalysisRun
  <2>2. runs[a][n] \in RunType /\ runs[a][n].phase \in Phases
    BY <2>1 DEF TypeOK, RunType
  <2>3. ASSUME KeepRun(a), UNCHANGED budget,
               runs' = [runs EXCEPT ![a][n].terminate = @ \/ runs[a][n].phase \notin Completed]
        PROVE Passed /\ Counted /\ Runs
    <3> DEFINE terminate2 == runs[a][n].terminate \/ runs[a][n].phase \notin Completed
    <3>1. terminate2 \in BOOLEAN
      OBVIOUS
    <3>2. runs' = [runs EXCEPT ![a][n].terminate = terminate2]
      BY <2>3
    <3>3. runs[a][n].terminate => terminate2
      OBVIOUS
    <3> HIDE DEF terminate2
    <3>4. runs' \in [Analysis -> [RunIds -> RunType]]
      BY <3>1, <3>2, <2>1, <2>2 DEF TypeOK, RunType
    <3>5. ASSUME NEW b \in Analysis, NEW i \in RunIds, UnderWay(b, i)'
          PROVE UnderWay(b, i)
      BY <3>2, <3>3, <3>5, <2>1, <2>2 DEF UnderWay, TypeOK, RunType
    <3> QED BY <2>3, <3>4, <3>5, <1>4, <1>6 DEF Runs
  <2> QED BY <1>10, <2>1, <2>2, <2>3, <1>2, <1>3, <1>4, <1>5, <1>6, <1>7
          DEF WatchAnalysisRun, Passed, Counted, Runs
<1> QED BY <1>1, <1>8, <1>9, <1>10 DEF Passed, Counted, Runs

\* The ReplicaSet controller reports a number of available pods.
LEMMA SetAvailableType ==
    ASSUME TypeOK, NEW t \in Template, NEW n \in Nat, SetAvailable(t, n)
    PROVE /\ rs' \in [Template -> ReplicaSetType] /\ pass' \in PassType
          /\ \A u \in Template : rs'[u].size = rs[u].size
          /\ pass'.status = pass.status /\ pass'.new = pass.new /\ pass'.rs = pass.rs
          /\ pass'.todo = pass.todo
<1>1. rs' \in [Template -> ReplicaSetType] /\ \A u \in Template : rs'[u].size = rs[u].size
  BY DEF SetAvailable, TypeOK, ReplicaSetType
<1>2. [pass EXCEPT !.dirty = @ \cup {t}] \in PassType
  BY DEF TypeOK, PassType
<1>3. /\ pass' \in PassType
      /\ pass'.status = pass.status /\ pass'.new = pass.new /\ pass'.rs = pass.rs
      /\ pass'.todo = pass.todo
  BY <1>2 DEF SetAvailable, TypeOK, PassType
<1> QED BY <1>1, <1>3

(* Pods, time and runs: the sizes stay, no run becomes one under way.       *)
ClusterChanges ==
    /\ rs' \in [Template -> ReplicaSetType] /\ pass' \in PassType
    /\ runs' \in [Analysis -> [RunIds -> RunType]]
    /\ budget' \in [pods : Nat, api : Nat, passes : Nat, stale : Nat]
    /\ late' \subseteq Template /\ durationPassed' \in BOOLEAN
    /\ UNCHANGED <<experiment, outdated, services, reconciling>>
    /\ \A t \in Template : rs'[t].size = rs[t].size
    /\ \A a \in Analysis, i \in RunIds : UnderWay(a, i)' => UnderWay(a, i)
    /\ pass'.status = pass.status /\ pass'.new = pass.new /\ pass'.rs = pass.rs
    /\ pass'.todo = pass.todo

LEMMA ClusterType == ASSUME TypeOK, Cluster PROVE ClusterChanges
<1>1. ASSUME NEW t \in Template, PodBecomesAvailable(t) PROVE ClusterChanges
  <2>1. rs[t].avail + 1 \in Nat
    BY DEF TypeOK, ReplicaSetType
  <2> QED BY <1>1, <2>1, SetAvailableType
          DEF PodBecomesAvailable, SetAvailable, ClusterChanges, TypeOK, UnderWay, time
<1>2. ASSUME NEW t \in Template, PodsTerminate(t) PROVE ClusterChanges
  <2>1. rs[t].size \in Nat
    BY DEF TypeOK, ReplicaSetType
  <2> QED BY <1>2, <2>1, SetAvailableType
          DEF PodsTerminate, SetAvailable, ClusterChanges, TypeOK, UnderWay, time
<1>3. ASSUME NEW t \in Template, PodBecomesUnavailable(t) PROVE ClusterChanges
  <2>1. rs[t].avail - 1 \in Nat /\ budget.pods - 1 \in Nat
    BY <1>3 DEF PodBecomesUnavailable, TypeOK, ReplicaSetType
  <2>2. budget' \in [pods : Nat, api : Nat, passes : Nat, stale : Nat]
    BY <1>3, <2>1 DEF PodBecomesUnavailable, TypeOK
  <2> QED BY <1>3, <2>1, <2>2, SetAvailableType
          DEF PodBecomesUnavailable, SetAvailable, ClusterChanges, TypeOK, UnderWay, time
<1>4. ASSUME NEW t \in Template, ProgressDeadlinePasses(t) PROVE ClusterChanges
  BY <1>4 DEF ProgressDeadlinePasses, ClusterChanges, TypeOK, UnderWay, cluster
<1>5. ASSUME NEW t \in Template, ScaleDownDelayPasses(t) PROVE ClusterChanges
  <2>1. rs' \in [Template -> ReplicaSetType] /\ \A u \in Template : rs'[u].size = rs[u].size
    BY <1>5 DEF ScaleDownDelayPasses, TypeOK, ReplicaSetType
  <2> QED BY <1>5, <2>1 DEF ScaleDownDelayPasses, ClusterChanges, TypeOK, UnderWay, time
<1>6. ASSUME NEW a \in Analysis, NEW i \in RunIds, NEW phase \in Phases \ {"Pending"},
             (runs[a][i].exists /\ runs[a][i].phase \notin Completed) \/ phase \in Completed,
             runs' = [runs EXCEPT ![a][i].phase = phase]
      PROVE /\ runs' \in [Analysis -> [RunIds -> RunType]]
            /\ \A b \in Analysis, j \in RunIds : UnderWay(b, j)' => UnderWay(b, j)
  <2>1. runs[a][i] \in RunType
    BY DEF TypeOK
  <2> DEFINE run == [runs[a][i] EXCEPT !.phase = phase]
  <2>2. /\ run \in RunType /\ run.exists = runs[a][i].exists /\ run.phase = phase
        /\ run.terminate = runs[a][i].terminate
    BY <2>1 DEF RunType
  <2>3. runs' = [runs EXCEPT ![a] = [runs[a] EXCEPT ![i] = run]]
    BY <1>6 DEF TypeOK
  <2> HIDE DEF run
  <2>4. runs' \in [Analysis -> [RunIds -> RunType]]
    BY <2>2, <2>3 DEF TypeOK
  <2>5. ASSUME NEW b \in Analysis, NEW j \in RunIds, UnderWay(b, j)' PROVE UnderWay(b, j)
    BY <1>6, <2>2, <2>3, <2>5 DEF UnderWay, TypeOK
  <2> QED BY <2>4, <2>5
<1>7. ASSUME NEW a \in Analysis, NEW i \in RunIds, RunStarts(a, i) PROVE ClusterChanges
  <2>1. "Running" \in Phases \ {"Pending"} /\ "" \notin Completed
    BY DEF Phases, Completed
  <2>2. /\ runs[a][i].exists /\ runs[a][i].phase \notin Completed
        /\ runs' = [runs EXCEPT ![a][i].phase = "Running"]
    BY <1>7, <2>1 DEF RunStarts, RunMoves
  <2> QED BY <1>7, <1>6, <2>1, <2>2
          DEF RunStarts, RunMoves, ClusterChanges, TypeOK, time
<1>8. ASSUME NEW a \in Analysis, NEW i \in RunIds, RunCompletes(a, i) PROVE ClusterChanges
  <2>1. PICK phase \in Endings : runs' = [runs EXCEPT ![a][i].phase = phase]
    BY <1>8 DEF RunCompletes, RunMoves
  <2>2. phase \in Phases \ {"Pending"} /\ phase \in Completed
    BY EndingsAssumption DEF Phases, Completed
  <2> QED BY <1>8, <1>6, <2>1, <2>2
          DEF RunCompletes, RunMoves, ClusterChanges, TypeOK, time
<1>9. CASE DurationPasses
  BY <1>9 DEF DurationPasses, ClusterChanges, TypeOK, UnderWay, cluster
<1> QED BY <1>1, <1>2, <1>3, <1>4, <1>5, <1>7, <1>8, <1>9 DEF Cluster

LEMMA TypeNext == ASSUME TypeOK, [Next]_vars PROVE TypeOK'
<1>1. CASE BeginPass
  <2>1. PICK version \in {Current, cached} :
         /\ \/ version = Current /\ UNCHANGED <<outdated, budget>>
            \/ /\ version # Current /\ budget.stale > 0
               /\ outdated' = TRUE /\ budget' = [budget EXCEPT !.stale = @ - 1]
         /\ pass' = [NoPass EXCEPT !.terminate = version.terminate, !.status = version.status,
                                   !.new = version.status, !.rs = rs,
                                   !.todo = Template \cup Analysis]
    BY <1>1 DEF BeginPass
  <2>2. version.terminate \in BOOLEAN /\ version.status \in StatusType
    BY DEF Current, TypeOK
  <2>3. pass' \in PassType
    BY <2>1, <2>2, StartType DEF TypeOK
  <2>4. budget' \in [pods : Nat, api : Nat, passes : Nat, stale : Nat] /\ outdated' \in BOOLEAN
    <3>1. budget.stale > 0 => budget.stale - 1 \in Nat
      BY DEF TypeOK
    <3> QED BY <2>1, <3>1 DEF TypeOK
  <2> QED BY <1>1, <2>3, <2>4 DEF BeginPass, TypeOK, experiment, cluster, time
<1>2. CASE ReconcileTemplate
  BY <1>2, ReconcileTemplateType DEF ReconcileTemplate, TypeOK, experiment, time
<1>3. CASE ReconcileAnalysisRun
  BY <1>3, ReconcileAnalysisRunType DEF ReconcileAnalysisRun, TypeOK, experiment, time
<1>4. CASE PersistStatus
  <2>1. status' \in StatusType
    BY <1>4, MergedType DEF PersistStatus, TypeOK
  <2>2. cached' \in [terminate : BOOLEAN, status : StatusType]
    BY <1>4, <2>1 DEF PersistStatus, CacheLags, Current, TypeOK
  <2>3. pass' \in PassType /\ reconciling' \in BOOLEAN
    BY <1>4, StartType DEF PersistStatus, EndPass, TypeOK
  <2> QED BY <1>4, <2>1, <2>2, <2>3 DEF PersistStatus, TypeOK, cluster
<1>5. CASE PassFails
  <2>1. pass' \in PassType /\ reconciling' \in BOOLEAN
    BY <1>5, StartType DEF PassFails, EndPass, TypeOK
  <2>2. budget' \in [pods : Nat, api : Nat, passes : Nat, stale : Nat]
    <3>1. budget.passes - 1 \in Nat
      BY <1>5 DEF PassFails, TypeOK
    <3> QED BY <1>5, <3>1 DEF PassFails, TypeOK
  <2> QED BY <1>5, <2>1, <2>2 DEF PassFails, TypeOK, experiment, cluster, time
<1>6. CASE Cluster
  BY <1>6, ClusterType DEF ClusterChanges, TypeOK, experiment
<1>7. CASE Terminate
  BY <1>7 DEF Terminate, CacheLags, Current, TypeOK, cluster, time
<1>8. CASE UNCHANGED vars
  BY <1>8 DEF vars, TypeOK
<1> QED BY <1>1, <1>2, <1>3, <1>4, <1>5, <1>6, <1>7, <1>8 DEF Next, Controller

\* Every variable of Experiment stays in its range, whatever fails.
THEOREM TypeCorrect == Spec => []TypeOK
<1>1. Init => TypeOK
  BY TypeInit
<1>2. TypeOK /\ [Next]_vars => TypeOK'
  BY TypeNext
<1> QED BY <1>1, <1>2, PTL DEF Spec

-----------------------------------------------------------------------------
(* Trial is implemented.                                                   *)

(* Between two steps of a pass its snapshot still tells the stored status,  *)
(* unless some pass was outdated, and the sizes of the ReplicaSets that it  *)
(* has not seen to.                                                        *)
Snapshot ==
    /\ pass.new.phase = pass.status.phase
    /\ reconciling /\ ~outdated => pass.status = status
    /\ pass.todo # {} => reconciling
    /\ \A t \in pass.todo \cap Template : rs[t].size = pass.rs[t].size

LEMMA SnapshotNext == ASSUME TypeOK, Snapshot, [Next]_vars PROVE Snapshot'
<1>0. NoPass.new.phase = NoPass.status.phase /\ NoPass.todo = {}
  BY DEF NoPass
<1>1. CASE BeginPass
  <2>1. PICK version \in {Current, cached} :
         /\ \/ version = Current /\ UNCHANGED <<outdated, budget>>
            \/ /\ version # Current /\ budget.stale > 0
               /\ outdated' = TRUE /\ budget' = [budget EXCEPT !.stale = @ - 1]
         /\ pass' = [NoPass EXCEPT !.terminate = version.terminate, !.status = version.status,
                                   !.new = version.status, !.rs = rs,
                                   !.todo = Template \cup Analysis]
    BY <1>1 DEF BeginPass
  <2>2. pass'.status = version.status /\ pass'.new = version.status /\ pass'.rs = rs
    BY <2>1 DEF NoPass
  <2>3. ~outdated' => version.status = status
    BY <2>1 DEF Current
  <2> QED BY <1>1, <2>2, <2>3 DEF BeginPass, Snapshot, experiment, cluster
<1>2. CASE ReconcileTemplate
  <2>1. PICK t \in pass.todo \cap Template :
            /\ pass'.status = pass.status /\ pass'.rs = pass.rs
            /\ pass'.new.phase = pass.new.phase /\ pass'.todo = pass.todo \ {t}
            /\ \A u \in Template \ {t} : rs'[u].size = rs[u].size
    BY <1>2, ReconcileTemplateType
  <2>2. UNCHANGED <<status, outdated, reconciling>>
    BY <1>2 DEF ReconcileTemplate, experiment
  <2> QED BY <2>1, <2>2 DEF Snapshot
<1>3. CASE ReconcileAnalysisRun
  <2>1. PICK a \in pass.todo \cap Analysis :
            /\ pass'.status = pass.status /\ pass'.rs = pass.rs
            /\ pass'.new.phase = pass.new.phase /\ pass'.todo = pass.todo \ {a}
    BY <1>3, ReconcileAnalysisRunType
  <2>2. UNCHANGED <<status, outdated, reconciling, rs>>
    BY <1>3 DEF ReconcileAnalysisRun, experiment
  <2> QED BY <2>1, <2>2 DEF Snapshot
<1>4. CASE PersistStatus
  BY <1>4, <1>0 DEF PersistStatus, EndPass, Snapshot
<1>5. CASE PassFails
  BY <1>5, <1>0 DEF PassFails, EndPass, Snapshot
<1>6. CASE Cluster
  <2>1. ClusterChanges
    BY <1>6, ClusterType
  <2> QED BY <2>1 DEF ClusterChanges, Snapshot, experiment
<1>7. CASE Terminate
  BY <1>7 DEF Terminate, Snapshot, cluster
<1>8. CASE UNCHANGED vars
  BY <1>8 DEF vars, Snapshot
<1> QED BY <1>1, <1>2, <1>3, <1>4, <1>5, <1>6, <1>7, <1>8 DEF Next, Controller

LEMMA SnapshotInit == Init => Snapshot
BY DEF Init, InitWith, Snapshot, NoPass

\* The mapped state does not change when sizes and runs do not.
Pods == {t \in Template : rs[t].size > 0}
Analyses == {a \in Analysis : \E i \in RunIds : UnderWay(a, i)}

(* A step of the controller or of the cluster that leaves the verdict alone *)
(* is one before the verdict, or gives back.                               *)
LEMMA GivesBack ==
    ASSUME UNCHANGED <<status, outdated>>,
           status.phase \in Completed => Pods' \subseteq Pods /\ Analyses' \subseteq Analyses
    PROVE Promise!Next
<1>1. Pods' \subseteq Template /\ Analyses' \subseteq Analysis
  BY DEF Pods, Analyses
<1>2. CASE status.phase \in Completed
  BY <1>2 DEF Promise!Next, Promise!Release, Promise!Decided, Pods, Analyses
<1>3. CASE status.phase \notin Completed
  BY <1>1, <1>3 DEF Promise!Next, Promise!Proceed, Promise!Decided, Pods, Analyses
<1> QED BY <1>2, <1>3

\* What persistExperimentStatus stores keeps a verdict.
LEMMA VerdictKept ==
    ASSUME TypeOK, Snapshot, reconciling, ~outdated, status.phase \in Completed
    PROVE Merged.phase = status.phase
<1>1. pass.new.phase = status.phase /\ pass.status.phase = status.phase
  BY DEF Snapshot
<1>2. NewPhase = status.phase
  BY <1>1 DEF NewPhase, Completed
<1>3. NewStatus.phase = status.phase
  BY <1>2 DEF NewStatus, TypeOK, PassType, StatusType
<1>4. "phase" \in DOMAIN status
  BY DEF TypeOK, StatusType
<1> QED BY <1>1, <1>3, <1>4 DEF Merged

LEMMA TrialNext ==
    ASSUME TypeOK, Snapshot, [Next]_vars PROVE [Promise!Next]_(Promise!vars)
<1>1. CASE outdated
  BY <1>1 DEF Promise!Next
<1>2. CASE ~outdated
  <2>1. CASE BeginPass
    <3>1. UNCHANGED <<status.phase, rs, runs>>
      BY <2>1 DEF BeginPass, experiment, cluster
    <3>2. outdated' = outdated \/ outdated' = TRUE
      BY <2>1 DEF BeginPass
    <3>3. UNCHANGED Pods /\ UNCHANGED Analyses
      BY <3>1 DEF Pods, Analyses, UnderWay
    <3> QED BY <1>2, <3>1, <3>2, <3>3
            DEF Promise!vars, Promise!Next, Promise!Lapse, Pods, Analyses
  <2>2. CASE ReconcileTemplate
    <3>1. PICK t \in pass.todo \cap Template :
            /\ rs' \in [Template -> ReplicaSetType]
            /\ \A u \in Template \ {t} : rs'[u].size = rs[u].size
            /\ pass.status.phase \in Completed /\ rs[t].size = pass.rs[t].size
                 => (rs'[t].size > 0 => rs[t].size > 0)
      BY <2>2, ReconcileTemplateType
    <3>2. UNCHANGED <<status, outdated, runs, reconciling>>
      BY <2>2 DEF ReconcileTemplate, experiment
    <3>3. pass.status = status /\ rs[t].size = pass.rs[t].size
      BY <1>2, <3>1 DEF Snapshot
    <3>4. status.phase \in Completed => Pods' \subseteq Pods
      BY <3>1, <3>3 DEF Pods
    <3>5. UNCHANGED Analyses
      BY <3>2 DEF Analyses, UnderWay
    <3> QED BY <3>2, <3>4, <3>5, GivesBack
  <2>3. CASE ReconcileAnalysisRun
    <3>1. pass.status.phase \in Completed =>
            \A b \in Analysis, i \in RunIds : UnderWay(b, i)' => UnderWay(b, i)
      BY <2>3, ReconcileAnalysisRunType
    <3>2. UNCHANGED <<status, outdated, rs>>
      BY <2>3 DEF ReconcileAnalysisRun, experiment
    <3>3. pass.status = status
      BY <1>2, <2>3 DEF Snapshot, ReconcileAnalysisRun
    <3>4. status.phase \in Completed => Analyses' \subseteq Analyses
      BY <3>1, <3>3 DEF Analyses
    <3>5. UNCHANGED Pods
      BY <3>2 DEF Pods
    <3> QED BY <3>2, <3>4, <3>5, GivesBack
  <2>4. CASE PersistStatus
    <3>1. UNCHANGED <<rs, runs, outdated>> /\ status' = Merged /\ reconciling
      BY <2>4 DEF PersistStatus, cluster
    <3>2. UNCHANGED Pods /\ UNCHANGED Analyses
      BY <3>1 DEF Pods, Analyses, UnderWay
    <3>3. CASE status.phase \in Completed
      <4>1. status'.phase = status.phase
        BY <1>2, <3>1, <3>3, VerdictKept
      <4> QED BY <3>1, <3>2, <4>1 DEF Promise!vars, Pods, Analyses
    <3>4. CASE status.phase \notin Completed
      <4>1. CASE status'.phase \in Completed
        BY <3>1, <3>2, <3>4, <4>1
        DEF Promise!Next, Promise!Decide, Promise!Decided, Pods, Analyses
      <4>2. CASE status'.phase \notin Completed
        <5>1. Pods' \subseteq Template /\ Analyses' \subseteq Analysis
          BY DEF Pods, Analyses
        <5> QED BY <3>1, <3>4, <4>2, <5>1
                DEF Promise!Next, Promise!Proceed, Promise!Decided, Pods, Analyses
      <4> QED BY <4>1, <4>2
    <3> QED BY <3>3, <3>4
  <2>5. CASE Cluster
    <3>1. ClusterChanges
      BY <2>5, ClusterType
    <3>2. UNCHANGED <<status, outdated>>
      BY <3>1 DEF ClusterChanges, experiment
    <3>3. Pods' \subseteq Pods /\ Analyses' \subseteq Analyses
      BY <3>1 DEF ClusterChanges, Pods, Analyses
    <3> QED BY <3>2, <3>3, GivesBack
  <2>6. CASE PassFails \/ Terminate \/ UNCHANGED vars
    <3>1. UNCHANGED <<status, rs, runs, outdated>>
      BY <2>6 DEF PassFails, Terminate, vars, experiment, cluster
    <3>2. UNCHANGED Pods /\ UNCHANGED Analyses
      BY <3>1 DEF Pods, Analyses, UnderWay
    <3> QED BY <3>1, <3>2 DEF Promise!vars, Pods, Analyses
  <2> QED BY <2>1, <2>2, <2>3, <2>4, <2>5, <2>6 DEF Next, Controller
<1> QED BY <1>1, <1>2

LEMMA TrialInit == Init => Promise!Init
<1> SUFFICES ASSUME Init PROVE Promise!Init
  OBVIOUS
<1>1. status.phase \notin Completed /\ outdated = FALSE
  BY DEF Init, InitWith, NoStatus, Completed
<1>2. Pods = {} /\ Analyses = {}
  <2>1. \A t \in Template : rs[t] = NoReplicaSet
    BY DEF Init, InitWith
  <2>2. \A a \in Analysis, i \in RunIds : runs[a][i] = NoRun
    BY DEF Init, InitWith
  <2>3. ~(NoReplicaSet.size > 0) /\ NoRun.exists = FALSE
    BY DEF NoReplicaSet, NoRun
  <2>4. Pods = {}
    BY <2>1, <2>3 DEF Pods
  <2>5. Analyses = {}
    BY <2>2, <2>3 DEF Analyses, UnderWay
  <2> QED BY <2>4, <2>5
<1> QED BY <1>1, <1>2 DEF Promise!Init, Promise!Decided, Pods, Analyses

(* The controller implements Trial: its verdict is stored once, and nothing *)
(* is taken up after it, whatever the templates, analyses, failures and     *)
(* interleavings, as long as no pass starts from an outdated version.       *)
THEOREM ImplementsTrial == Spec => TrialIsImplemented
<1>1. Init => TypeOK /\ Snapshot /\ Promise!Init
  BY TypeInit, SnapshotInit, TrialInit
<1>2. TypeOK /\ Snapshot /\ [Next]_vars => TypeOK' /\ Snapshot'
  BY TypeNext, SnapshotNext
<1>3. TypeOK /\ Snapshot /\ [Next]_vars => [Promise!Next]_(Promise!vars)
  BY TrialNext
<1> QED BY <1>1, <1>2, <1>3, PTL DEF Spec, TrialIsImplemented, Promise!Spec

-----------------------------------------------------------------------------
(* A verdict of success is earned.                                         *)

\* A template or a run of a status went wrong: the verdict will not be Successful.
Flawed(s) ==
    \/ \E t \in Template : s.templates[t].status \in {"Failed", "Error"}
    \/ \E a \in Analysis : s.runs[a].phase \in Completed \ {"Successful"}

\* Why a template may be Successful before the verdict.
Justified(s, stop) ==
    s.phase \notin Completed /\ (\E t \in Template : s.templates[t].status = "Successful")
      => stop \/ durationPassed \/ RequiredSuccessful(s) \/ Flawed(s)

\* What a pass makes of a template and of a run: a recorded failure stays, and so
\* does a recorded success once it ends the Experiment.
TemplateSeen(t) ==
    LET recorded == pass.status.templates[t].status
        assessed == pass.new.templates[t].status
    IN /\ assessed # ""
       /\ recorded \in {"Failed", "Error"} => assessed \in {"Failed", "Error"}
       /\ assessed = "Successful" => recorded = "Successful" \/ PassedDuration \/ IsTerminating
RunSeen(a) ==
    IsTerminating /\ pass.status.runs[a].phase \in Completed
      => pass.new.runs[a].phase \in {pass.status.runs[a].phase, "Error"}
Seen ==
    /\ \A t \in Template \ pass.todo : TemplateSeen(t)
    /\ \A a \in Analysis \ pass.todo : RunSeen(a)

Justification ==
    /\ ~outdated => Justified(status, terminate)
    /\ reconciling => Seen
    /\ reconciling /\ ~outdated => /\ Justified(pass.status, pass.terminate)
                                   /\ pass.terminate => terminate

\* A step of a pass leaves what the pass decides by.
LEMMA SameDecisions ==
    ASSUME UNCHANGED spec, pass'.terminate = pass.terminate, pass'.status = pass.status
    PROVE /\ IsTerminating' = IsTerminating
          /\ (durationPassed => durationPassed') => (PassedDuration => PassedDuration')
<1>1. RequiredSuccessful(pass.status)' = RequiredSuccessful(pass.status)
  BY DEF RequiredSuccessful
<1> QED BY <1>1 DEF IsTerminating, PassedDuration

\* What the end of reconcileTemplate makes of the status.
LEMMA AssessedTemplate ==
    ASSUME TypeOK, NEW t \in Template, NEW code, NEW avail, NEW moved,
           AssessTemplate(t, code, avail, moved)
    PROVE /\ pass'.terminate = pass.terminate /\ pass'.status = pass.status
          /\ pass'.new.runs = pass.new.runs /\ pass'.todo = pass.todo \ {t}
          /\ \A u \in Template \ {t} : pass'.new.templates[u] = pass.new.templates[u]
          /\ pass'.new.templates[t].status # ""
          /\ code \in Completed => pass'.new.templates[t].status = code
          /\ code \notin Completed /\ pass'.new.templates[t].status = "Successful"
               => PassedDuration \/ IsTerminating
<1> DEFINE moves == moved \/ avail # pass.status.templates[t].avail
           assessed ==
            CASE code \in Completed -> code
              [] code \notin Completed /\ DesiredReplicas(t) = avail ->
                   IF PassedDuration \/ IsTerminating THEN "Successful" ELSE "Running"
              [] code \notin Completed /\ DesiredReplicas(t) # avail ->
                   IF t \in late /\ ~moves THEN "Failed"
                   ELSE IF IsTerminating THEN "Successful" ELSE "Progressing"
           r == [status |-> assessed, avail |-> avail]
           m == IF moves THEN pass.moved \cup {t} ELSE pass.moved
           d == pass.todo \ {t}
<1>1. pass' = [pass EXCEPT !.new.templates[t] = r, !.moved = m, !.todo = d]
  BY Zenon DEF AssessTemplate
<1>2. /\ assessed # ""
      /\ code \in Completed => assessed = code
      /\ code \notin Completed /\ assessed = "Successful" => PassedDuration \/ IsTerminating
  BY DEF Completed
<1>3. r.status = assessed
  OBVIOUS
<1> HIDE DEF r, m, assessed
<1>4. /\ pass'.terminate = pass.terminate /\ pass'.status = pass.status
      /\ pass'.new.runs = pass.new.runs /\ pass'.todo = pass.todo \ {t}
      /\ \A u \in Template \ {t} : pass'.new.templates[u] = pass.new.templates[u]
      /\ pass'.new.templates[t] = r
  BY <1>1 DEF TypeOK, PassType, StatusType
<1> QED BY <1>2, <1>3, <1>4

\* A template or a run that the pass sees to is seen as it should be.
LEMMA TemplateIsSeen ==
    ASSUME TypeOK, ReconcileTemplate, Seen
    PROVE Seen' /\ pass'.status = pass.status /\ pass'.terminate = pass.terminate
<1>1. PICK t \in pass.todo \cap Template :
         \/ CreateReplicaSet(t)
         \/ /\ pass.rs[t].exists
            /\ \E fails \in SUBSET {"service", "delay", "get", "scale"} :
                 ApiFailures(Cardinality(fails)) /\ ScaleTemplate(t, fails)
  BY FirstOf DEF ReconcileTemplate
<1>2. \E code \in {"Error", pass.status.templates[t].status} :
        \E avail, moved : AssessTemplate(t, code, avail, moved)
  <2>1. CASE CreateReplicaSet(t)
    BY <2>1, Zenon DEF CreateReplicaSet
  <2>2. ASSUME NEW fails \in SUBSET {"service", "delay", "get", "scale"}, ScaleTemplate(t, fails)
        PROVE \E code \in {"Error", pass.status.templates[t].status} :
                \E avail, moved : AssessTemplate(t, code, avail, moved)
    <3> DEFINE code == IF fails \cap {"service", "scale"} # {} THEN "Error"
                       ELSE pass.status.templates[t].status
    <3>1. \E avail, moved : AssessTemplate(t, code, avail, moved)
      BY <2>2, Zenon DEF ScaleTemplate
    <3>2. code \in {"Error", pass.status.templates[t].status}
      OBVIOUS
    <3> HIDE DEF code
    <3> QED BY <3>1, <3>2
  <2> QED BY <1>1, <2>1, <2>2
<1>3. PICK code, avail, moved :
        /\ code \in {"Error", pass.status.templates[t].status}
        /\ AssessTemplate(t, code, avail, moved)
  BY <1>2
<1>4. /\ pass'.terminate = pass.terminate /\ pass'.status = pass.status
      /\ pass'.new.runs = pass.new.runs /\ pass'.todo = pass.todo \ {t}
      /\ \A u \in Template \ {t} : pass'.new.templates[u] = pass.new.templates[u]
      /\ pass'.new.templates[t].status # ""
      /\ code \in Completed => pass'.new.templates[t].status = code
      /\ code \notin Completed /\ pass'.new.templates[t].status = "Successful"
           => PassedDuration \/ IsTerminating
  BY <1>3, AssessedTemplate
<1>5. UNCHANGED <<spec, durationPassed>>
  BY DEF ReconcileTemplate, experiment, time
<1>6. IsTerminating' = IsTerminating /\ (PassedDuration => PassedDuration')
  BY <1>4, <1>5, SameDecisions
<1>7. TemplateSeen(t)'
  BY <1>3, <1>4, <1>6 DEF TemplateSeen, Completed
<1>8. ASSUME NEW u \in Template \ pass.todo PROVE TemplateSeen(u)'
  <2>1. u # t /\ TemplateSeen(u)
    BY DEF Seen
  <2> QED BY <2>1, <1>4, <1>6 DEF TemplateSeen
<1>9. ASSUME NEW a \in Analysis \ pass'.todo PROVE RunSeen(a)'
  <2>1. a \notin pass.todo
    BY <1>4, NamesAssumption
  <2> QED BY <2>1, <1>4, <1>6 DEF RunSeen, Seen
<1> QED BY <1>4, <1>7, <1>8, <1>9 DEF Seen

LEMMA RunIsSeen ==
    ASSUME TypeOK, ReconcileAnalysisRun, Seen
    PROVE Seen' /\ pass'.status = pass.status /\ pass'.terminate = pass.terminate
<1>1. PICK a \in pass.todo \cap Analysis :
         VerifyAnalysisTemplate(a) \/ CreateAnalysisRun(a) \/ WatchAnalysisRun(a)
  BY FirstOf DEF ReconcileAnalysisRun
<1>2. \E run, phase : /\ SetRun(a, run, phase)
                      /\ IsTerminating /\ Recorded(a).phase \in Completed
                           => phase \in {Recorded(a).phase, "Error"}
  BY <1>1, Zenon
  DEF VerifyAnalysisTemplate, CreateAnalysisRun, WatchAnalysisRun, KeepRun
<1>3. PICK run, phase : /\ SetRun(a, run, phase)
                        /\ IsTerminating /\ Recorded(a).phase \in Completed
                             => phase \in {Recorded(a).phase, "Error"}
  BY <1>2
<1>4. /\ pass'.terminate = pass.terminate /\ pass'.status = pass.status
      /\ pass'.new.templates = pass.new.templates /\ pass'.todo = pass.todo \ {a}
      /\ \A b \in Analysis \ {a} : pass'.new.runs[b] = pass.new.runs[b]
      /\ pass'.new.runs[a].phase = phase
  BY <1>3 DEF SetRun, TypeOK, PassType, StatusType
<1>5. UNCHANGED <<spec, durationPassed>>
  BY DEF ReconcileAnalysisRun, experiment, time
<1>6. IsTerminating' = IsTerminating /\ (PassedDuration => PassedDuration')
  BY <1>4, <1>5, SameDecisions
<1>7. RunSeen(a)'
  BY <1>3, <1>4, <1>6 DEF RunSeen, Recorded
<1>8. ASSUME NEW b \in Analysis \ pass.todo PROVE RunSeen(b)'
  <2>1. b # a /\ RunSeen(b)
    BY DEF Seen
  <2> QED BY <2>1, <1>4, <1>6 DEF RunSeen
<1>9. ASSUME NEW t \in Template \ pass'.todo PROVE TemplateSeen(t)'
  <2>1. t \notin pass.todo
    BY <1>4, NamesAssumption
  <2> QED BY <2>1, <1>4, <1>6 DEF TemplateSeen, Seen
<1> QED BY <1>4, <1>7, <1>8, <1>9 DEF Seen

\* A patch from a snapshot that tells the stored status stores what was decided.
LEMMA PatchedStatus ==
    ASSUME TypeOK, Snapshot, PersistStatus, ~outdated
    PROVE /\ status'.phase = NewPhase /\ status'.templates = pass.new.templates
          /\ status'.runs = pass.new.runs /\ pass.status = status
          /\ pass.new.phase = pass.status.phase
<1>1. pass.status = status /\ status' = Merged /\ pass.new.phase = pass.status.phase
  BY DEF Snapshot, PersistStatus
<1>2. /\ NewStatus.phase = NewPhase /\ NewStatus.templates = pass.new.templates
      /\ NewStatus.runs = pass.new.runs
  BY DEF NewStatus, TypeOK, PassType, StatusType
<1>3. DOMAIN status = {"phase", "available", "templates", "runs"}
  BY DEF TypeOK, StatusType
<1> QED BY <1>1, <1>2, <1>3 DEF Merged

\* What was a reason for a Successful template is one in the new status.
LEMMA ReasonStays ==
    ASSUME TypeOK, Snapshot, Seen, pass.todo = {}, NewPhase \notin Completed \ {"Successful"},
           pass.status.phase \notin Completed,
           Justified(pass.status, pass.terminate),
           NEW t \in Template, pass.new.templates[t].status = "Successful"
    PROVE pass.terminate \/ durationPassed \/ RequiredSuccessful(pass.new) \/ Flawed(pass.new)
<1>1. TemplateSeen(t) /\ (\A u \in Template : TemplateSeen(u)) /\ \A a \in Analysis : RunSeen(a)
  BY DEF Seen
<1>2. Flawed(pass.status) => Flawed(pass.new)
  <2>1. ASSUME NEW u \in Template, pass.status.templates[u].status \in {"Failed", "Error"}
        PROVE Flawed(pass.new)
    BY <1>1, <2>1 DEF TemplateSeen, Flawed
  <2>2. ASSUME NEW a \in Analysis, pass.status.runs[a].phase \in Completed \ {"Successful"}
        PROVE Flawed(pass.new)
    <3>1. IsTerminating
      BY <2>2 DEF IsTerminating
    <3>2. pass.new.runs[a].phase \in Completed \ {"Successful"}
      BY <1>1, <2>2, <3>1 DEF RunSeen, Completed
    <3> QED BY <3>2 DEF Flawed
  <2> QED BY <2>1, <2>2 DEF Flawed
<1>3. RequiredSuccessful(pass.status) => RequiredSuccessful(pass.new) \/ Flawed(pass.new)
  <2> SUFFICES ASSUME RequiredSuccessful(pass.status), ~RequiredSuccessful(pass.new)
               PROVE Flawed(pass.new)
    OBVIOUS
  <2>1. PICK a \in spec.required : pass.new.runs[a].phase # "Successful"
    BY DEF RequiredSuccessful
  <2>2. a \in Analysis
    BY DEF TypeOK, SpecType
  <2>3. IsTerminating /\ pass.status.runs[a].phase = "Successful"
    BY DEF IsTerminating, RequiredSuccessful
  <2>4. pass.new.runs[a].phase = "Error"
    BY <1>1, <2>1, <2>2, <2>3 DEF RunSeen, Completed
  <2> QED BY <2>2, <2>4 DEF Flawed, Completed
<1>4. IsTerminating => pass.terminate \/ RequiredSuccessful(pass.status) \/ Flawed(pass.status)
  BY DEF IsTerminating, Flawed
<1>5. PassedDuration => durationPassed
  BY DEF PassedDuration
<1>6. pass.status.templates[t].status = "Successful" \/ durationPassed \/ IsTerminating
  BY <1>1, <1>5 DEF TemplateSeen
<1> QED BY <1>2, <1>3, <1>4, <1>6 DEF Justified

\* Time and the user take no justification away.
LEMMA StatusStaysJustified ==
    ASSUME UNCHANGED <<spec, status>>, terminate => terminate', durationPassed => durationPassed',
           Justified(status, terminate)
    PROVE Justified(status, terminate)'
<1>1. RequiredSuccessful(status)' = RequiredSuccessful(status) /\ Flawed(status)' = Flawed(status)
  BY DEF RequiredSuccessful, Flawed
<1> QED BY <1>1 DEF Justified

LEMMA SnapshotStaysJustified ==
    ASSUME UNCHANGED spec, pass'.status = pass.status, pass'.terminate = pass.terminate,
           durationPassed => durationPassed', Justified(pass.status, pass.terminate)
    PROVE Justified(pass.status, pass.terminate)'
<1>1. /\ RequiredSuccessful(pass.status)' = RequiredSuccessful(pass.status)
      /\ Flawed(pass.status)' = Flawed(pass.status)
  BY DEF RequiredSuccessful, Flawed
<1> QED BY <1>1 DEF Justified

\* What stays when only the cluster, time or the user moves.
LEMMA MovesTime ==
    ASSUME TypeOK, Cluster
    PROVE (durationPassed => durationPassed') /\ pass'.terminate = pass.terminate
<1>1. ASSUME NEW t \in Template, NEW n, SetAvailable(t, n)
      PROVE UNCHANGED durationPassed /\ pass'.terminate = pass.terminate
  BY <1>1 DEF SetAvailable, TypeOK, PassType, time
<1>2. ASSUME NEW t \in Template,
             PodBecomesAvailable(t) \/ PodsTerminate(t) \/ PodBecomesUnavailable(t)
      PROVE \E n : SetAvailable(t, n)
  BY <1>2, Zenon DEF PodBecomesAvailable, PodsTerminate, PodBecomesUnavailable
<1>3. ASSUME NEW t \in Template, ProgressDeadlinePasses(t) \/ ScaleDownDelayPasses(t)
      PROVE UNCHANGED <<durationPassed, pass>>
  BY <1>3 DEF ProgressDeadlinePasses, ScaleDownDelayPasses, time
<1>4. ASSUME NEW a \in Analysis, NEW i \in RunIds, RunStarts(a, i) \/ RunCompletes(a, i)
      PROVE UNCHANGED <<durationPassed, pass>>
  BY <1>4 DEF RunStarts, RunCompletes, RunMoves, time
<1>5. ASSUME DurationPasses PROVE durationPassed' /\ UNCHANGED pass
  BY <1>5 DEF DurationPasses
<1> QED BY <1>1, <1>2, <1>3, <1>4, <1>5 DEF Cluster

(* Every step keeps it: a pass copies it, the patch renews it by ReasonStays. *)
LEMMA JustificationNext ==
    ASSUME TypeOK, Snapshot, Justification, [Next]_vars PROVE Justification'
<1>1. CASE BeginPass
  <2>1. PICK version \in {Current, cached} :
         /\ \/ version = Current /\ UNCHANGED <<outdated, budget>>
            \/ /\ version # Current /\ budget.stale > 0
               /\ outdated' = TRUE /\ budget' = [budget EXCEPT !.stale = @ - 1]
         /\ pass' = [NoPass EXCEPT !.terminate = version.terminate, !.status = version.status,
                                   !.new = version.status, !.rs = rs,
                                   !.todo = Template \cup Analysis]
    BY <1>1 DEF BeginPass
  <2>2. /\ pass'.status = version.status /\ pass'.terminate = version.terminate
        /\ pass'.todo = Template \cup Analysis
    BY <2>1 DEF NoPass
  <2>3. ~outdated' => ~outdated /\ version.status = status /\ version.terminate = terminate
    BY <2>1 DEF Current
  <2>4. UNCHANGED <<spec, status, terminate, durationPassed>>
    BY <1>1 DEF BeginPass, experiment, time
  <2>5. ~outdated' => Justified(status, terminate)'
    BY <2>3, <2>4, StatusStaysJustified DEF Justification
  <2>6. ~outdated' => Justified(pass.status, pass.terminate)'
    <3> SUFFICES ASSUME ~outdated' PROVE Justified(pass.status, pass.terminate)'
      OBVIOUS
    <3>1. pass'.status = status' /\ pass'.terminate = terminate'
      BY <2>2, <2>3, <2>4
    <3> QED BY <3>1, <2>5 DEF Justified, RequiredSuccessful, Flawed
  <2>7. Seen'
    BY <2>2 DEF Seen
  <2> QED BY <2>2, <2>3, <2>4, <2>5, <2>6, <2>7 DEF Justification
<1>2. CASE ReconcileTemplate \/ ReconcileAnalysisRun
  <2>1. UNCHANGED <<spec, status, terminate, durationPassed, outdated, reconciling>>
    BY <1>2 DEF ReconcileTemplate, ReconcileAnalysisRun, experiment, time
  <2>2. reconciling
    BY <1>2 DEF ReconcileTemplate, ReconcileAnalysisRun, Snapshot
  <2>3. Seen' /\ pass'.status = pass.status /\ pass'.terminate = pass.terminate
    BY <1>2, <2>2, TemplateIsSeen, RunIsSeen DEF Justification
  <2> QED BY <2>1, <2>2, <2>3, StatusStaysJustified, SnapshotStaysJustified
          DEF Justification
<1>3. CASE PersistStatus
  <2>1. UNCHANGED <<spec, terminate, durationPassed, outdated>> /\ reconciling' = FALSE
        /\ reconciling /\ pass.todo = {}
    BY <1>3 DEF PersistStatus, EndPass
  <2> SUFFICES ASSUME ~outdated PROVE Justified(status, terminate)'
    BY <2>1 DEF Justification
  <2>2. /\ status'.phase = NewPhase /\ status'.templates = pass.new.templates
        /\ status'.runs = pass.new.runs /\ pass.status = status
        /\ pass.new.phase = pass.status.phase
    BY <1>3, PatchedStatus
  <2>3. /\ RequiredSuccessful(status)' = RequiredSuccessful(pass.new)
        /\ Flawed(status)' = Flawed(pass.new)
    BY <2>1, <2>2 DEF RequiredSuccessful, Flawed
  <2> SUFFICES ASSUME NewPhase \notin Completed, NEW t \in Template,
                      pass.new.templates[t].status = "Successful"
               PROVE terminate \/ durationPassed \/ RequiredSuccessful(pass.new) \/ Flawed(pass.new)
    BY <2>1, <2>2, <2>3 DEF Justified
  <2>4. pass.status.phase \notin Completed
    BY <2>2 DEF NewPhase, Completed
  <2> QED BY <2>1, <2>4, ReasonStays DEF Justification
<1>4. CASE PassFails
  <2>1. UNCHANGED <<spec, status, terminate, durationPassed, outdated>> /\ reconciling' = FALSE
    BY <1>4 DEF PassFails, EndPass, experiment, time
  <2> QED BY <2>1, StatusStaysJustified DEF Justification
<1>5. CASE Cluster
  <2>1. ClusterChanges /\ (durationPassed => durationPassed') /\ pass'.terminate = pass.terminate
    BY <1>5, ClusterType, MovesTime
  <2>2. /\ UNCHANGED <<spec, status, terminate, outdated, reconciling>>
        /\ pass'.status = pass.status /\ pass'.new = pass.new /\ pass'.todo = pass.todo
    BY <2>1 DEF ClusterChanges, experiment
  <2>3. IsTerminating' = IsTerminating /\ (PassedDuration => PassedDuration')
    BY <2>1, <2>2, SameDecisions
  <2>4. Seen => Seen'
    BY <2>2, <2>3 DEF Seen, TemplateSeen, RunSeen
  <2> QED BY <2>1, <2>2, <2>4, StatusStaysJustified, SnapshotStaysJustified DEF Justification
<1>6. CASE Terminate
  <2>1. UNCHANGED <<spec, status, durationPassed, outdated, reconciling, pass>> /\ terminate'
    BY <1>6 DEF Terminate, time
  <2>2. IsTerminating' = IsTerminating /\ (PassedDuration => PassedDuration')
    BY <2>1, SameDecisions
  <2>3. Seen => Seen'
    BY <2>1, <2>2 DEF Seen, TemplateSeen, RunSeen
  <2> QED BY <2>1, <2>3, StatusStaysJustified, SnapshotStaysJustified DEF Justification
<1>7. CASE UNCHANGED vars
  <2>1. UNCHANGED <<spec, status, terminate, durationPassed, outdated, reconciling, pass>>
    BY <1>7 DEF vars
  <2>2. IsTerminating' = IsTerminating /\ (PassedDuration => PassedDuration')
    BY <2>1, SameDecisions
  <2>3. Seen => Seen'
    BY <2>1, <2>2 DEF Seen, TemplateSeen, RunSeen
  <2> QED BY <2>1, <2>3, StatusStaysJustified, SnapshotStaysJustified DEF Justification
<1> QED BY <1>1, <1>2, <1>3, <1>4, <1>5, <1>6, <1>7 DEF Next, Controller

LEMMA JustificationInit == Init => Justification
<1> SUFFICES ASSUME Init PROVE Justification
  OBVIOUS
<1>1. reconciling = FALSE /\ status = NoStatus
  BY DEF Init, InitWith
<1>2. \A t \in Template : NoStatus.templates[t].status = ""
  BY DEF NoStatus
<1>3. Justified(status, terminate)
  BY <1>1, <1>2 DEF Justified
<1> QED BY <1>1, <1>3 DEF Justification

\* The verdict of calculateStatus, and what it was made of.
LEMMA SuccessStep ==
    ASSUME Template # {}, TypeOK, Snapshot, Justification, [Next]_vars, ~outdated,
           status.phase \notin Completed, status'.phase = "Successful"
    PROVE /\ \A t \in Template : status'.templates[t].status \notin {"Failed", "Error"}
          /\ \A a \in Analysis : status'.runs[a].phase \in {"", "Pending", "Running", "Successful"}
          /\ \/ pass.terminate
             \/ RequiredSuccessful(status')
             \/ /\ durationPassed
                /\ \A a \in spec.required : status'.runs[a].phase \in {"", "Successful"}
<1>1. PersistStatus
  <2>1. status' # status
    BY DEF Completed
  <2> QED BY <2>1, ClusterType
          DEF Next, Controller, BeginPass, ReconcileTemplate, ReconcileAnalysisRun, PassFails,
              Terminate, ClusterChanges, vars, experiment
<1>2. /\ NewPhase = "Successful" /\ status'.templates = pass.new.templates
      /\ status'.runs = pass.new.runs /\ pass.status = status
      /\ pass.new.phase = pass.status.phase
  BY <1>1, PatchedStatus
<1>3. pass.new.phase # "" /\ pass.new.phase \notin Completed
  BY <1>2 DEF NewPhase
<1>4. \/ AssessTemplates = "Successful" /\ AssessAnalysisRuns = "Successful"
      \/ /\ AssessTemplates = "Successful" /\ AssessAnalysisRuns \notin Completed
         /\ spec.required = {}
      \/ /\ AssessTemplates \notin Completed /\ AssessAnalysisRuns = "Successful"
         /\ RequiredSuccessful(pass.new)
  BY <1>2, <1>3 DEF NewPhase, Completed
<1>5. RequiredSuccessful(status') <=> RequiredSuccessful(pass.new)
  BY <1>2 DEF RequiredSuccessful
<1>6. \A t \in Template : pass.new.templates[t].status \notin {"Failed", "Error"}
  BY <1>4, TemplatesAssessed DEF Completed
<1>7. \A a \in Analysis : pass.new.runs[a].phase \in {"", "Pending", "Running", "Successful"}
  <2>1. \A a \in Analysis : pass.new.runs[a].phase \in Phases
    BY DEF TypeOK, PassType, StatusType
  <2> QED BY <1>4, <2>1, RunsAssessed DEF Completed, Phases
<1>8. ~Flawed(pass.new)
  BY <1>6, <1>7 DEF Flawed, Completed
<1>9. CASE AssessTemplates = "Successful"
  <2>1. PICK t \in Template : TRUE
    OBVIOUS
  <2>2. reconciling /\ pass.todo = {}
    BY <1>1 DEF PersistStatus
  <2>3. Seen /\ Justified(pass.status, pass.terminate)
    BY <2>2 DEF Justification
  <2>4. pass.new.templates[t].status = "Successful"
    <3>1. pass.new.templates[t].status # ""
      BY <2>2, <2>3 DEF Seen, TemplateSeen
    <3>2. pass.new.templates[t].status \in TemplateStatuses
      BY DEF TypeOK, PassType, StatusType
    <3> QED BY <1>9, <3>1, <3>2, TemplatesAssessed DEF TemplateStatuses
  <2>5. pass.terminate \/ durationPassed \/ RequiredSuccessful(pass.new)
    BY <1>2, <1>3, <1>8, <2>2, <2>3, <2>4, ReasonStays DEF Completed
  <2>6. \A a \in spec.required : pass.new.runs[a].phase \in {"", "Successful"}
    <3>1. spec.required \subseteq Analysis
      BY DEF TypeOK, SpecType
    <3> QED BY <1>4, <1>7, <1>9, <3>1, RunsAssessed DEF Completed
  <2> QED BY <1>2, <1>5, <1>6, <1>7, <2>5, <2>6
<1>10. CASE AssessTemplates # "Successful"
  BY <1>2, <1>4, <1>5, <1>6, <1>7, <1>10
<1> QED BY <1>9, <1>10

(* An Experiment with a template becomes Successful only as SuccessIsEarned  *)
(* says, whatever the templates, analyses, spec, failures and interleavings. *)
(* One without a template, which the CRD allows, is Successful before        *)
(* anything ran.                                                            *)
THEOREM SuccessIsEarnedHolds ==
    ASSUME Template # {} PROVE Spec => SuccessIsEarned
<1>1. Init => TypeOK /\ Snapshot /\ Justification
  BY TypeInit, SnapshotInit, JustificationInit
<1>2. TypeOK /\ Snapshot /\ Justification /\ [Next]_vars => TypeOK' /\ Snapshot' /\ Justification'
  BY TypeNext, SnapshotNext, JustificationNext
<1>3. TypeOK /\ Snapshot /\ Justification /\ [Next]_vars =>
        [ (~outdated /\ status.phase \notin Completed /\ status'.phase = "Successful") =>
          /\ \A t \in Template : status'.templates[t].status \notin {"Failed", "Error"}
          /\ \A a \in Analysis : status'.runs[a].phase \in {"", "Pending", "Running", "Successful"}
          /\ \/ pass.terminate
             \/ RequiredSuccessful(status')
             \/ /\ durationPassed
                /\ \A a \in spec.required : status'.runs[a].phase \in {"", "Successful"} ]_vars
  BY SuccessStep
<1> QED BY <1>1, <1>2, <1>3, PTL DEF Spec, SuccessIsEarned
=============================================================================
