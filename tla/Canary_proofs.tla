---------------------------- MODULE Canary_proofs ----------------------------
(***************************************************************************)
(* Proofs about Canary, for every set of hashes, every strategy and every  *)
(* bound:                                                                  *)
(*   TypeCorrect          the type invariant;                              *)
(*   PauseNeedsUserHolds  an indefinite pause waits for a user;            *)
(*   WeightStaysInRange   the router never gets more than all the traffic; *)
(*   CanaryIsReady        a new weight goes to a canary with its pods.     *)
(* StepInv, the type invariant with what a pass knows of its snapshot, is  *)
(* inductive; the stages fall into five kinds (ServiceStage, TrafficStage, *)
(* AnalysisStage, ScalingStage, PauseStage), and every later invariant is  *)
(* kept by what a kind says, not by what an action does.                   *)
(***************************************************************************)
EXTENDS Canary, CanaryReplicas_proofs, FiniteSetTheorems, WellFoundedInduction, TLAPS

----------------------------------------------------------------------------
(* The greatest revision, and counting pods.                                *)

\* The greatest of one or two numbers.
LEMMA MaxOfTwo ==
    ASSUME NEW a \in Int, NEW b \in Int
    PROVE /\ Max({a} \cup {b}) \in {a, b} /\ Max({a} \cup {b}) >= a /\ Max({a} \cup {b}) >= b
          /\ Max({a} \cup {}) = a
<1>1. IsFiniteSet({a} \cup {b}) /\ IsFiniteSet({a} \cup {})
  <2>1. IsFiniteSet({a}) /\ IsFiniteSet({b}) /\ IsFiniteSet({})
    BY FS_Singleton, FS_EmptySet
  <2> QED BY <2>1, FS_Union
<1>2. /\ {a} \cup {b} \subseteq Int /\ {a} \cup {b} # {}
      /\ {a} \cup {} \subseteq Int /\ {a} \cup {} # {}
  OBVIOUS
<1>3. /\ Max({a} \cup {b}) \in {a} \cup {b}
      /\ \A y \in {a} \cup {b} : Max({a} \cup {b}) >= y
      /\ Max({a} \cup {}) \in {a} \cup {}
  BY <1>1, <1>2, MaxFacts
<1> QED BY <1>3

\* The greatest revision of the other ReplicaSets is a number.
LEMMA NextRevisionType ==
    ASSUME rs \in [Hash -> ReplicaSetType], NEW h \in Hash
    PROVE NextRevision(h) \in Nat
<1> DEFINE f == [g \in Hash \ {h} |-> rs[g].revision]
           R == {rs[g].revision : g \in Hash \ {h}}
           S == {0} \cup R
<1>1. R \subseteq Nat /\ rs[h].revision \in Nat
  BY DEF ReplicaSetType
<1>2. IsFiniteSet(R)
  <2>1. IsFiniteSet(Hash \ {h})
    BY HashAssumption, FS_RemoveElement
  <2>2. f \in Surjection(Hash \ {h}, R)
    BY DEF Surjection
  <2> QED BY <2>1, <2>2, FS_Surjection
<1>3. IsFiniteSet(S)
  BY <1>2, FS_Singleton, FS_Union
<1>4. Max(S) \in Nat
  <2>1. S \subseteq Int /\ S # {} /\ S \subseteq Nat
    BY <1>1
  <2> HIDE DEF S
  <2> QED BY <1>3, <2>1, MaxFacts
<1>5. NextRevision(h) = IF rs[h].revision < 1 + Max(S) THEN 1 + Max(S) ELSE rs[h].revision
  BY Zenon DEF NextRevision
<1> HIDE DEF S
<1> QED BY <1>1, <1>4, <1>5

\* The available pods are as many as a natural number.
LEMMA AvailableType ==
    ASSUME pass.rs \in [Hash -> ReplicaSetType] PROVE Available \in Nat
<1> DEFINE f == [h \in Hash |-> {h} \X (1..pass.rs[h].avail)]
           S == {{h} \X (1..pass.rs[h].avail) : h \in Hash}
<1>1. f \in Surjection(Hash, S)
  BY DEF Surjection
<1>2. IsFiniteSet(S)
  BY <1>1, HashAssumption, FS_Surjection
<1>3. ASSUME NEW h \in Hash PROVE IsFiniteSet({h} \X (1..pass.rs[h].avail))
  <2>1. pass.rs[h].avail \in Int
    BY DEF ReplicaSetType
  <2>2. IsFiniteSet(1..pass.rs[h].avail)
    BY <2>1, FS_Interval
  <2> QED BY <2>2, FS_Singleton, FS_Product
<1>4. \A T \in S : IsFiniteSet(T)
  BY <1>3
<1>5. IsFiniteSet(UNION S)
  BY <1>2, <1>4, FS_UNION
<1> QED BY <1>5, FS_CardinalityType DEF Available, AvailablePods
----------------------------------------------------------------------------
(* What the weights and sizes are made of.                                  *)

\* The context of no pass at all is a context.
LEMMA NoPassType == NoPass \in PassType
BY HashAssumption, CountAssumption
DEF NoPass, PassType, SpecType, StatusType, WeightsType, NoWeights, ReplicaSetType, RunType,
    NoStatus, NoReplicaSet, NoRun, PauseReason, CanaryPause, Inconclusive, Deadlines, Phases,
    RunIds, Background

\* What a pass in progress works on.
LEMMA PassFields ==
    ASSUME pass \in PassType
    PROVE /\ pass.spec \in SpecType /\ pass.status \in StatusType
          /\ pass.spec.replicas \in Nat /\ pass.spec.paused \in BOOLEAN
          /\ New \in Hash \cup {NoHash} /\ Stable \in Hash \cup {NoHash}
          /\ pass.rs \in [Hash -> ReplicaSetType] /\ pass.runs \in [RunIds -> RunType]
          /\ pass.dirty \in SUBSET Hash /\ pass.scaling \in BOOLEAN
          /\ pass.weights \in WeightsType /\ pass.stepRun \in 0..MaxRuns
          /\ pass.backRun \in 0..MaxRuns /\ pass.addPauses \in SUBSET PauseReason
          /\ pass.addAbort \in BOOLEAN /\ pass.removeAbort \in BOOLEAN
          /\ pass.visited \in SUBSET Hash /\ pass.maxScaleDown \in Int
          /\ pass.scaledOld \in BOOLEAN
BY DEF PassType, SpecType, StatusType, New, Stable

\* What the snapshot has of the status.
LEMMA StatusFields ==
    ASSUME NEW s \in StatusType
    PROVE /\ s.stableRS \in Hash \cup {NoHash} /\ s.currentPodHash \in Hash \cup {NoHash}
          /\ s.step \in Nat /\ s.pauses \in SUBSET PauseReason
          /\ s.controllerPause \in BOOLEAN /\ s.abort \in BOOLEAN /\ s.promoteFull \in BOOLEAN
          /\ s.weights \in WeightsType /\ s.weights.canary \in Nat
          /\ s.stepRun \in 0..MaxRuns /\ s.stepPhase \in Phases /\ s.backRun \in 0..MaxRuns
BY DEF StatusType, WeightsType

\* The steps are steps, with weights that are shares.
LEMMA StepsType ==
    ASSUME strategy \in Strategies
    PROVE /\ Steps \in Seq(StepType) /\ Len(Steps) \in Nat \ {0}
          /\ strategy.dynamic \in BOOLEAN /\ strategy.background \in BOOLEAN
          /\ \A i \in 1..Len(Steps) :
               /\ Steps[i] \in StepType /\ Steps[i].value \in Nat
               /\ Steps[i].kind = "setWeight" => Steps[i].value \in 0..MaxWeight
<1>1. /\ strategy \in StrategyType /\ strategy.steps # << >>
      /\ \A i \in DOMAIN strategy.steps :
           strategy.steps[i].kind = "setWeight" => strategy.steps[i].value <= MaxWeight
  BY StrategyAssumption
<1>2. /\ Steps \in Seq(StepType) /\ strategy.dynamic \in BOOLEAN
      /\ strategy.background \in BOOLEAN
  BY <1>1 DEF StrategyType, Steps
<1>3. Len(Steps) \in Nat \ {0} /\ DOMAIN Steps = 1..Len(Steps)
  BY <1>1, <1>2, LenProperties, EmptySeq DEF Steps
<1>4. ASSUME NEW i \in 1..Len(Steps)
      PROVE /\ Steps[i] \in StepType /\ Steps[i].value \in Nat
            /\ Steps[i].kind = "setWeight" => Steps[i].value \in 0..MaxWeight
  <2>1. Steps[i] \in StepType
    BY <1>2, ElementOfSeq
  <2>2. Steps[i].value \in Nat
    BY <2>1 DEF StepType
  <2>3. Steps[i].kind = "setWeight" => Steps[i].value <= MaxWeight
    BY <1>1, <1>3 DEF Steps
  <2>4. ASSUME Steps[i].value <= MaxWeight PROVE Steps[i].value \in 0..MaxWeight
    <3>1. \A n \in Nat : n <= MaxWeight => n \in 0..MaxWeight
      BY DEF MaxWeight
    <3> QED BY <2>2, <2>4, <3>1, Zenon
  <2> QED BY <2>1, <2>2, <2>3, <2>4
<1> QED BY <1>2, <1>3, <1>4

\* The last of some of the first n steps is one of them.
LEMMA LastStep ==
    ASSUME strategy \in Strategies, NEW n \in Nat, n <= Len(Steps), NEW kinds,
           NEW S, S \subseteq StepsUpTo(n, kinds), S # {}
    PROVE /\ Max(S) \in S /\ Max(S) \in 1..Len(Steps) /\ Steps[Max(S)].kind \in kinds
          /\ Steps[Max(S)].value \in Nat
<1>1. S \subseteq 1..n /\ 1..n \subseteq Int /\ n \in Int
  BY DEF StepsUpTo
<1>2. IsFiniteSet(S)
  <2>1. IsFiniteSet(1..n)
    BY FS_Interval
  <2> QED BY <1>1, <2>1, FS_Subset
<1>3. Max(S) \in S
  BY <1>1, <1>2, MaxFacts
<1>4. Max(S) \in 1..n /\ Steps[Max(S)].kind \in kinds
  BY <1>3 DEF StepsUpTo
<1>5. Max(S) \in 1..Len(Steps)
  BY <1>4, StepsType
<1> QED BY <1>3, <1>4, <1>5, StepsType

\* The weight of the last setWeight step is a share.
LEMMA WeightUpToType ==
    ASSUME strategy \in Strategies, NEW n \in Nat, n <= Len(Steps)
    PROVE WeightUpTo(n) \in 0..MaxWeight
<1> DEFINE set == StepsUpTo(n, {"setWeight"})
<1>1. CASE set = {}
  BY <1>1 DEF WeightUpTo, MaxWeight
<1>2. CASE set # {}
  <2>1. Max(set) \in 1..Len(Steps) /\ Steps[Max(set)].kind \in {"setWeight"}
    <3> DEFINE kinds == {"setWeight"}
    <3>1. set \subseteq StepsUpTo(n, kinds)
      OBVIOUS
    <3> HIDE DEF kinds, set
    <3>2. Max(set) \in 1..Len(Steps) /\ Steps[Max(set)].kind \in kinds
      BY <1>2, <3>1, LastStep
    <3> QED BY <3>2 DEF kinds
  <2>2. WeightUpTo(n) = Steps[Max(set)].value
    BY <1>2, Zenon DEF WeightUpTo
  <2> HIDE DEF set
  <2> QED BY <2>1, <2>2, StepsType
<1> QED BY <1>1, <1>2

\* So are the current weight and the one an abort goes back to.
LEMMA DesiredCanaryWeightType ==
    ASSUME strategy \in Strategies, pass \in PassType
    PROVE GetCurrentSetWeight \in 0..MaxWeight /\ GetDesiredCanaryWeight \in 0..MaxWeight
<1>1. /\ pass.status.step \in Nat /\ pass.status.abort \in BOOLEAN /\ Len(Steps) \in Nat
  BY PassFields, StatusFields, StepsType
<1>2. GetCurrentSetWeight \in 0..MaxWeight
  <2>1. CASE pass.status.abort
    BY <2>1 DEF GetCurrentSetWeight, MaxWeight
  <2>2. CASE ~pass.status.abort /\ Index >= Len(Steps)
    <3>1. ~(Index < Len(Steps))
      BY <1>1, <2>2 DEF Index
    <3>2. GetCurrentSetWeight = MaxWeight
      BY <2>2, <3>1, Zenon DEF GetCurrentSetWeight
    <3> QED BY <3>2 DEF MaxWeight
  <2>3. CASE ~pass.status.abort /\ Index < Len(Steps)
    <3>1. Index + 1 \in Nat /\ Index + 1 <= Len(Steps)
      BY <1>1, <2>3 DEF Index
    <3>2. WeightUpTo(Index + 1) \in 0..MaxWeight
      BY <3>1, WeightUpToType
    <3>3. ~(Index >= Len(Steps))
      BY <1>1, <2>3 DEF Index
    <3> QED BY <2>3, <3>2, <3>3 DEF GetCurrentSetWeight
  <2> QED BY <1>1, <2>1, <2>2, <2>3 DEF Index
<1>3. GetDesiredCanaryWeight \in 0..MaxWeight
  <2> DEFINE expected == Replicas - StableRS.avail
             canaryReplicas == IF HasExplicitAbortScaleDownDelay THEN expected
                               ELSE Higher(expected, NewRS.avail)
             below == {i \in StepsUpTo(Len(Steps), {"setWeight"}) :
                         WeightToReplicas(Replicas, Steps[i].value) < canaryReplicas}
  <2>1. GetDesiredCanaryWeight =
          IF ~(pass.status.abort /\ strategy.dynamic) THEN GetCurrentSetWeight
          ELSE IF below = {} THEN 0 ELSE Steps[Max(below)].value
    BY Zenon DEF GetDesiredCanaryWeight
  <2>2. below \subseteq StepsUpTo(Len(Steps), {"setWeight"})
    OBVIOUS
  <2> HIDE DEF below
  <2>3. below # {} => Steps[Max(below)].value \in 0..MaxWeight
    <3>1. CASE below # {}
      <4> DEFINE kinds == {"setWeight"}
                 n == Len(Steps)
      <4>1. Max(below) \in 1..Len(Steps) /\ Steps[Max(below)].kind \in {"setWeight"}
        <5>1. below \subseteq StepsUpTo(n, kinds) /\ n \in Nat /\ n <= Len(Steps)
          BY <1>1, <2>2
        <5> HIDE DEF kinds, n
        <5>2. Max(below) \in 1..Len(Steps) /\ Steps[Max(below)].kind \in kinds
          BY <3>1, <5>1, LastStep
        <5> QED BY <5>2 DEF kinds
      <4> QED BY <4>1, StepsType
    <3> QED BY <3>1
  <2>4. 0 \in 0..MaxWeight
    BY DEF MaxWeight
  <2> QED BY <1>2, <2>1, <2>3, <2>4
<1> QED BY <1>2, <1>3

\* The pods that stand for a weight.
LEMMA SizedFacts ==
    ASSUME NEW replicas \in Nat, NEW n \in Int
    PROVE /\ WeightToReplicas(replicas, n) \in Int
          /\ n >= 0 => WeightToReplicas(replicas, n) \in Nat
          /\ n \in 0..MaxWeight => WeightToReplicas(replicas, n) \in 0..replicas
<1> DEFINE product == n * replicas
<1>1. product \in Int /\ (n >= 0 => product >= 0)
  OBVIOUS
<1>2. product = replicas * n
  OBVIOUS
<1>3. WeightToReplicas(replicas, n) = (product + 100 - 1) \div 100
  BY DEF WeightToReplicas, CeilDiv, MaxWeight
<1>4. n \in 0..MaxWeight => WeightToReplicas(replicas, n) \in 0..replicas
  <2>1. n \in 0..MaxWeight => (replicas * n + 100 - 1) \div 100 \in 0..replicas
    BY ShareFacts DEF CeilDiv, MaxWeight
  <2> QED BY <1>2, <1>3, <2>1, Zenon
<1> HIDE DEF product
<1> QED BY <1>1, <1>3, <1>4

\* The step of UseSetCanaryScale has a number of replicas.
LEMMA UseSetCanaryScaleType ==
    ASSUME strategy \in Strategies, pass \in PassType
    PROVE \/ UseSetCanaryScale = {}
          \/ \E i \in 1..Len(Steps) : UseSetCanaryScale = {i} /\ Steps[i].kind = "setScale"
<1> DEFINE scales == StepsUpTo(Index + 1, {"setScale", "matchWeight"})
<1>1. pass.status.step \in Nat /\ Len(Steps) \in Nat
  BY PassFields, StatusFields, StepsType
<1>2. CASE ~(Index >= Len(Steps)) /\ scales # {}
  <2>1. Index + 1 \in Nat /\ Index + 1 <= Len(Steps)
    BY <1>1, <1>2 DEF Index
  <2>2. Max(scales) \in 1..Len(Steps)
    BY <1>2, <2>1, LastStep
  <2>3. \/ UseSetCanaryScale = {}
        \/ UseSetCanaryScale = {i \in {Max(scales)} : Steps[i].kind = "setScale"}
    BY Zenon DEF UseSetCanaryScale
  <2> HIDE DEF scales
  <2> QED BY <2>2, <2>3
<1>3. CASE Index >= Len(Steps) \/ scales = {}
  BY <1>3, Zenon DEF UseSetCanaryScale
<1> QED BY <1>2, <1>3
----------------------------------------------------------------------------
(* A pass in progress: what its decisions may take for granted.             *)

\* The steps are over at the last one, or one later after a full promotion.
StepsFit(s) == s.step <= Len(Steps) \/ s.promoteFull

InPass == /\ strategy \in Strategies /\ pass \in PassType
          /\ New \in Hash /\ Stable \in Hash /\ Replicas > 0
          /\ StepsFit(pass.status) /\ Index <= Len(Steps) + 1

\* The numbers of the two ReplicaSets and of the snapshot.
LEMMA InPassFields ==
    ASSUME InPass
    PROVE /\ Replicas \in Nat /\ Replicas >= 1 /\ Index \in Nat /\ Len(Steps) \in Nat
          /\ NewRS \in ReplicaSetType /\ StableRS \in ReplicaSetType
          /\ NewRS.avail \in Nat /\ StableRS.avail \in Nat /\ NewRS.revision \in Nat
          /\ pass.status.weights.canary \in Nat
<1>1. pass.rs \in [Hash -> ReplicaSetType] /\ New \in Hash /\ Stable \in Hash
  BY PassFields DEF InPass
<1>2. NewRS \in ReplicaSetType /\ StableRS \in ReplicaSetType
  BY <1>1 DEF NewRS, StableRS
<1>3. /\ NewRS.avail \in Nat /\ StableRS.avail \in Nat /\ NewRS.revision \in Nat
  BY <1>2 DEF ReplicaSetType
<1>4. pass.spec.replicas \in Nat /\ pass.status.step \in Nat /\ Len(Steps) \in Nat
      /\ pass.status.weights.canary \in Nat
  BY PassFields, StatusFields, StepsType DEF InPass
<1>5. Replicas \in Nat /\ Index \in Nat /\ Replicas > 0
  BY <1>4 DEF Replicas, Index, InPass
<1> QED BY <1>2, <1>3, <1>4, <1>5

\* An abort never sends the canary more than it has.
LEMMA DesiredWeightOnAbortType ==
    ASSUME InPass
    PROVE DesiredWeightOnAbort \in Nat /\ DesiredWeightOnAbort <= pass.status.weights.canary
<1> DEFINE desired == GetDesiredCanaryWeight
           current == pass.status.weights.canary
           stableWeight == (MaxWeight * StableRS.avail) \div Replicas
           down == Higher(0, MaxWeight - stableWeight)
<1>1. DesiredWeightOnAbort =
        IF ~strategy.dynamic THEN 0
        ELSE IF desired <= 0 THEN Lower(down, current)
        ELSE IF stableWeight < MaxWeight - desired THEN current
        ELSE Lower(desired, current)
  BY Zenon DEF DesiredWeightOnAbort
<1>2. current \in Nat
  BY InPassFields
<1>3. desired \in 0..MaxWeight
  BY DesiredCanaryWeightType DEF InPass
<1>4. down \in Nat
  <2>1. stableWeight \in Int
    <3>1. \A a \in Nat, n \in Nat : n >= 1 => (MaxWeight * a) \div n \in Int
      BY DEF MaxWeight
    <3> QED BY <3>1, InPassFields, Zenon
  <2> HIDE DEF stableWeight
  <2>2. MaxWeight - stableWeight \in Int
    BY <2>1 DEF MaxWeight
  <2>3. down \in Int /\ down >= 0
    BY <2>2, HigherFacts
  <2> HIDE DEF down
  <2> QED BY <2>3
<1> HIDE DEF desired, down, stableWeight, current
<1>5. /\ Lower(down, current) \in Nat /\ Lower(down, current) <= current
      /\ Lower(desired, current) \in Nat /\ Lower(desired, current) <= current
  <2>1. down \in Int /\ current \in Int /\ desired \in Int /\ desired >= 0 /\ down >= 0
        /\ current >= 0
    BY <1>2, <1>3, <1>4
  <2>2. ASSUME NEW a \in Int, a >= 0
        PROVE Lower(a, current) \in Nat /\ Lower(a, current) <= current
    <3> DEFINE low == Lower(a, current)
    <3>1. low \in Int /\ low <= current /\ (low = a \/ low = current)
      BY <2>1, LowerFacts, Zenon
    <3> HIDE DEF low
    <3>2. low \in Nat /\ low <= current
      BY <2>1, <2>2, <3>1
    <3> QED BY <3>2 DEF low
  <2> QED BY <2>1, <2>2
<1>6. DesiredWeightOnAbort \in {0, current, Lower(down, current), Lower(desired, current)}
  BY <1>1
<1> QED BY <1>2, <1>5, <1>6 DEF current

\* The weight a pass asks the router for: a share, if the weights it has are
\* and no canary under dynamicStableScale has more pods than there are replicas.
LEMMA DesiredWeightType ==
    ASSUME InPass
    PROVE /\ DesiredWeight \in Nat
          /\ pass.status.weights.canary <= MaxWeight
               /\ (strategy.dynamic => NewRS.avail <= Replicas)
             => DesiredWeight <= MaxWeight
<1> DEFINE pods == (MaxWeight * NewRS.avail) \div Replicas
           current == pass.status.weights.canary
<1>1. DesiredWeight =
        IF IsDynamicallyRollingBackToStable THEN DesiredWeightOnAbort
        ELSE IF IsFullyPromoted(pass.status) THEN 0
        ELSE IF IsAborted THEN DesiredWeightOnAbort
        ELSE IF NewRS.avail = 0 THEN 0
        ELSE IF pass.status.promoteFull
             THEN IF strategy.dynamic THEN pods ELSE current
        ELSE IF ~AtDesiredReplicaCounts({}) THEN WeightUpTo(Index)
        ELSE GetCurrentSetWeight
  BY Zenon DEF DesiredWeight
<1>2. pods \in Nat /\ (NewRS.avail <= Replicas => pods <= MaxWeight)
  <2>1. ASSUME NEW a \in Nat, NEW n \in Nat, n >= 1
        PROVE /\ (MaxWeight * a) \div n \in Nat
              /\ a <= n => (MaxWeight * a) \div n <= MaxWeight
    <3> DEFINE q == (MaxWeight * a) \div n
    <3>1. MaxWeight * a \in Int /\ MaxWeight * a >= 0
      BY DEF MaxWeight
    <3>2. q \in Nat
      BY <2>1, <3>1 DEF MaxWeight
    <3>3. a <= n => q <= MaxWeight
      <4>1. a <= n => MaxWeight * a <= MaxWeight * n
        BY DEF MaxWeight
      <4>2. n * q <= MaxWeight * a
        BY <2>1, <3>1 DEF MaxWeight
      <4>3. q >= MaxWeight + 1 => n * q >= n * (MaxWeight + 1)
        BY <2>1, <3>2 DEF MaxWeight
      <4>4. n * (MaxWeight + 1) > MaxWeight * n
        BY <2>1 DEF MaxWeight
      <4>5. n * q \in Int /\ n * (MaxWeight + 1) \in Int /\ MaxWeight * n \in Int
        BY <3>2 DEF MaxWeight
      <4>6. SUFFICES ASSUME a <= n, q >= MaxWeight + 1 PROVE FALSE
        BY <3>2 DEF MaxWeight
      <4> HIDE DEF q
      <4> QED BY <3>1, <4>1, <4>2, <4>3, <4>4, <4>5, <4>6
    <3> QED BY <3>2, <3>3
  <2> QED BY <2>1, InPassFields
<1>3. /\ DesiredWeightOnAbort \in Nat /\ DesiredWeightOnAbort <= current
      /\ current \in Nat
  BY DesiredWeightOnAbortType, InPassFields
<1>4. GetCurrentSetWeight \in Nat /\ GetCurrentSetWeight <= MaxWeight
  <2>1. \A n \in 0..MaxWeight : n \in Nat /\ n <= MaxWeight
    BY DEF MaxWeight
  <2> QED BY <2>1, DesiredCanaryWeightType, Zenon DEF InPass
<1>5. ~pass.status.promoteFull /\ ~IsFullyPromoted(pass.status)
        => WeightUpTo(Index) \in Nat /\ WeightUpTo(Index) <= MaxWeight
  <2>1. ASSUME ~pass.status.promoteFull PROVE Index <= Len(Steps)
    BY <2>1 DEF InPass, StepsFit, Index
  <2>2. \A n \in 0..MaxWeight : n \in Nat /\ n <= MaxWeight
    BY DEF MaxWeight
  <2> QED BY <2>1, <2>2, InPassFields, WeightUpToType, Zenon DEF InPass
<1> HIDE DEF pods, current
<1>6. \/ DesiredWeight \in {0, DesiredWeightOnAbort, current, GetCurrentSetWeight}
      \/ DesiredWeight = WeightUpTo(Index) /\ ~pass.status.promoteFull
           /\ ~IsFullyPromoted(pass.status)
      \/ DesiredWeight = pods /\ strategy.dynamic
  BY <1>1, Zenon
<1>7. 0 \in Nat /\ 0 <= MaxWeight /\ MaxWeight \in Int
  BY DEF MaxWeight
<1>8. CASE DesiredWeight \in {0, DesiredWeightOnAbort, current, GetCurrentSetWeight}
  <2>1. current <= MaxWeight => DesiredWeightOnAbort <= MaxWeight
    BY <1>3, <1>7
  <2> QED BY <1>3, <1>4, <1>7, <1>8, <2>1 DEF current
<1> QED BY <1>2, <1>5, <1>6, <1>8

\* The sizes of the two ReplicaSets for the weights of a status.
LEMMA ReplicaCountsForType ==
    ASSUME InPass, NEW x \in WeightsType
    PROVE LET want == ReplicaCountsFor({x}) IN
          /\ want.canary \in Nat /\ want.stable \in Nat
          /\ x.canary <= MaxWeight
               /\ (strategy.dynamic => \A i \in 1..Len(Steps) : Steps[i].kind = "setScale"
                                                           => Steps[i].value <= Replicas)
             => (strategy.dynamic => want.canary <= Replicas /\ want.stable <= Replicas)
<1> DEFINE full == pass.status.promoteFull \/ IsFullyPromoted(pass.status)
           scale == IF full THEN {} ELSE UseSetCanaryScale
           desired == CASE full -> MaxWeight
                        [] ~full /\ scale # {} -> 0
                        [] ~full /\ scale = {} -> GetDesiredCanaryWeight
           Sized(n) == WeightToReplicas(Replicas, n)
           canary == IF scale # {} THEN Steps[Max(scale)].value ELSE Sized(desired)
           canaries == {canary} \cup (IF pass.status.abort THEN {Sized(x.canary)} ELSE {})
           stables == {Sized(MaxWeight - desired)} \cup {Sized(MaxWeight - x.canary)}
           small == \A i \in 1..Len(Steps) : Steps[i].kind = "setScale"
                                                => Steps[i].value <= Replicas
<1>1. ReplicaCountsFor({x}) =
        IF strategy.dynamic THEN [canary |-> Max(canaries), stable |-> Max(stables)]
                            ELSE [canary |-> canary, stable |-> Replicas]
  <2>1. /\ {Sized(y.canary) : y \in {x}} = {Sized(x.canary)}
        /\ {Sized(MaxWeight - y.canary) : y \in {x}} = {Sized(MaxWeight - x.canary)}
    BY Zenon
  <2> QED BY <2>1, Zenon DEF ReplicaCountsFor
<1>2. x.canary \in Nat
  BY DEF WeightsType
<1>3. Replicas \in Nat /\ Replicas >= 1
  BY InPassFields
<1>4. desired \in 0..MaxWeight
  <2>1. GetDesiredCanaryWeight \in 0..MaxWeight
    BY DesiredCanaryWeightType DEF InPass
  <2>2. 0 \in 0..MaxWeight /\ MaxWeight \in 0..MaxWeight
    BY DEF MaxWeight
  <2> HIDE DEF full, scale
  <2>3. desired \in {0, MaxWeight, GetDesiredCanaryWeight}
    BY Zenon
  <2> HIDE DEF desired
  <2> QED BY <2>1, <2>2, <2>3
<1> HIDE DEF desired
<1>5. /\ MaxWeight - desired \in 0..MaxWeight
      /\ MaxWeight - x.canary \in Int
      /\ x.canary <= MaxWeight => x.canary \in 0..MaxWeight
                                    /\ MaxWeight - x.canary \in 0..MaxWeight
  BY <1>2, <1>4 DEF MaxWeight
<1>6. /\ Sized(desired) \in Nat /\ Sized(desired) <= Replicas
      /\ Sized(MaxWeight - desired) \in Nat /\ Sized(MaxWeight - desired) <= Replicas
      /\ Sized(x.canary) \in Nat /\ Sized(MaxWeight - x.canary) \in Int
      /\ x.canary <= MaxWeight => /\ Sized(x.canary) <= Replicas
                                  /\ Sized(MaxWeight - x.canary) <= Replicas
  <2>1. \A n \in Int : /\ WeightToReplicas(Replicas, n) \in Int
                       /\ n >= 0 => WeightToReplicas(Replicas, n) \in Nat
                       /\ n \in 0..MaxWeight => WeightToReplicas(Replicas, n) \in 0..Replicas
    BY <1>3, SizedFacts
  <2>2. \A n \in 0..MaxWeight : n \in Int /\ n >= 0
    OBVIOUS
  <2>3. \A k \in 0..Replicas : k \in Nat /\ k <= Replicas
    BY <1>3
  <2> QED BY <1>2, <1>4, <1>5, <2>1, <2>2, <2>3
<1> HIDE DEF Sized
<1>7. canary \in Nat /\ (small => canary <= Replicas)
  <2>1. CASE scale = {}
    BY <1>6, <2>1
  <2>2. CASE scale # {}
    <3>1. PICK i \in 1..Len(Steps) : scale = {i} /\ Steps[i].kind = "setScale"
      BY <2>2, UseSetCanaryScaleType DEF InPass
    <3>2. Max(scale) = i
      <4>1. i \in Int
        BY InPassFields
      <4>2. scale = {i} \cup {}
        BY <3>1
      <4> HIDE DEF scale
      <4> QED BY <4>1, <4>2, MaxOfTwo
    <3>3. canary = Steps[i].value
      BY <2>2, <3>2, Zenon
    <3>4. Steps[i].value \in Nat
      BY StepsType DEF InPass
    <3> HIDE DEF canary
    <3> QED BY <3>1, <3>3, <3>4
  <2> QED BY <2>1, <2>2
<1> HIDE DEF canary, small
<1>8. /\ Max(canaries) \in Nat
      /\ small /\ x.canary <= MaxWeight => Max(canaries) <= Replicas
  <2>1. CASE pass.status.abort
    <3>1. canaries = {canary} \cup {Sized(x.canary)}
      BY <2>1
    <3>2. canary \in Int /\ Sized(x.canary) \in Int
      BY <1>6, <1>7
    <3>3. Max({canary} \cup {Sized(x.canary)}) \in {canary, Sized(x.canary)}
      BY <3>2, MaxOfTwo
    <3> HIDE DEF canaries
    <3>4. Max(canaries) \in {canary, Sized(x.canary)}
      BY <3>1, <3>3, Zenon
    <3> QED BY <1>6, <1>7, <3>4
  <2>2. CASE ~pass.status.abort
    <3>1. canaries = {canary} \cup {}
      BY <2>2
    <3>2. canary \in Int
      BY <1>7
    <3>3. Max({canary} \cup {}) = canary
      BY <3>2, MaxOfTwo
    <3> HIDE DEF canaries
    <3>4. Max(canaries) = canary
      BY <3>1, <3>3, Zenon
    <3> QED BY <1>7, <3>4
  <2> QED BY <2>1, <2>2
<1>9. Max(stables) \in Nat /\ (x.canary <= MaxWeight => Max(stables) <= Replicas)
  <2>1. /\ Sized(MaxWeight - desired) \in Int /\ Sized(MaxWeight - desired) >= 0
        /\ Sized(MaxWeight - x.canary) \in Int
    BY <1>6
  <2>2. /\ Max(stables) \in {Sized(MaxWeight - desired), Sized(MaxWeight - x.canary)}
        /\ Max(stables) >= Sized(MaxWeight - desired)
    BY <2>1, MaxOfTwo
  <2> HIDE DEF stables
  <2> QED BY <1>6, <2>1, <2>2
<1> HIDE DEF canaries, stables
<1>10. /\ ReplicaCountsFor({x}).canary = IF strategy.dynamic THEN Max(canaries) ELSE canary
       /\ ReplicaCountsFor({x}).stable = IF strategy.dynamic THEN Max(stables) ELSE Replicas
  BY <1>1
<1> QED BY <1>3, <1>7, <1>8, <1>9, <1>10 DEF small

\* The default maxUnavailable is a number of pods.
LEMMA QuarterUnavailable ==
    ASSUME NEW replicas \in Nat PROVE MaxUnavailable(Quarter, Quarter, replicas) \in Int
<1> DEFINE unavailable == Resolve(Quarter, replicas, FloorDiv)
           atLeastOne == IF MaxSurge(Quarter, replicas) = 0 /\ unavailable = 0
                         THEN 1 ELSE unavailable
<1>1. unavailable \in Int
  BY DEF Resolve, Quarter, FloorDiv
<1>2. atLeastOne \in Int
  <2> HIDE DEF unavailable
  <2> QED BY <1>1
<1>3. MaxUnavailable(Quarter, Quarter, replicas)
        = IF replicas = 0 THEN 0 ELSE Lower(atLeastOne, replicas)
  BY Zenon DEF MaxUnavailable
<1> HIDE DEF atLeastOne
<1>4. Lower(atLeastOne, replicas) \in Int
  <2>1. replicas \in Int
    OBVIOUS
  <2> QED BY <1>2, <2>1, LowerFacts
<1> QED BY <1>3, <1>4
----------------------------------------------------------------------------
(* The state in a pass and between two.                                     *)

(* A pass works for a template whose ReplicaSet exists, and knows the       *)
(* stable and the current version as the status has them.                  *)
Snapshot ==
    /\ spec.replicas > 0
    /\ pc # "idle" =>
         /\ New \in Hash /\ rs[New].exists /\ Replicas > 0
         /\ Stable = status.stableRS
         /\ pass.status.currentPodHash = status.currentPodHash

(* Users move the step of a status, and no further than the last one, while *)
(* a pass works with that of its snapshot.                                 *)
StepsKept ==
    /\ StepsFit(status)
    /\ pc # "idle" =>
         /\ StepsFit(pass.status) /\ Index <= Len(Steps) + 1
         /\ status.step = Index \/ status.step <= Len(Steps)
         /\ pass.addAbort \/ pc = "backgroundAnalysis" => ~IsFullyPromoted(pass.status)
         /\ pass.status.promoteFull => status.promoteFull

StepInv == TypeOK /\ Snapshot /\ StepsKept

\* What TypeOK says of each variable.
LEMMA Typed ==
    ASSUME TypeOK
    PROVE /\ strategy \in Strategies /\ spec \in SpecType /\ spec.template \in Hash
          /\ spec.replicas \in Nat /\ status \in StatusType /\ status.stableRS \in Hash
          /\ rs[status.stableRS].exists
          /\ canarySvc \in Hash /\ rs[canarySvc].exists
          /\ stableSvc \in Hash /\ rs[stableSvc].exists
          /\ rs \in [Hash -> ReplicaSetType] /\ runs \in [RunIds -> RunType]
          /\ pass \in PassType /\ budget \in [user : Nat, pods : Nat, passes : Nat]
BY DEF TypeOK, SpecType

\* A pass that is not over works with what it needs.
LEMMA PassInProgress == ASSUME StepInv, pc # "idle" PROVE InPass
BY DEF StepInv, TypeOK, Snapshot, StepsKept, InPass

\* What a stage may leave behind for the next one: the same snapshot.
Stage == /\ pc' \in Stages \cup {"idle"} /\ pass' \in PassType
         /\ pc' # "idle" => /\ pass'.spec = pass.spec /\ pass'.status = pass.status
                            /\ pass'.scaling = pass.scaling

\* Most stages have nothing to do with analysis.
KeepsVerdict ==
    pc' # "idle" => /\ pass'.runs = pass.runs /\ pass'.stepRun = pass.stepRun
                    /\ pass'.addPauses = pass.addPauses /\ pass'.addAbort = pass.addAbort

\* The stages that scale leave the pods and the weights to others, and give
\* a ReplicaSet a size of some calculation.
Scales ==
    /\ \A h \in Hash : /\ rs'[h].exists = rs[h].exists /\ rs'[h].avail = rs[h].avail
                       /\ rs'[h].spec \in {rs[h].spec, 0, pass.rs[h].avail,
                                           StableReplicas, NewReplicas}
    /\ pc' # "idle" =>
         /\ pass'.weights = pass.weights
         /\ \A h \in Hash : /\ pass'.rs[h].avail = pass.rs[h].avail
                            /\ pass'.rs[h].spec \in {pass.rs[h].spec, pass.rs[h].avail}

ScalingStages == {"removeDeadlines", "scaleStable", "scaleNew", "cleanup", "scaleOthers",
                  "pause", "sync"}

ScalingStage ==
    /\ pc' \in ScalingStages \cup {"idle"} /\ (pc' = "pause" => ~pass.scaling)
    /\ rs' \in [Hash -> ReplicaSetType]
    /\ UNCHANGED <<user, status, services, weight, runs, pauseElapsed>>
    /\ Stage /\ KeepsVerdict /\ Scales

\* The end of a pass, from wherever it ends.
LEMMA EndPassStage == ASSUME EndPass PROVE Stage /\ KeepsVerdict
BY NoPassType DEF EndPass, Stage, KeepsVerdict

\* A stage that leaves the context alone.
LEMMA GoToStage ==
    ASSUME pass \in PassType, NEW stage \in Stages, GoTo(stage)
    PROVE Stage /\ KeepsVerdict
BY DEF GoTo, Stage, KeepsVerdict

\* A stage that only notes what it wrote.
LEMMA DirtyStage ==
    ASSUME pass \in PassType, NEW D \in SUBSET Hash, pass' = [pass EXCEPT !.dirty = D],
           pc' \in Stages
    PROVE /\ Stage /\ KeepsVerdict
          /\ pass'.rs = pass.rs /\ pass'.weights = pass.weights
BY DEF Stage, KeepsVerdict, PassType

\* The Update scaleReplicaSet sends is that of a ReplicaSet.
LEMMA ReplicaSetUpdateType ==
    ASSUME NEW r \in [Hash -> ReplicaSetType], NEW h \in Hash, NEW n \in Nat, NEW m \in Nat,
           NEW d \in Deadlines
    PROVE [r EXCEPT ![h].spec = n, ![h].desired = m, ![h].deadline = d]
            \in [Hash -> ReplicaSetType]
<1> DEFINE r1 == [r EXCEPT ![h].spec = n]
           r2 == [r1 EXCEPT ![h].desired = m]
           r3 == [r2 EXCEPT ![h].deadline = d]
<1>1. r1 \in [Hash -> ReplicaSetType]
  BY DEF ReplicaSetType
<1>2. r2 \in [Hash -> ReplicaSetType]
  <2> HIDE DEF r1
  <2> QED BY <1>1 DEF ReplicaSetType
<1>3. r3 \in [Hash -> ReplicaSetType]
  <2> HIDE DEF r2
  <2> QED BY <1>2 DEF ReplicaSetType
<1> QED BY <1>3, Zenon

\* scaleReplicaSet leaves ReplicaSets, one of them with another size.
LEMMA WriteFacts ==
    ASSUME StepInv, pc # "idle", NEW h \in Hash, NEW n \in Nat, Write(h, n)
    PROVE /\ rs' \in [Hash -> ReplicaSetType]
          /\ \A g \in Hash : /\ rs'[g].exists = rs[g].exists /\ rs'[g].avail = rs[g].avail
                             /\ rs'[g].spec = IF g = h THEN n ELSE rs[g].spec
<1> DEFINE d == IF n = 0 /\ ~ShouldDelayScaleDownOnAbort THEN "none" ELSE rs[h].deadline
<1>1. rs \in [Hash -> ReplicaSetType] /\ Replicas \in Nat
  BY Typed, PassInProgress, InPassFields DEF StepInv
<1>2. d \in Deadlines
  BY <1>1 DEF Deadlines, ReplicaSetType
<1>3. rs' = [rs EXCEPT ![h].spec = n, ![h].desired = Replicas, ![h].deadline = d]
  BY DEF Write
<1> HIDE DEF d
<1>4. rs' \in [Hash -> ReplicaSetType]
  BY <1>1, <1>2, <1>3, ReplicaSetUpdateType
<1>5. ASSUME NEW g \in Hash
      PROVE /\ rs'[g].exists = rs[g].exists /\ rs'[g].avail = rs[g].avail
            /\ rs'[g].spec = IF g = h THEN n ELSE rs[g].spec
  BY <1>1, <1>3 DEF ReplicaSetType
<1> QED BY <1>4, <1>5

\* So does a patch of the scale-down-deadline.
LEMMA PatchDeadlineFacts ==
    ASSUME rs \in [Hash -> ReplicaSetType], NEW h \in Hash, NEW d \in Deadlines,
           PatchDeadline(h, d)
    PROVE /\ rs' \in [Hash -> ReplicaSetType]
          /\ \A g \in Hash : /\ rs'[g].exists = rs[g].exists /\ rs'[g].avail = rs[g].avail
                             /\ rs'[g].spec = rs[g].spec
BY DEF PatchDeadline, ReplicaSetType

\* All three outcomes of scaleReplicaSetAndRecordEvent.
LEMMA ScaleReplicaSetStage ==
    ASSUME StepInv, pc # "idle", NEW h \in Hash, NEW n \in Nat,
           NEW stage \in {"scaleNew", "cleanup"}, n \in {0, StableReplicas, NewReplicas},
           ScaleReplicaSet(h, n, stage),
           UNCHANGED <<user, status, services, weight, runs, pauseElapsed>>
    PROVE ScalingStage
<1>1. pass \in PassType /\ rs \in [Hash -> ReplicaSetType]
  BY Typed DEF StepInv
<1>2. stage \in Stages /\ stage \in ScalingStages /\ stage # "pause"
  BY DEF Stages, ScalingStages
<1>3. CASE UNCHANGED rs /\ GoTo(stage)
  <2>1. Stage /\ KeepsVerdict
    BY <1>1, <1>2, <1>3, GoToStage
  <2>2. Scales /\ pc' = stage
    BY <1>3 DEF GoTo, Scales
  <2> QED BY <1>1, <1>2, <1>3, <2>1, <2>2 DEF ScalingStage
<1>4. CASE /\ Write(h, n) /\ pc' = (IF pass.rs[h].spec # n THEN Scaled ELSE stage)
           /\ pass' = [pass EXCEPT !.dirty = pass.dirty \cup {h}]
  <2>1. pc' \in Stages /\ pc' \in ScalingStages /\ pc' # "pause"
    BY <1>2, <1>4 DEF Scaled, Stages, ScalingStages
  <2>2. pass.dirty \cup {h} \in SUBSET Hash
    BY <1>1, PassFields
  <2>3. Stage /\ KeepsVerdict /\ pass'.rs = pass.rs /\ pass'.weights = pass.weights
    BY <1>1, <1>4, <2>1, <2>2, DirtyStage
  <2>4. /\ rs' \in [Hash -> ReplicaSetType]
        /\ \A g \in Hash : /\ rs'[g].exists = rs[g].exists /\ rs'[g].avail = rs[g].avail
                           /\ rs'[g].spec = IF g = h THEN n ELSE rs[g].spec
    BY <1>4, WriteFacts
  <2> QED BY <2>1, <2>3, <2>4 DEF ScalingStage, Scales
<1>5. CASE UNCHANGED rs /\ EndPass
  <2>1. Stage /\ KeepsVerdict
    BY <1>5, EndPassStage
  <2>2. Scales /\ pc' = "idle"
    BY <1>5 DEF EndPass, Scales
  <2> QED BY <1>1, <1>5, <2>1, <2>2 DEF ScalingStage
<1> QED BY <1>3, <1>4, <1>5, Zenon DEF ScaleReplicaSet

\* The sizes of the stable and the new ReplicaSet are numbers.
LEMMA SizesType ==
    ASSUME StepInv, pc # "idle" PROVE StableReplicas \in Nat /\ NewReplicas \in Nat
<1>1. InPass
  BY PassInProgress
<1>2. pass.status.weights \in WeightsType /\ pass.weights \in WeightsType
  BY <1>1, PassFields, StatusFields DEF InPass
<1> QED BY <1>1, <1>2, ReplicaCountsForType, Zenon DEF StableReplicas, NewReplicas

\* A stage that leaves the ReplicaSets and the context alone.
LEMMA RestingStage ==
    ASSUME StepInv, UNCHANGED <<user, status, services, weight, runs, pauseElapsed>>,
           UNCHANGED rs, NEW stage \in ScalingStages, stage = "pause" => ~pass.scaling,
           GoTo(stage)
    PROVE ScalingStage
<1>1. pass \in PassType /\ rs \in [Hash -> ReplicaSetType]
  BY Typed DEF StepInv
<1>2. Stage /\ KeepsVerdict
  BY <1>1, GoToStage DEF ScalingStages, Stages
<1>3. Scales /\ pc' = stage
  BY DEF GoTo, Scales
<1> QED BY <1>1, <1>2, <1>3 DEF ScalingStage

\* Where the scaling leaves off is a stage.
LEMMA LeavesOff ==
    /\ Scaled \in ScalingStages /\ Scaled # "pause"
    /\ NotScaled \in ScalingStages /\ (NotScaled = "pause" => ~pass.scaling)
BY DEF Scaled, NotScaled, ScalingStages

\* removeScaleDownDeadlines and reconcileCanaryStableReplicaSet.
LEMMA StableScales ==
    ASSUME StepInv, RemoveScaleDownDeadlines \/ ReconcileStableReplicaSet
    PROVE ScalingStage
<1>1. pass \in PassType /\ rs \in [Hash -> ReplicaSetType]
  BY Typed DEF StepInv
<1>2. CASE ReconcileStableReplicaSet
  <2>1. pc # "idle" /\ "scaleNew" \in ScalingStages /\ "scaleNew" # "pause"
        /\ UNCHANGED <<user, status, services, weight, runs, pauseElapsed>>
    BY <1>2 DEF ReconcileStableReplicaSet, ScalingStages
  <2>2. CASE Stable = New
    BY <1>2, <2>1, <2>2, RestingStage DEF ReconcileStableReplicaSet
  <2>3. CASE Stable # New
    <3>1. Stable \in Hash /\ StableReplicas \in Nat
      BY <2>1, PassInProgress, SizesType DEF InPass
    <3>2. ScaleReplicaSet(Stable, StableReplicas, "scaleNew")
      BY <1>2, <2>3 DEF ReconcileStableReplicaSet
    <3> QED BY <2>1, <3>1, <3>2, ScaleReplicaSetStage
  <2> QED BY <2>2, <2>3
<1>3. CASE RemoveScaleDownDeadlines
  <2>1. pc # "idle" /\ pc \in Stages /\ pc \in ScalingStages /\ pc # "pause"
        /\ "scaleStable" \in ScalingStages /\ "scaleStable" # "pause"
        /\ UNCHANGED <<user, status, services, weight, runs, pauseElapsed>>
    BY <1>3 DEF RemoveScaleDownDeadlines, Stages, ScalingStages
  <2>2. CASE UNCHANGED rs /\ (GoTo(NotScaled) \/ GoTo("scaleStable"))
    BY <2>1, <2>2, RestingStage, LeavesOff
  <2>3. ASSUME NEW h \in DeadlinesToRemove, PatchDeadline(h, "none"), pc' = pc,
               pass' = [pass EXCEPT !.rs = [pass.rs EXCEPT ![h].deadline = "none"],
                                    !.dirty = pass.dirty \cup {h}]
        PROVE ScalingStage
    <3>1. h \in Hash
      BY <2>1, PassInProgress DEF DeadlinesToRemove, InPass
    <3>2. /\ rs' \in [Hash -> ReplicaSetType]
          /\ \A g \in Hash : /\ rs'[g].exists = rs[g].exists /\ rs'[g].avail = rs[g].avail
                             /\ rs'[g].spec = rs[g].spec
      BY <1>1, <2>3, <3>1, PatchDeadlineFacts DEF Deadlines
    <3> DEFINE r == [pass.rs EXCEPT ![h].deadline = "none"]
               D == pass.dirty \cup {h}
    <3>3. /\ r \in [Hash -> ReplicaSetType]
          /\ \A g \in Hash : r[g].avail = pass.rs[g].avail /\ r[g].spec = pass.rs[g].spec
      <4>1. pass.rs \in [Hash -> ReplicaSetType]
        BY <1>1, PassFields
      <4> QED BY <3>1, <4>1 DEF ReplicaSetType, Deadlines
    <3>4. D \in SUBSET Hash
      BY <1>1, <3>1, PassFields
    <3>5. pass' = [pass EXCEPT !.rs = r, !.dirty = D]
      BY <2>3
    <3> HIDE DEF r, D
    <3>6. /\ pass' \in PassType /\ pass'.spec = pass.spec /\ pass'.status = pass.status
          /\ pass'.scaling = pass.scaling /\ pass'.rs = r /\ pass'.weights = pass.weights
          /\ KeepsVerdict
      BY <1>1, <3>3, <3>4, <3>5 DEF PassType, KeepsVerdict
    <3>7. Stage
      BY <2>1, <2>3, <3>6 DEF Stage
    <3>8. Scales
      BY <3>2, <3>3, <3>6 DEF Scales
    <3> QED BY <2>1, <2>3, <3>2, <3>6, <3>7, <3>8 DEF ScalingStage
  <2> QED BY <1>3, <2>2, <2>3 DEF RemoveScaleDownDeadlines
<1> QED BY <1>2, <1>3

\* reconcileNewReplicaSet.
LEMMA NewScales == ASSUME StepInv, ReconcileNewReplicaSet PROVE ScalingStage
<1> DEFINE p == [pass EXCEPT !.rs = [pass.rs EXCEPT ![New].desired = Replicas]]
           r1 == [rs EXCEPT ![New].desired = Replicas]
           noted == [pass.rs EXCEPT ![New].desired = Replicas]
<1>1. /\ pc # "idle" /\ "cleanup" \in Stages /\ "cleanup" \in ScalingStages
      /\ UNCHANGED <<user, status, services, weight, runs, pauseElapsed>>
  BY DEF ReconcileNewReplicaSet, Stages, ScalingStages
<1>2. /\ pass \in PassType /\ rs \in [Hash -> ReplicaSetType] /\ New \in Hash
      /\ Replicas \in Nat /\ pass.rs \in [Hash -> ReplicaSetType]
      /\ pass.dirty \in SUBSET Hash
  BY <1>1, Typed, PassInProgress, InPassFields, PassFields DEF InPass, StepInv
<1>3. /\ noted \in [Hash -> ReplicaSetType]
      /\ \A g \in Hash : noted[g].avail = pass.rs[g].avail /\ noted[g].spec = pass.rs[g].spec
  BY <1>2 DEF ReplicaSetType
<1>4. /\ r1 \in [Hash -> ReplicaSetType] /\ r1[New].deadline = rs[New].deadline
      /\ \A g \in Hash : /\ r1[g].exists = rs[g].exists /\ r1[g].avail = rs[g].avail
                         /\ r1[g].spec = rs[g].spec
  BY <1>2 DEF ReplicaSetType
<1>5. ASSUME NEW D \in SUBSET Hash, pc' = "cleanup",
             pass' = [pass EXCEPT !.rs = noted, !.dirty = D],
             rs' \in [Hash -> ReplicaSetType],
             \A g \in Hash : /\ rs'[g].exists = rs[g].exists /\ rs'[g].avail = rs[g].avail
                             /\ rs'[g].spec = rs[g].spec
      PROVE ScalingStage
  <2> HIDE DEF noted
  <2>1. /\ pass' \in PassType /\ pass'.spec = pass.spec /\ pass'.status = pass.status
        /\ pass'.scaling = pass.scaling /\ pass'.rs = noted /\ pass'.weights = pass.weights
        /\ KeepsVerdict
    BY <1>2, <1>3, <1>5 DEF PassType, KeepsVerdict
  <2>2. Stage
    BY <1>1, <1>5, <2>1 DEF Stage
  <2>3. Scales
    BY <1>3, <1>5, <2>1 DEF Scales
  <2> QED BY <1>1, <1>5, <2>1, <2>2, <2>3 DEF ScalingStage
<1>6. CASE StartAbortScaleDownDelay
  <2> DEFINE ready == StableRS.avail >= Replicas
             d == IF ready THEN "pending" ELSE rs[New].deadline
             D == IF ready THEN pass.dirty \cup {New} ELSE pass.dirty
  <2>1. d \in Deadlines /\ D \in SUBSET Hash
    BY <1>2 DEF ReplicaSetType, Deadlines
  <2>2. /\ rs' = [r1 EXCEPT ![New].deadline = d]
        /\ pass' = [pass EXCEPT !.rs = noted, !.dirty = D] /\ pc' = "cleanup"
    BY <1>6 DEF StartAbortScaleDownDelay
  <2> HIDE DEF d, D, r1, noted
  <2>3. /\ rs' \in [Hash -> ReplicaSetType]
        /\ \A g \in Hash : /\ rs'[g].exists = rs[g].exists /\ rs'[g].avail = rs[g].avail
                           /\ rs'[g].spec = rs[g].spec
    BY <1>4, <2>1, <2>2, ZenonT(30) DEF ReplicaSetType
  <2> QED BY <1>5, <2>1, <2>2, <2>3
<1>7. CASE WaitAbortScaleDownDelay
  <2>1. rs' = r1 /\ pc' = "cleanup" /\ pass' = [pass EXCEPT !.rs = noted]
    BY <1>7 DEF WaitAbortScaleDownDelay
  <2>2. pass' = [pass EXCEPT !.rs = noted, !.dirty = pass.dirty]
    <3> HIDE DEF noted
    <3> QED BY <1>2, <2>1 DEF PassType
  <2> HIDE DEF r1, noted
  <2> QED BY <1>2, <1>4, <1>5, <2>1, <2>2
<1>8. CASE UNCHANGED rs /\ EndPass
  <2>1. Stage /\ KeepsVerdict
    BY <1>8, EndPassStage
  <2>2. Scales /\ pc' = "idle"
    BY <1>8 DEF EndPass, Scales
  <2> QED BY <1>1, <1>2, <1>8, <2>1, <2>2 DEF ScalingStage
<1>9. ASSUME NEW n \in {0, NewReplicas}, ScaleReplicaSet(New, n, "cleanup")
      PROVE ScalingStage
  <2>1. n \in Nat /\ n \in {0, StableReplicas, NewReplicas}
    BY <1>1, SizesType
  <2> QED BY <1>1, <1>2, <1>9, <2>1, ScaleReplicaSetStage
<1> QED BY <1>6, <1>7, <1>8, <1>9 DEF ReconcileNewReplicaSet

\* cleanupUnhealthyReplicas.
LEMMA CleanupScales == ASSUME StepInv, CleanupUnhealthyReplicas PROVE ScalingStage
<1>1. /\ pc # "idle" /\ pc \in Stages /\ "scaleOthers" \in Stages
      /\ pc \in ScalingStages /\ pc # "pause" /\ "scaleOthers" \in ScalingStages
      /\ UNCHANGED <<user, status, services, weight, runs, pauseElapsed>>
  BY DEF CleanupUnhealthyReplicas, Stages, ScalingStages
<1>2. /\ pass \in PassType /\ rs \in [Hash -> ReplicaSetType]
      /\ Replicas \in Nat /\ pass.rs \in [Hash -> ReplicaSetType]
  BY <1>1, Typed, PassInProgress, InPassFields, PassFields DEF StepInv
<1>3. CASE UNCHANGED rs /\ (GoTo(NotScaled) \/ GoTo(Scaled))
  BY <1>1, <1>3, RestingStage, LeavesOff
<1>4. CASE /\ pc' = "scaleOthers" /\ UNCHANGED rs
           /\ pass' = [pass EXCEPT !.maxScaleDown = Available - LeastAvailable]
  <2>1. Available - LeastAvailable \in Int
    <3>1. Available \in Nat
      BY <1>2, AvailableType
    <3>2. LeastAvailable \in Int
      <4>1. MaxUnavailable(Quarter, Quarter, Replicas) \in Int
        BY <1>2, QuarterUnavailable
      <4> QED BY <1>2, <4>1 DEF LeastAvailable
    <3> QED BY <3>1, <3>2
  <2>2. /\ pass' \in PassType /\ pass'.spec = pass.spec /\ pass'.status = pass.status
        /\ pass'.scaling = pass.scaling /\ pass'.rs = pass.rs /\ pass'.weights = pass.weights
        /\ KeepsVerdict
    BY <1>2, <1>4, <2>1 DEF PassType, KeepsVerdict
  <2>3. Stage
    BY <1>1, <1>4, <2>2 DEF Stage
  <2>4. Scales
    BY <1>4, <2>2 DEF Scales
  <2> QED BY <1>1, <1>2, <1>4, <2>2, <2>3, <2>4 DEF ScalingStage
<1>5. ASSUME NEW h \in ToCleanUp, Write(h, pass.rs[h].avail), pc' = pc,
             pass' = [pass EXCEPT !.rs = [pass.rs EXCEPT ![h].spec = pass.rs[h].avail],
                                  !.scaledOld = TRUE]
      PROVE ScalingStage
  <2> DEFINE r == [pass.rs EXCEPT ![h].spec = pass.rs[h].avail]
  <2>1. h \in Hash /\ pass.rs[h].avail \in Nat
    BY <1>2 DEF ToCleanUp, ReplicaSetType
  <2>2. /\ rs' \in [Hash -> ReplicaSetType]
        /\ \A g \in Hash : /\ rs'[g].exists = rs[g].exists /\ rs'[g].avail = rs[g].avail
                           /\ rs'[g].spec = IF g = h THEN pass.rs[h].avail ELSE rs[g].spec
    BY <1>1, <1>5, <2>1, WriteFacts
  <2>3. /\ r \in [Hash -> ReplicaSetType]
        /\ \A g \in Hash : /\ r[g].avail = pass.rs[g].avail
                           /\ r[g].spec \in {pass.rs[g].spec, pass.rs[g].avail}
    BY <1>2, <2>1 DEF ReplicaSetType
  <2> HIDE DEF r
  <2>4. /\ pass' \in PassType /\ pass'.spec = pass.spec /\ pass'.status = pass.status
        /\ pass'.scaling = pass.scaling /\ pass'.rs = r /\ pass'.weights = pass.weights
        /\ KeepsVerdict
    <3>1. pass' = [pass EXCEPT !.rs = r, !.scaledOld = TRUE]
      BY <1>5 DEF r
    <3> QED BY <1>2, <2>3, <3>1 DEF PassType, KeepsVerdict
  <2>5. Stage
    BY <1>1, <1>5, <2>4 DEF Stage
  <2>6. Scales
    BY <2>2, <2>3, <2>4 DEF Scales
  <2> QED BY <1>1, <1>5, <2>2, <2>4, <2>5, <2>6 DEF ScalingStage
<1> QED BY <1>3, <1>4, <1>5 DEF CleanupUnhealthyReplicas

\* scaleDownOldReplicaSetsForCanary.
LEMMA OthersScale == ASSUME StepInv, ReconcileOtherReplicaSets PROVE ScalingStage
<1>1. /\ pc # "idle" /\ pc \in Stages /\ pc \in ScalingStages /\ pc # "pause"
      /\ UNCHANGED <<user, status, services, weight, runs, pauseElapsed>>
  BY DEF ReconcileOtherReplicaSets, Stages, ScalingStages
<1>2. /\ pass \in PassType /\ rs \in [Hash -> ReplicaSetType]
      /\ pass.rs \in [Hash -> ReplicaSetType] /\ pass.visited \in SUBSET Hash
      /\ pass.maxScaleDown \in Int /\ pass.scaledOld \in BOOLEAN
  BY <1>1, Typed, PassFields DEF StepInv
<1>3. CASE UNCHANGED rs /\ (GoTo(NotScaled) \/ GoTo(Scaled))
  BY <1>1, <1>3, RestingStage, LeavesOff
<1>4. ASSUME NEW h \in OldToScaleDown, NEW n, n = OldReplicas(h),
             \/ n # pass.rs[h].spec /\ Write(h, n)
             \/ n = pass.rs[h].spec /\ PatchDeadline(h, "pending")
             \/ UNCHANGED rs,
             pc' = pc,
             pass' = [pass EXCEPT !.visited = pass.visited \cup {h},
                                  !.scaledOld = pass.scaledOld \/ n # pass.rs[h].spec,
                                  !.maxScaleDown = pass.maxScaleDown - (pass.rs[h].spec - n)]
      PROVE ScalingStage
  <2>1. h \in Hash /\ pass.rs[h].spec \in Nat
    BY <1>2 DEF OldToScaleDown, ReplicaSetType
  <2>2. n \in {0, pass.rs[h].spec} /\ n \in Nat
    BY <1>4, <2>1 DEF OldReplicas
  <2>3. /\ rs' \in [Hash -> ReplicaSetType]
        /\ \A g \in Hash : /\ rs'[g].exists = rs[g].exists /\ rs'[g].avail = rs[g].avail
                           /\ rs'[g].spec \in {rs[g].spec, 0}
    <3>1. CASE n # pass.rs[h].spec /\ Write(h, n)
      <4>1. n = 0
        BY <2>2, <3>1
      <4> QED BY <1>1, <2>1, <2>2, <3>1, <4>1, WriteFacts
    <3>2. CASE PatchDeadline(h, "pending")
      BY <1>2, <2>1, <3>2, PatchDeadlineFacts DEF Deadlines
    <3> QED BY <1>2, <1>4, <3>1, <3>2
  <2> DEFINE V == pass.visited \cup {h}
             b == pass.scaledOld \/ n # pass.rs[h].spec
             m == pass.maxScaleDown - (pass.rs[h].spec - n)
  <2>4. V \in SUBSET Hash /\ m \in Int
    BY <1>2, <2>1, <2>2
  <2>5. b \in BOOLEAN
    OBVIOUS
  <2>6. pass' = [pass EXCEPT !.visited = V, !.scaledOld = b, !.maxScaleDown = m]
    BY <1>4, Zenon
  <2> HIDE DEF V, b, m
  <2>7. /\ pass' \in PassType /\ pass'.spec = pass.spec /\ pass'.status = pass.status
        /\ pass'.scaling = pass.scaling /\ pass'.rs = pass.rs /\ pass'.weights = pass.weights
        /\ KeepsVerdict
    BY <1>2, <2>4, <2>5, <2>6 DEF PassType, KeepsVerdict
  <2>8. Stage
    BY <1>1, <1>4, <2>7 DEF Stage
  <2>9. Scales
    BY <2>3, <2>7 DEF Scales
  <2> QED BY <1>1, <1>4, <2>3, <2>7, <2>8, <2>9 DEF ScalingStage
<1>5. ASSUME NEW h \in OldToScaleDown,
             LET n == OldReplicas(h)
                 scales == n # pass.rs[h].spec
                 refused == scales /\ h \in pass.dirty
             IN /\ IF scales THEN Write(h, n) \/ (refused /\ UNCHANGED rs)
                   ELSE IF StartsScaleDownDelay(h) THEN PatchDeadline(h, "pending")
                   ELSE UNCHANGED rs
                /\ IF refused THEN GoTo(NotScaled)
                   ELSE /\ pc' = pc
                        /\ pass' = [pass EXCEPT
                              !.visited = @ \cup {h},
                              !.scaledOld = @ \/ scales,
                              !.maxScaleDown = @ - (pass.rs[h].spec - n)]
      PROVE ScalingStage
  <2> DEFINE n == OldReplicas(h)
             scales == n # pass.rs[h].spec
  <2>1. CASE scales /\ h \in pass.dirty
    <3>1. GoTo(NotScaled) /\ UNCHANGED rs
      BY <1>5, <2>1 DEF Write
    <3> QED BY <1>3, <3>1
  <2>2. CASE ~(scales /\ h \in pass.dirty)
    <3>1. /\ pc' = pc
          /\ pass' = [pass EXCEPT !.visited = @ \cup {h}, !.scaledOld = @ \/ scales,
                                  !.maxScaleDown = @ - (pass.rs[h].spec - n)]
      BY <1>5, <2>2, Zenon
    <3>2. \/ n # pass.rs[h].spec /\ Write(h, n)
          \/ n = pass.rs[h].spec /\ PatchDeadline(h, "pending")
          \/ UNCHANGED rs
      BY <1>5, <2>2, Zenon
    <3> QED BY <1>4, <3>1, <3>2
  <2> QED BY <2>1, <2>2
<1> QED BY <1>3, <1>5 DEF ReconcileOtherReplicaSets
----------------------------------------------------------------------------
(* The other stages.                                                        *)

\* The stages that write a Service leave the rest alone.
ServiceStage ==
    /\ UNCHANGED <<user, status, weight, rs, runs, pauseElapsed, pass>>
    /\ canarySvc' \in {canarySvc, New, Stable} /\ stableSvc' \in {stableSvc, Stable}
    /\ pc' \in {"canaryService", "abortService", "trafficRouting"}

LEMMA ServicesStage ==
    ASSUME \/ ReconcileStableService \/ ReconcileCanaryService \/ ResetCanaryServiceOnAbort
    PROVE ServiceStage
<1>1. CASE ReconcileStableService
  <2>1. stableSvc' \in {stableSvc, Stable}
    BY <1>1 DEF ReconcileStableService, SwitchedTo
  <2> QED BY <1>1, <2>1 DEF ReconcileStableService, ServiceStage, GoTo
<1>2. CASE ReconcileCanaryService
  <2>1. canarySvc' \in {canarySvc, New}
    BY <1>2 DEF ReconcileCanaryService, SwitchedTo
  <2> QED BY <1>2, <2>1 DEF ReconcileCanaryService, ServiceStage, GoTo
<1>3. CASE ResetCanaryServiceOnAbort
  <2>1. canarySvc' \in {canarySvc, Stable}
    BY <1>3 DEF ResetCanaryServiceOnAbort
  <2> QED BY <1>3, <2>1 DEF ResetCanaryServiceOnAbort, ServiceStage, GoTo
<1> QED BY <1>1, <1>2, <1>3

\* The weight changes together with the weights of the next status.
TrafficStage ==
    /\ UNCHANGED <<user, status, services, rs, runs, pauseElapsed>>
    /\ weight' \in {weight, DesiredWeight}
    /\ Stage /\ KeepsVerdict /\ pc' = "analysis" /\ pass'.rs = pass.rs
    /\ pass'.weights.canary \in {pass.weights.canary, DesiredWeight}

LEMMA RoutingStage ==
    ASSUME StepInv, ReconcileTrafficRouting PROVE TrafficStage
<1>1. pc # "idle" /\ pc' = "analysis" /\ pc' \in Stages
      /\ UNCHANGED <<user, status, services, rs, runs, pauseElapsed>>
  BY DEF ReconcileTrafficRouting, Stages
<1>2. /\ pass \in PassType /\ New \in Hash /\ Stable \in Hash /\ DesiredWeight \in Nat
      /\ pass.status.weights.canaryHash \in Hash \cup {NoHash}
  <2>1. InPass
    BY <1>1, PassInProgress
  <2>2. pass.status.weights \in WeightsType
    BY <2>1, PassFields, StatusFields DEF InPass
  <2> QED BY <2>1, <2>2, DesiredWeightType DEF InPass, WeightsType
<1>3. CASE UNCHANGED <<weight, pass>>
  BY <1>1, <1>2, <1>3 DEF TrafficStage, Stage, KeepsVerdict
<1>4. ASSUME NEW c \in Hash \cup {NoHash}, weight' = DesiredWeight,
             pass' = [pass EXCEPT !.weights = [canary |-> DesiredWeight,
                                               stableHash |-> Stable, canaryHash |-> c]]
      PROVE TrafficStage
  <2> DEFINE w == [canary |-> DesiredWeight, stableHash |-> Stable, canaryHash |-> c]
  <2>1. w \in WeightsType /\ w.canary = DesiredWeight
    BY <1>2 DEF WeightsType
  <2> HIDE DEF w
  <2>2. /\ pass' \in PassType /\ pass'.spec = pass.spec /\ pass'.status = pass.status
        /\ pass'.scaling = pass.scaling /\ pass'.rs = pass.rs /\ pass'.weights = w
        /\ KeepsVerdict
    <3>1. pass' = [pass EXCEPT !.weights = w]
      BY <1>4 DEF w
    <3> QED BY <1>2, <2>1, <3>1 DEF PassType, KeepsVerdict
  <2> QED BY <1>1, <1>4, <2>1, <2>2 DEF TrafficStage, Stage
<1>5. CASE /\ weight' = DesiredWeight
           /\ pass' = [pass EXCEPT !.weights =
                [canary |-> DesiredWeight, stableHash |-> Stable,
                 canaryHash |-> IF IsDynamicallyRollingBackToStable
                                THEN pass.status.weights.canaryHash ELSE New]]
  <2> DEFINE c == IF IsDynamicallyRollingBackToStable
                  THEN pass.status.weights.canaryHash ELSE New
  <2>1. c \in Hash \cup {NoHash}
    BY <1>2
  <2> QED BY <1>4, <1>5, <2>1, Zenon
<1> QED BY <1>3, <1>5, Zenon DEF ReconcileTrafficRouting

\* The stages of the analysis write the runs, and what they make of them.
AnalysisStage ==
    /\ UNCHANGED <<user, status, services, weight, rs, pauseElapsed>>
    /\ runs' \in [RunIds -> RunType]
    /\ Stage /\ pc' \in Stages /\ pass'.rs = pass.rs /\ pass'.weights = pass.weights
    /\ pass'.addAbort => pass.addAbort \/ ~IsFullyPromoted(pass.status)
    /\ pc' = "backgroundAnalysis" => ~IsFullyPromoted(pass.status)

\* A run of the index of a step, or of the background, made for this version.
LEMMA CreatedType ==
    ASSUME StepInv, pc # "idle", NEW step \in {Background} \cup Nat, NEW i \in CreateIds(step)
    PROVE i \in RunIds /\ i \in 0..MaxRuns /\ Created(runs, step, i) \in [RunIds -> RunType]
<1>1. i \in RunIds /\ i \in 0..MaxRuns
  BY DEF CreateIds, InProgress, FreeIds, RunIds
<1>2. [step |-> step, hash |-> New, revision |-> NewRS.revision, phase |-> "Running",
       terminate |-> FALSE] \in RunType
  BY PassInProgress, InPassFields DEF InPass, RunType, Phases
<1> QED BY <1>1, <1>2, Typed DEF Created, StepInv

\* Some runs are asked to terminate, and nothing else.
LEMMA CancelledFacts ==
    ASSUME NEW view \in [RunIds -> RunType], NEW ids
    PROVE /\ Cancelled(view, ids) \in [RunIds -> RunType]
          /\ \A i \in RunIds : LET run == Cancelled(view, ids)[i]
                               IN /\ run.step = view[i].step /\ run.hash = view[i].hash
                                  /\ run.phase = view[i].phase
<1>1. \A i \in RunIds : /\ [view[i] EXCEPT !.terminate = TRUE] \in RunType
                        /\ [view[i] EXCEPT !.terminate = TRUE].step = view[i].step
                        /\ [view[i] EXCEPT !.terminate = TRUE].hash = view[i].hash
                        /\ [view[i] EXCEPT !.terminate = TRUE].phase = view[i].phase
  BY DEF RunType
<1>2. \A i \in RunIds : Cancelled(view, ids)[i] \in {view[i], [view[i] EXCEPT !.terminate = TRUE]}
  BY DEF Cancelled
<1>3. Cancelled(view, ids) = [i \in RunIds |-> Cancelled(view, ids)[i]]
  BY DEF Cancelled
<1> QED BY <1>1, <1>2, <1>3

\* What the phase of a run asks for is noted in the context.
LEMMA VerdictFacts ==
    ASSUME pass \in PassType, NEW id \in 0..MaxRuns
    PROVE LET new == Verdict(pass, id) IN
          /\ new \in PassType /\ new.spec = pass.spec /\ new.status = pass.status
          /\ new.scaling = pass.scaling /\ new.rs = pass.rs /\ new.weights = pass.weights
          /\ new.runs = pass.runs /\ new.stepRun = pass.stepRun
          /\ \/ new.addPauses = pass.addPauses
             \/ id # 0 /\ pass.runs[id].phase = "Inconclusive"
<1> DEFINE phase == IF id = 0 THEN "none" ELSE pass.runs[id].phase
           P == IF phase = "Inconclusive" THEN pass.addPauses \cup {Inconclusive}
                                          ELSE pass.addPauses
           a == pass.addAbort \/ phase = "Failed"
           new == Verdict(pass, id)
<1>1. new = [pass EXCEPT !.addPauses = P, !.addAbort = a]
  BY DEF Verdict
<1>2. P \in SUBSET PauseReason /\ (P = pass.addPauses \/ phase = "Inconclusive")
  <2> HIDE DEF phase
  <2> QED BY PassFields DEF PauseReason
<1>3. a \in BOOLEAN
  OBVIOUS
<1>4. phase = "Inconclusive" => id # 0 /\ pass.runs[id].phase = "Inconclusive"
  OBVIOUS
<1> HIDE DEF P, a, new, phase
<1>5. /\ new \in PassType /\ new.spec = pass.spec /\ new.status = pass.status
      /\ new.scaling = pass.scaling /\ new.rs = pass.rs /\ new.weights = pass.weights
      /\ new.runs = pass.runs /\ new.stepRun = pass.stepRun /\ new.addPauses = P
  BY <1>1, <1>2, <1>3 DEF PassType
<1> QED BY <1>2, <1>4, <1>5 DEF new

\* reconcileStepBasedAnalysisRun.
LEMMA StepAnalysisStage ==
    ASSUME StepInv, ReconcileStepBasedAnalysisRun PROVE AnalysisStage
<1>1. /\ pc # "idle" /\ pc' = "backgroundAnalysis" /\ pc' \in Stages
      /\ UNCHANGED <<user, status, services, weight, rs, pauseElapsed>>
      /\ ~IsFullyPromoted(pass.status)
  BY DEF ReconcileStepBasedAnalysisRun, Stages, ShouldCancelCurrentAnalysis
<1>2. /\ pass \in PassType /\ runs \in [RunIds -> RunType] /\ Index \in Nat
      /\ pass.runs \in [RunIds -> RunType] /\ pass.stepRun \in 0..MaxRuns
  BY <1>1, Typed, PassFields, PassInProgress, InPassFields DEF StepInv
<1>3. ASSUME runs' \in [RunIds -> RunType], pass' \in PassType, pass'.spec = pass.spec,
             pass'.status = pass.status, pass'.scaling = pass.scaling, pass'.rs = pass.rs,
             pass'.weights = pass.weights
      PROVE AnalysisStage
  BY <1>1, <1>3 DEF AnalysisStage, Stage
<1>4. CASE UNCHANGED <<runs, pass>>
  BY <1>2, <1>3, <1>4
<1>5. CASE runs' = Cancelled(runs, {pass.stepRun}) /\ pass' = [pass EXCEPT !.stepRun = 0]
  <2>1. /\ pass' \in PassType /\ pass'.spec = pass.spec /\ pass'.status = pass.status
        /\ pass'.scaling = pass.scaling /\ pass'.rs = pass.rs /\ pass'.weights = pass.weights
    BY <1>2, <1>5, CountAssumption DEF PassType
  <2>2. runs' \in [RunIds -> RunType]
    BY <1>2, <1>5, CancelledFacts
  <2> QED BY <1>3, <2>1, <2>2
<1>6. ASSUME NEW i \in CreateIds(Index), runs' = Created(runs, Index, i),
             pass' = [pass EXCEPT !.stepRun = i, !.runs = [pass.runs EXCEPT ![i] = runs'[i]]]
      PROVE AnalysisStage
  <2>1. i \in RunIds /\ i \in 0..MaxRuns /\ runs' \in [RunIds -> RunType]
    BY <1>1, <1>2, <1>6, CreatedType
  <2> DEFINE view == [pass.runs EXCEPT ![i] = runs'[i]]
  <2>2. view \in [RunIds -> RunType]
    BY <1>2, <2>1
  <2>3. pass' = [pass EXCEPT !.stepRun = i, !.runs = view]
    BY <1>6
  <2> HIDE DEF view
  <2>4. /\ pass' \in PassType /\ pass'.spec = pass.spec /\ pass'.status = pass.status
        /\ pass'.scaling = pass.scaling /\ pass'.rs = pass.rs /\ pass'.weights = pass.weights
    BY <1>2, <2>1, <2>2, <2>3 DEF PassType
  <2> QED BY <1>3, <2>1, <2>4
<1>7. CASE pass' = Verdict(pass, pass.stepRun) /\ UNCHANGED runs
  BY <1>2, <1>3, <1>7, VerdictFacts
<1> QED BY <1>4, <1>5, <1>6, <1>7 DEF ReconcileStepBasedAnalysisRun

\* reconcileBackgroundAnalysisRun.
LEMMA BackgroundAnalysisStage ==
    ASSUME StepInv, ReconcileBackgroundAnalysisRun PROVE AnalysisStage
<1>1. /\ pc # "idle" /\ pc' = "otherRuns" /\ pc' \in Stages
      /\ UNCHANGED <<user, status, services, weight, rs, pauseElapsed>>
      /\ ~IsFullyPromoted(pass.status)
  BY DEF ReconcileBackgroundAnalysisRun, Stages, StepInv, StepsKept
<1>2. /\ pass \in PassType /\ runs \in [RunIds -> RunType]
      /\ pass.runs \in [RunIds -> RunType] /\ pass.backRun \in 0..MaxRuns
  BY <1>1, Typed, PassFields DEF StepInv
<1>3. ASSUME runs' \in [RunIds -> RunType], pass' \in PassType, pass'.spec = pass.spec,
             pass'.status = pass.status, pass'.scaling = pass.scaling, pass'.rs = pass.rs,
             pass'.weights = pass.weights
      PROVE AnalysisStage
  BY <1>1, <1>3 DEF AnalysisStage, Stage
<1>4. CASE UNCHANGED <<runs, pass>>
  BY <1>2, <1>3, <1>4
<1>5. CASE UNCHANGED runs /\ pass' = [pass EXCEPT !.backRun = 0]
  <2>1. /\ pass' \in PassType /\ pass'.spec = pass.spec /\ pass'.status = pass.status
        /\ pass'.scaling = pass.scaling /\ pass'.rs = pass.rs /\ pass'.weights = pass.weights
    BY <1>2, <1>5, CountAssumption DEF PassType
  <2> QED BY <1>2, <1>3, <1>5, <2>1
<1>6. ASSUME NEW i \in CreateIds(Background), runs' = Created(runs, Background, i),
             pass' = [pass EXCEPT !.backRun = i, !.runs = [pass.runs EXCEPT ![i] = runs'[i]]]
      PROVE AnalysisStage
  <2>1. i \in RunIds /\ i \in 0..MaxRuns /\ runs' \in [RunIds -> RunType]
    BY <1>1, <1>2, <1>6, CreatedType
  <2> DEFINE view == [pass.runs EXCEPT ![i] = runs'[i]]
  <2>2. view \in [RunIds -> RunType]
    BY <1>2, <2>1
  <2>3. pass' = [pass EXCEPT !.backRun = i, !.runs = view]
    BY <1>6
  <2> HIDE DEF view
  <2>4. /\ pass' \in PassType /\ pass'.spec = pass.spec /\ pass'.status = pass.status
        /\ pass'.scaling = pass.scaling /\ pass'.rs = pass.rs /\ pass'.weights = pass.weights
    BY <1>2, <2>1, <2>2, <2>3 DEF PassType
  <2> QED BY <1>3, <2>1, <2>4
<1>7. CASE pass' = Verdict(pass, pass.backRun) /\ UNCHANGED runs
  BY <1>2, <1>3, <1>7, VerdictFacts
<1> QED BY <1>4, <1>5, <1>6, <1>7 DEF ReconcileBackgroundAnalysisRun

\* The runs that are cancelled, and the others.
LEMMA OtherRunsStage ==
    ASSUME StepInv, CancelCurrentAnalysis \/ ReconcileOtherRuns PROVE AnalysisStage
<1>1. pass \in PassType /\ runs \in [RunIds -> RunType]
  BY Typed DEF StepInv
<1>2. CASE CancelCurrentAnalysis
  <2>1. /\ runs' = Cancelled(runs, {pass.stepRun, pass.backRun})
        /\ pass' = [pass EXCEPT !.stepRun = 0, !.backRun = 0]
        /\ pc' = "otherRuns" /\ pc' \in Stages
        /\ UNCHANGED <<user, status, services, weight, rs, pauseElapsed>>
    BY <1>2 DEF CancelCurrentAnalysis, Stages
  <2>2. /\ pass' \in PassType /\ pass'.spec = pass.spec /\ pass'.status = pass.status
        /\ pass'.scaling = pass.scaling /\ pass'.rs = pass.rs /\ pass'.weights = pass.weights
        /\ pass'.addAbort = pass.addAbort
    <3>1. 0 \in 0..MaxRuns /\ pass' = [pass EXCEPT !.stepRun = 0, !.backRun = 0]
      BY <2>1, CountAssumption
    <3> QED BY <1>1, <3>1 DEF PassType
  <2>3. runs' \in [RunIds -> RunType]
    BY <1>1, <2>1, CancelledFacts
  <2> QED BY <2>1, <2>2, <2>3 DEF AnalysisStage, Stage
<1>3. CASE ReconcileOtherRuns
  <2>1. /\ runs' = [i \in RunIds |-> Tidied(i)]
        /\ GoTo(IF pass.addPauses # {} THEN "sync" ELSE "removeDeadlines")
        /\ UNCHANGED <<user, status, services, weight, rs, pauseElapsed>>
    BY <1>3 DEF ReconcileOtherRuns
  <2>2. runs' \in [RunIds -> RunType]
    <3>1. \A i \in RunIds : [runs[i] EXCEPT !.terminate = TRUE] \in RunType
      BY <1>1 DEF RunType
    <3>2. NoRun \in RunType
      BY DEF NoRun, RunType, Phases
    <3>3. \A i \in RunIds : Tidied(i) \in {runs[i], NoRun, [runs[i] EXCEPT !.terminate = TRUE]}
      BY Zenon DEF Tidied
    <3> QED BY <1>1, <2>1, <3>1, <3>2, <3>3
  <2>3. pass' = pass /\ pc' \in {"sync", "removeDeadlines"}
    BY <2>1 DEF GoTo
  <2>4. Stage /\ pc' \in Stages
    BY <1>1, <2>3 DEF Stage, Stages
  <2> QED BY <2>1, <2>2, <2>3, <2>4 DEF AnalysisStage
<1> QED BY <1>2, <1>3

\* reconcileCanaryPause may ask for a pause.
PauseStage ==
    /\ UNCHANGED <<user, status, services, weight, rs, runs, pauseElapsed>>
    /\ Stage /\ pc' = "sync" /\ pass'.rs = pass.rs /\ pass'.weights = pass.weights
    /\ pass'.runs = pass.runs /\ pass'.stepRun = pass.stepRun
    /\ pass'.addAbort = pass.addAbort
    /\ \/ pass'.addPauses = pass.addPauses
       \/ IsPauseStep /\ pass'.addPauses = pass.addPauses \cup {CanaryPause}

LEMMA PausingStage ==
    ASSUME pass \in PassType, ReconcileCanaryPause PROVE PauseStage
<1>1. pc' = "sync" /\ pc' \in Stages
      /\ UNCHANGED <<user, status, services, weight, rs, runs, pauseElapsed>>
  BY DEF ReconcileCanaryPause, Stages
<1>2. CASE pass' = pass
  BY <1>1, <1>2 DEF PauseStage, Stage
<1>3. CASE IsPauseStep /\ pass' = [pass EXCEPT !.addPauses = pass.addPauses \cup {CanaryPause}]
  <2> DEFINE P == pass.addPauses \cup {CanaryPause}
  <2>1. P \in SUBSET PauseReason
    BY PassFields DEF PauseReason
  <2>2. pass' = [pass EXCEPT !.addPauses = P]
    BY <1>3
  <2> HIDE DEF P
  <2>3. /\ pass' \in PassType /\ pass'.spec = pass.spec /\ pass'.status = pass.status
        /\ pass'.scaling = pass.scaling /\ pass'.rs = pass.rs /\ pass'.weights = pass.weights
        /\ pass'.runs = pass.runs /\ pass'.stepRun = pass.stepRun
        /\ pass'.addAbort = pass.addAbort /\ pass'.addPauses = P
    BY <2>1, <2>2 DEF PassType
  <2> QED BY <1>1, <1>3, <2>3 DEF PauseStage, Stage, P
<1> QED BY <1>2, <1>3 DEF ReconcileCanaryPause
----------------------------------------------------------------------------
(* The type invariant and what makes it inductive.                          *)

\* The first version: nothing of an update yet.
LEMMA StepInit == ASSUME Init PROVE StepInv
<1>1. PICK h \in Hash, n \in ReplicaCounts :
         /\ spec = [template |-> h, replicas |-> n, paused |-> FALSE]
         /\ status = [NoStatus EXCEPT !.stableRS = h, !.currentPodHash = h,
                        !.step = Len(strategy.steps),
                        !.weights = [canary |-> 0, canaryHash |-> h, stableHash |-> h]]
         /\ canarySvc = h /\ stableSvc = h
         /\ rs = [g \in Hash |-> IF g = h
                    THEN [exists |-> TRUE, spec |-> n, avail |-> n, desired |-> n,
                          deadline |-> "none", revision |-> 1]
                    ELSE NoReplicaSet]
  BY Zenon DEF Init
<1>2. strategy \in Strategies /\ Len(Steps) \in Nat
  BY StepsType DEF Init
<1>3. n \in Nat /\ n > 0 /\ n > 0
  BY CountAssumption
<1>4. spec \in SpecType /\ spec.template \in Hash /\ spec.replicas > 0
  BY <1>1, <1>3 DEF SpecType
<1>5. /\ status \in StatusType /\ status.stableRS = h /\ status.currentPodHash = h
      /\ status.step = Len(Steps)
  <2> DEFINE w == [canary |-> 0, canaryHash |-> h, stableHash |-> h]
             s1 == [NoStatus EXCEPT !.stableRS = h, !.currentPodHash = h]
             s2 == [s1 EXCEPT !.step = Len(Steps), !.weights = w]
  <2>1. w \in WeightsType
    BY DEF WeightsType
  <2>2. s1 \in StatusType /\ s1.stableRS = h /\ s1.currentPodHash = h
    <3>1. NoStatus \in StatusType
      BY CountAssumption DEF NoStatus, StatusType, NoWeights, WeightsType, Phases
    <3> QED BY <3>1 DEF StatusType
  <2>3. s2 \in StatusType /\ s2.stableRS = h /\ s2.currentPodHash = h /\ s2.step = Len(Steps)
    <3> HIDE DEF s1, w
    <3> QED BY <1>2, <2>1, <2>2 DEF StatusType
  <2>4. status = s2
    BY <1>1, Zenon DEF Steps
  <2> HIDE DEF s2
  <2> QED BY <2>3, <2>4
<1>6. rs \in [Hash -> ReplicaSetType] /\ rs[h].exists
  BY <1>1, <1>3 DEF ReplicaSetType, NoReplicaSet, Deadlines
<1>7. runs \in [RunIds -> RunType]
  BY DEF Init, RunType, NoRun, Phases, Background
<1>8. budget \in [user : Nat, pods : Nat, passes : Nat]
  BY CountAssumption DEF Init
<1>9. pc = "idle" /\ pass = NoPass /\ pauseElapsed = FALSE /\ weight = 0
      /\ resumed = FALSE /\ client = NoClient
  BY DEF Init
<1>10. TypeOK
  <2>1. status.step <= Len(Steps) + 1
        /\ client \in ClientType /\ client.step <= Len(Steps)
    BY <1>2, <1>5, <1>9 DEF NoClient, ClientType
  <2> QED BY <1>1, <1>2, <1>4, <1>5, <1>6, <1>7, <1>8, <1>9, <2>1, NoPassType DEF TypeOK
<1>11. StepsFit(status)
  BY <1>2, <1>5 DEF StepsFit
<1> QED BY <1>4, <1>9, <1>10, <1>11 DEF StepInv, Snapshot, StepsKept

\* Any stage: the snapshot stays, and what exists.
LEMMA StageKeeps ==
    ASSUME StepInv, pc # "idle", UNCHANGED <<user, status, pauseElapsed>>, Stage,
           rs' \in [Hash -> ReplicaSetType], \A h \in Hash : rs[h].exists => rs'[h].exists,
           runs' \in [RunIds -> RunType], weight' \in Nat,
           canarySvc' \in {canarySvc, New, Stable}, stableSvc' \in {stableSvc, Stable},
           pc' # "idle" /\ (pass'.addAbort \/ pc' = "backgroundAnalysis")
             => pass.addAbort \/ ~IsFullyPromoted(pass.status)
    PROVE StepInv'
<1>1. strategy' = strategy /\ spec' = spec /\ status' = status /\ resumed' = resumed
      /\ client' = client /\ budget' = budget /\ pauseElapsed' = pauseElapsed
  BY DEF user
<1>2. New \in Hash /\ rs[New].exists /\ Stable = status.stableRS
  BY DEF StepInv, Snapshot
<1>3. TypeOK'
  <2>1. \A h \in {canarySvc', stableSvc', status.stableRS} : h \in Hash /\ rs'[h].exists
    BY <1>2, Typed DEF StepInv
  <2> QED BY <1>1, <2>1 DEF StepInv, TypeOK, Stage, Steps
<1>4. Snapshot'
  BY <1>1, <1>2 DEF StepInv, Snapshot, Stage, New, Stable, Replicas
<1>5. StepsKept'
  <2>1. Steps' = Steps
    BY <1>1 DEF Steps
  <2>2. StepsFit(status)' = StepsFit(status)
    BY <1>1, <2>1 DEF StepsFit, IsFullyPromoted
  <2>3. ASSUME pc' # "idle" PROVE StepsFit(pass.status)' = StepsFit(pass.status)
    BY <2>1, <2>3 DEF StepsFit, IsFullyPromoted, Stage
  <2>4. CASE pc' = "idle"
    BY <2>2, <2>4 DEF StepInv, StepsKept
  <2>5. CASE pc' # "idle"
    <3>1. Index' = Index /\ pass'.status = pass.status
      BY <2>5 DEF Stage, Index
    <3> QED BY <1>1, <2>1, <2>2, <2>3, <2>5, <3>1 DEF StepInv, StepsKept
  <2> QED BY <2>4, <2>5
<1> QED BY <1>3, <1>4, <1>5 DEF StepInv

\* All the stages.
LEMMA StepStages ==
    ASSUME StepInv,
           \/ ReconcileStableService \/ ReconcileCanaryService \/ ResetCanaryServiceOnAbort
           \/ ReconcileTrafficRouting
           \/ CancelCurrentAnalysis \/ ReconcileStepBasedAnalysisRun
           \/ ReconcileBackgroundAnalysisRun \/ ReconcileOtherRuns
           \/ RemoveScaleDownDeadlines \/ ReconcileStableReplicaSet \/ ReconcileNewReplicaSet
           \/ CleanupUnhealthyReplicas \/ ReconcileOtherReplicaSets
           \/ ReconcileCanaryPause
    PROVE StepInv' /\ pc # "idle"
<1>1. pc # "idle"
  BY DEF ReconcileStableService, ReconcileCanaryService, ResetCanaryServiceOnAbort,
         ReconcileTrafficRouting, CancelCurrentAnalysis, ReconcileStepBasedAnalysisRun,
         ReconcileBackgroundAnalysisRun, ReconcileOtherRuns, RemoveScaleDownDeadlines,
         ReconcileStableReplicaSet, ReconcileNewReplicaSet, CleanupUnhealthyReplicas,
         ReconcileOtherReplicaSets, ReconcileCanaryPause
<1>2. /\ rs \in [Hash -> ReplicaSetType] /\ runs \in [RunIds -> RunType] /\ pass \in PassType
      /\ weight \in Nat
  BY Typed DEF StepInv, TypeOK
<1>3. CASE ServiceStage
  <2>1. Stage /\ pass'.addAbort = pass.addAbort /\ pc' # "backgroundAnalysis"
    BY <1>2, <1>3 DEF Stage, ServiceStage, Stages
  <2> QED BY <1>1, <1>2, <1>3, <2>1, StageKeeps DEF ServiceStage
<1>4. CASE TrafficStage
  <2>1. weight' \in Nat
    BY <1>1, <1>2, <1>4, PassInProgress, DesiredWeightType DEF TrafficStage
  <2> QED BY <1>1, <1>2, <1>4, <2>1, StageKeeps DEF TrafficStage, KeepsVerdict, services
<1>5. CASE AnalysisStage
  BY <1>1, <1>2, <1>5, StageKeeps DEF AnalysisStage, services
<1>6. CASE ScalingStage
  BY <1>1, <1>2, <1>6, StageKeeps
  DEF ScalingStage, ScalingStages, Scales, KeepsVerdict, services
<1>7. CASE PauseStage
  BY <1>1, <1>2, <1>7, StageKeeps DEF PauseStage, services
<1> QED BY <1>1, <1>2, <1>3, <1>4, <1>5, <1>6, <1>7, ServicesStage, RoutingStage,
        OtherRunsStage, StepAnalysisStage, BackgroundAnalysisStage, StableScales, NewScales,
        CleanupScales, OthersScale, PausingStage

\* A ReplicaSet more may be stale in the snapshot.
LEMMA SetAvailableFacts ==
    ASSUME StepInv, NEW h \in Hash, NEW n \in Nat, SetAvailable(h, n)
    PROVE /\ rs' \in [Hash -> ReplicaSetType] /\ pass' \in PassType
          /\ pass'.spec = pass.spec /\ pass'.status = pass.status
          /\ pass'.scaling = pass.scaling /\ pass'.rs = pass.rs
          /\ pass'.weights = pass.weights /\ pass'.runs = pass.runs
          /\ pass'.stepRun = pass.stepRun /\ pass'.addPauses = pass.addPauses
          /\ pass'.addAbort = pass.addAbort /\ pass'.removeAbort = pass.removeAbort
          /\ \A g \in Hash : /\ rs'[g].exists = rs[g].exists /\ rs'[g].spec = rs[g].spec
                             /\ rs'[g].avail = IF g = h THEN n ELSE rs[g].avail
<1>1. rs \in [Hash -> ReplicaSetType] /\ pass \in PassType
  BY Typed DEF StepInv
<1>2. /\ rs' \in [Hash -> ReplicaSetType]
      /\ \A g \in Hash : /\ rs'[g].exists = rs[g].exists /\ rs'[g].spec = rs[g].spec
                         /\ rs'[g].avail = IF g = h THEN n ELSE rs[g].avail
  BY <1>1 DEF SetAvailable, ReplicaSetType
<1>3. CASE pass' = pass
  BY <1>1, <1>2, <1>3
<1>4. CASE pass' = [pass EXCEPT !.dirty = pass.dirty \cup {h}]
  BY <1>1, <1>2, <1>4 DEF PassType
<1> QED BY <1>3, <1>4 DEF SetAvailable

\* What the cluster does: pods, deadlines, runs and the pause's timer.  It
\* leaves the status and what a pass makes of it alone.
ClusterStep ==
    /\ UNCHANGED <<strategy, spec, client, resumed, status, services, weight, pc>>
    /\ rs' \in [Hash -> ReplicaSetType] /\ runs' \in [RunIds -> RunType] /\ pass' \in PassType
    /\ pass'.spec = pass.spec /\ pass'.status = pass.status
    /\ pass'.scaling = pass.scaling /\ pass'.rs = pass.rs
    /\ pass'.weights = pass.weights /\ pass'.runs = pass.runs
    /\ pass'.stepRun = pass.stepRun /\ pass'.addPauses = pass.addPauses
    /\ pass'.addAbort = pass.addAbort /\ pass'.removeAbort = pass.removeAbort
    /\ \A h \in Hash : /\ rs'[h].exists = rs[h].exists /\ rs'[h].spec = rs[h].spec
                       /\ rs'[h].avail <= rs[h].avail \/ rs'[h].avail <= rs[h].spec
    /\ \A i \in RunIds : \/ runs'[i] = runs[i]
                         \/ /\ runs[i].phase = "Running" /\ runs'[i].phase \in Completed
                            /\ runs'[i].step = runs[i].step /\ runs'[i].hash = runs[i].hash

LEMMA ClusterSteps ==
    ASSUME StepInv, Cluster
    PROVE /\ ClusterStep /\ pauseElapsed' \in BOOLEAN
          /\ budget' \in [user : Nat, pods : Nat, passes : Nat]
<1>1. /\ rs \in [Hash -> ReplicaSetType] /\ pass \in PassType /\ runs \in [RunIds -> RunType]
      /\ budget \in [user : Nat, pods : Nat, passes : Nat] /\ pauseElapsed \in BOOLEAN
  BY Typed DEF StepInv, TypeOK
<1>2. \A h \in Hash : rs[h].spec \in Nat /\ rs[h].avail \in Nat
  BY <1>1 DEF ReplicaSetType
<1>3. ASSUME NEW h \in Hash, PodBecomesAvailable(h)
      PROVE ClusterStep /\ UNCHANGED <<pauseElapsed, budget>>
  <2>1. rs[h].avail + 1 \in Nat /\ rs[h].avail + 1 <= rs[h].spec
    BY <1>2, <1>3 DEF PodBecomesAvailable
  <2> QED BY <1>1, <1>2, <1>3, <2>1, SetAvailableFacts DEF PodBecomesAvailable, ClusterStep, user
<1>4. ASSUME NEW h \in Hash, PodBecomesUnavailable(h)
      PROVE /\ ClusterStep /\ UNCHANGED pauseElapsed
            /\ budget' \in [user : Nat, pods : Nat, passes : Nat]
  <2>1. rs[h].avail - 1 \in Nat /\ rs[h].avail - 1 <= rs[h].avail
    BY <1>2, <1>4 DEF PodBecomesUnavailable
  <2>2. budget' \in [user : Nat, pods : Nat, passes : Nat]
    BY <1>1, <1>4 DEF PodBecomesUnavailable
  <2> QED BY <1>1, <1>2, <1>4, <2>1, <2>2, SetAvailableFacts DEF PodBecomesUnavailable, ClusterStep
<1>5. ASSUME NEW h \in Hash, PodsTerminate(h)
      PROVE ClusterStep /\ UNCHANGED <<pauseElapsed, budget>>
  BY <1>1, <1>2, <1>5, SetAvailableFacts DEF PodsTerminate, ClusterStep, user
<1>6. ASSUME NEW h \in Hash, DeadlinePasses(h)
      PROVE ClusterStep /\ UNCHANGED <<pauseElapsed, budget>>
  <2>1. /\ rs' \in [Hash -> ReplicaSetType]
        /\ \A g \in Hash : /\ rs'[g].exists = rs[g].exists /\ rs'[g].avail = rs[g].avail
                           /\ rs'[g].spec = rs[g].spec
    BY <1>1, <1>6, PatchDeadlineFacts DEF DeadlinePasses, Deadlines
  <2> QED BY <1>1, <1>2, <1>6, <2>1 DEF DeadlinePasses, ClusterStep, user
<1>7. ASSUME NEW i \in RunIds, RunCompletes(i)
      PROVE ClusterStep /\ UNCHANGED <<pauseElapsed, budget>>
  <2>1. PICK phase \in Completed : runs' = [runs EXCEPT ![i].phase = phase]
    BY <1>7 DEF RunCompletes
  <2>2. /\ runs' \in [RunIds -> RunType]
        /\ \A k \in RunIds : \/ runs'[k] = runs[k]
                             \/ /\ k = i /\ runs'[k].phase \in Completed
                                /\ runs'[k].step = runs[k].step /\ runs'[k].hash = runs[k].hash
    BY <1>1, <2>1 DEF RunType, Completed, Phases
  <2>3. runs[i].phase = "Running"
        /\ UNCHANGED <<user, status, services, weight, rs, pauseElapsed, pc, pass>>
    BY <1>7 DEF RunCompletes
  <2> QED BY <1>1, <1>2, <2>2, <2>3 DEF ClusterStep, user
<1>8. CASE PauseElapses
  <2>1. ClusterStep /\ pauseElapsed' = TRUE /\ budget' = budget
    BY <1>1, <1>2, <1>8 DEF PauseElapses, ClusterStep, user
  <2> QED BY <1>1, <2>1
<1> QED BY <1>1, <1>3, <1>4, <1>5, <1>6, <1>7, <1>8 DEF Cluster

LEMMA StepCluster == ASSUME StepInv, Cluster PROVE StepInv'
<1>1. /\ ClusterStep /\ pauseElapsed' \in BOOLEAN
      /\ budget' \in [user : Nat, pods : Nat, passes : Nat]
  BY ClusterSteps
<1>2. strategy' = strategy /\ spec' = spec /\ status' = status /\ resumed' = resumed
      /\ client' = client
      /\ canarySvc' = canarySvc /\ stableSvc' = stableSvc /\ weight' = weight /\ pc' = pc
      /\ Steps' = Steps
  BY <1>1 DEF ClusterStep, services, Steps
<1>3. TypeOK'
  <2>1. \A h \in {canarySvc, stableSvc, status.stableRS} : h \in Hash /\ rs'[h].exists
    BY <1>1, Typed DEF StepInv, ClusterStep
  <2> QED BY <1>1, <1>2, <2>1 DEF StepInv, TypeOK, ClusterStep
<1>4. Snapshot'
  BY <1>1, <1>2 DEF StepInv, Snapshot, ClusterStep, New, Stable, Replicas
<1>5. StepsKept'
  BY <1>1, <1>2 DEF StepInv, StepsKept, ClusterStep, StepsFit, IsFullyPromoted, Index
<1> QED BY <1>3, <1>4, <1>5 DEF StepInv

\* One step on, but not past the last.
LEMMA OneStepOnFacts ==
    ASSUME TypeOK
    PROVE /\ OneStepOn \in Nat /\ OneStepOn <= Len(Steps)
          /\ status.step < Len(Steps) => OneStepOn > status.step
          /\ status.step >= Len(Steps) => OneStepOn = Len(Steps)
<1>1. status.step \in Nat /\ Len(Steps) \in Nat
  BY Typed, StatusFields, StepsType
<1> DEFINE low == Lower(status.step + 1, Len(Steps))
<1>2. low = IF status.step + 1 > Len(Steps) THEN Len(Steps) ELSE status.step + 1
  BY <1>1 DEF Lower, LowerOf
<1>3. OneStepOn = low
  BY DEF OneStepOn
<1> HIDE DEF low
<1> QED BY <1>1, <1>2, <1>3

\* What the user may do to the status while a pass works with a snapshot of it.
LEMMA UserStatus ==
    ASSUME StepInv, User
    PROVE /\ UNCHANGED <<strategy, services, weight, rs, runs, pauseElapsed, pc, pass>>
          /\ budget' \in [user : Nat, pods : Nat, passes : Nat]
          /\ spec' \in SpecType /\ spec'.template \in Hash /\ spec'.replicas > 0
          /\ spec'.replicas = spec.replicas \/ "scale" \in UserActions
          /\ client' \in ClientType /\ client'.step <= Len(Steps)
          /\ status' \in StatusType
          /\ status'.stableRS = status.stableRS
          /\ status'.currentPodHash = status.currentPodHash
          /\ status'.weights = status.weights /\ status'.stepRun = status.stepRun
          /\ status'.step \in {status.step, client.step}
          /\ status.promoteFull => status'.promoteFull
          /\ status'.controllerPause => status.controllerPause
          /\ \/ status'.pauses = status.pauses /\ resumed' = resumed
             \/ status'.pauses = {} /\ resumed' = TRUE
<1>1. /\ spec \in SpecType /\ spec.template \in Hash /\ spec.replicas > 0
      /\ status \in StatusType /\ budget \in [user : Nat, pods : Nat, passes : Nat]
      /\ client \in ClientType /\ client.step <= Len(Steps)
      /\ resumed \in BOOLEAN /\ Len(Steps) \in Nat /\ Len(Steps) >= 0
  BY Typed, StepsType DEF StepInv, TypeOK, Snapshot
<1>2. ASSUME NEW a, UserMay(a)
      PROVE /\ UNCHANGED <<strategy, services, weight, rs, runs, pauseElapsed, pc, pass>>
            /\ budget' \in [user : Nat, pods : Nat, passes : Nat]
            /\ a \in UserActions
  <2>1. budget' \in [user : Nat, pods : Nat, passes : Nat]
    BY <1>1, <1>2 DEF UserMay
  <2> QED BY <1>2, <2>1 DEF UserMay
<1>3. ASSUME spec' = spec \/ spec' = [spec EXCEPT !.paused = FALSE]
               \/ spec' = [spec EXCEPT !.paused = TRUE]
      PROVE /\ spec' \in SpecType /\ spec'.template \in Hash /\ spec'.replicas > 0
            /\ spec'.replicas = spec.replicas
  BY <1>1, <1>3 DEF SpecType
<1>4. ASSUME UNCHANGED <<status, resumed>>
      PROVE /\ status' \in StatusType
            /\ status'.stableRS = status.stableRS
            /\ status'.currentPodHash = status.currentPodHash
            /\ status'.weights = status.weights /\ status'.stepRun = status.stepRun
            /\ status'.step \in {status.step, client.step}
            /\ status.promoteFull => status'.promoteFull
            /\ status'.controllerPause => status.controllerPause
            /\ status'.pauses = status.pauses /\ resumed' = resumed
  BY <1>1, <1>4
<1>5. CASE Promote
  <2>1. PICK patch \in {"inconclusive", "resume", "step"} :
          client' = [patch |-> patch, step |-> OneStepOn, unpause |-> spec.paused]
    BY <1>5, Zenon DEF Promote
  <2>2. client' \in ClientType /\ client'.step <= Len(Steps)
    BY <1>1, <2>1, OneStepOnFacts DEF ClientType, SpecType, StepInv
  <2> QED BY <1>2, <1>3, <1>4, <1>5, <2>2 DEF Promote
<1>6. CASE PromoteFull
  <2>1. PICK patch \in {"none", "promoteFull"} :
          client' = [NoClient EXCEPT !.patch = patch, !.unpause = spec.paused]
    BY <1>6, Zenon DEF PromoteFull
  <2>2. client' \in ClientType /\ client'.step <= Len(Steps)
    BY <1>1, <2>1 DEF ClientType, NoClient, SpecType
  <2> QED BY <1>2, <1>3, <1>4, <1>6, <2>2 DEF PromoteFull
<1>7. CASE PatchStatus
  <2>1. /\ client' = [NoClient EXCEPT !.unpause = client.unpause] /\ UNCHANGED <<spec, budget>>
        /\ UNCHANGED <<strategy, services, weight, rs, runs, pauseElapsed, pc, pass>>
    BY <1>7 DEF PatchStatus
  <2>2. client' \in ClientType /\ client'.step <= Len(Steps)
    BY <1>1, <2>1 DEF ClientType, NoClient
  <2>3. CASE client.patch = "promoteFull"
    <3>1. status' = [status EXCEPT !.promoteFull = TRUE] /\ resumed' = resumed
      BY <1>7, <2>3 DEF PatchStatus
    <3>2. /\ status' \in StatusType
          /\ status'.stableRS = status.stableRS
          /\ status'.currentPodHash = status.currentPodHash
          /\ status'.weights = status.weights /\ status'.stepRun = status.stepRun
          /\ status'.step = status.step /\ status'.promoteFull
          /\ status'.controllerPause = status.controllerPause
          /\ status'.pauses = status.pauses
      BY <1>1, <3>1 DEF StatusType
    <3> QED BY <1>1, <2>1, <2>2, <3>1, <3>2
  <2>4. CASE client.patch # "promoteFull"
    <3>1. PICK n \in {status.step, client.step}, c \in BOOLEAN :
            /\ status' = [status EXCEPT !.pauses = {}, !.step = n, !.controllerPause = c]
            /\ c => status.controllerPause
      <4> DEFINE n == IF client.patch = "resume" THEN status.step ELSE client.step
                 c == status.controllerPause /\ client.patch # "inconclusive"
      <4>1. status' = [status EXCEPT !.pauses = {}, !.step = n, !.controllerPause = c]
        BY <1>7, <2>4, Zenon DEF PatchStatus
      <4>2. n \in {status.step, client.step} /\ c \in BOOLEAN /\ (c => status.controllerPause)
        OBVIOUS
      <4> HIDE DEF n, c
      <4> QED BY <4>1, <4>2
    <3>2. client.step \in Nat /\ status.step \in Nat
      BY <1>1, StatusFields DEF ClientType
    <3>3. /\ status' \in StatusType
          /\ status'.stableRS = status.stableRS
          /\ status'.currentPodHash = status.currentPodHash
          /\ status'.weights = status.weights /\ status'.stepRun = status.stepRun
          /\ status'.step = n /\ status'.promoteFull = status.promoteFull
          /\ status'.controllerPause = c /\ status'.pauses = {}
      BY <1>1, <3>1, <3>2 DEF StatusType
    <3>4. resumed' = (resumed \/ status.pauses # {})
      BY <1>7, <2>4 DEF PatchStatus
    <3>5. \/ status'.pauses = status.pauses /\ resumed' = resumed
          \/ status'.pauses = {} /\ resumed' = TRUE
      BY <1>1, <3>3, <3>4
    <3> QED BY <1>1, <2>1, <2>2, <3>1, <3>3, <3>5
  <2> QED BY <2>3, <2>4
<1>8. CASE PatchSpec
  <2>1. /\ client' = NoClient /\ spec' = [spec EXCEPT !.paused = FALSE]
        /\ UNCHANGED <<status, resumed, budget>>
        /\ UNCHANGED <<strategy, services, weight, rs, runs, pauseElapsed, pc, pass>>
    BY <1>8 DEF PatchSpec
  <2>2. client' \in ClientType /\ client'.step <= Len(Steps)
    BY <1>1, <2>1 DEF ClientType, NoClient
  <2> QED BY <1>1, <1>3, <1>4, <2>1, <2>2
<1>9. CASE Abort \/ Retry
  <2>1. /\ status' \in StatusType
        /\ status'.stableRS = status.stableRS
        /\ status'.currentPodHash = status.currentPodHash
        /\ status'.weights = status.weights /\ status'.stepRun = status.stepRun
        /\ status'.step = status.step /\ status'.promoteFull = status.promoteFull
        /\ status'.controllerPause = status.controllerPause
        /\ status'.pauses = status.pauses
    BY <1>1, <1>9 DEF Abort, Retry, StatusType
  <2>2. UNCHANGED <<spec, client, resumed>> /\ (UserMay("abort") \/ UserMay("retry"))
    BY <1>9 DEF Abort, Retry
  <2> QED BY <1>1, <1>2, <1>3, <2>1, <2>2
<1>10. CASE Pause
  BY <1>1, <1>2, <1>3, <1>4, <1>10 DEF Pause
<1>11. ASSUME NEW h \in Hash, SetTemplate(h)
       PROVE /\ spec' \in SpecType /\ spec'.template \in Hash /\ spec'.replicas > 0
             /\ spec'.replicas = spec.replicas /\ UserMay("setTemplate")
             /\ UNCHANGED <<status, client, resumed>>
  BY <1>1, <1>11 DEF SetTemplate, SpecType
<1>12. ASSUME NEW n \in ReplicaCounts, Scale(n)
       PROVE /\ spec' \in SpecType /\ spec'.template \in Hash /\ spec'.replicas > 0
             /\ UserMay("scale") /\ UNCHANGED <<status, client, resumed>>
  <2>1. n \in Nat /\ n > 0
    BY CountAssumption
  <2> QED BY <1>1, <1>12, <2>1 DEF Scale, SpecType
<1> QED BY <1>1, <1>2, <1>4, <1>5, <1>6, <1>7, <1>8, <1>9, <1>10, <1>11, <1>12 DEF User

LEMMA StepUser == ASSUME StepInv, User PROVE StepInv'
<1>1. /\ strategy' = strategy /\ canarySvc' = canarySvc /\ stableSvc' = stableSvc
      /\ weight' = weight /\ rs' = rs /\ runs' = runs /\ pauseElapsed' = pauseElapsed
      /\ pc' = pc /\ pass' = pass /\ Steps' = Steps
  BY UserStatus DEF services, Steps
<1>2. /\ Len(Steps) \in Nat /\ status.step \in Nat /\ status.step <= Len(Steps) + 1
      /\ client.step \in Nat /\ client.step <= Len(Steps)
      /\ pc # "idle" => Index \in Nat
  BY Typed, StatusFields, StepsType, PassInProgress, InPassFields
  DEF StepInv, TypeOK, ClientType
<1>3. TypeOK'
  <2>1. resumed' \in BOOLEAN
    BY UserStatus DEF StepInv, TypeOK
  <2>2. status'.step <= Len(Steps) + 1
    BY <1>2, UserStatus
  <2> QED BY <1>1, <2>1, <2>2, UserStatus DEF StepInv, TypeOK
<1>4. Snapshot'
  BY <1>1, UserStatus DEF StepInv, Snapshot, New, Stable, Replicas
<1>5. StepsKept'
  <2>1. StepsFit(status)'
    BY <1>1, <1>2, UserStatus DEF StepInv, StepsKept, StepsFit
  <2>2. ASSUME pc # "idle" PROVE status'.step = Index \/ status'.step <= Len(Steps)
    BY <1>2, <2>2, UserStatus DEF StepInv, StepsKept
  <2>3. StepsFit(pass.status)' = StepsFit(pass.status) /\ Index' = Index
    BY <1>1 DEF StepsFit, Index
  <2> QED BY <1>1, <2>1, <2>2, <2>3, UserStatus DEF StepInv, StepsKept, IsFullyPromoted
<1> QED BY <1>3, <1>4, <1>5 DEF StepInv

(* The old ReplicaSets are given up, and the pass goes on.                  *)
OthersFailStep ==
    /\ UNCHANGED <<strategy, spec, client, resumed, status, services, weight, rs, runs,
                   pauseElapsed, pass>>
    /\ budget' \in [user : Nat, pods : Nat, passes : Nat]
    /\ pc \in {"cleanup", "scaleOthers"}
    /\ pc' \in {"pause", "sync"} /\ (pc' = "pause" => ~pass.scaling)

LEMMA OthersFailFacts == ASSUME StepInv, OthersFail PROVE OthersFailStep
<1>1. budget' \in [user : Nat, pods : Nat, passes : Nat]
  BY Typed DEF OthersFail, StepInv
<1>2. /\ pass' = pass /\ pc \in {"cleanup", "scaleOthers"} /\ pc' \in {Scaled, NotScaled}
      /\ UNCHANGED <<strategy, spec, client, resumed, status, services, weight, rs, runs,
                     pauseElapsed>>
  BY DEF OthersFail, GoTo
<1>3. pc' \in {"pause", "sync"} /\ (pc' = "pause" => ~pass.scaling)
  BY <1>2 DEF Scaled, NotScaled
<1> QED BY <1>1, <1>2, <1>3 DEF OthersFailStep

LEMMA StepOthersFail == ASSUME StepInv, OthersFail PROVE StepInv'
<1>1. OthersFailStep
  BY OthersFailFacts
<1>2. /\ strategy' = strategy /\ spec' = spec /\ resumed' = resumed /\ client' = client
      /\ status' = status /\ canarySvc' = canarySvc /\ stableSvc' = stableSvc
      /\ weight' = weight /\ rs' = rs /\ runs' = runs /\ pauseElapsed' = pauseElapsed
      /\ pass' = pass /\ Steps' = Steps /\ pc # "idle" /\ pc' \in {"pause", "sync"}
  BY <1>1 DEF OthersFailStep, services, Steps
<1>3. TypeOK'
  BY <1>1, <1>2 DEF OthersFailStep, StepInv, TypeOK, Stages
<1>4. Snapshot'
  BY <1>2 DEF StepInv, Snapshot, New, Stable, Replicas
<1>5. StepsKept'
  BY <1>2 DEF StepInv, StepsKept, StepsFit, IsFullyPromoted, Index
<1> QED BY <1>3, <1>4, <1>5 DEF StepInv

\* A pass that stops leaves no context behind.
LEMMA StepPassFails == ASSUME StepInv, PassFails PROVE StepInv'
<1>1. /\ strategy' = strategy /\ spec' = spec /\ resumed' = resumed /\ client' = client
      /\ status' = status /\ canarySvc' = canarySvc /\ stableSvc' = stableSvc
      /\ weight' = weight /\ rs' = rs /\ runs' = runs /\ pauseElapsed' = pauseElapsed
      /\ pc' = "idle" /\ pass' = NoPass /\ Steps' = Steps
  BY DEF PassFails, EndPass, services, Steps
<1>2. budget' \in [user : Nat, pods : Nat, passes : Nat]
  BY Typed DEF PassFails, StepInv
<1>3. TypeOK'
  BY <1>1, <1>2, NoPassType DEF StepInv, TypeOK
<1>4. Snapshot' /\ StepsKept'
  BY <1>1 DEF StepInv, Snapshot, StepsKept, StepsFit, IsFullyPromoted
<1> QED BY <1>3, <1>4 DEF StepInv

\* createDesiredReplicaSet.
LEMMA CreateFacts ==
    ASSUME StepInv, CreateReplicaSet
    PROVE /\ UNCHANGED <<user, status, services, weight, runs, pauseElapsed, pc, pass>>
          /\ pc = "idle" /\ rs' \in [Hash -> ReplicaSetType]
          /\ \A h \in Hash : /\ rs[h].exists => rs'[h].exists
                             /\ \/ rs'[h].spec = rs[h].spec /\ rs'[h].avail = rs[h].avail
                                \/ rs'[h].spec = 0 /\ rs'[h].avail = 0
<1> DEFINE r1 == [NoReplicaSet EXCEPT !.exists = TRUE, !.desired = spec.replicas,
                                      !.revision = NextRevision(spec.template)]
<1>1. /\ rs' = [rs EXCEPT ![spec.template] = r1] /\ pc = "idle"
      /\ UNCHANGED <<user, status, services, weight, runs, pauseElapsed, pc, pass>>
  BY DEF CreateReplicaSet
<1>2. /\ rs \in [Hash -> ReplicaSetType] /\ spec.template \in Hash /\ spec.replicas \in Nat
      /\ NextRevision(spec.template) \in Nat
  BY Typed, NextRevisionType DEF StepInv
<1>3. r1 \in ReplicaSetType /\ r1.exists /\ r1.spec = 0 /\ r1.avail = 0
  BY <1>2 DEF NoReplicaSet, ReplicaSetType, Deadlines
<1> HIDE DEF r1
<1> QED BY <1>1, <1>2, <1>3

\* The snapshot, and where a pass starts.
BeginStep ==
    /\ UNCHANGED <<user, status, services, weight, runs, pauseElapsed>>
    /\ rs' \in [Hash -> ReplicaSetType]
    /\ \A h \in Hash : /\ rs'[h].exists = rs[h].exists /\ rs'[h].spec = rs[h].spec
                       /\ rs'[h].avail = rs[h].avail
    /\ rs[spec.template].exists
    /\ pass' \in PassType /\ pass'.spec = spec /\ pass'.status = status /\ pass'.rs = rs'
    /\ pass'.runs = runs /\ pass'.weights = status.weights /\ pass'.stepRun = status.stepRun
    /\ pass'.addPauses = {} /\ pass'.addAbort = FALSE
    /\ pass'.removeAbort => IsFullyPromoted(status)
    /\ pc = "idle" /\ pc' \in {"removeDeadlines", "sync", "stableService"}
    /\ pc' = "removeDeadlines" => pass'.scaling
    /\ pc' = "sync" => ~pass'.scaling /\ status.currentPodHash # spec.template
    /\ pc' = "stableService" => ~pass'.scaling /\ status.currentPodHash = spec.template

LEMMA BeginFacts == ASSUME StepInv, BeginPass PROVE BeginStep
<1>1. /\ rs \in [Hash -> ReplicaSetType] /\ runs \in [RunIds -> RunType]
      /\ spec \in SpecType /\ spec.template \in Hash /\ status \in StatusType
      /\ status.weights \in WeightsType /\ status.stepRun \in 0..MaxRuns
      /\ status.backRun \in 0..MaxRuns /\ NextRevision(spec.template) \in Nat
  BY Typed, StatusFields, NextRevisionType DEF StepInv
<1>2. /\ rs' = [rs EXCEPT ![spec.template].revision = NextRevision(spec.template)]
      /\ pc = "idle" /\ rs[spec.template].exists
      /\ UNCHANGED <<user, status, services, weight, runs, pauseElapsed>>
  BY DEF BeginPass
<1>3. /\ rs' \in [Hash -> ReplicaSetType]
      /\ \A h \in Hash : /\ rs'[h].exists = rs[h].exists /\ rs'[h].spec = rs[h].spec
                         /\ rs'[h].avail = rs[h].avail
  BY <1>1, <1>2 DEF ReplicaSetType
<1>4. PICK sc \in BOOLEAN : sc = IsScalingEvent
  BY DEF IsScalingEvent
<1>5. PICK ra \in BOOLEAN : ra = (IsFullyPromoted(status) /\ status.abort)
  OBVIOUS
<1>6. /\ pc' \in {"removeDeadlines", "sync", "stableService"}
      /\ pc' = "removeDeadlines" => sc
      /\ pc' = "sync" => ~sc /\ status.currentPodHash # spec.template
      /\ pc' = "stableService" => ~sc /\ status.currentPodHash = spec.template
  <2>1. pc' = CASE sc -> "removeDeadlines"
                [] ~sc /\ status.currentPodHash # spec.template -> "sync"
                [] ~sc /\ status.currentPodHash = spec.template -> "stableService"
    BY <1>4, Zenon DEF BeginPass
  <2>2. CASE sc
    <3>1. pc' = "removeDeadlines"
      BY <2>1, <2>2, Zenon
    <3> QED BY <2>2, <3>1
  <2>3. CASE ~sc /\ status.currentPodHash # spec.template
    <3>1. pc' = "sync"
      BY <2>1, <2>3, Zenon
    <3> QED BY <2>3, <3>1
  <2>4. CASE ~sc /\ status.currentPodHash = spec.template
    <3>1. pc' = "stableService"
      BY <2>1, <2>4, Zenon
    <3> QED BY <2>4, <3>1
  <2> QED BY <2>2, <2>3, <2>4
<1>7. pass' = [NoPass EXCEPT
            !.spec = spec, !.status = status, !.rs = rs', !.runs = runs,
            !.scaling = sc, !.weights = status.weights,
            !.stepRun = status.stepRun, !.backRun = status.backRun,
            !.removeAbort = ra]
  BY <1>4, <1>5, Zenon DEF BeginPass
<1> DEFINE p1 == [NoPass EXCEPT !.spec = spec, !.status = status]
           p2 == [p1 EXCEPT !.rs = rs', !.runs = runs]
           p3 == [p2 EXCEPT !.scaling = sc, !.weights = status.weights]
           p4 == [p3 EXCEPT !.stepRun = status.stepRun, !.backRun = status.backRun]
           p5 == [p4 EXCEPT !.removeAbort = ra]
<1>8. p1 \in PassType /\ p1.spec = spec /\ p1.status = status /\ p1.addPauses = {}
      /\ p1.addAbort = FALSE
  <2>1. NoPass \in PassType /\ NoPass.addPauses = {} /\ NoPass.addAbort = FALSE
    <3>1. NoPass.addPauses = {} /\ NoPass.addAbort = FALSE
      BY DEF NoPass
    <3> QED BY <3>1, NoPassType
  <2> HIDE DEF NoPass
  <2> QED BY <1>1, <2>1 DEF PassType
<1>9. p2 \in PassType /\ p2.spec = spec /\ p2.status = status /\ p2.addPauses = {}
      /\ p2.addAbort = FALSE /\ p2.rs = rs' /\ p2.runs = runs
  <2> HIDE DEF p1
  <2> QED BY <1>1, <1>3, <1>8 DEF PassType
<1>10. p3 \in PassType /\ p3.spec = spec /\ p3.status = status /\ p3.addPauses = {}
       /\ p3.addAbort = FALSE /\ p3.rs = rs' /\ p3.runs = runs
       /\ p3.scaling = sc /\ p3.weights = status.weights
  <2> HIDE DEF p2
  <2> QED BY <1>1, <1>9 DEF PassType
<1>11. p4 \in PassType /\ p4.spec = spec /\ p4.status = status /\ p4.addPauses = {}
       /\ p4.addAbort = FALSE /\ p4.rs = rs' /\ p4.runs = runs
       /\ p4.scaling = sc /\ p4.weights = status.weights /\ p4.stepRun = status.stepRun
  <2> HIDE DEF p3
  <2> QED BY <1>1, <1>10 DEF PassType
<1>12. p5 \in PassType /\ p5.spec = spec /\ p5.status = status /\ p5.addPauses = {}
       /\ p5.addAbort = FALSE /\ p5.rs = rs' /\ p5.runs = runs
       /\ p5.scaling = sc /\ p5.weights = status.weights /\ p5.stepRun = status.stepRun
       /\ p5.removeAbort = ra
  <2> HIDE DEF p4
  <2> QED BY <1>11 DEF PassType
<1>13. pass' = p5
  BY <1>7, Zenon
<1> HIDE DEF p5
<1> QED BY <1>2, <1>3, <1>5, <1>6, <1>12, <1>13 DEF BeginStep

LEMMA StepBegin == ASSUME StepInv, CreateReplicaSet \/ BeginPass PROVE StepInv'
<1>1. CASE CreateReplicaSet
  <2>1. /\ strategy' = strategy /\ spec' = spec /\ resumed' = resumed /\ budget' = budget
        /\ client' = client /\ status' = status /\ canarySvc' = canarySvc /\ stableSvc' = stableSvc
        /\ weight' = weight /\ runs' = runs /\ pauseElapsed' = pauseElapsed
        /\ pc' = pc /\ pass' = pass /\ Steps' = Steps /\ pc = "idle"
    BY <1>1, CreateFacts DEF user, services, Steps
  <2>2. TypeOK'
    <3>1. \A h \in {canarySvc, stableSvc, status.stableRS} : h \in Hash /\ rs'[h].exists
      BY <1>1, CreateFacts, Typed DEF StepInv
    <3> QED BY <1>1, <2>1, <3>1, CreateFacts DEF StepInv, TypeOK
  <2>3. Snapshot' /\ StepsKept'
    BY <2>1 DEF StepInv, Snapshot, StepsKept, StepsFit, IsFullyPromoted
  <2> QED BY <2>2, <2>3 DEF StepInv
<1>2. CASE BeginPass
  <2>1. BeginStep
    BY <1>2, BeginFacts
  <2>2. /\ strategy' = strategy /\ spec' = spec /\ resumed' = resumed /\ budget' = budget
        /\ client' = client /\ status' = status /\ canarySvc' = canarySvc /\ stableSvc' = stableSvc
        /\ weight' = weight /\ runs' = runs /\ pauseElapsed' = pauseElapsed
        /\ Steps' = Steps
    BY <2>1 DEF BeginStep, user, services, Steps
  <2>3. TypeOK'
    <3>1. \A h \in {canarySvc, stableSvc, status.stableRS} : h \in Hash /\ rs'[h].exists
      BY <2>1, Typed DEF StepInv, BeginStep
    <3>2. pc' \in Stages
      BY <2>1 DEF BeginStep, Stages
    <3> QED BY <2>1, <2>2, <3>1, <3>2 DEF StepInv, TypeOK, BeginStep
  <2>4. Snapshot'
    <3>1. rs'[spec.template].exists /\ spec.template \in Hash
      BY <2>1, Typed DEF BeginStep, StepInv
    <3> QED BY <2>1, <2>2, <3>1 DEF BeginStep, StepInv, Snapshot, New, Stable, Replicas
  <2>5. StepsKept'
    <3>1. StepsFit(status)' /\ StepsFit(pass.status)'
      BY <2>1, <2>2 DEF BeginStep, StepInv, StepsKept, StepsFit, IsFullyPromoted
    <3>2. Index' = status.step /\ status.step <= Len(Steps) + 1 /\ status.step \in Nat
      BY <2>1, Typed, StatusFields DEF BeginStep, Index, StepInv, TypeOK
    <3>3. ~pass'.addAbort /\ pc' # "backgroundAnalysis"
          /\ (pass'.status.promoteFull => status'.promoteFull)
      BY <2>1, <2>2 DEF BeginStep
    <3> QED BY <2>2, <3>1, <3>2, <3>3 DEF StepsKept
  <2> QED BY <2>3, <2>4, <2>5 DEF StepInv
<1> QED BY <1>1, <1>2

----------------------------------------------------------------------------
(* syncRolloutStatusCanary.                                                 *)

\* The canary steps a pass completes are those of its snapshot.
LEMMA CompletesAStep ==
    ASSUME CompletedCurrentCanaryStep PROVE Index < Len(Steps)
BY DEF CompletedCurrentCanaryStep, IsPauseStep, StepIs

\* The step the new status has.
LEMMA NextStepFacts ==
    ASSUME InPass, ~pass.scaling
    PROVE /\ NextStep \in Nat /\ NextStep <= Len(Steps) + 1
          /\ NextStep > Len(Steps) => pass.status.promoteFull /\ ~Restarts /\ ~ShouldFullPromote
          /\ pass.status.promoteFull /\ (Restarts \/ ShouldFullPromote)
               => NextStep <= Len(Steps)
<1>1. Index \in Nat /\ Len(Steps) \in Nat /\ Index <= Len(Steps) + 1
  BY InPassFields DEF InPass
<1>2. StepsFit(pass.status) /\ pass.status.step = Index
  BY DEF InPass, Index
<1>3. CASE Restarts \/ Aborted
  <2>1. NextStep = IF New = Stable THEN Len(Steps) ELSE 0
    BY <1>3, Zenon DEF NextStep
  <2>2. ~ShouldFullPromote
    BY <1>3 DEF ShouldFullPromote
  <2> QED BY <1>1, <2>1, <2>2
<1>4. CASE ~(Restarts \/ Aborted) /\ ShouldFullPromote
  <2>1. NextStep = Len(Steps)
    BY <1>4, Zenon DEF NextStep
  <2> QED BY <1>1, <2>1
<1>5. CASE ~(Restarts \/ Aborted) /\ ~ShouldFullPromote
  <2>1. NextStep = IF CompletedCurrentCanaryStep THEN SkippedTo + 1 ELSE SkippedTo
    BY <1>5, Zenon DEF NextStep
  <2>2. CompletedCurrentCanaryStep => Index < Len(Steps)
    BY CompletesAStep
  <2>3. CASE pass.status.promoteFull
    <3>1. SkippedTo = Len(Steps)
      BY <2>3 DEF SkippedTo
    <3> QED BY <1>1, <1>5, <2>1, <2>3, <3>1
  <2>4. CASE ~pass.status.promoteFull
    <3>1. SkippedTo = Index /\ Index <= Len(Steps)
      BY <1>2, <2>4 DEF SkippedTo, StepsFit
    <3>2. NextStep \in Nat /\ NextStep <= Len(Steps)
      BY <1>1, <2>1, <2>2, <3>1
    <3> QED BY <1>1, <1>5, <2>4, <3>2
  <2> QED BY <2>3, <2>4
<1> QED BY <1>3, <1>4, <1>5

\* The status a pass writes is a status, on a full pass and on a scaling event.
LEMMA NewStatusType ==
    ASSUME InPass
    PROVE NewStatus \in StatusType /\ NewStatus.stableRS \in {New, Stable}
<1>1. /\ pass.status \in StatusType /\ New \in Hash /\ Stable \in Hash
      /\ pass.weights \in WeightsType /\ pass.stepRun \in 0..MaxRuns
      /\ pass.backRun \in 0..MaxRuns /\ pass.runs \in [RunIds -> RunType]
      /\ pass.status.pauses \in SUBSET PauseReason /\ pass.addPauses \in SUBSET PauseReason
  BY PassFields, StatusFields DEF InPass
<1>2. PICK a \in BOOLEAN : a = Aborted
  BY DEF Aborted
<1>3. CASE pass.scaling
  <2>1. NewStatus = [pass.status EXCEPT !.abort = a]
    BY <1>2, <1>3 DEF NewStatus, ScalingStatus
  <2> QED BY <1>1, <2>1 DEF StatusType, Stable
<1>4. CASE ~pass.scaling
  <2> DEFINE ends == ~Restarts /\ ~ShouldFullPromote /\ ~Aborted /\ CompletedCurrentCanaryStep
             r == IF Restarts \/ ends THEN 0 ELSE pass.stepRun
             s == IF ShouldFullPromote THEN New ELSE Stable
             ph == IF r = 0 THEN "none" ELSE pass.runs[r].phase
             b == IF Restarts THEN 0 ELSE pass.backRun
             cp == /\ PausesAfterSync # {}
                   /\ \/ pass.status.controllerPause
                      \/ pass.addPauses \ pass.status.pauses # {}
             f == pass.status.promoteFull /\ ~Restarts /\ ~ShouldFullPromote
  <2>1. NewStatus = [stableRS |-> s, currentPodHash |-> New, step |-> NextStep,
                     pauses |-> PausesAfterSync, controllerPause |-> cp, abort |-> a,
                     promoteFull |-> f, weights |-> pass.weights, stepRun |-> r,
                     stepPhase |-> ph, backRun |-> b]
    BY <1>2, <1>4 DEF NewStatus, FullStatus
  <2>2. NextStep \in Nat
    BY <1>4, NextStepFacts
  <2>3. PausesAfterSync \in SUBSET PauseReason
    <3>1. PausesAfterSync \subseteq pass.status.pauses \cup pass.addPauses
      BY DEF PausesAfterSync
    <3> QED BY <1>1, <3>1
  <2>4. r \in 0..MaxRuns /\ b \in 0..MaxRuns /\ s \in {New, Stable}
    BY <1>1, CountAssumption
  <2>5. ph \in Phases
    <3>1. r # 0 => r \in RunIds
      BY <2>4, CountAssumption DEF RunIds
    <3> HIDE DEF r
    <3> QED BY <1>1, <3>1 DEF RunType, Phases
  <2>6. cp \in BOOLEAN /\ f \in BOOLEAN
    OBVIOUS
  <2> HIDE DEF r, s, ph, b, cp, f
  <2> QED BY <1>1, <1>2, <2>1, <2>2, <2>3, <2>4, <2>5, <2>6 DEF StatusType
<1> QED BY <1>3, <1>4, PassFields DEF InPass

\* How a pass ends: with what it writes, merged into what is there.
SyncStep ==
    /\ UNCHANGED <<strategy, spec, client, budget, services, weight, rs, runs>>
    /\ pc' = "idle" /\ pass' = NoPass /\ pauseElapsed' \in BOOLEAN
    /\ status' \in StatusType
    /\ resumed' = IF status'.controllerPause /\ NewStatus.pauses \subseteq pass.status.pauses
                  THEN resumed ELSE FALSE
    /\ status'.stableRS = IF NewStatus.stableRS = pass.status.stableRS
                          THEN status.stableRS ELSE NewStatus.stableRS
    /\ status'.currentPodHash = IF NewStatus.currentPodHash = pass.status.currentPodHash
                                THEN status.currentPodHash ELSE NewStatus.currentPodHash
    /\ status'.step = IF NewStatus.step = pass.status.step
                      THEN status.step ELSE NewStatus.step
    /\ status'.pauses = IF NewStatus.pauses = pass.status.pauses
                        THEN status.pauses ELSE NewStatus.pauses
    /\ status'.controllerPause = IF NewStatus.controllerPause = pass.status.controllerPause
                                 THEN status.controllerPause ELSE NewStatus.controllerPause
    /\ status'.promoteFull = IF NewStatus.promoteFull = pass.status.promoteFull
                             THEN status.promoteFull ELSE NewStatus.promoteFull
    /\ status'.weights = IF NewStatus.weights = pass.status.weights
                         THEN status.weights ELSE NewStatus.weights
    /\ status'.stepRun = IF NewStatus.stepRun = pass.status.stepRun
                         THEN status.stepRun ELSE NewStatus.stepRun

LEMMA SyncFacts == ASSUME StepInv, SyncRolloutStatus PROVE SyncStep /\ InPass
<1>1. pc # "idle" /\ pc' = "idle" /\ pass' = NoPass
      /\ UNCHANGED <<strategy, spec, client, budget, services, weight, rs, runs>>
  BY DEF SyncRolloutStatus, EndPass
<1>2. InPass
  BY <1>1, PassInProgress
<1>3. NewStatus \in StatusType /\ pass.status \in StatusType /\ status \in StatusType
      /\ pauseElapsed \in BOOLEAN
  BY <1>2, NewStatusType, PassFields DEF InPass, StepInv, TypeOK
<1>4. PICK new : new = NewStatus
  OBVIOUS
<1>5. /\ status' = Merged(new, pass.status, status)
      /\ pauseElapsed' = (pauseElapsed /\ CanaryPause \notin new.pauses \ pass.status.pauses)
      /\ resumed' = IF status'.controllerPause /\ new.pauses \subseteq pass.status.pauses
                    THEN resumed ELSE FALSE
  BY <1>4 DEF SyncRolloutStatus
<1>6. pauseElapsed' \in BOOLEAN
  BY <1>5
<1>7. /\ status' \in StatusType
      /\ status'.stableRS = IF new.stableRS = pass.status.stableRS
                            THEN status.stableRS ELSE new.stableRS
      /\ status'.currentPodHash = IF new.currentPodHash = pass.status.currentPodHash
                                  THEN status.currentPodHash ELSE new.currentPodHash
      /\ status'.step = IF new.step = pass.status.step THEN status.step ELSE new.step
      /\ status'.pauses = IF new.pauses = pass.status.pauses
                          THEN status.pauses ELSE new.pauses
      /\ status'.controllerPause = IF new.controllerPause = pass.status.controllerPause
                                   THEN status.controllerPause ELSE new.controllerPause
      /\ status'.promoteFull = IF new.promoteFull = pass.status.promoteFull
                               THEN status.promoteFull ELSE new.promoteFull
      /\ status'.weights = IF new.weights = pass.status.weights
                           THEN status.weights ELSE new.weights
      /\ status'.stepRun = IF new.stepRun = pass.status.stepRun
                           THEN status.stepRun ELSE new.stepRun
  <2>1. new \in StatusType
    BY <1>3, <1>4
  <2>2. DOMAIN new = {"stableRS", "currentPodHash", "step", "pauses", "controllerPause",
                      "abort", "promoteFull", "weights", "stepRun", "stepPhase", "backRun"}
    BY <2>1 DEF StatusType
  <2>3. status' = [field \in DOMAIN new |->
                     IF new[field] = pass.status[field] THEN status[field] ELSE new[field]]
    BY <1>5 DEF Merged
  <2>4. status' \in StatusType
    BY <1>3, <2>1, <2>3 DEF StatusType
  <2> QED BY <2>2, <2>3, <2>4
<1> QED BY <1>1, <1>2, <1>4, <1>5, <1>6, <1>7 DEF SyncStep

\* What a pass that scales writes of the status: nothing of these.
LEMMA ScalingStatusFields ==
    ASSUME InPass, pass.scaling
    PROVE /\ NewStatus.stableRS = pass.status.stableRS
          /\ NewStatus.currentPodHash = pass.status.currentPodHash
          /\ NewStatus.step = pass.status.step /\ NewStatus.pauses = pass.status.pauses
          /\ NewStatus.controllerPause = pass.status.controllerPause
          /\ NewStatus.promoteFull = pass.status.promoteFull
          /\ NewStatus.weights = pass.status.weights
          /\ NewStatus.stepRun = pass.status.stepRun
<1>1. NewStatus = [pass.status EXCEPT !.abort = Aborted] /\ pass.status \in StatusType
  BY PassFields DEF NewStatus, ScalingStatus, InPass
<1> QED BY <1>1 DEF StatusType

LEMMA FullStatusFields ==
    ASSUME ~pass.scaling
    PROVE /\ NewStatus.stableRS = (IF ShouldFullPromote THEN New ELSE Stable)
          /\ NewStatus.currentPodHash = New
          /\ NewStatus.step = NextStep /\ NewStatus.pauses = PausesAfterSync
          /\ NewStatus.controllerPause = (/\ PausesAfterSync # {}
                                          /\ \/ pass.status.controllerPause
                                             \/ pass.addPauses \ pass.status.pauses # {})
          /\ NewStatus.promoteFull = (pass.status.promoteFull /\ ~Restarts /\ ~ShouldFullPromote)
          /\ NewStatus.weights = pass.weights
          /\ NewStatus.stepRun \in {0, pass.stepRun}
          /\ Restarts => NewStatus.stepRun = 0
BY DEF NewStatus, FullStatus

LEMMA StepSync == ASSUME StepInv, SyncRolloutStatus PROVE StepInv'
<1>1. SyncStep /\ InPass
  BY SyncFacts
<1>2. /\ strategy' = strategy /\ spec' = spec /\ budget' = budget /\ client' = client
      /\ canarySvc' = canarySvc /\ stableSvc' = stableSvc
      /\ weight' = weight /\ rs' = rs /\ runs' = runs
      /\ pc' = "idle" /\ pass' = NoPass /\ Steps' = Steps
  BY <1>1 DEF SyncStep, services, Steps
<1>3. /\ pc # "idle" /\ Stable = status.stableRS /\ rs[New].exists /\ New \in Hash
      /\ pass.status.stableRS = Stable /\ pass.status.currentPodHash = status.currentPodHash
      /\ pass.status.step = Index /\ StepsFit(pass.status) /\ StepsFit(status)
      /\ status.step = Index \/ status.step <= Len(Steps)
      /\ pass.status.promoteFull => status.promoteFull
  BY DEF SyncRolloutStatus, StepInv, Snapshot, StepsKept, Stable, Index
<1>4. /\ Index \in Nat /\ Len(Steps) \in Nat /\ status.step \in Nat
      /\ status.step <= Len(Steps) + 1 /\ Index <= Len(Steps) + 1
  BY <1>1, InPassFields, Typed, StatusFields DEF StepInv, TypeOK, InPass
<1>5. status'.stableRS \in {New, Stable}
  BY <1>1, <1>3, NewStatusType DEF SyncStep
<1>6. /\ status'.step <= Len(Steps) + 1
      /\ status'.step <= Len(Steps) \/ status'.promoteFull
  <2>1. CASE pass.scaling
    <3>1. /\ status'.step = status.step /\ status'.promoteFull = status.promoteFull
      BY <1>1, <2>1, ScalingStatusFields DEF SyncStep
    <3> QED BY <1>3, <1>4, <3>1 DEF StepsFit
  <2>2. CASE ~pass.scaling
    <3>1. /\ status'.step = IF NextStep = Index THEN status.step ELSE NextStep
          /\ status'.promoteFull =
               IF (pass.status.promoteFull /\ ~Restarts /\ ~ShouldFullPromote)
                    = pass.status.promoteFull
               THEN status.promoteFull ELSE FALSE
      <4>1. /\ NewStatus.step = NextStep
            /\ NewStatus.promoteFull
                 = (pass.status.promoteFull /\ ~Restarts /\ ~ShouldFullPromote)
        BY <2>2, FullStatusFields
      <4>3. status'.step = IF NextStep = Index THEN status.step ELSE NextStep
        BY <1>1, <1>3, <4>1 DEF SyncStep
      <4>5. pass.status.promoteFull \in BOOLEAN
        BY <1>1, PassFields, StatusFields DEF InPass
      <4>6. status'.promoteFull =
               IF NewStatus.promoteFull = pass.status.promoteFull
               THEN status.promoteFull ELSE NewStatus.promoteFull
        BY <1>1 DEF SyncStep
      <4>7. NewStatus.promoteFull # pass.status.promoteFull => NewStatus.promoteFull = FALSE
        BY <4>1, <4>5
      <4>8. status'.promoteFull =
               IF (pass.status.promoteFull /\ ~Restarts /\ ~ShouldFullPromote)
                    = pass.status.promoteFull
               THEN status.promoteFull ELSE FALSE
        BY <4>1, <4>6, <4>7, Zenon
      <4> QED BY <4>3, <4>8
    <3>2. /\ NextStep \in Nat /\ NextStep <= Len(Steps) + 1
          /\ NextStep > Len(Steps)
               => pass.status.promoteFull /\ ~Restarts /\ ~ShouldFullPromote
          /\ pass.status.promoteFull /\ (Restarts \/ ShouldFullPromote)
               => NextStep <= Len(Steps)
      BY <1>1, <2>2, NextStepFacts
    <3>3. status'.step <= Len(Steps) + 1
      BY <1>4, <3>1, <3>2
    <3>5. status'.step <= Len(Steps) \/ status'.promoteFull
      <4>1. CASE pass.status.promoteFull /\ (Restarts \/ ShouldFullPromote)
        BY <1>3, <1>4, <3>1, <3>2, <4>1
      <4>2. CASE ~(pass.status.promoteFull /\ (Restarts \/ ShouldFullPromote))
        <5>1. status'.promoteFull = status.promoteFull
          <6>1. pass.status.promoteFull \in BOOLEAN
            BY <1>1, PassFields, StatusFields DEF InPass
          <6>2. (pass.status.promoteFull /\ ~Restarts /\ ~ShouldFullPromote)
                    = pass.status.promoteFull
            BY <4>2, <6>1
          <6> QED BY <3>1, <6>2, Zenon
        <5>2. CASE NextStep = Index
          <6>1. status'.step = status.step
            BY <3>1, <5>2
          <6> QED BY <1>3, <5>1, <6>1 DEF StepsFit
        <5>3. CASE NextStep # Index
          <6>1. status'.step = NextStep
            BY <3>1, <5>3
          <6> QED BY <1>3, <1>4, <3>2, <5>1, <6>1
        <5> QED BY <5>2, <5>3
      <4> QED BY <4>1, <4>2
    <3> QED BY <3>3, <3>5
  <2> QED BY <2>1, <2>2
<1>7. TypeOK'
  <2>1. resumed' \in BOOLEAN
    BY <1>1 DEF SyncStep, StepInv, TypeOK
  <2>2. Stable \in Hash /\ rs[Stable].exists
    BY <1>3, Typed DEF StepInv
  <2>3. status' \in StatusType /\ pauseElapsed' \in BOOLEAN
    BY <1>1 DEF SyncStep
  <2> QED BY <1>2, <1>3, <1>5, <1>6, <2>1, <2>2, <2>3, NoPassType DEF StepInv, TypeOK
<1>8. Snapshot'
  BY <1>2 DEF StepInv, Snapshot
<1>9. StepsKept'
  BY <1>2, <1>6 DEF StepsKept, StepsFit, IsFullyPromoted
<1> QED BY <1>7, <1>8, <1>9 DEF StepInv

\* The type invariant and what it rests on are inductive.
LEMMA StepKept == ASSUME StepInv, [Next]_vars PROVE StepInv'
<1>1. CASE Controller
  BY <1>1, StepBegin, StepStages, StepSync DEF Controller
<1>2. CASE UNCHANGED vars
  <2>1. /\ strategy' = strategy /\ spec' = spec /\ status' = status /\ resumed' = resumed
        /\ client' = client
        /\ canarySvc' = canarySvc /\ stableSvc' = stableSvc /\ budget' = budget
        /\ weight' = weight /\ rs' = rs /\ runs' = runs /\ pauseElapsed' = pauseElapsed
        /\ pc' = pc /\ pass' = pass /\ Steps' = Steps
    BY <1>2 DEF vars, services, Steps
  <2>2. TypeOK'
    BY <2>1 DEF StepInv, TypeOK
  <2>3. Snapshot'
    BY <2>1 DEF StepInv, Snapshot, New, Stable, Replicas
  <2>4. StepsKept'
    BY <2>1 DEF StepInv, StepsKept, StepsFit, IsFullyPromoted, Index
  <2> QED BY <2>2, <2>3, <2>4 DEF StepInv
<1> QED BY <1>1, <1>2, StepOthersFail, StepPassFails, StepCluster, StepUser DEF Next

(* TypeOK in every state of every instance: the ReplicaSets that the        *)
(* Services select and the status refers to exist, and no step index goes   *)
(* beyond the one after the last (rollout/canary.go, promote.go).          *)
THEOREM TypeCorrect == Spec => []TypeOK
<1>1. Init => StepInv
  BY StepInit
<1>2. StepInv /\ [Next]_vars => StepInv'
  BY StepKept
<1>3. StepInv => TypeOK
  BY DEF StepInv
<1> QED BY <1>1, <1>2, <1>3, PTL DEF Spec

----------------------------------------------------------------------------
(* A pause step waits for a user.                                           *)

(* A pause whose conditions are gone while controllerPause remains has been *)
(* resumed; a pass sees the conditions of its snapshot, which a user may    *)
(* meanwhile have cleared, and nobody else adds any.                       *)
PausesKept ==
    /\ status.controllerPause /\ status.pauses = {} => resumed
    /\ pc # "idle" =>
         /\ status.pauses \in {{}, pass.status.pauses}
         /\ status.controllerPause => pass.status.controllerPause
         /\ pass.status.controllerPause /\ pass.status.pauses = {} => resumed

PauseInv == StepInv /\ PausesKept

LEMMA PauseInit == ASSUME Init PROVE PauseInv
<1>1. StepInv /\ pc = "idle"
  BY StepInit DEF Init
<1>2. PICK h \in Hash : status = [NoStatus EXCEPT !.stableRS = h, !.currentPodHash = h,
                        !.step = Len(strategy.steps),
                        !.weights = [canary |-> 0, canaryHash |-> h, stableHash |-> h]]
  BY Zenon DEF Init
<1>3. status.controllerPause = FALSE
  BY <1>2 DEF NoStatus
<1> QED BY <1>1, <1>3 DEF PauseInv, PausesKept

\* The stages and the cluster leave the status, the snapshot and the history.
LEMMA PauseStages ==
    ASSUME PausesKept, UNCHANGED <<status, resumed>>, pc # "idle" \/ pc' = "idle",
           pc' # "idle" => pass'.status = pass.status
    PROVE PausesKept'
BY DEF PausesKept

LEMMA PauseSync == ASSUME PauseInv, SyncRolloutStatus PROVE PausesKept'
<1>1. SyncStep /\ InPass /\ pc # "idle"
  BY SyncFacts DEF PauseInv, SyncRolloutStatus
<1>2. SUFFICES ASSUME status'.controllerPause, status'.pauses = {}
               PROVE resumed'
  BY <1>1 DEF PausesKept, SyncStep
<1>3. /\ status.controllerPause /\ status.pauses = {} => resumed
      /\ status.pauses \in {{}, pass.status.pauses}
      /\ status.controllerPause => pass.status.controllerPause
  BY <1>1 DEF PauseInv, PausesKept
<1>4. /\ resumed' = IF status'.controllerPause /\ NewStatus.pauses \subseteq pass.status.pauses
                  THEN resumed ELSE FALSE
      /\ status'.pauses = IF NewStatus.pauses = pass.status.pauses
                        THEN status.pauses ELSE NewStatus.pauses
      /\ status'.controllerPause = IF NewStatus.controllerPause = pass.status.controllerPause
                                 THEN status.controllerPause ELSE NewStatus.controllerPause
  BY <1>1 DEF SyncStep
<1>5. CASE pass.scaling
  <2>1. NewStatus.pauses = pass.status.pauses
        /\ NewStatus.controllerPause = pass.status.controllerPause
    BY <1>1, <1>5, ScalingStatusFields
  <2>2. status.controllerPause /\ status.pauses = {}
    BY <1>2, <1>4, <2>1
  <2> QED BY <1>2, <1>3, <1>4, <2>1, <2>2
<1>6. CASE ~pass.scaling
  <2>1. NewStatus.controllerPause =
          (/\ NewStatus.pauses # {}
           /\ \/ pass.status.controllerPause
              \/ pass.addPauses \ pass.status.pauses # {})
    BY <1>6, FullStatusFields
  <2>2. status.controllerPause \in BOOLEAN /\ pass.status.controllerPause \in BOOLEAN
    BY <1>1, Typed, PassFields, StatusFields DEF InPass, PauseInv, StepInv
  <2>3. NewStatus.controllerPause => NewStatus.pauses # {}
    BY <2>1
  <2>4. NewStatus.controllerPause
    <3>1. CASE NewStatus.controllerPause = pass.status.controllerPause
      <4>1. status.controllerPause
        BY <1>2, <1>4, <3>1
      <4> QED BY <1>3, <3>1, <4>1
    <3>2. CASE NewStatus.controllerPause # pass.status.controllerPause
      BY <1>2, <1>4, <3>2
    <3> QED BY <3>1, <3>2
  <2>5. NewStatus.pauses = pass.status.pauses /\ status.pauses = {}
    BY <1>2, <1>4, <2>3, <2>4
  <2>6. pass.status.controllerPause
    <3>1. CASE NewStatus.controllerPause = pass.status.controllerPause
      BY <2>4, <3>1
    <3>2. CASE NewStatus.controllerPause # pass.status.controllerPause
      <4>1. pass.addPauses \ pass.status.pauses # {}
        BY <2>1, <2>2, <2>4, <3>2
      <4>2. CanaryPause \notin pass.addPauses \ pass.status.pauses => TRUE
        OBVIOUS
      <4>3. PausesAfterSync = pass.status.pauses
        BY <1>6, <2>5, FullStatusFields
      <4>4. PausesAfterSync = {} \/ (pass.addPauses \ pass.status.pauses) \subseteq PausesAfterSync
        BY DEF PausesAfterSync
      <4> QED BY <2>3, <2>4, <2>5, <4>1, <4>3, <4>4
    <3> QED BY <3>1, <3>2
  <2>7. status.controllerPause
    BY <1>2, <1>4, <2>2, <2>4, <2>6
  <2> QED BY <1>2, <1>3, <1>4, <2>5, <2>7
<1> QED BY <1>5, <1>6

\* Every stage is of one kind or another.
LEMMA StageKinds ==
    ASSUME StepInv, Controller, ~CreateReplicaSet, ~BeginPass, ~SyncRolloutStatus
    PROVE /\ pc # "idle"
          /\ ServiceStage \/ TrafficStage \/ AnalysisStage \/ ScalingStage \/ PauseStage
<1>1. pass \in PassType
  BY Typed DEF StepInv
<1> QED BY <1>1, StepStages, ServicesStage, RoutingStage, OtherRunsStage, StepAnalysisStage,
        BackgroundAnalysisStage, StableScales, NewScales, CleanupScales, OthersScale,
        PausingStage DEF Controller

LEMMA PauseKept == ASSUME PauseInv, [Next]_vars PROVE PauseInv'
<1>1. StepInv /\ PausesKept
  BY DEF PauseInv
<1>2. StepInv'
  BY <1>1, StepKept
<1>3. PausesKept'
  <2>1. CASE CreateReplicaSet
    BY <1>1, <2>1, CreateFacts DEF user, PausesKept
  <2>2. CASE BeginPass
    <3>1. BeginStep
      BY <1>1, <2>2, BeginFacts
    <3> QED BY <1>1, <3>1 DEF BeginStep, user, PausesKept
  <2>3. CASE SyncRolloutStatus
    BY <2>3, PauseSync
  <2>4. CASE Controller /\ ~CreateReplicaSet /\ ~BeginPass /\ ~SyncRolloutStatus
    <3>1. /\ pc # "idle"
          /\ ServiceStage \/ TrafficStage \/ AnalysisStage \/ ScalingStage \/ PauseStage
      BY <1>1, <2>4, StageKinds
    <3>2. UNCHANGED <<status, resumed>>
      BY <3>1 DEF ServiceStage, TrafficStage, AnalysisStage, ScalingStage, PauseStage, user
    <3>3. pc' # "idle" => pass'.status = pass.status
      BY <3>1 DEF ServiceStage, TrafficStage, AnalysisStage, ScalingStage, PauseStage, Stage
    <3> QED BY <1>1, <3>1, <3>2, <3>3, PauseStages
  <2>5. CASE PassFails
    BY <1>1, <2>5, PauseStages DEF PassFails, EndPass
  <2>6. CASE Cluster
    <3>1. ClusterStep
      BY <1>1, <2>6, ClusterSteps
    <3> QED BY <1>1, <3>1 DEF ClusterStep, PausesKept
  <2>7. CASE User
    <3>1. /\ UNCHANGED <<pc, pass>>
          /\ status'.controllerPause => status.controllerPause
          /\ \/ status'.pauses = status.pauses /\ resumed' = resumed
             \/ status'.pauses = {} /\ resumed' = TRUE
      BY <1>1, <2>7, UserStatus
    <3> QED BY <1>1, <3>1 DEF PausesKept
  <2>8. CASE UNCHANGED vars
    BY <1>1, <2>8 DEF vars, PausesKept
  <2>9. CASE OthersFail
    <3>1. OthersFailStep
      BY <1>1, <2>9, OthersFailFacts
    <3> QED BY <1>1, <3>1, PauseStages DEF OthersFailStep
  <2> QED BY <2>1, <2>2, <2>3, <2>4, <2>5, <2>6, <2>7, <2>8, <2>9 DEF Next
<1> QED BY <1>2, <1>3 DEF PauseInv

\* The step of an update is left because it is completed, unless somebody
\* else has moved the status on.
LEMMA MovesOnCompleted ==
    ASSUME StepInv, [Next]_vars, MovesOn, Index < Len(Steps), status.step = Index
    PROVE CompletedCurrentCanaryStep /\ InPass /\ pass.status.currentPodHash = New
<1>1. SyncRolloutStatus
  <2>1. pc = "sync" /\ pc' = "idle" /\ status' # status
    <3>1. pc = "sync" /\ pc' = "idle" /\ status'.step > Index
      BY DEF MovesOn, Index
    <3>2. InPass
      BY <3>1, PassInProgress DEF StepInv
    <3>3. Index \in Nat /\ status.step = Index
      BY <3>2, InPassFields
    <3>4. ASSUME status' = status PROVE FALSE
      BY <3>1, <3>3, <3>4
    <3> QED BY <3>1, <3>4
  <2>2. ~Cluster /\ ~User
    BY <2>1, ClusterSteps, UserStatus DEF ClusterStep
  <2>3. ~PassFails /\ ~OthersFail
    BY <2>1 DEF PassFails, OthersFail
  <2>4. ~(Controller /\ ~CreateReplicaSet /\ ~BeginPass /\ ~SyncRolloutStatus)
    <3>1. ServiceStage \/ TrafficStage \/ AnalysisStage \/ ScalingStage \/ PauseStage
            => status' = status
      BY DEF ServiceStage, TrafficStage, AnalysisStage, ScalingStage, PauseStage
    <3> QED BY <2>1, <3>1, StageKinds
  <2>5. ~CreateReplicaSet /\ ~BeginPass
    BY <2>1 DEF CreateReplicaSet, BeginPass
  <2>6. ~UNCHANGED vars
    BY <2>1 DEF vars
  <2> QED BY <2>2, <2>3, <2>4, <2>5, <2>6 DEF Next
<1>2. SyncStep /\ InPass
  BY <1>1, SyncFacts
<1>3. /\ ~pass.scaling /\ ~PodTemplateChanged /\ status'.step > Index
      /\ ~pass.status.promoteFull /\ pass.status.step = Index
  BY DEF MovesOn, Index
<1>4. Index \in Nat /\ Len(Steps) \in Nat
  BY <1>2, InPassFields
<1>5. NextStep # Index /\ NextStep > Index
  <2>1. status'.step = IF NextStep = Index THEN status.step ELSE NextStep
    BY <1>2, <1>3, FullStatusFields DEF SyncStep
  <2> QED BY <1>3, <1>4, <2>1
<1>6. pass.status.currentPodHash = New /\ ~Restarts
  BY <1>3 DEF PodTemplateChanged, Restarts
<1>7. New # Stable
  BY <1>6 DEF MovesOn, IsFullyPromoted, Stable
<1>8. ~Aborted
  <2>1. Aborted => NextStep = 0
    BY <1>7, Zenon DEF NextStep
  <2> QED BY <1>4, <1>5, <2>1
<1>9. ~ShouldFullPromote
  BY <1>3, <1>4, <1>7 DEF ShouldFullPromote
<1>10. SkippedTo = Index
  BY <1>3 DEF SkippedTo
<1> QED BY <1>2, <1>5, <1>6, <1>8, <1>9, <1>10, Zenon DEF NextStep

(* No indefinite pause step is left before a user has resumed the last      *)
(* pause of the controller, skipped the step or replaced the update,        *)
(* whatever passes fail and whenever users promote, abort or retry          *)
(* (CompletedCanaryPauseStep of rollout/pause.go).                         *)
THEOREM PauseNeedsUserHolds == Spec => PauseNeedsUser
<1>1. Init => PauseInv
  BY PauseInit
<1>2. PauseInv /\ [Next]_vars => PauseInv'
  BY PauseKept
<1>3. ASSUME PauseInv, [Next]_vars, MovesOn, StepIs("pause"), ~Paused(Inconclusive),
             status.step = pass.status.step
      PROVE resumed
  <2>1. StepInv /\ PausesKept
    BY <1>3 DEF PauseInv
  <2>2. Index < Len(Steps) /\ status.step = Index /\ Steps[Index + 1].kind = "pause"
        /\ pc # "idle"
    BY <1>3 DEF StepIs, Index, MovesOn
  <2>3. CompletedCurrentCanaryStep /\ InPass
    BY <1>3, <2>1, <2>2, MovesOnCompleted
  <2>4. pass.status.controllerPause /\ ~Paused(CanaryPause)
    BY <2>2, <2>3 DEF CompletedCurrentCanaryStep, CompletedCanaryPause, StepIs
  <2>5. pass.status.pauses = {}
    <3>1. pass.status.pauses \in SUBSET PauseReason
      BY <2>3, PassFields, StatusFields DEF InPass
    <3> QED BY <1>3, <2>4, <3>1 DEF Paused, PauseReason
  <2> QED BY <2>1, <2>2, <2>4, <2>5 DEF PausesKept
<1>4. PauseInv /\ [Next]_vars =>
        [MovesOn /\ StepIs("pause") /\ ~Paused(Inconclusive)
          => resumed \/ status.step # pass.status.step]_vars
  BY <1>3
<1> QED BY <1>1, <1>2, <1>4, PTL DEF Spec, PauseNeedsUser

----------------------------------------------------------------------------
(* The weight of the canary is a share of the traffic.                      *)

(* Under dynamicStableScale a full promotion weighs by the canary's pods:   *)
(* nobody scales the Rollout meanwhile, and no setCanaryScale step asks for *)
(* more pods than the Rollout has: else the weight may exceed all of it.    *)
FixedSize ==
    \A s \in Strategies :
        s.dynamic => /\ "scale" \notin UserActions
                     /\ \A n \in ReplicaCounts : \A i \in DOMAIN s.steps :
                          s.steps[i].kind = "setScale" => s.steps[i].value <= n

\* Then no version has more pods than the Rollout.
SizesFit ==
    strategy.dynamic =>
        /\ "scale" \notin UserActions
        /\ pc # "idle" => Replicas = spec.replicas
        /\ \A i \in 1..Len(Steps) : Steps[i].kind = "setScale"
                                      => Steps[i].value <= spec.replicas
        /\ \A h \in Hash :
              /\ rs[h].spec <= spec.replicas /\ rs[h].avail <= spec.replicas
              /\ pc # "idle" => /\ pass.rs[h].spec <= spec.replicas
                                /\ pass.rs[h].avail <= spec.replicas

\* The weights a pass has seen or asked for are in range as well.
WeightsFit ==
    /\ weight <= MaxWeight /\ status.weights.canary <= MaxWeight
    /\ pc # "idle" => /\ pass.weights.canary <= MaxWeight
                      /\ pass.status.weights.canary <= MaxWeight

WeightInv == StepInv /\ SizesFit /\ WeightsFit

LEMMA WeightInit == ASSUME FixedSize, Init PROVE WeightInv
<1>1. StepInv /\ pc = "idle" /\ weight = 0 /\ strategy \in Strategies
  BY StepInit DEF Init
<1>2. PICK h \in Hash, n \in ReplicaCounts :
         /\ spec = [template |-> h, replicas |-> n, paused |-> FALSE]
         /\ status = [NoStatus EXCEPT !.stableRS = h, !.currentPodHash = h,
                        !.step = Len(strategy.steps),
                        !.weights = [canary |-> 0, canaryHash |-> h, stableHash |-> h]]
         /\ rs = [g \in Hash |-> IF g = h
                    THEN [exists |-> TRUE, spec |-> n, avail |-> n, desired |-> n,
                          deadline |-> "none", revision |-> 1]
                    ELSE NoReplicaSet]
  BY Zenon DEF Init
<1>3. n \in Nat /\ n > 0
  BY CountAssumption
<1>4. status.weights.canary = 0
  BY <1>2 DEF NoStatus
<1>5. SizesFit
  <2> SUFFICES ASSUME strategy.dynamic PROVE SizesFit
    BY DEF SizesFit
  <2>1. \A g \in Hash : rs[g].spec <= n /\ rs[g].avail <= n
    BY <1>2, <1>3 DEF NoReplicaSet
  <2>2. \A i \in 1..Len(Steps) : Steps[i].kind = "setScale" => Steps[i].value <= n
    <3>1. Steps \in Seq(StepType)
      BY <1>1, StepsType
    <3>2. DOMAIN Steps = 1..Len(Steps)
      BY <3>1
    <3> QED BY <1>1, <3>2 DEF FixedSize, Steps
  <2>3. spec.replicas = n
    BY <1>2
  <2> QED BY <1>1, <2>1, <2>2, <2>3 DEF SizesFit, FixedSize
<1> QED BY <1>1, <1>4, <1>5 DEF WeightInv, WeightsFit, MaxWeight

\* The sizes the stages give are those that the weights ask for.
LEMMA SizesInRange ==
    ASSUME WeightInv, pc # "idle", strategy.dynamic
    PROVE StableReplicas <= spec.replicas /\ NewReplicas <= spec.replicas
<1>1. InPass /\ Replicas = spec.replicas
  BY PassInProgress DEF WeightInv, SizesFit
<1>2. pass.status.weights \in WeightsType /\ pass.weights \in WeightsType
  BY <1>1, PassFields, StatusFields DEF InPass
<1>3. pass.status.weights.canary <= MaxWeight /\ pass.weights.canary <= MaxWeight
  BY DEF WeightInv, WeightsFit
<1>4. \A i \in 1..Len(Steps) : Steps[i].kind = "setScale" => Steps[i].value <= Replicas
  BY <1>1 DEF WeightInv, SizesFit
<1>5. /\ ReplicaCountsFor({pass.status.weights}).stable <= Replicas
      /\ ReplicaCountsFor({pass.weights}).canary <= Replicas
  BY <1>1, <1>2, <1>3, <1>4, ReplicaCountsForType, Zenon
<1> QED BY <1>1, <1>5 DEF StableReplicas, NewReplicas

\* Any stage.
LEMMA WeightStages ==
    ASSUME WeightInv, pc # "idle",
           ServiceStage \/ TrafficStage \/ AnalysisStage \/ ScalingStage \/ PauseStage
    PROVE SizesFit' /\ WeightsFit'
<1>1. /\ strategy' = strategy /\ spec' = spec /\ status' = status /\ Steps' = Steps
      /\ pc' # "idle" => pass'.spec = pass.spec /\ pass'.status = pass.status
      /\ Replicas > 0 /\ spec.replicas > 0 /\ spec.replicas \in Nat
  BY Typed DEF ServiceStage, TrafficStage, AnalysisStage, ScalingStage, PauseStage, Stage, user,
               Steps, WeightInv, StepInv, Snapshot
<1>2. WeightsFit'
  <2>1. CASE TrafficStage
    <3>1. InPass
      BY PassInProgress DEF WeightInv
    <3>2. strategy.dynamic => NewRS.avail <= Replicas
      BY <3>1 DEF NewRS, InPass, WeightInv, SizesFit
    <3>3. DesiredWeight <= MaxWeight
      BY <3>1, <3>2, DesiredWeightType DEF WeightInv, WeightsFit
    <3>4. weight' \in {weight, DesiredWeight}
          /\ pass'.weights.canary \in {pass.weights.canary, DesiredWeight}
      BY <2>1 DEF TrafficStage
    <3> QED BY <1>1, <3>3, <3>4 DEF WeightInv, WeightsFit
  <2>2. CASE ServiceStage \/ AnalysisStage \/ ScalingStage \/ PauseStage
    <3>1. weight' = weight /\ (pc' # "idle" => pass'.weights = pass.weights)
      BY <2>2 DEF ServiceStage, AnalysisStage, ScalingStage, PauseStage, Scales
    <3> QED BY <1>1, <3>1 DEF WeightInv, WeightsFit
  <2> QED BY <2>1, <2>2
<1>3. SizesFit'
  <2> SUFFICES ASSUME strategy.dynamic PROVE SizesFit'
    BY <1>1 DEF SizesFit
  <2>1. SizesFit /\ "scale" \notin UserActions /\ Replicas = spec.replicas
    BY DEF WeightInv, SizesFit
  <2>2. pc' # "idle" => Replicas' = spec'.replicas
    BY <1>1, <2>1 DEF Replicas
  <2>3. \A i \in 1..Len(Steps)' : Steps[i].kind' = "setScale"
                                      => Steps[i].value' <= spec'.replicas
    BY <1>1, <2>1 DEF SizesFit
  <2>4. ASSUME NEW h \in Hash
        PROVE /\ rs'[h].spec <= spec.replicas /\ rs'[h].avail <= spec.replicas
              /\ pc' # "idle" => /\ pass'.rs[h].spec <= spec.replicas
                                 /\ pass'.rs[h].avail <= spec.replicas
    <3>1. /\ rs[h].spec <= spec.replicas /\ rs[h].avail <= spec.replicas
          /\ pass.rs[h].spec <= spec.replicas /\ pass.rs[h].avail <= spec.replicas
      BY <2>1 DEF SizesFit
    <3>2. CASE ScalingStage
      <4>1. StableReplicas <= spec.replicas /\ NewReplicas <= spec.replicas
        BY SizesInRange
      <4>2. /\ rs'[h].avail = rs[h].avail
            /\ rs'[h].spec \in {rs[h].spec, 0, pass.rs[h].avail, StableReplicas, NewReplicas}
            /\ pc' # "idle" => /\ pass'.rs[h].avail = pass.rs[h].avail
                               /\ pass'.rs[h].spec \in {pass.rs[h].spec, pass.rs[h].avail}
        BY <3>2 DEF ScalingStage, Scales
      <4> QED BY <1>1, <3>1, <4>1, <4>2
    <3>3. CASE ServiceStage \/ TrafficStage \/ AnalysisStage \/ PauseStage
      <4>1. rs' = rs /\ (pc' # "idle" => pass'.rs = pass.rs)
        BY <3>3 DEF ServiceStage, TrafficStage, AnalysisStage, PauseStage
      <4> QED BY <3>1, <4>1
    <3> QED BY <3>2, <3>3
  <2> QED BY <1>1, <2>1, <2>2, <2>3, <2>4 DEF SizesFit
<1> QED BY <1>2, <1>3

LEMMA WeightKept == ASSUME WeightInv, [Next]_vars PROVE WeightInv'
<1>1. StepInv /\ SizesFit /\ WeightsFit
  BY DEF WeightInv
<1>2. StepInv'
  BY <1>1, StepKept
<1>3. /\ rs \in [Hash -> ReplicaSetType] /\ spec.replicas \in Nat /\ pass \in PassType
      /\ \A h \in Hash : rs[h].spec \in Nat /\ rs[h].avail \in Nat
  <2>1. rs \in [Hash -> ReplicaSetType] /\ spec.replicas \in Nat /\ pass \in PassType
    BY <1>1, Typed DEF StepInv
  <2> QED BY <2>1 DEF ReplicaSetType
<1>4. SizesFit' /\ WeightsFit'
  <2>1. CASE CreateReplicaSet
    <3>1. /\ strategy' = strategy /\ spec' = spec /\ status' = status /\ weight' = weight
          /\ pc' = "idle" /\ Steps' = Steps
          /\ \A h \in Hash : \/ rs'[h].spec = rs[h].spec /\ rs'[h].avail = rs[h].avail
                             \/ rs'[h].spec = 0 /\ rs'[h].avail = 0
      BY <1>1, <2>1, CreateFacts DEF user, Steps
    <3>2. SizesFit'
      BY <1>1, <1>3, <3>1 DEF SizesFit
    <3> QED BY <1>1, <3>1, <3>2 DEF WeightsFit
  <2>2. CASE BeginPass
    <3>1. BeginStep
      BY <1>1, <2>2, BeginFacts
    <3>2. /\ strategy' = strategy /\ spec' = spec /\ status' = status /\ weight' = weight
          /\ Steps' = Steps /\ pass'.spec = spec /\ pass'.status = status /\ pass'.rs = rs'
          /\ pass'.weights = status.weights
          /\ \A h \in Hash : rs'[h].spec = rs[h].spec /\ rs'[h].avail = rs[h].avail
      BY <3>1 DEF BeginStep, user, Steps
    <3>3. SizesFit'
      BY <1>1, <3>2 DEF SizesFit, Replicas
    <3> QED BY <1>1, <3>2, <3>3 DEF WeightsFit
  <2>3. CASE SyncRolloutStatus
    <3>1. SyncStep /\ InPass /\ pc # "idle"
      BY <1>1, <2>3, SyncFacts DEF SyncRolloutStatus
    <3>2. /\ strategy' = strategy /\ spec' = spec /\ weight' = weight /\ rs' = rs
          /\ pc' = "idle" /\ Steps' = Steps
      BY <3>1 DEF SyncStep, Steps
    <3>3. SizesFit'
      BY <1>1, <3>2 DEF SizesFit
    <3>4. status'.weights \in {status.weights, pass.weights, pass.status.weights}
      <4>1. NewStatus.weights \in {pass.weights, pass.status.weights}
        BY <3>1, ScalingStatusFields, FullStatusFields
      <4> QED BY <3>1, <4>1 DEF SyncStep
    <3> QED BY <1>1, <3>1, <3>2, <3>3, <3>4 DEF WeightsFit
  <2>4. CASE Controller /\ ~CreateReplicaSet /\ ~BeginPass /\ ~SyncRolloutStatus
    BY <1>1, <2>4, StageKinds, WeightStages
  <2>5. CASE PassFails
    <3>1. /\ strategy' = strategy /\ spec' = spec /\ status' = status /\ weight' = weight
          /\ rs' = rs /\ pc' = "idle" /\ Steps' = Steps
      BY <2>5 DEF PassFails, EndPass, Steps
    <3> QED BY <1>1, <3>1 DEF SizesFit, WeightsFit
  <2>6. CASE Cluster
    <3>1. ClusterStep
      BY <1>1, <2>6, ClusterSteps
    <3>2. /\ strategy' = strategy /\ spec' = spec /\ status' = status /\ weight' = weight
          /\ pc' = pc /\ Steps' = Steps /\ pass'.spec = pass.spec
          /\ pass'.status = pass.status /\ pass'.rs = pass.rs /\ pass'.weights = pass.weights
          /\ rs' \in [Hash -> ReplicaSetType]
          /\ \A h \in Hash : /\ rs'[h].spec = rs[h].spec
                             /\ rs'[h].avail <= rs[h].avail \/ rs'[h].avail <= rs[h].spec
      BY <3>1 DEF ClusterStep, Steps
    <3>3. SizesFit'
      <4> SUFFICES ASSUME strategy.dynamic PROVE SizesFit'
        BY <3>2 DEF SizesFit
      <4>1. ASSUME NEW h \in Hash
            PROVE rs'[h].spec <= spec.replicas /\ rs'[h].avail <= spec.replicas
        <5>1. rs[h].spec <= spec.replicas /\ rs[h].avail <= spec.replicas
          BY <1>1 DEF SizesFit
        <5>2. rs'[h].avail \in Nat
          BY <3>2 DEF ReplicaSetType
        <5> QED BY <1>3, <3>2, <5>1, <5>2
      <4> QED BY <1>1, <3>2, <4>1 DEF SizesFit, Replicas
    <3> QED BY <1>1, <3>2, <3>3 DEF WeightsFit
  <2>7. CASE User
    <3>1. /\ strategy' = strategy /\ weight' = weight /\ rs' = rs /\ pc' = pc
          /\ pass' = pass /\ Steps' = Steps /\ status'.weights = status.weights
          /\ spec'.replicas = spec.replicas \/ "scale" \in UserActions
      BY <1>1, <2>7, UserStatus DEF Steps
    <3> QED BY <1>1, <3>1 DEF SizesFit, WeightsFit, Replicas
  <2>8. CASE UNCHANGED vars
    BY <1>1, <2>8 DEF vars, SizesFit, WeightsFit, Replicas, Steps
  <2>9. CASE OthersFail
    <3>1. OthersFailStep
      BY <1>1, <2>9, OthersFailFacts
    <3>2. /\ strategy' = strategy /\ spec' = spec /\ status' = status /\ weight' = weight
          /\ rs' = rs /\ pass' = pass /\ pc # "idle" /\ Steps' = Steps
      BY <3>1 DEF OthersFailStep, Steps
    <3> QED BY <1>1, <3>2 DEF SizesFit, WeightsFit, Replicas
  <2> QED BY <2>1, <2>2, <2>3, <2>4, <2>5, <2>6, <2>7, <2>8, <2>9 DEF Next
<1> QED BY <1>2, <1>4 DEF WeightInv

(* WeightInRange in every state of every instance in which nobody scales a  *)
(* Rollout with dynamicStableScale: aborts and full promotions, whose       *)
(* weights follow the pods, get no more than all of the traffic             *)
(* (reconcileTrafficRouting of rollout/trafficrouting.go).                 *)
THEOREM WeightStaysInRange == ASSUME FixedSize PROVE Spec => []WeightInRange
<1>1. Init => WeightInv
  BY WeightInit
<1>2. WeightInv /\ [Next]_vars => WeightInv'
  BY WeightKept
<1>3. WeightInv => WeightInRange
  BY DEF WeightInv, WeightsFit, WeightInRange
<1> QED BY <1>1, <1>2, <1>3, PTL DEF Spec

----------------------------------------------------------------------------
(* The canary has the pods for its weight.                                  *)

(* Without dynamicStableScale: nobody promotes in full, every pod of a      *)
(* version counts (no progress threshold), and the setCanaryScale that      *)
(* holds at a setWeight step, the last one before it, asks for the pods of  *)
(* that weight.                                                             *)
ScalesFit ==
    /\ "promoteFull" \notin UserActions
    /\ \A s \in Strategies :
         ~s.dynamic =>
           /\ s.threshold.kind = "none"
           /\ \A i, j \in DOMAIN s.steps : \A n \in ReplicaCounts :
                /\ i < j /\ s.steps[i].kind = "setScale" /\ s.steps[j].kind = "setWeight"
                /\ \A k \in (i + 1)..j : s.steps[k].kind \notin {"setScale", "matchWeight"}
                => s.steps[i].value >= WeightToReplicas(n, s.steps[j].value)

(* When the weight is set, the canary Service selects the version it is     *)
(* meant for, if that has a pod and is not aborted; and the replicas are    *)
(* those ScalesFit is about.                                                *)
CanaryRouted ==
    /\ spec.replicas \in ReplicaCounts /\ ~status.promoteFull
    /\ pc # "idle" => Replicas \in ReplicaCounts /\ ~pass.status.promoteFull
    /\ (/\ pc \in {"abortService", "trafficRouting"} /\ ~strategy.dynamic
        /\ NewRS.avail > 0 /\ ~IsAborted)
       => canarySvc = New

RoutedInv == StepInv /\ CanaryRouted /\ client.patch # "promoteFull"

LEMMA RoutedInit == ASSUME Init PROVE RoutedInv
<1>1. StepInv /\ pc = "idle"
  BY StepInit DEF Init
<1>2. PICK h \in Hash, n \in ReplicaCounts :
         /\ spec = [template |-> h, replicas |-> n, paused |-> FALSE]
         /\ status = [NoStatus EXCEPT !.stableRS = h, !.currentPodHash = h,
                        !.step = Len(strategy.steps),
                        !.weights = [canary |-> 0, canaryHash |-> h, stableHash |-> h]]
  BY Zenon DEF Init
<1>3. status.promoteFull = FALSE /\ client.patch = "none"
  BY <1>2 DEF NoStatus, Init, NoClient
<1> QED BY <1>1, <1>2, <1>3 DEF RoutedInv, CanaryRouted

\* Nobody else sends the canary Service to another version meanwhile.
LEMMA RoutedStages ==
    ASSUME CanaryRouted, UNCHANGED <<strategy, spec, status>>,
           pc' # "idle" => /\ pc # "idle"
                           /\ pass'.spec = pass.spec /\ pass'.status = pass.status,
           pc' \notin {"abortService", "trafficRouting"}
    PROVE CanaryRouted'
BY DEF CanaryRouted, Replicas

LEMMA RoutedServices ==
    ASSUME RoutedInv,
           \/ ReconcileStableService \/ ReconcileCanaryService \/ ResetCanaryServiceOnAbort
    PROVE CanaryRouted'
<1>1. /\ UNCHANGED <<strategy, spec, status, pass>> /\ pc # "idle"
      /\ spec.replicas \in ReplicaCounts /\ ~status.promoteFull
      /\ Replicas \in ReplicaCounts /\ ~pass.status.promoteFull
  BY ServicesStage DEF ServiceStage, user, RoutedInv, CanaryRouted, ReconcileStableService,
                       ReconcileCanaryService, ResetCanaryServiceOnAbort
<1>2. UNCHANGED <<Replicas, NewRS, IsAborted, New>>
  BY <1>1 DEF Replicas, NewRS, New, IsAborted
<1>3. ASSUME pc' \in {"abortService", "trafficRouting"}, ~strategy.dynamic,
             NewRS.avail > 0, ~IsAborted
      PROVE canarySvc' = New
  <2>1. CASE ReconcileStableService
    BY <1>3, <2>1 DEF ReconcileStableService, GoTo
  <2>2. CASE ReconcileCanaryService
    <3>1. ~IsDynamicallyRollingBackToStable
      BY <1>3 DEF IsDynamicallyRollingBackToStable
    <3> QED BY <1>3, <2>2, <3>1 DEF ReconcileCanaryService, SwitchedTo, NewRS
  <2>3. CASE ResetCanaryServiceOnAbort
    BY <1>3, <2>3 DEF ResetCanaryServiceOnAbort, RoutedInv, CanaryRouted
  <2> QED BY <2>1, <2>2, <2>3
<1> QED BY <1>1, <1>2, <1>3 DEF CanaryRouted

\* The stages after the services leave the status and the snapshot alone.
LEMMA LaterStages ==
    ASSUME StepInv, Controller, ~CreateReplicaSet, ~BeginPass, ~SyncRolloutStatus,
           ~ReconcileStableService, ~ReconcileCanaryService, ~ResetCanaryServiceOnAbort
    PROVE /\ pc # "idle" /\ UNCHANGED <<strategy, spec, status>>
          /\ pc' # "idle" => pass'.spec = pass.spec /\ pass'.status = pass.status
          /\ pc' \notin {"abortService", "trafficRouting"}
<1>1. pass \in PassType
  BY Typed DEF StepInv
<1>2. CASE ReconcileTrafficRouting
  BY <1>2, RoutingStage DEF TrafficStage, Stage, user, ReconcileTrafficRouting
<1>3. CASE \/ CancelCurrentAnalysis \/ ReconcileStepBasedAnalysisRun
           \/ ReconcileBackgroundAnalysisRun \/ ReconcileOtherRuns
  <2>1. AnalysisStage
    BY <1>3, OtherRunsStage, StepAnalysisStage, BackgroundAnalysisStage
  <2>2. pc # "idle" /\ pc' \in {"backgroundAnalysis", "otherRuns", "removeDeadlines", "sync"}
    BY <1>3 DEF CancelCurrentAnalysis, ReconcileStepBasedAnalysisRun,
                ReconcileBackgroundAnalysisRun, ReconcileOtherRuns, GoTo
  <2> QED BY <2>1, <2>2 DEF AnalysisStage, Stage, user
<1>4. CASE \/ RemoveScaleDownDeadlines \/ ReconcileStableReplicaSet
           \/ ReconcileNewReplicaSet \/ CleanupUnhealthyReplicas
           \/ ReconcileOtherReplicaSets
  <2>1. ScalingStage
    BY <1>4, StableScales, NewScales, CleanupScales, OthersScale
  <2>2. pc # "idle"
    BY <1>4 DEF RemoveScaleDownDeadlines, ReconcileStableReplicaSet, ReconcileNewReplicaSet,
                CleanupUnhealthyReplicas, ReconcileOtherReplicaSets
  <2> QED BY <2>1, <2>2 DEF ScalingStage, ScalingStages, Stage, user
<1>5. CASE ReconcileCanaryPause
  BY <1>1, <1>5, PausingStage DEF PauseStage, Stage, user, ReconcileCanaryPause
<1> QED BY <1>2, <1>3, <1>4, <1>5 DEF Controller

\* Users who do not promote in full, and scale to one of the counts.
LEMMA RoutedUser ==
    ASSUME ScalesFit, RoutedInv, User PROVE CanaryRouted' /\ client'.patch # "promoteFull"
<1>1. /\ UNCHANGED <<strategy, services, pc, pass>>
      /\ status \in StatusType /\ spec \in SpecType /\ client.patch # "promoteFull"
  BY UserStatus, Typed DEF RoutedInv, StepInv
<1>2. ~PromoteFull
  BY DEF PromoteFull, UserMay, ScalesFit
<1>3. spec'.replicas = spec.replicas \/ spec'.replicas \in ReplicaCounts
  <2>1. CASE PatchSpec \/ Pause \/ \E h \in Hash : SetTemplate(h)
    BY <1>1, <2>1 DEF PatchSpec, Pause, SetTemplate, SpecType
  <2>2. CASE Promote \/ PatchStatus \/ Abort \/ Retry
    BY <2>2 DEF Promote, PatchStatus, Abort, Retry
  <2>3. CASE \E n \in ReplicaCounts : Scale(n)
    BY <1>1, <2>3 DEF Scale, SpecType
  <2> QED BY <1>2, <2>1, <2>2, <2>3 DEF User
<1>4. status'.promoteFull = status.promoteFull /\ client'.patch # "promoteFull"
  <2>1. CASE Promote
    <3>1. PICK patch \in {"inconclusive", "resume", "step"} :
            client' = [patch |-> patch, step |-> OneStepOn, unpause |-> spec.paused]
      BY <2>1, Zenon DEF Promote
    <3> QED BY <2>1, <3>1 DEF Promote
  <2>2. CASE PatchStatus
    BY <1>1, <2>2 DEF PatchStatus, StatusType, NoClient
  <2>3. CASE PatchSpec
    BY <2>3 DEF PatchSpec, NoClient
  <2>4. CASE Abort \/ Retry
    BY <1>1, <2>4 DEF Abort, Retry, StatusType
  <2>5. CASE Pause \/ (\E h \in Hash : SetTemplate(h)) \/ (\E n \in ReplicaCounts : Scale(n))
    BY <1>1, <2>5 DEF Pause, SetTemplate, Scale
  <2> QED BY <1>2, <2>1, <2>2, <2>3, <2>4, <2>5 DEF User
<1> QED BY <1>1, <1>3, <1>4
    DEF services, RoutedInv, CanaryRouted, Replicas, New, NewRS, IsAborted

\* Only users send patches.
LEMMA ClientStays ==
    ASSUME StepInv, [Next]_vars, ~User PROVE client' = client
<1>1. CASE Controller /\ ~CreateReplicaSet /\ ~BeginPass /\ ~SyncRolloutStatus
  BY <1>1, StageKinds
  DEF ServiceStage, TrafficStage, AnalysisStage, ScalingStage, PauseStage, user
<1>2. CASE CreateReplicaSet \/ BeginPass \/ SyncRolloutStatus
  BY <1>2 DEF CreateReplicaSet, BeginPass, SyncRolloutStatus, user
<1>3. CASE PassFails \/ OthersFail \/ UNCHANGED vars
  BY <1>3 DEF PassFails, OthersFail, vars
<1>4. CASE Cluster
  BY <1>4, ClusterSteps DEF ClusterStep
<1> QED BY <1>1, <1>2, <1>3, <1>4 DEF Next

LEMMA RoutedKept == ASSUME ScalesFit, RoutedInv, [Next]_vars PROVE RoutedInv'
<1>1. StepInv /\ CanaryRouted /\ client.patch # "promoteFull"
  BY DEF RoutedInv
<1>2. StepInv'
  BY <1>1, StepKept
<1>3. CanaryRouted'
  <2>1. CASE CreateReplicaSet
    BY <1>1, <2>1, CreateFacts, RoutedStages DEF user
  <2>2. CASE BeginPass
    <3>1. BeginStep
      BY <1>1, <2>2, BeginFacts
    <3> QED BY <1>1, <3>1 DEF BeginStep, user, CanaryRouted, Replicas
  <2>3. CASE SyncRolloutStatus
    <3>1. SyncStep /\ InPass /\ pc # "idle"
      BY <1>1, <2>3, SyncFacts DEF SyncRolloutStatus
    <3>2. ~NewStatus.promoteFull
      BY <1>1, <3>1, ScalingStatusFields, FullStatusFields DEF CanaryRouted
    <3> QED BY <1>1, <3>1, <3>2 DEF SyncStep, CanaryRouted
  <2>4. CASE ReconcileStableService \/ ReconcileCanaryService \/ ResetCanaryServiceOnAbort
    BY <2>4, RoutedServices
  <2>5. CASE /\ Controller /\ ~CreateReplicaSet /\ ~BeginPass /\ ~SyncRolloutStatus
             /\ ~ReconcileStableService /\ ~ReconcileCanaryService
             /\ ~ResetCanaryServiceOnAbort
    BY <1>1, <2>5, LaterStages, RoutedStages
  <2>6. CASE PassFails
    BY <1>1, <2>6, RoutedStages DEF PassFails, EndPass
  <2>7. CASE Cluster
    <3>1. ClusterStep
      BY <1>1, <2>7, ClusterSteps
    <3> QED BY <1>1, <3>1
        DEF ClusterStep, services, CanaryRouted, Replicas, New, NewRS, IsAborted
  <2>8. CASE User
    BY <1>1, <2>8, RoutedUser
  <2>9. CASE UNCHANGED vars
    BY <1>1, <2>9 DEF vars, services, user, CanaryRouted, Replicas, New, NewRS, IsAborted
  <2>10. CASE OthersFail
    <3>1. OthersFailStep
      BY <1>1, <2>10, OthersFailFacts
    <3> QED BY <1>1, <3>1, RoutedStages DEF OthersFailStep
  <2> QED BY <2>1, <2>2, <2>3, <2>4, <2>5, <2>6, <2>7, <2>8, <2>9, <2>10 DEF Next
<1>4. client'.patch # "promoteFull"
  BY <1>1, ClientStays, RoutedUser
<1> QED BY <1>2, <1>3, <1>4 DEF RoutedInv

\* The weight changes in one stage only.
LEMMA OnlyRouting ==
    ASSUME StepInv, [Next]_vars, weight' # weight PROVE ReconcileTrafficRouting
<1>1. CASE Controller /\ ~CreateReplicaSet /\ ~BeginPass /\ ~SyncRolloutStatus
  <2>1. CASE \/ ReconcileStableService \/ ReconcileCanaryService
             \/ ResetCanaryServiceOnAbort
    BY <2>1, ServicesStage DEF ServiceStage
  <2>2. CASE \/ CancelCurrentAnalysis \/ ReconcileStepBasedAnalysisRun
             \/ ReconcileBackgroundAnalysisRun \/ ReconcileOtherRuns
    BY <2>2 DEF CancelCurrentAnalysis, ReconcileStepBasedAnalysisRun,
                ReconcileBackgroundAnalysisRun, ReconcileOtherRuns
  <2>3. CASE \/ RemoveScaleDownDeadlines \/ ReconcileStableReplicaSet
             \/ ReconcileNewReplicaSet \/ CleanupUnhealthyReplicas
             \/ ReconcileOtherReplicaSets \/ ReconcileCanaryPause
    BY <2>3 DEF RemoveScaleDownDeadlines, ReconcileStableReplicaSet, ReconcileNewReplicaSet,
                CleanupUnhealthyReplicas, ReconcileOtherReplicaSets, ReconcileCanaryPause
  <2> QED BY <1>1, <2>1, <2>2, <2>3 DEF Controller
<1>2. CASE CreateReplicaSet \/ BeginPass \/ SyncRolloutStatus
  BY <1>2 DEF CreateReplicaSet, BeginPass, SyncRolloutStatus
<1>3. CASE PassFails \/ OthersFail
  BY <1>3 DEF PassFails, OthersFail
<1>4. CASE Cluster
  BY <1>4, ClusterSteps DEF ClusterStep
<1>5. CASE User
  BY <1>5, UserStatus
<1>6. CASE UNCHANGED vars
  BY <1>6 DEF vars
<1> QED BY <1>1, <1>2, <1>3, <1>4, <1>5, <1>6 DEF Next

\* The count without weights is a number as well.
LEMMA EmptyCountType ==
    ASSUME InPass, ~strategy.dynamic PROVE ReplicaCountsFor({}).canary \in Int
<1> DEFINE x == NoWeights
<1>1. ReplicaCountsFor({}) = ReplicaCountsFor({x})
  BY Zenon DEF ReplicaCountsFor
<1>2. x \in WeightsType
  BY DEF NoWeights, WeightsType
<1>3. ReplicaCountsFor({x}).canary \in Nat
  BY <1>2, ReplicaCountsForType, Zenon
<1> QED BY <1>1, <1>3

\* The last of some of the first n steps comes after the others.
LEMMA LastStepIsLast ==
    ASSUME NEW n \in Nat, NEW kinds, NEW i \in StepsUpTo(n, kinds)
    PROVE Max(StepsUpTo(n, kinds)) >= i
<1> DEFINE S == StepsUpTo(n, kinds)
<1>1. S \subseteq 1..n /\ S \subseteq Int /\ S # {}
  BY DEF StepsUpTo
<1>2. IsFiniteSet(S)
  <2>1. IsFiniteSet(1..n)
    BY FS_Interval
  <2> QED BY <1>1, <2>1, FS_Subset
<1> HIDE DEF S
<1>3. \A y \in S : Max(S) >= y
  BY <1>1, <1>2, MaxFacts
<1> QED BY <1>3 DEF S

\* A setWeight step is the last one among the steps up to it; another step
\* leaves the weight alone.
LEMMA WeightOfStep ==
    ASSUME strategy \in Strategies, NEW n \in Nat, n < Len(Steps)
    PROVE WeightUpTo(n + 1) = IF Steps[n + 1].kind = "setWeight" THEN Steps[n + 1].value
                                                                 ELSE WeightUpTo(n)
<1> DEFINE kinds == {"setWeight"}
           after == StepsUpTo(n + 1, kinds)
<1>1. CASE Steps[n + 1].kind = "setWeight"
  <2>1. n + 1 \in after /\ after \subseteq 1..(n + 1)
    BY <1>1 DEF StepsUpTo
  <2>2. Max(after) \in 1..(n + 1)
    <3> HIDE DEF kinds
    <3>1. n + 1 \in Nat /\ n + 1 <= Len(Steps) /\ Len(Steps) \in Nat
      BY StepsType
    <3>2. Max(after) \in after
      BY <2>1, <3>1, LastStep
    <3> HIDE DEF after
    <3> QED BY <2>1, <3>2
  <2>3. Max(after) >= n + 1
    <3> HIDE DEF kinds
    <3> QED BY <2>1, LastStepIsLast
  <2>4. Max(after) = n + 1
    <3> HIDE DEF after
    <3> QED BY <2>2, <2>3
  <2>5. WeightUpTo(n + 1) = Steps[Max(after)].value
    BY <2>1, Zenon DEF WeightUpTo
  <2> HIDE DEF after
  <2> QED BY <1>1, <2>4, <2>5
<1>2. CASE Steps[n + 1].kind # "setWeight"
  <2>1. StepsUpTo(n + 1, {"setWeight"}) = StepsUpTo(n, {"setWeight"})
    BY <1>2 DEF StepsUpTo
  <2> QED BY <1>2, <2>1, Zenon DEF WeightUpTo
<1> QED BY <1>1, <1>2

\* The replicas of a setCanaryScale that holds at a setWeight step.
LEMMA ScaleOfStep ==
    ASSUME ScalesFit, InPass, ~strategy.dynamic, Replicas \in ReplicaCounts,
           Index < Len(Steps), Steps[Index + 1].kind = "setWeight",
           NEW i \in UseSetCanaryScale
    PROVE Steps[i].value >= WeightToReplicas(Replicas, Steps[Index + 1].value)
<1> DEFINE kinds == {"setScale", "matchWeight"}
           scales == StepsUpTo(Index + 1, kinds)
<1>1. Index \in Nat /\ Len(Steps) \in Nat /\ DOMAIN Steps = 1..Len(Steps)
      /\ strategy \in Strategies
  <2>1. Steps \in Seq(StepType) /\ strategy \in Strategies
    BY StepsType DEF InPass
  <2> QED BY <2>1, InPassFields
<1>2. i = Max(scales) /\ Steps[i].kind = "setScale" /\ scales # {}
  BY Zenon DEF UseSetCanaryScale
<1>3. i \in scales
  <2>1. Index + 1 \in Nat /\ Index + 1 <= Len(Steps)
    BY <1>1
  <2> HIDE DEF kinds
  <2>2. Max(scales) \in scales
    BY <1>1, <1>2, <2>1, LastStep
  <2> QED BY <1>2, <2>2
<1>4. i \in 1..Len(Steps) /\ Index + 1 \in 1..Len(Steps) /\ i < Index + 1
  BY <1>1, <1>2, <1>3 DEF StepsUpTo
<1>5. ASSUME NEW k \in (i + 1)..(Index + 1), Steps[k].kind \in kinds
      PROVE FALSE
  <2>1. k \in scales /\ k > i /\ Index + 1 \in Nat
    BY <1>1, <1>4, <1>5 DEF StepsUpTo
  <2>2. Max(scales) >= k
    <3> HIDE DEF kinds
    <3> QED BY <2>1, LastStepIsLast
  <2> HIDE DEF scales
  <2> QED BY <1>2, <1>4, <1>5, <2>1, <2>2
<1>6. \A a, b \in DOMAIN Steps : \A n \in ReplicaCounts :
         /\ a < b /\ Steps[a].kind = "setScale" /\ Steps[b].kind = "setWeight"
         /\ \A k \in (a + 1)..b : Steps[k].kind \notin {"setScale", "matchWeight"}
         => Steps[a].value >= WeightToReplicas(n, Steps[b].value)
  BY <1>1, Zenon DEF ScalesFit, Steps
<1> QED BY <1>1, <1>2, <1>4, <1>5, <1>6

\* At its desired count, the new ReplicaSet has the pods of its next weight.
LEMMA CountOfWeight ==
    ASSUME ScalesFit, InPass, ~strategy.dynamic, Replicas \in ReplicaCounts,
           ~pass.status.promoteFull, ~IsFullyPromoted(pass.status), ~pass.status.abort,
           GetCurrentSetWeight # WeightUpTo(Index)
    PROVE ReplicaCountsFor({}).canary >= WeightToReplicas(Replicas, GetCurrentSetWeight)
<1> DEFINE full == pass.status.promoteFull \/ IsFullyPromoted(pass.status)
           scale == IF full THEN {} ELSE UseSetCanaryScale
           desired == CASE full -> MaxWeight
                        [] ~full /\ scale # {} -> 0
                        [] ~full /\ scale = {} -> GetDesiredCanaryWeight
           canary == IF scale # {} THEN Steps[Max(scale)].value
                                   ELSE WeightToReplicas(Replicas, desired)
<1>1. ReplicaCountsFor({}).canary = canary
  <2>1. ReplicaCountsFor({}) = [canary |-> canary, stable |-> Replicas]
    BY Zenon DEF ReplicaCountsFor
  <2> HIDE DEF canary
  <2> QED BY <2>1
<1>2. ~full /\ scale = UseSetCanaryScale
  OBVIOUS
<1>3. /\ strategy \in Strategies /\ Index \in Nat /\ Len(Steps) \in Nat
      /\ GetCurrentSetWeight \in 0..MaxWeight /\ Replicas \in Nat
  BY InPassFields, DesiredCanaryWeightType DEF InPass
<1>4. CASE UseSetCanaryScale = {}
  <2>1. desired = GetDesiredCanaryWeight
    BY <1>2, <1>4, Zenon
  <2>2. GetDesiredCanaryWeight = GetCurrentSetWeight
    BY Zenon DEF GetDesiredCanaryWeight
  <2>3. canary = WeightToReplicas(Replicas, GetCurrentSetWeight)
    <3> HIDE DEF desired, full
    <3> QED BY <1>2, <1>4, <2>1, <2>2
  <2>4. WeightToReplicas(Replicas, GetCurrentSetWeight) \in 0..Replicas
    BY <1>3, SizedFacts
  <2> HIDE DEF canary
  <2> QED BY <1>1, <1>3, <2>3, <2>4
<1>5. CASE UseSetCanaryScale # {}
  <2>1. PICK i \in 1..Len(Steps) : UseSetCanaryScale = {i}
    BY <1>5, UseSetCanaryScaleType DEF InPass
  <2>2. canary = Steps[i].value
    <3>1. Max({i} \cup {}) = i /\ {i} \cup {} = {i}
      BY <1>3, MaxOfTwo
    <3>2. Max(scale) = i
      BY <1>2, <2>1, <3>1, Zenon
    <3> HIDE DEF scale, desired, full
    <3> QED BY <1>2, <1>5, <3>2
  <2>3. Index < Len(Steps) /\ ~(Index >= Len(Steps))
    BY <1>3, <1>5 DEF UseSetCanaryScale
  <2>4. GetCurrentSetWeight = WeightUpTo(Index + 1)
    BY <2>3, Zenon DEF GetCurrentSetWeight
  <2>5. /\ Steps[Index + 1].kind = "setWeight"
        /\ GetCurrentSetWeight = Steps[Index + 1].value
    BY <1>3, <2>3, <2>4, WeightOfStep
  <2>6. Steps[i].value >= WeightToReplicas(Replicas, Steps[Index + 1].value)
    BY <2>1, <2>3, <2>5, ScaleOfStep
  <2> HIDE DEF canary
  <2> QED BY <1>1, <2>2, <2>5, <2>6
<1> QED BY <1>4, <1>5

\* A new weight that is not that of an earlier step finds its pods.
LEMMA ReadyForWeight ==
    ASSUME ScalesFit, RoutedInv, pc = "trafficRouting", ~strategy.dynamic,
           DesiredWeight > 0, DesiredWeight # WeightUpTo(Index)
    PROVE pass.rs[canarySvc].avail >= WeightToReplicas(Replicas, DesiredWeight)
<1>1. InPass /\ StepInv /\ CanaryRouted
  BY PassInProgress DEF RoutedInv
<1>2. /\ ~pass.status.promoteFull /\ Replicas \in ReplicaCounts
      /\ NewRS.avail > 0 /\ ~IsAborted => canarySvc = New
  BY <1>1 DEF CanaryRouted
<1>3. ~IsDynamicallyRollingBackToStable /\ DesiredWeightOnAbort = 0
  BY Zenon DEF IsDynamicallyRollingBackToStable, DesiredWeightOnAbort
<1>4. /\ ~IsFullyPromoted(pass.status) /\ ~IsAborted /\ NewRS.avail # 0
      /\ AtDesiredReplicaCounts({}) /\ DesiredWeight = GetCurrentSetWeight
  <2>1. DesiredWeight # 0
    OBVIOUS
  <2> QED BY <1>2, <1>3, <2>1, Zenon DEF DesiredWeight
<1>5. canarySvc = New /\ NewRS.avail \in Nat
  <2>1. NewRS.avail \in Nat
    BY <1>1, InPassFields
  <2> QED BY <1>2, <1>4, <2>1
<1>6. ~pass.status.abort
  <2>1. ASSUME pass.status.abort PROVE FALSE
    <3>1. GetCurrentSetWeight = 0
      BY <2>1 DEF GetCurrentSetWeight
    <3> QED BY <1>4, <3>1
  <2> QED BY <2>1
<1>7. NewRS.avail >= ReplicaCountsFor({}).canary
  <2>1. strategy.threshold.kind = "none"
    BY <1>1 DEF ScalesFit, InPass
  <2>2. AllAvailable(NewRS, ReplicaCountsFor({}).canary)
    BY <1>4, <2>1 DEF AtDesiredReplicaCounts, ThresholdMet
  <2> QED BY <1>5, <2>2 DEF AllAvailable
<1>8. ReplicaCountsFor({}).canary >= WeightToReplicas(Replicas, GetCurrentSetWeight)
  BY <1>1, <1>2, <1>4, <1>6, CountOfWeight
<1>9. WeightToReplicas(Replicas, GetCurrentSetWeight) \in Int
      /\ ReplicaCountsFor({}).canary \in Int
  <2>1. GetCurrentSetWeight \in 0..MaxWeight /\ Replicas \in Nat
    BY <1>1, InPassFields, DesiredCanaryWeightType DEF InPass
  <2>2. WeightToReplicas(Replicas, GetCurrentSetWeight) \in Int
    BY <2>1, SizedFacts
  <2>3. ReplicaCountsFor({}).canary \in Int
    BY <1>1, EmptyCountType
  <2> QED BY <2>2, <2>3
<1> QED BY <1>4, <1>5, <1>7, <1>8, <1>9 DEF NewRS

(* CanaryReadyForMore in every instance without full promotions whose       *)
(* setCanaryScale steps ask for enough: a canary gets a new weight only     *)
(* with the pods for it, whatever aborts, retries, crashes and failing pods *)
(* come between its scaling and reconcileTrafficRouting.                    *)
THEOREM CanaryIsReady == ASSUME ScalesFit PROVE Spec => CanaryReadyForMore
<1>1. Init => RoutedInv
  BY RoutedInit
<1>2. RoutedInv /\ [Next]_vars => RoutedInv'
  BY RoutedKept
<1>3. ASSUME RoutedInv, [Next]_vars, ~strategy.dynamic, weight' > weight,
             weight' # WeightUpTo(Index)
      PROVE pass.rs[canarySvc].avail >= WeightToReplicas(Replicas, weight')
  <2>1. pc = "trafficRouting" /\ weight' = DesiredWeight
    <3>1. weight' # weight
      BY <1>3, Typed DEF RoutedInv, StepInv, TypeOK
    <3>2. ReconcileTrafficRouting
      BY <1>3, <3>1, OnlyRouting DEF RoutedInv
    <3> QED BY <3>1, <3>2 DEF ReconcileTrafficRouting
  <2>2. DesiredWeight > 0
    <3>1. DesiredWeight \in Nat /\ weight \in Nat
      BY <1>3, <2>1, PassInProgress, DesiredWeightType DEF RoutedInv, StepInv, TypeOK
    <3> QED BY <1>3, <2>1, <3>1
  <2> QED BY <1>3, <2>1, <2>2, ReadyForWeight
<1>4. RoutedInv /\ [Next]_vars =>
        [(~strategy.dynamic /\ weight' > weight /\ canarySvc # stableSvc
                            /\ weight' # WeightUpTo(Index))
          => pass.rs[canarySvc].avail >= WeightToReplicas(Replicas, weight')]_vars
  BY <1>3
<1> QED BY <1>1, <1>2, <1>4, PTL DEF Spec, CanaryReadyForMore
=============================================================================
