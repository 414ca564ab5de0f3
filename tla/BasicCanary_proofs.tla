------------------------- MODULE BasicCanary_proofs -------------------------
(***************************************************************************)
(* Proofs about BasicCanary, for every set of versions, every maxSurge and *)
(* maxUnavailable, every list of weights and every bound:                  *)
(*   TypeCorrect            the type invariant;                            *)
(*   SurgeRespectedHolds    no pass asks for more pods than the surge      *)
(*                          allows, or than it found;                      *)
(*   AvailabilityKeptHolds  no pass scales down below the available pods   *)
(*                          maxUnavailable asks for, or below those found. *)
(* A sum over versions is the size of a set of pods (Total), so that sums  *)
(* are split and compared as sets are. IInv is inductive; a step that      *)
(* changes a size is a pass, and what it does to the sizes is one of three *)
(* kinds (StableScaled, NewScaled, OldScaled). The first two rest on what  *)
(* module CanaryReplicas_proofs proves of the counts, the third on the     *)
(* order of the revisions.                                                 *)
(***************************************************************************)
EXTENDS BasicCanary, CanaryReplicas_proofs, FiniteSetTheorems, WellFoundedInduction, TLAPS

----------------------------------------------------------------------------
(* Counting pods.                                                           *)

\* count gives each version of S a number of pods.
Counts(count, S) == IsFiniteSet(S) /\ \A h \in S : count[h] \in Nat

LEMMA TotalType ==
    ASSUME NEW S, NEW count, Counts(count, S)
    PROVE IsFiniteSet(PodsOf(S, count)) /\ Total(S, count) \in Nat
<1> DEFINE pods == [h \in S |-> {h} \X (1..count[h])]
           all == {{h} \X (1..count[h]) : h \in S}
<1>1. pods \in Surjection(S, all)
  BY DEF Surjection
<1>2. IsFiniteSet(all)
  BY <1>1, FS_Surjection DEF Counts
<1>3. ASSUME NEW h \in S PROVE IsFiniteSet({h} \X (1..count[h]))
  <2>1. count[h] \in Int
    BY DEF Counts
  <2>2. IsFiniteSet(1..count[h])
    BY <2>1, FS_Interval
  <2> QED BY <2>2, FS_Singleton, FS_Product
<1>4. \A T \in all : IsFiniteSet(T)
  BY <1>3
<1>5. IsFiniteSet(PodsOf(S, count))
  BY <1>2, <1>4, FS_UNION DEF PodsOf
<1> QED BY <1>5, FS_CardinalityType DEF Total

\* Versions apart have pods apart.
LEMMA TotalOfUnion ==
    ASSUME NEW S, NEW T, NEW count, Counts(count, S), Counts(count, T), S \cap T = {}
    PROVE Total(S \cup T, count) = Total(S, count) + Total(T, count)
<1>1. PodsOf(S \cup T, count) = PodsOf(S, count) \cup PodsOf(T, count)
  BY Zenon DEF PodsOf
<1>2. PodsOf(S, count) \cap PodsOf(T, count) = {}
  <2> SUFFICES ASSUME NEW p, p \in PodsOf(S, count), p \in PodsOf(T, count) PROVE FALSE
    OBVIOUS
  <2>1. PICK g \in S : p \in {g} \X (1..count[g])
    BY Zenon DEF PodsOf
  <2>2. PICK h \in T : p \in {h} \X (1..count[h])
    BY Zenon DEF PodsOf
  <2>3. p[1] = g /\ p[1] = h
    BY <2>1, <2>2
  <2> QED BY <2>3
<1>3. IsFiniteSet(PodsOf(S, count)) /\ IsFiniteSet(PodsOf(T, count))
  BY TotalType
<1>4. /\ Cardinality(PodsOf(S, count)) \in Nat /\ Cardinality(PodsOf(T, count)) \in Nat
      /\ Cardinality({}) = 0
  BY <1>3, FS_CardinalityType, FS_EmptySet
<1>5. Cardinality(PodsOf(S \cup T, count))
        = Cardinality(PodsOf(S, count)) + Cardinality(PodsOf(T, count))
            - Cardinality(PodsOf(S, count) \cap PodsOf(T, count))
  BY <1>1, <1>3, FS_Union
<1> DEFINE a == Cardinality(PodsOf(S, count))
           b == Cardinality(PodsOf(T, count))
<1>6. Cardinality(PodsOf(S \cup T, count)) = a + b - 0
  BY <1>2, <1>4, <1>5
<1>7. a \in Nat /\ b \in Nat
  BY <1>4
<1> QED BY <1>6, <1>7 DEF Total

LEMMA TotalOfOne ==
    ASSUME NEW h, NEW count, count[h] \in Nat PROVE Total({h}, count) = count[h]
<1> DEFINE n == count[h]
           pods == {h} \X (1..n)
           number == [i \in 1..n |-> <<h, i>>]
<1>1. PodsOf({h}, count) = pods
  BY Zenon DEF PodsOf
<1>2. IsFiniteSet(1..n) /\ Cardinality(1..n) = n
  BY FS_Interval, SMTT(30)
<1>3. number \in Bijection(1..n, pods)
  <2>1. number \in [1..n -> pods]
    OBVIOUS
  <2>2. \A i, j \in 1..n : number[i] = number[j] => i = j
    OBVIOUS
  <2>3. \A p \in pods : \E i \in 1..n : number[i] = p
    OBVIOUS
  <2>4. DOMAIN number = 1..n
    OBVIOUS
  <2> HIDE DEF number, pods
  <2> QED BY <2>1, <2>2, <2>3, <2>4 DEF Bijection, Injection, IsInjective, Surjection
<1>4. ExistsBijection(1..n, pods)
  BY <1>3 DEF ExistsBijection
<1>5. Cardinality(pods) = n
  BY <1>2, <1>4, FS_Bijection
<1> QED BY <1>1, <1>5 DEF Total

\* More pods of more versions are more pods.
LEMMA TotalMonotone ==
    ASSUME NEW S, NEW T, S \subseteq T, NEW f, NEW g, Counts(f, S), Counts(g, T),
           \A h \in S : f[h] <= g[h]
    PROVE Total(S, f) <= Total(T, g)
<1>1. PodsOf(S, f) \subseteq PodsOf(T, g)
  <2> SUFFICES ASSUME NEW p, p \in PodsOf(S, f) PROVE p \in PodsOf(T, g)
    OBVIOUS
  <2>1. PICK h \in S : p \in {h} \X (1..f[h])
    BY Zenon DEF PodsOf
  <2>2. 1..f[h] \subseteq 1..g[h]
    BY DEF Counts
  <2>3. p \in {h} \X (1..g[h])
    BY <2>1, <2>2
  <2> QED BY <2>3, Zenon DEF PodsOf
<1>2. IsFiniteSet(PodsOf(T, g))
  BY TotalType
<1> QED BY <1>1, <1>2, FS_Subset DEF Total

LEMMA TotalSame ==
    ASSUME NEW S, NEW f, NEW g, \A h \in S : f[h] = g[h]
    PROVE Total(S, f) = Total(S, g)
<1>1. PodsOf(S, f) = PodsOf(S, g)
  BY Zenon DEF PodsOf
<1> QED BY <1>1 DEF Total

LEMMA TotalOfNone ==
    ASSUME NEW S, NEW f, \A h \in S : f[h] = 0
    PROVE Total(S, f) = 0
<1>1. PodsOf(S, f) = {}
  <2> SUFFICES ASSUME NEW p, p \in PodsOf(S, f) PROVE FALSE
    OBVIOUS
  <2>1. PICK h \in S : p \in {h} \X (1..f[h])
    BY Zenon DEF PodsOf
  <2>2. 1..f[h] = {}
    OBVIOUS
  <2> QED BY <2>1, <2>2
<1> QED BY <1>1, FS_EmptySet DEF Total

\* The pods of the others, and those of one.
LEMMA TotalWithout ==
    ASSUME NEW S, NEW h \in S, NEW count, Counts(count, S)
    PROVE /\ Total(S, count) = Total(S \ {h}, count) + count[h]
          /\ Counts(count, S \ {h}) /\ Total(S \ {h}, count) \in Nat
<1>1. Counts(count, S \ {h}) /\ Counts(count, {h}) /\ count[h] \in Nat
  BY FS_RemoveElement, FS_Singleton DEF Counts
<1>2. (S \ {h}) \cup {h} = S /\ (S \ {h}) \cap {h} = {}
  OBVIOUS
<1>3. Total(S, count) = Total(S \ {h}, count) + Total({h}, count)
  BY <1>1, <1>2, TotalOfUnion
<1> QED BY <1>1, <1>3, TotalOfOne, TotalType
----------------------------------------------------------------------------
(* The inductive invariant.                                                 *)

\* A version without a ReplicaSet has no pods.
UnbornEmpty == \A h \in Hash : ~Exists(h) =>
                  rs[h].spec = 0 /\ rs[h].created = 0 /\ rs[h].avail = 0

\* Two ReplicaSets have two revisions, whichever version is asked for again.
RevisionsDiffer == \A g, h \in Hash :
                      Exists(g) /\ Exists(h) /\ g # h => rs[g].revision # rs[h].revision

StableExists == Stable \in Hash /\ Exists(Stable)

IInv == TypeOK /\ UnbornEmpty /\ RevisionsDiffer /\ StableExists

----------------------------------------------------------------------------
(* Revisions.                                                               *)

LEMMA GreatestFacts ==
    ASSUME NEW S, S \subseteq Nat, IsFiniteSet(S)
    PROVE Greatest(S) \in Nat /\ \A x \in S : Greatest(S) >= x
<1> DEFINE T == {0} \cup S
<1>1. IsFiniteSet(T)
  BY FS_Singleton, FS_Union
<1>2. T \subseteq Nat /\ T \subseteq Int /\ T # {} /\ \A x \in S : x \in T
  OBVIOUS
<1> HIDE DEF T
<1>3. Max(T) \in T /\ \A x \in T : Max(T) >= x
  BY <1>1, <1>2, MaxFacts
<1>4. Greatest(S) = Max(T)
  BY Zenon DEF Greatest, T
<1> QED BY <1>2, <1>3, <1>4

\* The numbers some ReplicaSets have.
LEMMA ImageIsFinite ==
    ASSUME NEW S, IsFiniteSet(S), NEW f PROVE IsFiniteSet({f[h] : h \in S})
<1> DEFINE T == {f[h] : h \in S}
           image == [h \in S |-> f[h]]
<1>1. image \in Surjection(S, T)
  BY DEF Surjection
<1> QED BY <1>1, FS_Surjection

LEMMA RevisionFacts ==
    ASSUME rs \in [Hash -> ReplicaSetType], NEW S \in SUBSET Hash
    PROVE /\ Greatest({rs[h].revision : h \in S}) \in Nat
          /\ \A g \in S : Greatest({rs[h].revision : h \in S}) >= rs[g].revision
          /\ Greatest({rs[h].born : h \in S}) \in Nat
<1> DEFINE revisions == [h \in S |-> rs[h].revision]
           births == [h \in S |-> rs[h].born]
<1>1. IsFiniteSet(S)
  BY FS_Subset, BasicCanaryAssumption
<1>2. {rs[h].revision : h \in S} = {revisions[h] : h \in S} /\ {rs[h].born : h \in S} = {births[h] : h \in S}
  OBVIOUS
<1>3. IsFiniteSet({revisions[h] : h \in S}) /\ IsFiniteSet({births[h] : h \in S})
  BY <1>1, ImageIsFinite
<1>4. /\ {rs[h].revision : h \in S} \subseteq Nat
      /\ {rs[h].born : h \in S} \subseteq Nat
      /\ \A g \in S : rs[g].revision \in {rs[h].revision : h \in S}
  BY DEF ReplicaSetType
<1> QED BY <1>2, <1>3, <1>4, GreatestFacts

----------------------------------------------------------------------------
(* What a pass computes.                                                    *)

LEMMA SurgeFacts ==
    ASSUME TypeOK
    PROVE /\ spec.replicas \in Nat /\ Surge \in Nat
          /\ Unavailable \in Nat /\ Unavailable <= spec.replicas
<1> DEFINE n == spec.replicas
           resolved == Resolve(MaxUnavailableBound, n, FloorDiv)
           one == IF MaxSurge(MaxSurgeBound, n) = 0 /\ resolved = 0 THEN 1 ELSE resolved
<1>1. n \in Nat
  BY BasicCanaryAssumption DEF TypeOK
<1>2. /\ MaxSurgeBound.percent \in BOOLEAN /\ MaxSurgeBound.value \in Nat
      /\ MaxUnavailableBound.percent \in BOOLEAN /\ MaxUnavailableBound.value \in Nat
  BY BasicCanaryAssumption
<1> HIDE DEF n
<1>3. ASSUME NEW v \in Nat PROVE /\ v * n \in Nat /\ (v * n) \div 100 \in Nat
                                 /\ (v * n + 100 - 1) \div 100 \in Nat
  <2> DEFINE product == v * n
  <2>1. product \in Nat
    BY <1>1
  <2> HIDE DEF product
  <2>2. product \div 100 \in Nat /\ (product + 100 - 1) \div 100 \in Nat
    BY <2>1
  <2> QED BY <2>1, <2>2 DEF product
<1>4. resolved \in Nat
  BY <1>2, <1>3 DEF Resolve, FloorDiv
<1>5. MaxSurge(MaxSurgeBound, n) \in Nat
  BY <1>2, <1>3 DEF MaxSurge, Resolve, CeilDiv
<1> HIDE DEF resolved
<1>6. one \in Nat
  BY <1>4
<1>7. MaxUnavailable(MaxSurgeBound, MaxUnavailableBound, n)
        = IF n = 0 THEN 0 ELSE Lower(one, n)
  BY Zenon DEF MaxUnavailable, resolved
<1> HIDE DEF one
<1>8. /\ Lower(one, n) \in Int /\ Lower(one, n) <= n
      /\ Lower(one, n) = one \/ Lower(one, n) = n
  <2>1. one \in Int /\ n \in Int
    BY <1>1, <1>6
  <2> QED BY <2>1, LowerFacts, Zenon
<1>9. /\ MaxUnavailable(MaxSurgeBound, MaxUnavailableBound, n) \in Nat
      /\ MaxUnavailable(MaxSurgeBound, MaxUnavailableBound, n) <= n
  BY <1>1, <1>6, <1>7, <1>8
<1> QED BY <1>1, <1>5, <1>9, Zenon DEF n, Surge, Unavailable

LEMMA BoundsFacts == ASSUME TypeOK PROVE Bounds \in Rollout
BY SurgeFacts DEF Bounds, Rollout

LEMMA WeightFacts == ASSUME TypeOK PROVE DesiredWeight \in 0..MaxWeight
<1>1. StepCount \in Nat /\ \A i \in 1..StepCount : SetWeights[i] \in 0..MaxWeight
  <2>1. SetWeights \in Seq(0..MaxWeight)
    BY BasicCanaryAssumption
  <2> QED BY <2>1, LenProperties, ElementOfSeq, Zenon DEF StepCount
<1>2. status.step \in 0..(StepCount + 1)
  BY DEF TypeOK
<1>3. ~(status.step >= StepCount) => SetWeights[status.step + 1] \in 0..MaxWeight
  BY <1>1, <1>2
<1>4. 0 \in 0..MaxWeight /\ MaxWeight \in 0..MaxWeight
  BY DEF MaxWeight
<1> QED BY <1>3, <1>4, Zenon DEF DesiredWeight

LEMMA SetsOfVersions ==
    ASSUME TypeOK, NEW S \in SUBSET Hash
    PROVE /\ IsFiniteSet(S)
          /\ Counts(Sizes(rs), S) /\ SpecTotal(S) \in Nat
          /\ Counts(Availables(rs), S) /\ AvailTotal(S) \in Nat
<1>1. IsFiniteSet(S)
  BY FS_Subset, BasicCanaryAssumption
<1>2. Counts(Sizes(rs), S) /\ Counts(Availables(rs), S)
  BY <1>1 DEF Counts, Sizes, Availables, TypeOK, ReplicaSetType
<1> QED BY <1>1, <1>2, TotalType DEF SpecTotal, AvailTotal

LEMMA ReplicaSetFacts ==
    ASSUME TypeOK, Stable \in Hash
    PROVE /\ New \in Hash /\ NewRS \in ReplicaSetType /\ IsReplicaSet(NewRS)
          /\ StableRS = rs[Stable] /\ StableRS \in ReplicaSetType /\ IsReplicaSet(StableRS)
          /\ Stable # NoHash
<1>1. New \in Hash
  BY DEF TypeOK, New
<1>2. Stable # NoHash /\ StableRS = rs[Stable]
  BY BasicCanaryAssumption DEF StableRS
<1>3. NewRS \in ReplicaSetType /\ StableRS \in ReplicaSetType
  BY <1>1, <1>2 DEF TypeOK, NewRS
<1> QED BY <1>1, <1>2, <1>3 DEF ReplicaSetType, IsReplicaSet

----------------------------------------------------------------------------
(* The counts a pass wants.                                                 *)

\* With a stable ReplicaSet and a new one, both counts keep the limits, and so
\* does that of the stable one alone; else the only count does.
WantedWithStable(want) ==
    LET most == spec.replicas + Surge
        least == spec.replicas - Unavailable
        kept == Staying(NewRS, want.canary) + Staying(StableRS, want.stable)
        between == Staying(NewRS, NewRS.spec) + Staying(StableRS, want.stable)
        before == Staying(NewRS, NewRS.spec) + Staying(StableRS, StableRS.spec)
    IN  /\ want.canary \in Nat /\ want.stable \in Nat
        /\ \/ want.canary + want.stable + SpecTotal(Old) <= most
           \/ want.canary + want.stable <= NewRS.spec + StableRS.spec
        /\ kept >= least \/ kept >= before
        /\ NewRS.avail <= NewRS.spec /\ StableRS.avail <= StableRS.spec
             => /\ \/ want.stable + NewRS.spec + SpecTotal(Old) <= most
                   \/ want.stable <= StableRS.spec
                /\ between >= least \/ between >= before

WantedAlone(want) ==
    /\ want.canary \in Nat
    /\ \/ want.canary + SpecTotal(Old) <= spec.replicas + Surge
       \/ want.canary <= NewRS.spec
    /\ \/ Staying(NewRS, want.canary) >= spec.replicas - Unavailable
       \/ Staying(NewRS, want.canary) >= Staying(NewRS, NewRS.spec)

LEMMA WantedFacts ==
    ASSUME TypeOK, Stable \in Hash, NEW want \in Wanted
    PROVE IF HasStable THEN WantedWithStable(want) ELSE WantedAlone(want)
<1> DEFINE approximated == Approximate(spec.replicas, DesiredWeight, Surge)
           oldSpec == SpecTotal(Old)
<1>1. want = BasicCounts(Bounds, approximated, NewRS, StableRS, HasStable, oldSpec)
  BY Zenon DEF Wanted, Desired
<1>2. /\ Bounds.replicas = spec.replicas /\ Bounds.surge = Surge
      /\ Bounds.unavail = Unavailable /\ Bounds \in Rollout
  BY BoundsFacts DEF Bounds
<1>3. approximated \in Fitting(Bounds)
  BY <1>2, WeightFacts, ApproximateFits, Zenon
<1>4. oldSpec \in Nat
  <2>1. Old \in SUBSET Hash
    BY DEF Old
  <2> QED BY <2>1, SetsOfVersions
<1>5. IsReplicaSet(NewRS) /\ IsReplicaSet(StableRS)
  BY ReplicaSetFacts
<1> HIDE DEF approximated, oldSpec
<1>6. HasStable \in BOOLEAN
  BY DEF HasStable
<1>7. ASSUME HasStable PROVE WantedWithStable(want)
  BY <1>1, <1>2, <1>3, <1>4, <1>5, <1>6, <1>7, BasicCountsKeepTheLimits, Zenon
     DEF WantedWithStable, oldSpec
<1>8. ASSUME ~HasStable PROVE WantedAlone(want)
  <2>1. HasStable = FALSE
    BY <1>6, <1>8
  <2>2. want = BasicCounts(Bounds, approximated, NewRS, StableRS, FALSE, oldSpec)
    BY <1>1, <2>1, Zenon
  <2> QED BY <1>2, <1>4, <1>5, <2>2, SingleCountKeepsTheLimits, Zenon DEF WantedAlone, oldSpec
<1> QED BY <1>7, <1>8
----------------------------------------------------------------------------
(* The sizes a pass sets.                                                   *)

\* view is the ReplicaSets with other sizes and annotations.
OnlySizes(view) ==
    /\ view \in [Hash -> ReplicaSetType]
    /\ \A h \in Hash : /\ view[h].created = rs[h].created /\ view[h].avail = rs[h].avail
                       /\ view[h].revision = rs[h].revision /\ view[h].born = rs[h].born
                       /\ ~Exists(h) => view[h].spec = rs[h].spec

LEMMA OldSizeFacts ==
    ASSUME TypeOK, NEW h \in Running
    PROVE /\ MaxScaleDown \in Int /\ ScaledDownBefore(h) \in Nat /\ OldSize(h) \in Nat
          /\ Counts(CleanedUp, Running)
          /\ NonePending => /\ \A g \in Running : CleanedUp[g] = rs[g].avail
                            /\ OldSize(h) <= rs[h].avail
                            /\ \/ OldSize(h) >= rs[h].avail
                               \/ /\ MaxScaleDown > ScaledDownBefore(h)
                                  /\ OldSize(h) >= rs[h].avail
                                                     - (MaxScaleDown - ScaledDownBefore(h))
<1> DEFINE earlier == {g \in Running : rs[g].revision > rs[h].revision}
           allowed == MaxScaleDown - ScaledDownBefore(h)
           part == Higher(0, allowed)
           rest == Higher(0, CleanedUp[h] - part)
<1>1. Running \in SUBSET Hash /\ {g \in Hash : Exists(g)} \in SUBSET Hash
  BY DEF Running, Old
<1>2. MaxScaleDown \in Int
  <2>1. AvailTotal({g \in Hash : Exists(g)}) \in Nat
    BY <1>1, SetsOfVersions
  <2> QED BY <2>1, SurgeFacts DEF MaxScaleDown
<1>3. \A g \in Running : /\ CleanedUp[g] \in Nat
                         /\ NonePending => CleanedUp[g] = rs[g].avail
  BY <1>1 DEF CleanedUp, TypeOK, ReplicaSetType, NonePending, Exceeding
<1>4. Counts(CleanedUp, Running) /\ Counts(CleanedUp, earlier)
  <2>1. IsFiniteSet(Running)
    BY <1>1, SetsOfVersions
  <2>2. IsFiniteSet(earlier)
    BY <2>1, FS_Subset
  <2> QED BY <1>3, <2>1, <2>2 DEF Counts
<1>5. ScaledDownBefore(h) \in Nat
  BY <1>4, TotalType DEF ScaledDownBefore
<1>6. allowed \in Int
  BY <1>2, <1>5
<1> HIDE DEF allowed
<1>7. /\ part \in Int /\ part >= 0
      /\ part = 0 \/ part = allowed
  <2>1. 0 \in Int
    OBVIOUS
  <2> QED BY <1>6, <2>1, HigherFacts, Zenon
<1> HIDE DEF part
<1>8. /\ rest \in Int /\ rest >= 0 /\ rest >= CleanedUp[h] - part
      /\ rest = 0 \/ rest = CleanedUp[h] - part
  <2>1. 0 \in Int /\ CleanedUp[h] - part \in Int
    BY <1>3, <1>7
  <2> QED BY <2>1, HigherFacts, Zenon
<1>9. OldSize(h) = IF Exceeding # {} THEN CleanedUp[h] ELSE rest
  BY Zenon DEF OldSize, rest, part, allowed
<1> HIDE DEF rest
<1>10. OldSize(h) \in Nat
  BY <1>3, <1>8, <1>9
<1>11. ASSUME NonePending
       PROVE /\ OldSize(h) <= rs[h].avail
             /\ \/ OldSize(h) >= rs[h].avail
                \/ allowed > 0 /\ OldSize(h) >= rs[h].avail - allowed
  <2>1. CleanedUp[h] = rs[h].avail /\ CleanedUp[h] \in Nat
    BY <1>3, <1>11
  <2> QED BY <1>6, <1>7, <1>8, <1>9, <2>1
<1>12. allowed > 0 <=> MaxScaleDown > ScaledDownBefore(h)
  BY <1>2, <1>5 DEF allowed
<1> QED BY <1>2, <1>3, <1>4, <1>5, <1>10, <1>11, <1>12 DEF allowed

\* The scaling stage changes the size of one of the stable and the new
\* ReplicaSet, the stable one first, or the sizes of the others.
StableScaled(want, view) ==
    HasStable /\ \A h \in Hash : view[h].spec = IF h = Stable THEN want.stable ELSE rs[h].spec
NewScaled(want, view) ==
    /\ HasStable => StableRS.spec = want.stable
    /\ \A h \in Hash : view[h].spec = IF h = New THEN want.canary ELSE rs[h].spec
OldScaled(view) ==
    \A h \in Hash : view[h].spec = IF h \in Running THEN OldSize(h) ELSE rs[h].spec

LEMMA StageFacts ==
    ASSUME TypeOK, StableExists, Exists(New), NEW want \in Wanted
    PROVE /\ OnlySizes(AfterScaling(want))
          /\ \/ StableScaled(want, AfterScaling(want))
             \/ NewScaled(want, AfterScaling(want))
             \/ OldScaled(AfterScaling(want))
<1> DEFINE stableView == AfterStable(want)
           newView == AfterNew(want)
           oldView == AfterOld(newView)
<1>1. /\ New \in Hash /\ Stable \in Hash /\ Stable # NoHash
      /\ NewRS = rs[New] /\ StableRS = rs[Stable]
      /\ want.canary \in Nat /\ (HasStable => want.stable \in Nat)
      /\ spec.replicas \in Nat /\ rs \in [Hash -> ReplicaSetType]
      /\ HasStable => New # Stable
      /\ Exists(New) /\ Exists(Stable)
  <2>1. Stable \in Hash /\ Exists(Stable)
    BY DEF StableExists
  <2>2. want.canary \in Nat /\ (HasStable => want.stable \in Nat)
    BY <2>1, WantedFacts DEF WantedWithStable, WantedAlone
  <2> QED BY <2>1, <2>2, ReplicaSetFacts, SurgeFacts DEF NewRS, TypeOK, HasStable
<1>2. /\ OnlySizes(stableView)
      /\ \A h \in Hash : stableView[h].spec = IF HasStable /\ h = Stable THEN want.stable
                                              ELSE rs[h].spec
  <2>1. CASE HasStable
    BY <1>1, <2>1 DEF AfterStable, Scaled, OnlySizes, ReplicaSetType
  <2>2. CASE ~HasStable
    BY <1>1, <2>2 DEF AfterStable, OnlySizes
  <2> QED BY <2>1, <2>2
<1> HIDE DEF stableView
<1>3. /\ OnlySizes(newView)
      /\ \A h \in Hash : newView[h].spec = IF h = New THEN want.canary ELSE stableView[h].spec
  <2>1. newView = [stableView EXCEPT ![New].spec = want.canary, ![New].desired = spec.replicas]
    BY Zenon DEF AfterNew, stableView
  <2>2. stableView \in [Hash -> ReplicaSetType]
    BY <1>2 DEF OnlySizes
  <2> HIDE DEF newView
  <2>3. newView \in [Hash -> ReplicaSetType]
    BY <1>1, <2>1, <2>2 DEF ReplicaSetType
  <2>4. \A h \in Hash \ {New} : newView[h] = stableView[h]
    BY <2>1, <2>2
  <2>5. newView[New] = [stableView[New] EXCEPT !.spec = want.canary, !.desired = spec.replicas]
    BY <1>1, <2>1, <2>2
  <2>6. /\ newView[New].spec = want.canary
        /\ newView[New].created = stableView[New].created
        /\ newView[New].avail = stableView[New].avail
        /\ newView[New].revision = stableView[New].revision
        /\ newView[New].born = stableView[New].born
    BY <1>1, <2>2, <2>5 DEF ReplicaSetType
  <2> QED BY <1>1, <1>2, <2>3, <2>4, <2>6 DEF OnlySizes
<1> HIDE DEF newView
<1>4. /\ OnlySizes(oldView)
      /\ \A h \in Hash : oldView[h].spec = IF h \in Running THEN OldSize(h) ELSE newView[h].spec
  <2>1. \A h \in Running : /\ OldSize(h) \in Nat /\ h \in Hash /\ Exists(h)
                           /\ h # New /\ h # Stable
    BY OldSizeFacts DEF Running, Old
  <2>2. oldView = [h \in Hash |->
                     IF h \in Running /\ OldSize(h) # rs[h].spec
                     THEN [newView[h] EXCEPT !.spec = OldSize(h), !.desired = spec.replicas]
                     ELSE newView[h]]
    BY Zenon DEF AfterOld
  <2>3. \A h \in Running : newView[h].spec = rs[h].spec
    BY <1>2, <1>3, <2>1
  <2> HIDE DEF oldView
  <2>4. ASSUME NEW h \in Hash
        PROVE /\ oldView[h] \in ReplicaSetType
              /\ oldView[h].created = newView[h].created /\ oldView[h].avail = newView[h].avail
              /\ oldView[h].revision = newView[h].revision /\ oldView[h].born = newView[h].born
              /\ oldView[h].spec = IF h \in Running THEN OldSize(h) ELSE newView[h].spec
    <3>1. newView[h] \in ReplicaSetType
      BY <1>3 DEF OnlySizes
    <3>2. CASE h \in Running /\ OldSize(h) # rs[h].spec
      <4>1. oldView[h] = [newView[h] EXCEPT !.spec = OldSize(h), !.desired = spec.replicas]
        BY <2>2, <3>2, Zenon
      <4>2. OldSize(h) \in Nat /\ spec.replicas \in Nat
        BY <1>1, <2>1, <3>2
      <4> QED BY <3>1, <3>2, <4>1, <4>2 DEF ReplicaSetType
    <3>3. CASE ~(h \in Running /\ OldSize(h) # rs[h].spec)
      <4>1. oldView[h] = newView[h]
        BY <2>2, <3>3, Zenon
      <4> QED BY <2>3, <3>1, <3>3, <4>1
    <3> QED BY <3>2, <3>3
  <2>5. DOMAIN oldView = Hash /\ oldView = [h \in Hash |-> oldView[h]]
    BY <2>2, Zenon
  <2>6. oldView \in [Hash -> ReplicaSetType]
    BY <2>4, <2>5
  <2> QED BY <1>3, <2>1, <2>4, <2>6 DEF OnlySizes
<1> HIDE DEF oldView
<1>5. AfterScaling(want) = IF ScalesStable(want) THEN stableView
                           ELSE IF ScalesNew(want) THEN newView ELSE oldView
  BY Zenon DEF AfterScaling, stableView, newView, oldView
<1>6. CASE ScalesStable(want)
  BY <1>2, <1>5, <1>6 DEF ScalesStable, StableScaled
<1>7. CASE ~ScalesStable(want)
  <2>1. HasStable => StableRS.spec = want.stable
    BY <1>7 DEF ScalesStable
  <2>2. \A h \in Hash : newView[h].spec = IF h = New THEN want.canary ELSE rs[h].spec
    BY <1>1, <1>2, <1>3, <2>1
  <2>3. CASE ScalesNew(want)
    BY <1>3, <1>5, <1>7, <2>1, <2>2, <2>3 DEF NewScaled
  <2>4. CASE ~ScalesNew(want)
    <3>1. rs[New].spec = want.canary
      BY <1>1, <1>7, <2>4 DEF ScalesNew
    <3>2. OldScaled(oldView)
      BY <1>4, <2>2, <3>1 DEF OldScaled
    <3> QED BY <1>4, <1>5, <1>7, <2>4, <3>2
  <2> QED BY <2>3, <2>4
<1> QED BY <1>6, <1>7

\* syncReplicaSetRevision changes one revision, to one no ReplicaSet has.
LEMMA WithRevisionFacts ==
    ASSUME TypeOK, New \in Hash, NEW view, OnlySizes(view)
    PROVE /\ WithRevision(view) \in [Hash -> ReplicaSetType]
          /\ \A h \in Hash : /\ WithRevision(view)[h].spec = view[h].spec
                             /\ WithRevision(view)[h].created = rs[h].created
                             /\ WithRevision(view)[h].avail = rs[h].avail
                             /\ WithRevision(view)[h].born = rs[h].born
          /\ \A h \in Others(New) : /\ WithRevision(view)[h].revision = rs[h].revision
                                    /\ WithRevision(view)[New].revision > rs[h].revision
<1> DEFINE next == 1 + Greatest({rs[h].revision : h \in Others(New)})
           revision == Higher(view[New].revision, next)
<1>1. /\ next \in Nat
      /\ \A h \in Others(New) : next > rs[h].revision
  <2>1. Others(New) \in SUBSET Hash /\ rs \in [Hash -> ReplicaSetType]
    BY DEF Others, TypeOK
  <2>2. \A h \in Others(New) : rs[h].revision \in Nat
    BY <2>1 DEF ReplicaSetType
  <2>3. /\ Greatest({rs[h].revision : h \in Others(New)}) \in Nat
        /\ \A g \in Others(New) : Greatest({rs[h].revision : h \in Others(New)}) >= rs[g].revision
    BY <2>1, RevisionFacts
  <2> QED BY <2>2, <2>3
<1> HIDE DEF next
<1>2. view[New].revision \in Nat
  BY DEF OnlySizes, ReplicaSetType
<1>3. revision \in Nat /\ revision >= next
  <2>1. view[New].revision \in Int /\ next \in Int
    BY <1>1, <1>2
  <2>2. /\ revision \in Int /\ revision >= next
        /\ revision = view[New].revision \/ revision = next
    BY <2>1, HigherFacts, Zenon
  <2> HIDE DEF revision
  <2> QED BY <1>1, <1>2, <2>2
<1>4. WithRevision(view) = [view EXCEPT ![New].revision = revision]
  BY Zenon DEF WithRevision, revision, next
<1> HIDE DEF revision
<1>5. \A h \in Others(New) : revision > rs[h].revision /\ h \in Hash /\ h # New
  <2>1. \A h \in Others(New) : rs[h].revision \in Nat /\ h \in Hash /\ h # New
    BY DEF Others, TypeOK, ReplicaSetType
  <2> QED BY <1>1, <1>3, <2>1
<1> QED BY <1>3, <1>4, <1>5 DEF OnlySizes, ReplicaSetType
----------------------------------------------------------------------------
(* The invariant is inductive.                                              *)

LEMMA Initially == Init => IInv
<1> SUFFICES ASSUME Init PROVE IInv
  OBVIOUS
<1>1. PICK h \in Hash, n \in ReplicaCounts :
        /\ spec = [template |-> h, replicas |-> n]
        /\ status = [stableRS |-> h, currentPodHash |-> h, step |-> StepCount,
                     abort |-> FALSE, promoteFull |-> FALSE]
        /\ rs = [g \in Hash |->
                   IF g = h THEN [spec |-> n, created |-> n, avail |-> n,
                                  desired |-> n, revision |-> 1, born |-> 1]
                   ELSE NoReplicaSet]
        /\ budget = [user |-> MaxUserActions, pods |-> MaxPodFailures,
                     passes |-> MaxPassFailures]
  BY Zenon DEF Init
<1>2. n \in Nat /\ StepCount \in Nat
  BY BasicCanaryAssumption DEF StepCount
<1>3. TypeOK
  <2>1. status \in [stableRS : Hash \cup {NoHash}, currentPodHash : Hash \cup {NoHash},
                    step : 0..(StepCount + 1), abort : BOOLEAN, promoteFull : BOOLEAN]
    BY <1>1, <1>2
  <2>2. rs \in [Hash -> ReplicaSetType]
    BY <1>1, <1>2 DEF ReplicaSetType, NoReplicaSet
  <2>3. budget \in [user : Nat, pods : Nat, passes : Nat]
    BY <1>1, BasicCanaryAssumption
  <2> QED BY <1>1, <2>1, <2>2, <2>3 DEF TypeOK
<1>4. UnbornEmpty /\ RevisionsDiffer
  BY <1>1 DEF UnbornEmpty, RevisionsDiffer, Exists, NoReplicaSet
<1>5. StableExists
  BY <1>1 DEF StableExists, Exists, Stable
<1> QED BY <1>3, <1>4, <1>5 DEF IInv

\* What the ReplicaSets are as to existence and revision.
ReplicaSetsKept ==
    /\ rs' \in [Hash -> ReplicaSetType]
    /\ UnbornEmpty' /\ RevisionsDiffer'
    /\ \A h \in Hash : Exists(h) => Exists(h)'

LEMMA PassKeepsReplicaSets ==
    ASSUME TypeOK, UnbornEmpty, RevisionsDiffer, New \in Hash,
           NEW view, OnlySizes(view), rs' = WithRevision(view)
    PROVE ReplicaSetsKept
<1>1. /\ rs' \in [Hash -> ReplicaSetType]
      /\ \A h \in Hash : /\ rs'[h].spec = view[h].spec /\ rs'[h].created = rs[h].created
                         /\ rs'[h].avail = rs[h].avail /\ rs'[h].born = rs[h].born
      /\ \A h \in Others(New) : /\ rs'[h].revision = rs[h].revision
                                /\ rs'[New].revision > rs[h].revision
  BY WithRevisionFacts
<1>2. \A h \in Hash : Exists(h)' <=> Exists(h)
  BY <1>1 DEF Exists
<1>3. UnbornEmpty'
  BY <1>1, <1>2 DEF UnbornEmpty, OnlySizes
<1>4. RevisionsDiffer'
  <2> SUFFICES ASSUME NEW g \in Hash, NEW h \in Hash, Exists(g)', Exists(h)', g # h
               PROVE rs'[g].revision # rs'[h].revision
    BY DEF RevisionsDiffer
  <2>1. rs[g].revision # rs[h].revision
    BY <1>2 DEF RevisionsDiffer
  <2>2. \A x \in Hash : rs[x].revision \in Nat /\ rs'[x].revision \in Nat
    BY <1>1 DEF TypeOK, ReplicaSetType
  <2>3. CASE g # New /\ h # New
    BY <1>1, <2>1, <2>3 DEF Others
  <2>4. CASE g = New
    BY <1>1, <2>2, <2>4 DEF Others
  <2>5. CASE h = New
    BY <1>1, <2>2, <2>5 DEF Others
  <2> QED BY <2>3, <2>4, <2>5
<1> QED BY <1>1, <1>2, <1>3, <1>4 DEF ReplicaSetsKept

\* A patch leaves the stable version, or makes it the new one.
StatusType == [stableRS : Hash \cup {NoHash}, currentPodHash : Hash \cup {NoHash},
               step : 0..(StepCount + 1), abort : BOOLEAN, promoteFull : BOOLEAN]

LEMMA StatusFacts ==
    ASSUME TypeOK, New \in Hash, NEW want, NEW next,
           next \in {StatusAfterSync(want), StatusAfterReset},
           PatchStatus(next)
    PROVE /\ status' \in StatusType
          /\ status'.stableRS \in {Stable, New}
          /\ budget' \in [user : Nat, pods : Nat, passes : Nat]
<1>1. /\ status \in StatusType /\ StepCount \in Nat
      /\ budget \in [user : Nat, pods : Nat, passes : Nat]
  BY BasicCanaryAssumption DEF TypeOK, StatusType, StepCount
<1>2. StepAfterSync(want) \in 0..(StepCount + 1)
  BY <1>1 DEF StepAfterSync, CompletedCurrentStep, StatusType
<1>3. StatusAfterSync(want) \in StatusType /\ StatusAfterSync(want).stableRS \in {Stable, New}
  <2> DEFINE promote == ShouldFullPromote
             abort == /\ status.abort /\ ~ShouldFullPromote /\ ~status.promoteFull
                      /\ Stable # status.currentPodHash
             step == StepAfterSync(want)
             stable == IF ShouldFullPromote THEN New ELSE status.stableRS
             full == status.promoteFull /\ ~ShouldFullPromote
  <2>1. StatusAfterSync(want)
          = [status EXCEPT !.currentPodHash = New, !.stableRS = stable, !.step = step,
                           !.abort = abort, !.promoteFull = full]
    BY Zenon DEF StatusAfterSync
  <2>2. /\ abort \in BOOLEAN /\ full \in BOOLEAN
        /\ stable \in Hash \cup {NoHash} /\ stable \in {Stable, New}
    BY <1>1 DEF StatusType, Stable
  <2> HIDE DEF abort, step, stable, full
  <2>3. StatusAfterSync(want).stableRS = stable
    BY <1>1, <2>1 DEF StatusType
  <2> QED BY <1>1, <1>2, <2>1, <2>2, <2>3 DEF StatusType, step
<1>4. StatusAfterReset \in StatusType /\ StatusAfterReset.stableRS = Stable
  <2> DEFINE step == IF New = Stable THEN StepCount ELSE 0
  <2>1. StatusAfterReset = [status EXCEPT !.currentPodHash = New, !.step = step,
                                          !.abort = FALSE, !.promoteFull = FALSE]
    BY Zenon DEF StatusAfterReset
  <2>2. step \in 0..(StepCount + 1)
    BY <1>1
  <2> HIDE DEF step
  <2> QED BY <1>1, <2>1, <2>2 DEF StatusType, Stable
<1>5. CASE status' = next /\ UNCHANGED budget
  BY <1>1, <1>3, <1>4, <1>5
<1>6. CASE /\ budget.passes > 0
           /\ budget' = [budget EXCEPT !.passes = @ - 1]
           /\ UNCHANGED status
  BY <1>1, <1>6 DEF Stable
<1> QED BY <1>5, <1>6 DEF PatchStatus

LEMMA CreateKeepsIInv == ASSUME IInv, CreateReplicaSet PROVE IInv'
<1> DEFINE revision == 1 + Greatest({rs[h].revision : h \in Hash})
           born == 1 + Greatest({rs[h].born : h \in Hash})
<1>1. /\ TypeOK /\ New \in Hash /\ rs \in [Hash -> ReplicaSetType] /\ spec.replicas \in Nat
      /\ UNCHANGED <<spec, status, budget>> /\ ~Exists(New)
  BY SurgeFacts DEF IInv, TypeOK, New, CreateReplicaSet
<1>2. /\ Greatest({rs[h].revision : h \in Hash}) \in Nat
      /\ \A g \in Hash : Greatest({rs[h].revision : h \in Hash}) >= rs[g].revision
      /\ Greatest({rs[h].born : h \in Hash}) \in Nat
  BY <1>1, RevisionFacts
<1>3. \A g \in Hash : rs[g].revision \in Nat
  BY <1>1 DEF ReplicaSetType
<1>4. /\ revision \in Nat /\ born \in Nat /\ born > 0
      /\ \A g \in Hash : revision > rs[g].revision
  BY <1>2, <1>3
<1>5. rs' = [rs EXCEPT ![New] = [spec |-> 0, created |-> 0, avail |-> 0,
                                 desired |-> spec.replicas, revision |-> revision,
                                 born |-> born]]
  BY DEF CreateReplicaSet
<1> HIDE DEF revision, born
<1>6. /\ rs'[New] = [spec |-> 0, created |-> 0, avail |-> 0, desired |-> spec.replicas,
                     revision |-> revision, born |-> born]
      /\ \A h \in Hash : h # New => rs'[h] = rs[h]
      /\ rs' \in [Hash -> ReplicaSetType]
  BY <1>1, <1>4, <1>5 DEF ReplicaSetType
<1>7. TypeOK'
  BY <1>1, <1>6 DEF TypeOK
<1>8. UnbornEmpty'
  BY <1>6 DEF IInv, UnbornEmpty, Exists
<1>9. RevisionsDiffer'
  <2> SUFFICES ASSUME NEW g \in Hash, NEW h \in Hash, Exists(g)', Exists(h)', g # h
               PROVE rs'[g].revision # rs'[h].revision
    BY DEF RevisionsDiffer
  <2>1. CASE g # New /\ h # New
    BY <1>6, <2>1 DEF IInv, RevisionsDiffer, Exists
  <2>2. CASE g = New
    BY <1>3, <1>4, <1>6, <2>2
  <2>3. CASE h = New
    BY <1>3, <1>4, <1>6, <2>3
  <2> QED BY <2>1, <2>2, <2>3
<1>10. StableExists'
  BY <1>1, <1>6 DEF IInv, StableExists, Exists, Stable
<1> QED BY <1>7, <1>8, <1>9, <1>10 DEF IInv

LEMMA PassKeepsIInv ==
    ASSUME IInv, SyncReplicasOnly \/ SyncRevisionOnChange \/ RolloutCanary
    PROVE /\ IInv'
          /\ Exists(New)
          /\ \/ \E want \in Wanted : rs' = WithRevision(AfterScaling(want))
             \/ rs' = WithRevision(rs)
<1>1. /\ TypeOK /\ UnbornEmpty /\ RevisionsDiffer /\ StableExists
      /\ New \in Hash /\ Exists(New) /\ UNCHANGED spec
  BY DEF IInv, TypeOK, New, SyncReplicasOnly, SyncRevisionOnChange, RolloutCanary
<1>2. \/ \E want \in Wanted : rs' = WithRevision(AfterScaling(want))
      \/ rs' = WithRevision(rs)
  BY DEF SyncReplicasOnly, SyncRevisionOnChange, RolloutCanary
<1>3. ReplicaSetsKept
  <2>1. CASE \E want \in Wanted : rs' = WithRevision(AfterScaling(want))
    <3>1. PICK want \in Wanted : rs' = WithRevision(AfterScaling(want))
      BY <2>1
    <3>2. OnlySizes(AfterScaling(want))
      BY <1>1, StageFacts
    <3> QED BY <1>1, <3>1, <3>2, PassKeepsReplicaSets
  <2>2. CASE rs' = WithRevision(rs)
    <3>1. OnlySizes(rs)
      BY <1>1 DEF OnlySizes, TypeOK
    <3> QED BY <1>1, <2>2, <3>1, PassKeepsReplicaSets
  <2> QED BY <1>2, <2>1, <2>2
<1>4. /\ status' \in StatusType /\ status'.stableRS \in {Stable, New}
      /\ budget' \in [user : Nat, pods : Nat, passes : Nat]
  <2>1. CASE SyncReplicasOnly
    BY <1>1, <2>1 DEF SyncReplicasOnly, TypeOK, StatusType, Stable
  <2>2. CASE SyncRevisionOnChange
    <3>1. PatchStatus(StatusAfterReset)
      BY <2>2 DEF SyncRevisionOnChange
    <3> QED BY <1>1, <3>1, StatusFacts
  <2>3. CASE RolloutCanary
    <3>1. PICK want \in Wanted : PatchStatus(StatusAfterSync(want))
      BY <2>3 DEF RolloutCanary
    <3> QED BY <1>1, <3>1, StatusFacts
  <2> QED BY <2>1, <2>2, <2>3
<1>5. TypeOK'
  BY <1>1, <1>3, <1>4 DEF TypeOK, ReplicaSetsKept, StatusType
<1>6. StableExists'
  BY <1>1, <1>3, <1>4 DEF StableExists, ReplicaSetsKept, Stable
<1> QED BY <1>1, <1>2, <1>3, <1>5, <1>6 DEF IInv, ReplicaSetsKept

\* Pods change no size and no revision.
LEMMA PodsKeepIInv ==
    ASSUME IInv, NEW h \in Hash,
           PodsFollowSpec(h) \/ PodBecomesAvailable(h) \/ PodBecomesUnavailable(h)
    PROVE IInv' /\ \A g \in Hash : rs'[g].spec = rs[g].spec
<1>1. /\ rs \in [Hash -> ReplicaSetType] /\ budget \in [user : Nat, pods : Nat, passes : Nat]
      /\ UNCHANGED <<spec, status>>
      /\ rs[h].spec \in Nat /\ rs[h].created \in Nat /\ rs[h].avail \in Nat
  BY DEF IInv, TypeOK, ReplicaSetType, PodsFollowSpec, PodBecomesAvailable,
         PodBecomesUnavailable
<1>2. budget' \in [user : Nat, pods : Nat, passes : Nat]
  BY <1>1 DEF PodsFollowSpec, PodBecomesAvailable, PodBecomesUnavailable
<1>3. /\ rs' \in [Hash -> ReplicaSetType]
      /\ \A g \in Hash : /\ rs'[g].spec = rs[g].spec /\ rs'[g].revision = rs[g].revision
                         /\ rs'[g].born = rs[g].born
                         /\ ~Exists(g) => rs'[g].created = 0 /\ rs'[g].avail = 0
  <2>1. CASE PodsFollowSpec(h)
    <3> DEFINE left == Lower(rs[h].avail, rs[h].spec)
    <3>1. /\ left \in Nat /\ left <= rs[h].avail
      <4>1. rs[h].avail \in Int /\ rs[h].spec \in Int
        BY <1>1
      <4>2. /\ left \in Int /\ left <= rs[h].avail
            /\ left = rs[h].avail \/ left = rs[h].spec
        BY <4>1, LowerFacts, Zenon
      <4> HIDE DEF left
      <4> QED BY <1>1, <4>2
    <3>2. rs' = [rs EXCEPT ![h].created = rs[h].spec, ![h].avail = left]
      BY <2>1 DEF PodsFollowSpec
    <3> HIDE DEF left
    <3>3. ~Exists(h) => rs[h].spec = 0 /\ rs[h].avail = 0
      BY DEF IInv, UnbornEmpty
    <3>4. ~Exists(h) => left = 0
      BY <3>1, <3>3
    <3> QED BY <1>1, <3>1, <3>2, <3>3, <3>4, ZenonT(30) DEF ReplicaSetType, IInv, UnbornEmpty
  <2>2. CASE PodBecomesAvailable(h)
    <3>1. Exists(h)
      BY <2>2 DEF IInv, UnbornEmpty, PodBecomesAvailable
    <3> QED BY <1>1, <2>2, <3>1 DEF PodBecomesAvailable, ReplicaSetType, IInv, UnbornEmpty
  <2>3. CASE PodBecomesUnavailable(h)
    <3>1. Exists(h)
      BY <2>3 DEF IInv, UnbornEmpty, PodBecomesUnavailable
    <3> QED BY <1>1, <2>3, <3>1 DEF PodBecomesUnavailable, ReplicaSetType, IInv, UnbornEmpty
  <2> QED BY <2>1, <2>2, <2>3
<1>4. TypeOK'
  BY <1>1, <1>2, <1>3 DEF IInv, TypeOK
<1>5. UnbornEmpty' /\ RevisionsDiffer' /\ StableExists'
  BY <1>1, <1>3 DEF IInv, UnbornEmpty, RevisionsDiffer, StableExists, Exists, Stable
<1> QED BY <1>3, <1>4, <1>5 DEF IInv

\* The user changes no ReplicaSet and no stable version.
LEMMA UserKeepsIInv == ASSUME IInv, User PROVE IInv' /\ UNCHANGED rs
<1>1. PICK a : UserMay(a)
  BY DEF User, SetTemplate, Scale, Abort, Retry, PromoteFull
<1>2. UNCHANGED rs /\ budget' = [budget EXCEPT !.user = @ - 1] /\ budget.user > 0
  BY <1>1 DEF UserMay
<1>3. /\ spec' \in [template : Hash, replicas : ReplicaCounts]
      /\ status' \in StatusType /\ status'.stableRS = status.stableRS
  BY DEF IInv, TypeOK, StatusType, User, SetTemplate, Scale, Abort, Retry, PromoteFull
<1>4. budget' \in [user : Nat, pods : Nat, passes : Nat]
  BY <1>2 DEF IInv, TypeOK
<1>5. TypeOK'
  BY <1>2, <1>3, <1>4 DEF IInv, TypeOK, StatusType
<1>6. UnbornEmpty' /\ RevisionsDiffer' /\ StableExists'
  BY <1>2, <1>3 DEF IInv, UnbornEmpty, RevisionsDiffer, StableExists, Exists, Stable
<1> QED BY <1>2, <1>5, <1>6 DEF IInv

LEMMA Inductive == IInv /\ [Next]_vars => IInv'
<1> SUFFICES ASSUME IInv, [Next]_vars PROVE IInv'
  OBVIOUS
<1>1. CASE Controller
  BY <1>1, CreateKeepsIInv, PassKeepsIInv DEF Controller
<1>2. CASE Pods
  BY <1>2, PodsKeepIInv DEF Pods
<1>3. CASE User
  BY <1>3, UserKeepsIInv
<1>4. CASE UNCHANGED vars
  BY <1>4 DEF vars, IInv, TypeOK, UnbornEmpty, RevisionsDiffer, StableExists, Exists, Stable
<1> QED BY <1>1, <1>2, <1>3, <1>4 DEF Next

\* Every variable keeps its type, whatever the sizes, the fenceposts, the steps
\* and the order of the passes: no count a pass computes is negative, and the
\* step index exceeds the steps by one at most.
THEOREM TypeCorrect == Spec => []TypeOK
<1>1. IInv => TypeOK
  BY DEF IInv
<1> QED BY <1>1, Initially, Inductive, PTL DEF Spec
----------------------------------------------------------------------------
(* The steps that change a size.                                            *)

\* Only the scaling stage of a pass does.
LEMMA ResizingStep ==
    ASSUME IInv, [Next]_vars, Resizes
    PROVE /\ Exists(New)
          /\ \E want \in Wanted : rs' = WithRevision(AfterScaling(want))
<1>1. PICK h \in Hash : rs'[h].spec # rs[h].spec
  BY DEF Resizes
<1>2. CASE CreateReplicaSet
  <2>1. /\ rs'[New].spec = 0
        /\ \A g \in Hash : g # New => rs'[g] = rs[g]
        /\ New \in Hash /\ ~Exists(New)
    BY <1>2 DEF CreateReplicaSet, IInv, TypeOK, New
  <2>2. rs[New].spec = 0
    BY <2>1 DEF IInv, UnbornEmpty
  <2> QED BY <1>1, <2>1, <2>2
<1>3. CASE SyncReplicasOnly \/ SyncRevisionOnChange \/ RolloutCanary
  <2>1. /\ Exists(New)
        /\ \/ \E want \in Wanted : rs' = WithRevision(AfterScaling(want))
           \/ rs' = WithRevision(rs)
    BY <1>3, PassKeepsIInv
  <2>2. ASSUME rs' = WithRevision(rs) PROVE FALSE
    <3>1. TypeOK /\ New \in Hash /\ OnlySizes(rs)
      BY DEF IInv, TypeOK, New, OnlySizes
    <3>2. \A g \in Hash : WithRevision(rs)[g].spec = rs[g].spec
      BY <3>1, WithRevisionFacts
    <3> QED BY <1>1, <2>2, <3>2
  <2> QED BY <2>1, <2>2
<1>4. CASE Pods
  BY <1>1, <1>4, PodsKeepIInv DEF Pods
<1>5. CASE User
  BY <1>1, <1>5, UserKeepsIInv
<1>6. CASE UNCHANGED vars
  BY <1>1, <1>6 DEF vars
<1> QED BY <1>2, <1>3, <1>4, <1>5, <1>6 DEF Next, Controller

\* The ReplicaSets before and after such a step.
Resized(want) ==
    /\ rs' \in [Hash -> ReplicaSetType]
    /\ \A h \in Hash : /\ rs'[h].avail = rs[h].avail
                       /\ ~Exists(h) => rs'[h].spec = 0 /\ rs'[h].avail = 0
    /\ \/ StableScaled(want, rs') \/ NewScaled(want, rs') \/ OldScaled(rs')

LEMMA ResizedFacts ==
    ASSUME IInv, Exists(New), NEW want \in Wanted, rs' = WithRevision(AfterScaling(want))
    PROVE Resized(want)
<1> DEFINE view == AfterScaling(want)
<1>1. /\ TypeOK /\ UnbornEmpty /\ StableExists /\ New \in Hash
  BY DEF IInv, TypeOK, New
<1>2. /\ OnlySizes(view)
      /\ StableScaled(want, view) \/ NewScaled(want, view) \/ OldScaled(view)
  BY <1>1, StageFacts
<1> HIDE DEF view
<1>3. /\ rs' \in [Hash -> ReplicaSetType]
      /\ \A h \in Hash : rs'[h].spec = view[h].spec /\ rs'[h].avail = rs[h].avail
  BY <1>1, <1>2, WithRevisionFacts, Zenon DEF view
<1>4. \A h \in Hash : ~Exists(h) => rs'[h].spec = 0 /\ rs'[h].avail = 0
  BY <1>1, <1>2, <1>3 DEF OnlySizes, UnbornEmpty
<1>5. StableScaled(want, rs') \/ NewScaled(want, rs') \/ OldScaled(rs')
  BY <1>2, <1>3 DEF StableScaled, NewScaled, OldScaled
<1> QED BY <1>3, <1>4, <1>5 DEF Resized

\* All the pods are those of the new ReplicaSet, of the stable one and of the
\* old ones.
LEMMA TotalOfAll ==
    ASSUME IInv, NEW count, Counts(count, Hash),
           \A h \in Hash : ~Exists(h) => count[h] = 0
    PROVE /\ Total(Old, count) \in Nat
          /\ Total(Hash, count) = Total(Old, count) + count[New]
                                    + (IF HasStable THEN count[Stable] ELSE 0)
<1> DEFINE rest == IF HasStable THEN (Hash \ {New}) \ {Stable} ELSE Hash \ {New}
           unborn == {h \in rest : ~Exists(h)}
<1>1. New \in Hash /\ Stable \in Hash /\ Stable # NoHash
  BY BasicCanaryAssumption DEF IInv, TypeOK, New, StableExists
<1>2. /\ Total(Hash, count) = Total(Hash \ {New}, count) + count[New]
      /\ Counts(count, Hash \ {New}) /\ Total(Hash \ {New}, count) \in Nat
  BY <1>1, TotalWithout
<1>3. /\ Total(Hash \ {New}, count)
           = Total(rest, count) + (IF HasStable THEN count[Stable] ELSE 0)
      /\ Counts(count, rest)
  <2>1. CASE HasStable
    <3>1. Stable \in Hash \ {New}
      BY <1>1, <2>1 DEF HasStable
    <3>2. /\ Total(Hash \ {New}, count) = Total((Hash \ {New}) \ {Stable}, count) + count[Stable]
          /\ Counts(count, (Hash \ {New}) \ {Stable})
      BY <1>2, <3>1, TotalWithout
    <3> QED BY <2>1, <3>2
  <2>2. CASE ~HasStable
    BY <1>2, <2>2
  <2> QED BY <2>1, <2>2
<1>4. /\ rest = Old \cup unborn /\ Old \cap unborn = {}
      /\ \A h \in unborn : count[h] = 0
  BY <1>1 DEF Old, HasStable
<1>5. /\ \A h \in Hash : count[h] \in Nat
      /\ IsFiniteSet(Old) /\ IsFiniteSet(unborn)
  <2>1. Old \in SUBSET Hash /\ unborn \in SUBSET Hash /\ TypeOK
    BY DEF Old, IInv
  <2> QED BY <2>1, SetsOfVersions DEF Counts
<1>6. Counts(count, Old) /\ Counts(count, unborn)
  BY <1>5 DEF Counts, Old
<1> HIDE DEF rest, unborn
<1>7. /\ Total(rest, count) = Total(Old, count) + Total(unborn, count)
      /\ Total(unborn, count) = 0
      /\ Total(Old, count) \in Nat
  BY <1>4, <1>6, TotalOfUnion, TotalOfNone, TotalType
<1>8. Total(rest, count) = Total(Old, count)
  BY <1>7
<1>9. /\ count[New] \in Nat /\ (HasStable => count[Stable] \in Nat)
  BY <1>1, <1>5
<1> QED BY <1>2, <1>3, <1>7, <1>8, <1>9

----------------------------------------------------------------------------
(* No more pods than the surge allows.                                      *)

LEMMA SurgeStep ==
    ASSUME IInv, Exists(New), NEW want \in Wanted, Resized(want), NonePending
    PROVE SpecOf(rs') <= Higher(SpecOf(rs), spec.replicas + Surge)
<1> DEFINE most == spec.replicas + Surge
           old == Total(Old, Sizes(rs))
<1>1. /\ TypeOK /\ Stable \in Hash /\ New \in Hash
      /\ NewRS = rs[New] /\ StableRS = rs[Stable]
      /\ rs[New].spec \in Nat /\ rs[Stable].spec \in Nat
      /\ rs[New].avail <= rs[New].spec /\ rs[Stable].avail <= rs[Stable].spec
      /\ HasStable => New # Stable
  <2>1. TypeOK /\ Stable \in Hash
    BY DEF IInv, StableExists
  <2>2. /\ New \in Hash /\ NewRS = rs[New] /\ StableRS = rs[Stable]
        /\ NewRS \in ReplicaSetType /\ StableRS \in ReplicaSetType
    BY <2>1, ReplicaSetFacts DEF NewRS
  <2> QED BY <2>1, <2>2 DEF NonePending, ReplicaSetType, HasStable
<1>2. most \in Nat
  BY <1>1, SurgeFacts
<1>3. /\ Counts(Sizes(rs), Hash) /\ Counts(Sizes(rs'), Hash)
      /\ \A h \in Hash : ~Exists(h) => Sizes(rs)[h] = 0 /\ Sizes(rs')[h] = 0
  <2>1. \A h \in Hash : /\ Sizes(rs)[h] = rs[h].spec /\ rs[h].spec \in Nat
                        /\ Sizes(rs')[h] = rs'[h].spec /\ rs'[h].spec \in Nat
    BY <1>1 DEF Sizes, Resized, TypeOK, ReplicaSetType
  <2> QED BY <2>1, BasicCanaryAssumption DEF Counts, Resized, IInv, UnbornEmpty
<1>4. /\ old \in Nat
      /\ SpecOf(rs) = old + rs[New].spec + (IF HasStable THEN rs[Stable].spec ELSE 0)
      /\ SpecOf(rs') = Total(Old, Sizes(rs')) + rs'[New].spec
                         + (IF HasStable THEN rs'[Stable].spec ELSE 0)
  BY <1>1, <1>3, TotalOfAll DEF SpecOf, Sizes
<1>5. SpecOf(rs) \in Nat /\ SpecOf(rs') \in Nat
  BY <1>3, TotalType DEF SpecOf
<1>6. IF HasStable THEN WantedWithStable(want) ELSE WantedAlone(want)
  BY <1>1, WantedFacts
<1>7. old = SpecTotal(Old)
  BY DEF SpecTotal
<1> HIDE DEF most, old
\* The old ReplicaSets keep their sizes while another one gets its own.
<1>8. ASSUME \A h \in Old : rs'[h].spec = rs[h].spec PROVE Total(Old, Sizes(rs')) = old
  <2>1. \A h \in Old : Sizes(rs')[h] = Sizes(rs)[h]
    BY <1>8 DEF Sizes, Old
  <2> QED BY <2>1, TotalSame DEF old
<1>9. SpecOf(rs') <= SpecOf(rs) \/ SpecOf(rs') <= most
  <2>1. CASE StableScaled(want, rs')
    <3>1. /\ HasStable /\ rs'[Stable].spec = want.stable /\ rs'[New].spec = rs[New].spec
          /\ \A h \in Old : rs'[h].spec = rs[h].spec
      BY <1>1, <2>1 DEF StableScaled, Old
    <3>2. SpecOf(rs') = old + rs[New].spec + want.stable
      BY <1>4, <1>8, <3>1
    <3>3. /\ want.stable \in Nat
          /\ \/ want.stable + rs[New].spec + old <= most
             \/ want.stable <= rs[Stable].spec
      BY <1>1, <1>6, <1>7, <3>1 DEF WantedWithStable, most
    <3> QED BY <1>1, <1>2, <1>4, <3>1, <3>2, <3>3
  <2>2. CASE NewScaled(want, rs')
    <3>1. /\ rs'[New].spec = want.canary
          /\ \A h \in Old : rs'[h].spec = rs[h].spec
          /\ HasStable => rs'[Stable].spec = rs[Stable].spec /\ rs[Stable].spec = want.stable
      BY <1>1, <2>2 DEF NewScaled, Old
    <3>2. SpecOf(rs') = old + want.canary + (IF HasStable THEN want.stable ELSE 0)
      BY <1>4, <1>8, <3>1
    <3>3. CASE HasStable
      <4>1. /\ want.canary \in Nat /\ want.stable \in Nat
            /\ \/ want.canary + want.stable + old <= most
               \/ want.canary + want.stable <= rs[New].spec + rs[Stable].spec
        BY <1>1, <1>6, <1>7, <3>3 DEF WantedWithStable, most
      <4> QED BY <1>1, <1>2, <1>4, <3>1, <3>2, <3>3, <4>1
    <3>4. CASE ~HasStable
      <4>1. /\ want.canary \in Nat
            /\ want.canary + old <= most \/ want.canary <= rs[New].spec
        BY <1>1, <1>6, <1>7, <3>4 DEF WantedAlone, most
      <4> QED BY <1>1, <1>2, <1>4, <3>2, <3>4, <4>1
    <3> QED BY <3>3, <3>4
  <2>3. CASE OldScaled(rs')
    <3>1. \A h \in Hash : Sizes(rs')[h] <= Sizes(rs)[h]
      <4> SUFFICES ASSUME NEW h \in Hash PROVE rs'[h].spec <= rs[h].spec
        BY DEF Sizes
      <4>1. rs[h].spec \in Nat /\ rs[h].avail \in Nat /\ rs[h].avail <= rs[h].spec
        BY <1>1 DEF TypeOK, ReplicaSetType, NonePending
      <4>2. CASE h \in Running
        <5>1. OldSize(h) \in Nat /\ OldSize(h) <= rs[h].avail
          BY <1>1, <4>2, OldSizeFacts
        <5> QED BY <2>3, <4>1, <4>2, <5>1 DEF OldScaled
      <4>3. CASE h \notin Running
        BY <2>3, <4>1, <4>3 DEF OldScaled
      <4> QED BY <4>2, <4>3
    <3> QED BY <1>3, <3>1, TotalMonotone DEF SpecOf
  <2> QED BY <2>1, <2>2, <2>3 DEF Resized
<1>10. /\ Higher(SpecOf(rs), most) \in Int
       /\ Higher(SpecOf(rs), most) >= SpecOf(rs) /\ Higher(SpecOf(rs), most) >= most
  <2>1. SpecOf(rs) \in Int /\ most \in Int
    BY <1>2, <1>5
  <2> QED BY <2>1, HigherFacts, Zenon
<1>11. SpecOf(rs') <= Higher(SpecOf(rs), most)
  BY <1>2, <1>5, <1>9, <1>10
<1> QED BY <1>11 DEF most

\* For every number of versions, every maxSurge and maxUnavailable, every list
\* of weights and every order of updates, aborts and sizes, no pass asks for
\* more pods than replicas + maxSurge unless it found more, although it sets
\* the sizes one at a time (CalculateReplicaCountsForBasicCanary,
\* reconcileCanaryReplicaSets).
THEOREM SurgeRespectedHolds == Spec => SurgeRespected
<1>1. IInv /\ [Next]_vars
        => [Resizes /\ NonePending
              => SpecOf(rs') <= Higher(SpecOf(rs), spec.replicas + Surge)]_vars
  <2> SUFFICES ASSUME IInv, [Next]_vars, Resizes, NonePending
               PROVE SpecOf(rs') <= Higher(SpecOf(rs), spec.replicas + Surge)
    OBVIOUS
  <2>1. Exists(New) /\ \E want \in Wanted : rs' = WithRevision(AfterScaling(want))
    BY ResizingStep
  <2>2. PICK want \in Wanted : Resized(want)
    BY <2>1, ResizedFacts
  <2> QED BY <2>1, <2>2, SurgeStep
<1> QED BY <1>1, Initially, Inductive, PTL DEF Spec, SurgeRespected
----------------------------------------------------------------------------
(* No fewer available pods than maxUnavailable allows.                      *)

\* The available pods of each version that stay.
KeptCount(view) == [h \in Hash |-> Lower(view[h].spec, view[h].avail)]

LEMMA StayingIsLower ==
    ASSUME NEW r, IsReplicaSet(r), NEW size \in Nat
    PROVE Staying(r, size) = Lower(size, r.avail) /\ Staying(r, size) \in Nat
<1>1. r.avail \in Nat /\ r.avail \in Int /\ size \in Int
  BY DEF IsReplicaSet
<1>2. /\ Lower(size, r.avail) \in Int /\ Lower(size, r.avail) <= size
      /\ Lower(size, r.avail) <= r.avail
      /\ Lower(size, r.avail) = size \/ Lower(size, r.avail) = r.avail
  BY <1>1, LowerFacts, Zenon
<1>3. /\ Lower(r.avail, size) \in Int /\ Lower(r.avail, size) <= size
      /\ Lower(r.avail, size) <= r.avail
      /\ Lower(r.avail, size) = r.avail \/ Lower(r.avail, size) = size
  BY <1>1, LowerFacts, Zenon
<1>4. Lower(r.avail, size) = Lower(size, r.avail) /\ Lower(r.avail, size) \in Nat
  BY <1>1, <1>2, <1>3
<1> QED BY <1>4 DEF Staying

\* What the old ReplicaSets lose is no more than the pods available beyond the
\* minimum. Of those that lose a pod, the one with the least revision is last:
\* it loses what the others, which come before it, left over.
LEMMA OldStep ==
    ASSUME IInv, NonePending, NEW kept, Counts(kept, Hash),
           \A h \in Hash : kept[h] = IF h \in Running THEN OldSize(h) ELSE rs[h].avail
    PROVE \/ Total(Hash, kept) >= Total(Hash, Availables(rs))
          \/ Total(Hash, kept) >= spec.replicas - Unavailable
<1> DEFINE avail == Availables(rs)
           T == {h \in Running : MaxScaleDown > ScaledDownBefore(h)}
<1>1. /\ TypeOK /\ Running \in SUBSET Hash /\ T \in SUBSET Hash /\ T \in SUBSET Running
      /\ Counts(avail, Hash)
      /\ \A h \in Hash : avail[h] = rs[h].avail /\ rs[h].avail \in Nat
      /\ \A h \in Hash : rs[h].revision \in Nat
  <2>1. TypeOK
    BY DEF IInv
  <2>2. \A h \in Hash : /\ avail[h] = rs[h].avail /\ rs[h].avail \in Nat
                        /\ rs[h].revision \in Nat
    BY <2>1 DEF Availables, TypeOK, ReplicaSetType
  <2> QED BY <2>1, <2>2, SetsOfVersions DEF Running, Old
<1>2. \A h \in Hash \ T : kept[h] = avail[h]
  <2> SUFFICES ASSUME NEW h \in Hash \ T PROVE kept[h] = rs[h].avail
    BY <1>1
  <2>1. CASE h \in Running
    <3>1. /\ OldSize(h) \in Nat /\ OldSize(h) <= rs[h].avail
          /\ OldSize(h) >= rs[h].avail \/ MaxScaleDown > ScaledDownBefore(h)
      BY <1>1, <2>1, OldSizeFacts
    <3>2. ~(MaxScaleDown > ScaledDownBefore(h))
      BY <2>1
    <3> QED BY <1>1, <2>1, <3>1, <3>2
  <2>2. CASE h \notin Running
    BY <2>2
  <2> QED BY <2>1, <2>2
<1>3. CASE T = {}
  <2>1. \A h \in Hash : kept[h] = avail[h]
    BY <1>2, <1>3
  <2>2. Total(Hash, kept) = Total(Hash, avail)
    BY <2>1, TotalSame
  <2>3. Total(Hash, avail) \in Nat
    BY <1>1, TotalType
  <2> QED BY <2>2, <2>3
<1>4. CASE T # {}
  <2>1. PICK m \in T : \A h \in T : ~(rs[h].revision < rs[m].revision)
    <3> DEFINE below == [h \in T |-> 0 - rs[h].revision]
               S == {below[h] : h \in T}
    <3>1. \A h \in T : below[h] \in S /\ below[h] \in Int /\ below[h] = 0 - rs[h].revision
      BY <1>1
    <3>2. IsFiniteSet(S)
      <4>1. IsFiniteSet(T)
        BY <1>1, SetsOfVersions
      <4> HIDE DEF below
      <4> QED BY <4>1, ImageIsFinite
    <3>3. S \subseteq Int /\ S # {}
      BY <1>1, <1>4, <3>1
    <3>4. Max(S) \in S /\ \A y \in S : Max(S) >= y
      BY <3>2, <3>3, MaxFacts
    <3>5. PICK m \in T : Max(S) = below[m]
      BY <3>4
    <3> HIDE DEF below, S
    <3>6. \A h \in T : below[m] >= below[h]
      BY <3>1, <3>4, <3>5
    <3> QED BY <1>1, <3>1, <3>6
  <2> DEFINE others == T \ {m}
             before == {g \in Running : rs[g].revision > rs[m].revision}
  <2>2. m \in Running /\ m \in Hash /\ MaxScaleDown > ScaledDownBefore(m)
    BY <1>1, <2>1
  <2>3. others \subseteq before
    <3> SUFFICES ASSUME NEW h \in others PROVE rs[h].revision > rs[m].revision
      BY <1>1
    <3>1. rs[h].revision # rs[m].revision
      BY <1>1 DEF IInv, RevisionsDiffer, Running, Old
    <3> QED BY <1>1, <2>1, <2>2, <3>1
  \* Those that come before m lose no more than was counted.
  <2>4. Total(others, avail) \in Nat /\ Total(others, avail) <= ScaledDownBefore(m)
    <3>1. /\ Counts(CleanedUp, Running) /\ \A g \in Running : CleanedUp[g] = rs[g].avail
      BY <1>1, <2>2, OldSizeFacts
    <3>2. before \in SUBSET Hash /\ others \in SUBSET Hash
      BY <1>1
    <3>3. IsFiniteSet(before) /\ IsFiniteSet(others)
      BY <1>1, <3>2, SetsOfVersions
    <3>4. /\ Counts(avail, others) /\ Counts(CleanedUp, before)
          /\ \A h \in others : avail[h] <= CleanedUp[h]
      BY <1>1, <2>3, <3>1, <3>2, <3>3 DEF Counts
    <3> QED BY <2>3, <3>4, TotalMonotone, TotalType DEF ScaledDownBefore
  <2>5. /\ OldSize(m) \in Nat /\ MaxScaleDown \in Int /\ ScaledDownBefore(m) \in Nat
        /\ OldSize(m) >= rs[m].avail - (MaxScaleDown - ScaledDownBefore(m))
    <3>1. /\ OldSize(m) \in Nat /\ MaxScaleDown \in Int /\ ScaledDownBefore(m) \in Nat
          /\ \/ OldSize(m) >= rs[m].avail
             \/ OldSize(m) >= rs[m].avail - (MaxScaleDown - ScaledDownBefore(m))
      BY <1>1, <2>2, OldSizeFacts
    <3> QED BY <1>1, <2>2, <3>1
  \* All the pods are those of the rest, of those before m, and of m.
  <2> DEFINE rest == (Hash \ {m}) \ others
  <2>6. /\ Total(Hash, avail) = Total(rest, avail) + Total(others, avail) + rs[m].avail
        /\ Total(Hash, kept) = Total(rest, kept) + Total(others, kept) + OldSize(m)
        /\ Total(rest, avail) \in Nat /\ Total(rest, kept) \in Nat /\ Total(others, kept) \in Nat
    <3>1. ASSUME NEW count, Counts(count, Hash)
          PROVE /\ Total(Hash, count) = Total(rest, count) + Total(others, count) + count[m]
                /\ Total(rest, count) \in Nat /\ Total(others, count) \in Nat
      <4>1. rest \in SUBSET Hash /\ others \in SUBSET Hash /\ IsFiniteSet(Hash)
        BY <1>1, <3>1 DEF Counts
      <4>2. IsFiniteSet(rest) /\ IsFiniteSet(others)
        BY <1>1, <4>1, SetsOfVersions
      <4>3. Counts(count, rest) /\ Counts(count, others)
        BY <3>1, <4>1, <4>2 DEF Counts
      <4>4. Hash \ {m} = rest \cup others /\ rest \cap others = {}
        BY <4>1
      <4> HIDE DEF rest, others
      <4>5. /\ Total(Hash, count) = Total(Hash \ {m}, count) + count[m]
            /\ Total(Hash \ {m}, count) = Total(rest, count) + Total(others, count)
        <5>1. Total(Hash, count) = Total(Hash \ {m}, count) + count[m]
          BY <2>2, <3>1, TotalWithout
        <5>2. Total(rest \cup others, count) = Total(rest, count) + Total(others, count)
          BY <4>3, <4>4, TotalOfUnion
        <5> QED BY <4>4, <5>1, <5>2
      <4>6. Total(rest, count) \in Nat /\ Total(others, count) \in Nat
        BY <4>3, TotalType
      <4> QED BY <4>5, <4>6
    <3>2. avail[m] = rs[m].avail /\ kept[m] = OldSize(m)
      BY <1>1, <2>2
    <3> HIDE DEF avail, others, rest
    <3> QED BY <1>1, <3>1, <3>2
  <2>7. Total(rest, kept) = Total(rest, avail)
    <3>1. \A h \in rest : kept[h] = avail[h]
      BY <1>2
    <3> QED BY <3>1, TotalSame
  <2>8. MaxScaleDown = Total(Hash, avail) - (spec.replicas - Unavailable)
    <3> DEFINE born == {h \in Hash : Exists(h)}
               unborn == {h \in Hash : ~Exists(h)}
    <3>1. /\ IsFiniteSet(born) /\ IsFiniteSet(unborn)
          /\ Counts(avail, born) /\ AvailTotal(born) \in Nat
      BY <1>1, SetsOfVersions
    <3>2. /\ Counts(avail, unborn) /\ \A h \in unborn : avail[h] = 0
      BY <1>1, <3>1 DEF Counts, IInv, UnbornEmpty
    <3>3. Hash = born \cup unborn /\ born \cap unborn = {}
      OBVIOUS
    <3> HIDE DEF born, unborn, avail
    <3>4. Total(Hash, avail) = Total(born, avail) + 0
      <4>1. Total(born \cup unborn, avail) = Total(born, avail) + Total(unborn, avail)
        BY <3>1, <3>2, <3>3, TotalOfUnion
      <4>2. Total(unborn, avail) = 0
        BY <3>2, TotalOfNone
      <4> QED BY <3>3, <4>1, <4>2
    <3>5. Total(born, avail) = AvailTotal(born)
      BY DEF AvailTotal, avail
    <3>6. MaxScaleDown = AvailTotal(born) - (spec.replicas - Unavailable)
      BY DEF MaxScaleDown, born
    <3> QED BY <3>1, <3>4, <3>5, <3>6
  <2>9. spec.replicas \in Nat /\ Unavailable \in Nat /\ rs[m].avail \in Nat
    BY <1>1, <2>2, SurgeFacts
  <2> HIDE DEF avail, others, rest
  <2>10. Total(Hash, kept) >= spec.replicas - Unavailable
    BY <2>4, <2>5, <2>6, <2>7, <2>8, <2>9
  <2> QED BY <2>10
<1> QED BY <1>3, <1>4

LEMMA AvailabilityStep ==
    ASSUME IInv, Exists(New), NEW want \in Wanted, Resized(want), NonePending
    PROVE Kept(rs') >= Lower(Kept(rs), spec.replicas - Unavailable)
<1> DEFINE least == spec.replicas - Unavailable
           kept == KeptCount(rs)
           keptNext == KeptCount(rs')
           old == Total(Old, kept)
<1>1. /\ TypeOK /\ Stable \in Hash /\ New \in Hash
      /\ NewRS = rs[New] /\ StableRS = rs[Stable]
      /\ rs \in [Hash -> ReplicaSetType] /\ rs' \in [Hash -> ReplicaSetType]
      /\ HasStable => New # Stable
  <2>1. TypeOK /\ Stable \in Hash
    BY DEF IInv, StableExists
  <2> QED BY <2>1, ReplicaSetFacts DEF NewRS, Resized, TypeOK, HasStable
<1>2. \A h \in Hash : /\ rs[h].spec \in Nat /\ rs[h].avail \in Nat /\ rs[h].avail <= rs[h].spec
                      /\ rs'[h].spec \in Nat /\ rs'[h].avail = rs[h].avail
                      /\ IsReplicaSet(rs[h])
  BY <1>1 DEF ReplicaSetType, Resized, NonePending, IsReplicaSet
<1>3. \A h \in Hash : /\ kept[h] = Staying(rs[h], rs[h].spec) /\ kept[h] \in Nat
                      /\ keptNext[h] = Staying(rs[h], rs'[h].spec) /\ keptNext[h] \in Nat
  BY <1>2, StayingIsLower DEF KeptCount
<1>4. \A h \in Hash : kept[h] = rs[h].avail
  <2> SUFFICES ASSUME NEW h \in Hash PROVE kept[h] = rs[h].avail
    OBVIOUS
  <2>1. kept[h] = rs[h].avail \/ (kept[h] = rs[h].spec /\ kept[h] <= rs[h].avail)
    BY <1>2, <1>3, StayingFacts
  <2> HIDE DEF kept
  <2> QED BY <1>2, <2>1
<1>5. /\ Counts(kept, Hash) /\ Counts(keptNext, Hash)
      /\ \A h \in Hash : ~Exists(h) => kept[h] = 0 /\ keptNext[h] = 0
  <2>1. \A h \in Hash : ~Exists(h) => rs[h].avail = 0
    BY DEF IInv, UnbornEmpty
  <2>2. \A h \in Hash : keptNext[h] <= rs[h].avail
    BY <1>2, <1>3, StayingFacts
  <2>3. Counts(kept, Hash) /\ Counts(keptNext, Hash)
    BY <1>3, BasicCanaryAssumption DEF Counts
  <2> HIDE DEF kept, keptNext
  <2> QED BY <1>3, <1>4, <2>1, <2>2, <2>3
<1>6. /\ Kept(rs) = Total(Hash, kept) /\ Kept(rs') = Total(Hash, keptNext)
  BY DEF Kept, KeptCount
<1>7. least \in Int
  BY <1>1, SurgeFacts
<1>8. IF HasStable THEN WantedWithStable(want) ELSE WantedAlone(want)
  BY <1>1, WantedFacts
<1> HIDE DEF kept, keptNext
<1>9. /\ old \in Nat
      /\ Kept(rs) = old + kept[New] + (IF HasStable THEN kept[Stable] ELSE 0)
      /\ Kept(rs') = Total(Old, keptNext) + keptNext[New]
                       + (IF HasStable THEN keptNext[Stable] ELSE 0)
  BY <1>5, <1>6, TotalOfAll
<1>10. Kept(rs) \in Nat /\ Kept(rs') \in Nat
  BY <1>5, <1>6, TotalType
<1> HIDE DEF least, old
\* The old ReplicaSets keep their pods while another one gets its size.
<1>11. ASSUME \A h \in Old : rs'[h].spec = rs[h].spec PROVE Total(Old, keptNext) = old
  <2>1. \A h \in Old : keptNext[h] = kept[h]
    BY <1>3, <1>11 DEF Old
  <2> QED BY <2>1, TotalSame DEF old
<1>12. Kept(rs') >= Kept(rs) \/ Kept(rs') >= least
  <2>1. CASE StableScaled(want, rs')
    <3>1. /\ HasStable /\ rs'[Stable].spec = want.stable /\ rs'[New].spec = rs[New].spec
          /\ \A h \in Old : rs'[h].spec = rs[h].spec
      BY <1>1, <2>1 DEF StableScaled, Old
    <3>2. /\ Kept(rs') = old + kept[New] + keptNext[Stable]
          /\ Kept(rs) = old + kept[New] + kept[Stable]
      BY <1>1, <1>3, <1>9, <1>11, <3>1
    <3>3. \/ kept[New] + keptNext[Stable] >= least
          \/ kept[New] + keptNext[Stable] >= kept[New] + kept[Stable]
      BY <1>1, <1>2, <1>3, <1>8, <3>1 DEF WantedWithStable, least
    <3> QED BY <1>1, <1>3, <1>7, <1>9, <3>2, <3>3
  <2>2. CASE NewScaled(want, rs')
    <3>1. /\ rs'[New].spec = want.canary
          /\ \A h \in Old : rs'[h].spec = rs[h].spec
          /\ HasStable => rs'[Stable].spec = rs[Stable].spec /\ rs[Stable].spec = want.stable
      BY <1>1, <2>2 DEF NewScaled, Old
    <3>2. CASE HasStable
      <4>1. /\ Kept(rs') = old + keptNext[New] + kept[Stable]
            /\ Kept(rs) = old + kept[New] + kept[Stable]
        BY <1>1, <1>3, <1>9, <1>11, <3>1, <3>2
      <4>2. \/ keptNext[New] + kept[Stable] >= least
            \/ keptNext[New] + kept[Stable] >= kept[New] + kept[Stable]
        BY <1>1, <1>3, <1>8, <3>1, <3>2 DEF WantedWithStable, least
      <4> QED BY <1>1, <1>3, <1>7, <1>9, <4>1, <4>2
    <3>3. CASE ~HasStable
      <4>1. /\ Kept(rs') = old + keptNext[New]
            /\ Kept(rs) = old + kept[New]
        BY <1>1, <1>3, <1>9, <1>11, <3>1, <3>3
      <4>2. keptNext[New] >= least \/ keptNext[New] >= kept[New]
        BY <1>1, <1>3, <1>8, <3>1, <3>3 DEF WantedAlone, least
      <4> QED BY <1>1, <1>3, <1>7, <1>9, <4>1, <4>2
    <3> QED BY <3>2, <3>3
  <2>3. CASE OldScaled(rs')
    <3>1. ASSUME NEW h \in Hash
          PROVE keptNext[h] = IF h \in Running THEN OldSize(h) ELSE rs[h].avail
      <4>1. CASE h \in Running
        <5>1. OldSize(h) \in Nat /\ OldSize(h) <= rs[h].avail /\ rs'[h].spec = OldSize(h)
          BY <1>1, <2>3, <4>1, OldSizeFacts DEF OldScaled
        <5>2. /\ keptNext[h] = rs[h].avail \/ keptNext[h] = OldSize(h)
              /\ keptNext[h] <= OldSize(h) /\ keptNext[h] \in Nat
          BY <1>2, <1>3, <5>1, StayingFacts
        <5> QED BY <1>2, <4>1, <5>1, <5>2
      <4>2. CASE h \notin Running
        <5>1. rs'[h].spec = rs[h].spec
          BY <2>3, <4>2 DEF OldScaled
        <5> QED BY <1>3, <1>4, <4>2, <5>1
      <4> QED BY <4>1, <4>2
    <3>2. \/ Total(Hash, keptNext) >= Total(Hash, Availables(rs))
          \/ Total(Hash, keptNext) >= least
      BY <1>5, <3>1, OldStep DEF least
    <3>3. Total(Hash, Availables(rs)) = Total(Hash, kept)
      <4>1. \A h \in Hash : Availables(rs)[h] = kept[h]
        BY <1>4 DEF Availables
      <4> QED BY <4>1, TotalSame
    <3> QED BY <1>6, <3>2, <3>3
  <2> QED BY <2>1, <2>2, <2>3 DEF Resized
<1>13. /\ Lower(Kept(rs), least) \in Int
       /\ Lower(Kept(rs), least) <= Kept(rs) /\ Lower(Kept(rs), least) <= least
  <2>1. Kept(rs) \in Int /\ least \in Int
    BY <1>7, <1>10
  <2> QED BY <2>1, LowerFacts, Zenon
<1>14. Kept(rs') >= Lower(Kept(rs), least)
  BY <1>7, <1>10, <1>12, <1>13
<1> QED BY <1>14 DEF least

\* For every number of versions, every maxSurge and maxUnavailable, every list
\* of weights and every order of updates, aborts and sizes, no pass scales down
\* below replicas - maxUnavailable available pods, or below those it found: not
\* between the sizes of the stable and the new ReplicaSet, and not for all the
\* older versions together (scaleDownOldReplicaSetsForCanary).
THEOREM AvailabilityKeptHolds == Spec => AvailabilityKept
<1>1. IInv /\ [Next]_vars
        => [Resizes /\ NonePending
              => Kept(rs') >= Lower(Kept(rs), spec.replicas - Unavailable)]_vars
  <2> SUFFICES ASSUME IInv, [Next]_vars, Resizes, NonePending
               PROVE Kept(rs') >= Lower(Kept(rs), spec.replicas - Unavailable)
    OBVIOUS
  <2>1. Exists(New) /\ \E want \in Wanted : rs' = WithRevision(AfterScaling(want))
    BY ResizingStep
  <2>2. PICK want \in Wanted : Resized(want)
    BY <2>1, ResizedFacts
  <2> QED BY <2>1, <2>2, AvailabilityStep
<1> QED BY <1>1, Initially, Inductive, PTL DEF Spec, AvailabilityKept
=============================================================================
