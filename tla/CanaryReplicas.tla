--------------------------- MODULE CanaryReplicas ---------------------------
(***************************************************************************)
(* The replica arithmetic of the canary strategy, as pure operators:       *)
(* utils/replicaset/canary.go and the fenceposts of                        *)
(* utils/replicaset/replicaset.go.                                         *)
(*                                                                         *)
(* A ReplicaSet is a record with the fields                                *)
(*   spec     .spec.replicas, what the controller asked for                *)
(*   created  .status.replicas, the pods that exist                        *)
(*   avail    .status.availableReplicas, the pods that are available       *)
(* A rollout is a record with the fields                                   *)
(*   replicas          .spec.replicas                                      *)
(*   surge, unavail    maxSurge and maxUnavailable as they resolve         *)
(* The code divides in floating point and compares distances; both are     *)
(* exact here. The two agree: a tie that floating point misses is between  *)
(* the ceiling and the floor over one total, and the ceiling comes first.  *)
(***************************************************************************)
EXTENDS Integers, Sequences

MaxWeight == 100

\* As functions: TLC evaluates the arguments of a function once.
LowerOf == [a \in Int |-> [b \in Int |-> IF a > b THEN b ELSE a]]
HigherOf == [a \in Int |-> [b \in Int |-> IF a < b THEN b ELSE a]]
Lower(a, b) == LowerOf[a][b]
Higher(a, b) == HigherOf[a][b]
Distance(a, b) == Higher(a - b, b - a)
FloorDiv(a, b) == a \div b
CeilDiv(a, b) == (a + b - 1) \div b

-----------------------------------------------------------------------------
(* Fenceposts                                                              *)

\* maxSurge and maxUnavailable are a number, or a percentage of replicas:
\* a surge rounds up, an unavailability down.
Resolve(bound, replicas, RoundDiv(_, _)) ==
  IF bound.percent THEN RoundDiv(bound.value * replicas, 100) ELSE bound.value

MaxSurge(maxSurge, replicas) == Resolve(maxSurge, replicas, CeilDiv)

\* Both may resolve to zero: then one pod may be unavailable, for the update
\* to move at all. Never more than there are replicas.
MaxUnavailable(maxSurge, maxUnavailable, replicas) ==
  LET unavailable == Resolve(maxUnavailable, replicas, FloorDiv)
      atLeastOne == IF MaxSurge(maxSurge, replicas) = 0 /\ unavailable = 0
                    THEN 1 ELSE unavailable
  IN  IF replicas = 0 THEN 0 ELSE Lower(atLeastOne, replicas)

-----------------------------------------------------------------------------
(* The basic canary: weights approximated by replica counts                *)

\* The ceiling and the floor are as far from the weight.
Tied(weight, total) == (2 * weight * total) % (2 * MaxWeight) = MaxWeight

\* Is canary/total of option a closer to the weight than that of option b?
Closer(a, b, weight) ==
  Distance(a.canary * MaxWeight, weight * a.total) * b.total
    < Distance(b.canary * MaxWeight, weight * b.total) * a.total

\* The counts that may stand for the weight, in the order the code tries them.
Options(replicas, weight, surge) ==
  LET up == CeilDiv(replicas * weight, MaxWeight)
      down == FloorDiv(replicas * weight, MaxWeight)
      zeroAllowed == \/ weight \in {0, MaxWeight}
                     \/ replicas = 1 /\ surge = 0
      Option(condition, count, total) ==
        IF condition THEN << [canary |-> count, total |-> total] >> ELSE << >>
      downAllowed == down # 0 \/ zeroAllowed
  IN     Option(up < replicas \/ zeroAllowed, up, replicas)
      \o Option(~Tied(weight, replicas) /\ downAllowed, down, replicas)
      \o Option(surge > 0, up, replicas + 1)
      \o Option(/\ surge > 0
                /\ ~Tied(weight, replicas + 1)
                /\ downAllowed, down, replicas + 1)

\* The closest option, the earliest of those that are equally close.
Approximate(replicas, weight, surge) ==
  LET options == Options(replicas, weight, surge)
      best == CHOOSE i \in DOMAIN options : \A j \in DOMAIN options :
                /\ ~Closer(options[j], options[i], weight)
                /\ j < i => Closer(options[i], options[j], weight)
  IN  IF replicas = 0 THEN [canary |-> 0, stable |-> 0]
      ELSE IF options = << >> THEN [canary |-> 0, stable |-> replicas]
      ELSE [canary |-> options[best].canary,
            stable |-> options[best].total - options[best].canary]

\* The replicas of rs that count for scaling down. Pods beyond the spec are
\* about to stop; pods that are not available count only where asked.
ForScaleDown(rs, ignoreAvailability) ==
  IF rs.spec < rs.avail \/ ignoreAvailability THEN rs.spec ELSE rs.avail

\* Mutant: to the desired count at once, whatever room the surge leaves.
ScaledUpAtOnce(rs, want, room) == IF room > 0 THEN Higher(want, rs.spec) ELSE rs.spec

\* Raise rs towards want by at most room pods.
ScaledUp(rs, want, room) ==
  IF rs.spec < want /\ room > 0 THEN Lower(want, rs.spec + room) ELSE rs.spec

\* Lower the count of the drained ReplicaSet by at most `excess` pods.
Drained(rs, want, excess, count) ==
  IF rs.spec > want THEN Higher(want, rs.spec - excess) ELSE count

\* Bring the two counts within the surge, and put back what availability
\* needs: first at the cost of the other ReplicaSet, then of the drained one.
WithinLimits(drain, other, drainCount, otherCount, most, least) ==
  LET over == Higher(0, otherCount + drainCount - most)
      cut == otherCount - over
      available == Lower(drain.avail, drainCount) + Lower(other.avail, cut)
      restored == cut + Lower(Higher(0, other.avail - cut), Higher(0, least - available))
  IN  [drain |-> drainCount - Higher(0, restored + drainCount - most),
       other |-> restored]

\* The counts of the new and the stable ReplicaSet in the next pass.
\* hasStable: there is a stable ReplicaSet and it is not the new one (else
\* `stable` is `new`). oldSpec: the pods asked for of all older ReplicaSets.
\* approximated: the counts that stand for the weight.
BasicCounts(ro, approximated, new, stable, hasStable, oldSpec) ==
  LET wantNew == IF hasStable THEN approximated.canary ELSE ro.replicas
      wantStable == IF hasStable THEN approximated.stable ELSE 0
      stableSpec == IF hasStable THEN stable.spec ELSE 0
      most == ro.replicas + ro.surge
      least == ro.replicas - ro.unavail
      room == most - (oldSpec + new.spec + stableSpec)
      upStable == IF hasStable THEN ScaledUp(stable, wantStable, room) ELSE 0
      upNew == ScaledUp(new, wantNew, room - (upStable - stableSpec))
      increasing == wantNew >= new.spec
      counted == ForScaleDown(new, ~increasing) + ForScaleDown(stable, increasing)
      drained == IF increasing
                 THEN Drained(stable, wantStable, counted - least, upStable)
                 ELSE Drained(new, wantNew, counted - least, upNew)
      limited == IF increasing
                 THEN WithinLimits(stable, new, drained, upNew, most, least)
                 ELSE WithinLimits(new, stable, drained, upStable, most, least)
  IN  IF oldSpec > 0 \/ counted <= least \/ (increasing /\ ~hasStable)
      THEN [canary |-> upNew, stable |-> upStable]
      ELSE IF increasing
      THEN [canary |-> limited.other, stable |-> limited.drain]
      ELSE [canary |-> limited.drain, stable |-> limited.other]

-----------------------------------------------------------------------------
(* The canary with a traffic router                                        *)

WeightToReplicas(replicas, weight) == CeilDiv(weight * replicas, MaxWeight)

-----------------------------------------------------------------------------
(* Progress                                                                *)

AllAvailable(rs, want) == rs.spec = want /\ rs.avail = want
AllCreated(rs, want) == rs.spec = want /\ rs.created = want

\* Enough pods of rs are available to call `want` replicas reached; without a
\* threshold all of them have to be. A threshold looks at no spec.
ThresholdMet(threshold, rs, want) ==
  CASE threshold.kind = "none" -> AllAvailable(rs, want)
    [] threshold.kind = "percent" -> 100 * rs.avail >= threshold.value * want
    [] threshold.kind = "pods" -> rs.avail >= threshold.value
=============================================================================
