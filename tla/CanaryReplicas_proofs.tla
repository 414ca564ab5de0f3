----------------------- MODULE CanaryReplicas_proofs -----------------------
(***************************************************************************)
(* Proofs about the replica arithmetic of the basic canary, for all sizes: *)
(* the counts that stand for a weight fit, and the counts of the next pass *)
(* respect maxSurge and maxUnavailable.                                    *)
(***************************************************************************)
EXTENDS CanaryReplicas, FiniteSetsExt, SequenceTheorems, FiniteSetTheorems,
        WellFoundedInduction, TLAPS

-----------------------------------------------------------------------------
(* The greatest number of a finite set.                                     *)

\* A finite set of integers that is not empty has a greatest element: a
\* smallest one that had none would lose an element and have one.
LEMMA MaxFacts ==
    ASSUME NEW S, S \subseteq Int, IsFiniteSet(S), S # {}
    PROVE Max(S) \in S /\ \A y \in S : Max(S) >= y
<1> DEFINE HasMax(T) == \E x \in T : \A y \in T : x >= y
           Bad == {T \in FiniteSubsetsOf(S) : T # {} /\ ~HasMax(T)}
<1>1. Bad = {}
  <2> SUFFICES ASSUME Bad # {} PROVE FALSE
    OBVIOUS
  <2>1. Bad \subseteq FiniteSubsetsOf(S)
    OBVIOUS
  <2>2. PICK T \in Bad : \A U \in Bad : <<U, T>> \notin StrictSubsetOrdering(S)
    <3> HIDE DEF Bad
    <3> QED BY <2>1, FS_StrictSubsetOrderingWellFounded, WFMin
  <2>3. T \subseteq S /\ IsFiniteSet(T) /\ T # {} /\ ~HasMax(T)
    BY DEF FiniteSubsetsOf
  <2>4. PICK x : x \in T
    BY <2>3
  <2> DEFINE U == T \ {x}
  <2>5. IsFiniteSet(U)
    BY <2>3, FS_RemoveElement
  <2>6. U # {}
    <3> SUFFICES ASSUME U = {} PROVE FALSE
      OBVIOUS
    <3>1. \A y \in T : y = x
      OBVIOUS
    <3>2. x \in Int
      BY <2>3, <2>4
    <3>3. \A y \in T : x >= y
      BY <3>1, <3>2
    <3> QED BY <2>3, <2>4, <3>3
  <2>7. HasMax(U)
    <3>1. U \in SUBSET S /\ U # T
      BY <2>3, <2>4
    <3>2. <<U, T>> \in StrictSubsetOrdering(S)
      BY <2>3, <3>1 DEF StrictSubsetOrdering
    <3>3. U \notin Bad
      BY <2>2, <3>2, Zenon
    <3> QED BY <2>5, <2>6, <3>1, <3>3 DEF FiniteSubsetsOf
  <2>8. PICK u \in U : \A y \in U : u >= y
    BY <2>7
  <2>9. u \in Int /\ x \in Int /\ u \in T /\ \A y \in T : y \in Int /\ (y = x \/ u >= y)
    BY <2>3, <2>4, <2>8
  <2>10. CASE u >= x
    BY <2>3, <2>9, <2>10
  <2>11. CASE ~(u >= x)
    <3>1. \A y \in T : x >= y
      BY <2>9, <2>11
    <3> QED BY <2>3, <2>4, <3>1
  <2> QED BY <2>10, <2>11
<1>2. S \in FiniteSubsetsOf(S)
  BY DEF FiniteSubsetsOf
<1>3. HasMax(S)
  BY <1>1, <1>2
<1> QED BY <1>3, Zenon DEF Max

-----------------------------------------------------------------------------
(* The least and the greatest of two, and what is made of them.             *)

LEMMA LowerFacts ==
    ASSUME NEW a \in Int, NEW b \in Int
    PROVE /\ Lower(a, b) \in Int /\ Lower(a, b) <= a /\ Lower(a, b) <= b
          /\ Lower(a, b) = a \/ Lower(a, b) = b
BY DEF Lower, LowerOf

LEMMA HigherFacts ==
    ASSUME NEW a \in Int, NEW b \in Int
    PROVE /\ Higher(a, b) \in Int /\ Higher(a, b) >= a /\ Higher(a, b) >= b
          /\ Higher(a, b) = a \/ Higher(a, b) = b
BY DEF Higher, HigherOf

\* What is known of a ReplicaSet.
IsReplicaSet(r) == r.spec \in Nat /\ r.avail \in Nat

\* A ReplicaSet is raised by at most the room there is, and only up to what
\* is wanted.
LEMMA ScaledUpFacts ==
    ASSUME NEW r, IsReplicaSet(r), NEW want \in Nat, NEW room \in Int
    PROVE /\ ScaledUp(r, want, room) \in Nat
          /\ ScaledUp(r, want, room) >= r.spec
          /\ ScaledUp(r, want, room) > r.spec
               => /\ ScaledUp(r, want, room) - r.spec <= room
                  /\ ScaledUp(r, want, room) <= want
<1>1. r.spec \in Nat
  BY DEF IsReplicaSet
<1> DEFINE low == Lower(want, r.spec + room)
<1>2. /\ low \in Int
      /\ low <= want
      /\ low <= r.spec + room
      /\ low = want \/ low = r.spec + room
  <2>1. want \in Int /\ r.spec + room \in Int
    BY <1>1
  <2> QED
    BY <2>1, LowerFacts, Zenon DEF low
<1>3. ScaledUp(r, want, room) = IF r.spec < want /\ room > 0 THEN low ELSE r.spec
  BY DEF ScaledUp
<1> HIDE DEF low
<1> QED
  BY <1>1, <1>2, <1>3

\* Draining takes at most the excess from a ReplicaSet, and never stops it
\* short of what is wanted.
LEMMA DrainedFacts ==
    ASSUME NEW r, IsReplicaSet(r), NEW want \in Nat, NEW excess \in Nat, NEW count \in Nat,
           count >= r.spec, count > r.spec => count <= want
    PROVE /\ Drained(r, want, excess, count) \in Nat
          /\ Drained(r, want, excess, count) <= count
          /\ Drained(r, want, excess, count) >= r.spec - excess
          /\ \/ Drained(r, want, excess, count) <= want
             \/ Drained(r, want, excess, count) = r.spec - excess
<1>1. r.spec \in Nat
  BY DEF IsReplicaSet
<1> DEFINE high == Higher(want, r.spec - excess)
<1>2. /\ high \in Int
      /\ high >= want
      /\ high >= r.spec - excess
      /\ high = want \/ high = r.spec - excess
  <2>1. want \in Int /\ r.spec - excess \in Int
    BY <1>1
  <2> QED
    BY <2>1, HigherFacts, Zenon DEF high
<1>3. Drained(r, want, excess, count) = IF r.spec > want THEN high ELSE count
  BY DEF Drained
<1> HIDE DEF high
<1> QED
  BY <1>1, <1>2, <1>3

\* What the limits leave of two ReplicaSets. Where the drained one fits: no
\* more than `most` pods in all, and `least` available ones unless fewer were,
\* also when one of the two gets its count before the other does. Where there
\* is no other one: `least` available pods, unless fewer were.
LEMMA WithinLimitsFacts ==
    ASSUME NEW drain, IsReplicaSet(drain), NEW other, IsReplicaSet(other),
           NEW drainCount \in Nat, NEW otherCount \in Nat,
           NEW most \in Nat, NEW least \in Nat, least <= most
    PROVE LET limited == WithinLimits(drain, other, drainCount, otherCount, most, least)
              kept == Lower(drain.avail, limited.drain) + Lower(other.avail, limited.other)
              before == Lower(drain.avail, drainCount) + Lower(other.avail, otherCount)
          IN  /\ drainCount <= most
                   => /\ limited.drain \in Nat /\ limited.other \in Nat
                      /\ limited.drain + limited.other <= most
                      /\ kept >= least \/ kept >= before
                      /\ limited.drain <= drainCount
                      /\ limited.drain = drainCount \/ limited.drain + other.avail >= least
                      /\ limited.other <= otherCount \/ limited.other <= other.avail
                      /\ \/ limited.other >= other.avail
                         \/ limited.other + Lower(drain.avail, drainCount) >= least
              /\ otherCount = 0 /\ drainCount >= least
                   => /\ limited.drain \in Nat
                      /\ limited.drain <= drainCount
                      /\ \/ Lower(drain.avail, limited.drain) >= least
                         \/ Lower(drain.avail, limited.drain) >= Lower(drain.avail, drainCount)
<1>1. drain.avail \in Nat /\ other.avail \in Nat
  BY DEF IsReplicaSet
<1> DEFINE over == Higher(0, otherCount + drainCount - most)
           cut == otherCount - over
           availDrain == Lower(drain.avail, drainCount)
           availOther == Lower(other.avail, cut)
           spare == Higher(0, other.avail - cut)
           missing == Higher(0, least - (availDrain + availOther))
           back == Lower(spare, missing)
           restored == cut + back
           overAgain == Higher(0, restored + drainCount - most)
           left == drainCount - overAgain
           keptDrain == Lower(drain.avail, left)
           keptOther == Lower(other.avail, restored)
           beforeOther == Lower(other.avail, otherCount)
<1>2. WithinLimits(drain, other, drainCount, otherCount, most, least)
        = [drain |-> left, other |-> restored]
  BY DEF WithinLimits
<1> HIDE DEF over, cut, availDrain, availOther, spare, missing, back, restored,
             overAgain, left, keptDrain, keptOther, beforeOther
<1>3. /\ over \in Int
      /\ over >= 0
      /\ over >= otherCount + drainCount - most
      /\ over = 0 \/ over = otherCount + drainCount - most
  <2>1. 0 \in Int /\ otherCount + drainCount - most \in Int
    OBVIOUS
  <2> QED
    BY <2>1, HigherFacts, Zenon DEF over
<1>4. cut \in Int /\ cut = otherCount - over
  BY <1>3, SMT DEF cut
<1>5. /\ availDrain \in Int
      /\ availDrain <= drain.avail
      /\ availDrain <= drainCount
      /\ availDrain = drain.avail \/ availDrain = drainCount
  <2>1. drain.avail \in Int /\ drainCount \in Int
    BY <1>1
  <2> QED
    BY <2>1, LowerFacts, Zenon DEF availDrain
<1>6. /\ availOther \in Int
      /\ availOther <= other.avail
      /\ availOther <= cut
      /\ availOther = other.avail \/ availOther = cut
  <2>1. other.avail \in Int /\ cut \in Int
    BY <1>1, <1>4
  <2> QED
    BY <2>1, LowerFacts, Zenon DEF availOther
<1>7. /\ spare \in Int
      /\ spare >= 0
      /\ spare >= other.avail - cut
      /\ spare = 0 \/ spare = other.avail - cut
  <2>1. 0 \in Int /\ other.avail - cut \in Int
    BY <1>1, <1>4
  <2> QED
    BY <2>1, HigherFacts, Zenon DEF spare
<1>8. /\ missing \in Int
      /\ missing >= 0
      /\ missing >= least - (availDrain + availOther)
      /\ missing = 0 \/ missing = least - (availDrain + availOther)
  <2>1. 0 \in Int /\ least - (availDrain + availOther) \in Int
    BY <1>5, <1>6
  <2> QED
    BY <2>1, HigherFacts, Zenon DEF missing
<1>9. /\ back \in Int
      /\ back <= spare
      /\ back <= missing
      /\ back = spare \/ back = missing
  <2>1. spare \in Int /\ missing \in Int
    BY <1>7, <1>8
  <2> QED
    BY <2>1, LowerFacts, Zenon DEF back
<1>10. restored \in Int /\ restored = cut + back
  BY <1>4, <1>9 DEF restored
<1>11. /\ overAgain \in Int
       /\ overAgain >= 0
       /\ overAgain >= restored + drainCount - most
       /\ overAgain = 0 \/ overAgain = restored + drainCount - most
  <2>1. 0 \in Int /\ restored + drainCount - most \in Int
    BY <1>10
  <2> QED
    BY <2>1, HigherFacts, Zenon DEF overAgain
<1>12. left \in Int /\ left = drainCount - overAgain
  BY <1>11 DEF left
<1>13. /\ keptDrain \in Int
       /\ keptDrain <= drain.avail
       /\ keptDrain <= left
       /\ keptDrain = drain.avail \/ keptDrain = left
  <2>1. drain.avail \in Int /\ left \in Int
    BY <1>1, <1>12
  <2> QED
    BY <2>1, LowerFacts, Zenon DEF keptDrain
<1>14. /\ keptOther \in Int
       /\ keptOther <= other.avail
       /\ keptOther <= restored
       /\ keptOther = other.avail \/ keptOther = restored
  <2>1. other.avail \in Int /\ restored \in Int
    BY <1>1, <1>10
  <2> QED
    BY <2>1, LowerFacts, Zenon DEF keptOther
<1>15. /\ beforeOther \in Int
       /\ beforeOther <= other.avail
       /\ beforeOther <= otherCount
       /\ beforeOther = other.avail \/ beforeOther = otherCount
  <2>1. other.avail \in Int /\ otherCount \in Int
    BY <1>1
  <2> QED
    BY <2>1, LowerFacts, Zenon DEF beforeOther
<1>16. CASE drainCount <= most
  <2>1. left \in Nat /\ restored \in Nat /\ left + restored <= most
    BY <1>1, <1>3, <1>4, <1>5, <1>6, <1>7, <1>8, <1>9, <1>10, <1>11, <1>12, <1>16
  <2>2. keptDrain + keptOther >= least \/ keptDrain + keptOther >= availDrain + beforeOther
    BY <1>1, <1>3, <1>4, <1>5, <1>6, <1>7, <1>8, <1>9, <1>10, <1>11, <1>12, <1>13, <1>14, <1>15,
       <1>16
  <2>3. /\ left <= drainCount
        /\ left = drainCount \/ left + other.avail >= least
    BY <1>1, <1>3, <1>4, <1>5, <1>6, <1>7, <1>8, <1>9, <1>10, <1>11, <1>12, <1>16
  <2>4. /\ restored <= otherCount \/ restored <= other.avail
        /\ restored >= other.avail \/ restored + availDrain >= least
    BY <1>1, <1>3, <1>4, <1>5, <1>6, <1>7, <1>8, <1>9, <1>10, <1>16
  <2>5. ~(otherCount = 0 /\ drainCount >= least)
        \/ keptDrain >= least \/ keptDrain >= availDrain
    BY <1>1, <1>3, <1>4, <1>5, <1>6, <1>7, <1>8, <1>9, <1>10, <1>11, <1>12, <1>13, <1>16
  <2> QED
    BY <1>2, <1>16, <2>1, <2>2, <2>3, <2>4, <2>5
       DEF keptDrain, keptOther, beforeOther, availDrain
<1>17. CASE ~(drainCount <= most)
  <2>1. ASSUME otherCount = 0, drainCount >= least
        PROVE /\ left \in Nat /\ left <= drainCount
              /\ keptDrain >= least \/ keptDrain >= availDrain
    <3>1. over = drainCount - most /\ cut = most - drainCount
      BY <1>3, <1>4, <1>17, <2>1
    <3>2. overAgain = back
      BY <1>9, <1>10, <1>11, <1>7, <1>8, <3>1
    <3>3. availOther = cut
      BY <1>1, <1>6, <1>17, <3>1
    <3>4. left \in Nat /\ left <= drainCount
      BY <1>1, <1>5, <1>7, <1>8, <1>9, <1>12, <1>17, <3>1, <3>2, <3>3
    <3>5. keptDrain >= least \/ keptDrain >= availDrain
      BY <1>1, <1>5, <1>7, <1>8, <1>9, <1>12, <1>13, <1>17, <3>1, <3>2, <3>3
    <3> QED
      BY <3>4, <3>5
  <2> QED
    BY <1>2, <1>17, <2>1 DEF keptDrain, availDrain
<1> QED
  BY <1>16, <1>17

-----------------------------------------------------------------------------
\* A rollout whose maxUnavailable is resolved (MaxUnavailable caps it).
Rollout == {ro \in [replicas : Nat, surge : Nat, unavail : Nat] :
                ro.unavail <= ro.replicas}

\* Counts that may stand for a weight: each fits within the surge.
Fitting(ro) == {c \in [canary : Nat, stable : Nat] :
                  /\ c.canary <= ro.replicas + ro.surge
                  /\ c.stable <= ro.replicas + ro.surge}

\* The available pods of a ReplicaSet that stay when it is given `size`.
Staying(r, size) == Lower(r.avail, size)

LEMMA StayingFacts ==
    ASSUME NEW r, IsReplicaSet(r), NEW size \in Int
    PROVE /\ Staying(r, size) \in Int
          /\ Staying(r, size) <= r.avail
          /\ Staying(r, size) <= size
          /\ Staying(r, size) = r.avail \/ Staying(r, size) = size
<1>1. r.avail \in Int
  BY DEF IsReplicaSet
<1> QED
  BY <1>1, LowerFacts, Zenon DEF Staying

\* While an update goes on (there is a stable ReplicaSet that is not the new
\* one), CalculateReplicaCountsForBasicCanary never asks for more than
\* replicas + maxSurge pods in all, or than are asked for already; and the
\* available pods it leaves are replicas - maxUnavailable at least, or all it
\* found. So it is in between, when the stable ReplicaSet has its count and the
\* new one waits for the next pass, once every pod told to stop has stopped.
\* For every size of everything.
THEOREM BasicCountsKeepTheLimits ==
    ASSUME NEW ro \in Rollout, NEW approximated \in Fitting(ro),
           NEW new, IsReplicaSet(new), NEW stable, IsReplicaSet(stable), NEW oldSpec \in Nat,
           NEW hasStable \in BOOLEAN, hasStable
    PROVE LET counts == BasicCounts(ro, approximated, new, stable, hasStable, oldSpec)
              most == ro.replicas + ro.surge
              least == ro.replicas - ro.unavail
              kept == Staying(new, counts.canary) + Staying(stable, counts.stable)
              between == Staying(new, new.spec) + Staying(stable, counts.stable)
              before == Staying(new, new.spec) + Staying(stable, stable.spec)
          IN  /\ counts.canary \in Nat /\ counts.stable \in Nat
              /\ \/ counts.canary + counts.stable + oldSpec <= most
                 \/ counts.canary + counts.stable <= new.spec + stable.spec
              /\ kept >= least \/ kept >= before
              /\ new.avail <= new.spec /\ stable.avail <= stable.spec
                   => /\ \/ counts.stable + new.spec + oldSpec <= most
                         \/ counts.stable <= stable.spec
                      /\ between >= least \/ between >= before
<1> DEFINE wantNew == IF hasStable THEN approximated.canary ELSE ro.replicas
           wantStable == IF hasStable THEN approximated.stable ELSE 0
           stableSpec == IF hasStable THEN stable.spec ELSE 0
           most == ro.replicas + ro.surge
           least == ro.replicas - ro.unavail
           room == most - (oldSpec + new.spec + stableSpec)
           upStable == IF hasStable THEN ScaledUp(stable, wantStable, room) ELSE 0
           roomLeft == room - (upStable - stableSpec)
           upNew == ScaledUp(new, wantNew, roomLeft)
           increasing == wantNew >= new.spec
           countedNew == ForScaleDown(new, ~increasing)
           countedStable == ForScaleDown(stable, increasing)
           counted == countedNew + countedStable
           excess == counted - least
           lessStable == Drained(stable, wantStable, excess, upStable)
           lessNew == Drained(new, wantNew, excess, upNew)
           forNew == WithinLimits(stable, new, lessStable, upNew, most, least)
           forStable == WithinLimits(new, stable, lessNew, upStable, most, least)
           counts == BasicCounts(ro, approximated, new, stable, hasStable, oldSpec)
           before == Staying(new, new.spec) + Staying(stable, stable.spec)
           Kept(canary, size) == Staying(new, canary) + Staying(stable, size)
           NonePending == new.avail <= new.spec /\ stable.avail <= stable.spec
           Between(size) ==
             /\ \/ size + new.spec + oldSpec <= most
                \/ size <= stable.spec
             /\ Kept(new.spec, size) >= least \/ Kept(new.spec, size) >= before
           Good(canary, size) ==
             /\ canary \in Nat /\ size \in Nat
             /\ \/ canary + size + oldSpec <= most
                \/ canary + size <= new.spec + stable.spec
             /\ Kept(canary, size) >= least \/ Kept(canary, size) >= before
             /\ NonePending => Between(size)
<1>1. counts =
        IF oldSpec > 0 \/ counted <= least \/ (increasing /\ ~hasStable)
        THEN [canary |-> upNew, stable |-> upStable]
        ELSE IF increasing
        THEN [canary |-> forNew.other, stable |-> forNew.drain]
        ELSE [canary |-> forStable.drain, stable |-> forStable.other]
  <2>1. CASE increasing
    BY <2>1, Zenon DEF BasicCounts
  <2>2. CASE ~increasing
    BY <2>2, Zenon DEF BasicCounts
  <2> QED
    BY <2>1, <2>2
<1>2. /\ stableSpec = stable.spec
      /\ new.spec \in Nat /\ new.avail \in Nat /\ stable.spec \in Nat /\ stable.avail \in Nat
      /\ most \in Nat /\ least \in Nat /\ least <= most
      /\ wantNew \in Nat /\ wantNew <= most /\ wantStable \in Nat /\ wantStable <= most
  BY DEF IsReplicaSet, Rollout, Fitting
<1> HIDE DEF most, least, wantNew, wantStable, stableSpec
<1>3. room \in Int /\ room = most - (oldSpec + new.spec + stable.spec)
  BY <1>2
<1> HIDE DEF room
<1>4. /\ upStable \in Nat /\ upStable >= stable.spec
      /\ upStable > stable.spec => upStable - stable.spec <= room /\ upStable <= wantStable
  BY <1>2, <1>3, ScaledUpFacts, Zenon DEF upStable
<1> HIDE DEF upStable
<1>5. roomLeft \in Int /\ roomLeft = room - (upStable - stable.spec)
  BY <1>2, <1>3, <1>4
<1> HIDE DEF roomLeft
<1>6. /\ upNew \in Nat /\ upNew >= new.spec
      /\ upNew > new.spec => upNew - new.spec <= roomLeft /\ upNew <= wantNew
  BY <1>2, <1>5, ScaledUpFacts, Zenon
<1> HIDE DEF upNew
<1>7. \/ upNew + upStable + oldSpec <= most
      \/ upNew + upStable <= new.spec + stable.spec
  BY <1>2, <1>3, <1>4, <1>5, <1>6
\* Raising the counts loses no pod.
<1>8. /\ Staying(new, new.spec) \in Int /\ Staying(new, new.spec) <= new.avail
      /\ \/ Staying(new, new.spec) = new.avail
         \/ Staying(new, new.spec) = new.spec
      /\ Staying(new, upNew) \in Int /\ Staying(new, upNew) >= Staying(new, new.spec)
      /\ Staying(stable, stable.spec) \in Int /\ Staying(stable, stable.spec) <= stable.avail
      /\ \/ Staying(stable, stable.spec) = stable.avail
         \/ Staying(stable, stable.spec) = stable.spec
      /\ Staying(stable, upStable) \in Int
      /\ Staying(stable, upStable) >= Staying(stable, stable.spec)
  BY <1>2, <1>4, <1>6, StayingFacts
<1>9. Good(upNew, upStable)
  <2>1. Between(upStable)
    BY <1>2, <1>3, <1>4, <1>8
  <2> HIDE DEF Between
  <2> QED
    BY <1>4, <1>6, <1>7, <1>8, <2>1
<1>10. ASSUME oldSpec = 0, ~(counted <= least), increasing
       PROVE Good(forNew.other, forNew.drain)
  <2>1. /\ countedNew \in Nat /\ countedNew <= Staying(new, new.spec)
        /\ countedStable = stable.spec
    BY <1>2, <1>8, <1>10 DEF ForScaleDown
  <2>2. counted \in Int /\ counted = countedNew + countedStable
    BY <1>2, <2>1 DEF counted
  <2>3. excess \in Nat /\ excess = countedNew + stable.spec - least
    BY <1>2, <1>10, <2>1, <2>2 DEF excess
  <2> HIDE DEF excess, counted, countedNew, countedStable
  <2>4. /\ lessStable \in Nat
        /\ lessStable <= upStable
        /\ lessStable >= stable.spec - excess
        /\ lessStable <= wantStable \/ lessStable = stable.spec - excess
    <3>1. upStable \in Nat /\ upStable >= stable.spec /\ (upStable > stable.spec => upStable <= wantStable)
      BY <1>4
    <3>2. wantStable \in Nat /\ excess \in Nat
      BY <1>2, <2>3
    <3> QED
      BY <3>1, <3>2, DrainedFacts, Zenon DEF lessStable
  <2> HIDE DEF lessStable
  <2>5. lessStable <= most
    BY <1>2, <2>1, <2>3, <2>4
  <2>6. /\ forNew.drain \in Nat /\ forNew.other \in Nat
        /\ forNew.drain + forNew.other <= most
        /\ forNew.drain <= lessStable
        /\ forNew.drain = lessStable \/ forNew.drain + new.avail >= least
        /\ LET kept == Staying(stable, forNew.drain) + Staying(new, forNew.other)
           IN  kept >= least \/ kept >= Staying(stable, lessStable) + Staying(new, upNew)
    BY <1>2, <1>6, <2>4, <2>5, WithinLimitsFacts, Zenon DEF Staying, forNew
  <2> HIDE DEF forNew
  <2>7. /\ Staying(stable, lessStable) \in Int
        /\ \/ Staying(stable, lessStable) = stable.avail
           \/ Staying(stable, lessStable) = lessStable
    BY <2>4, StayingFacts
  <2>8. \/ Kept(forNew.other, forNew.drain) >= least
        \/ Kept(forNew.other, forNew.drain) >= Staying(stable, lessStable) + Staying(new, upNew)
    BY <2>6, StayingFacts
  <2>9. Kept(forNew.other, forNew.drain) \in Int
    BY <2>6, StayingFacts
  <2>10. /\ Staying(stable, lessStable) + Staying(new, upNew) \in Int
         /\ before \in Int
         /\ \/ Staying(stable, lessStable) + Staying(new, upNew) >= least
            \/ Staying(stable, lessStable) + Staying(new, upNew) >= before
    BY <1>2, <1>8, <2>1, <2>3, <2>4, <2>7
  <2>12. ASSUME NonePending PROVE Between(forNew.drain)
    <3>1. /\ Staying(new, new.spec) = new.avail
          /\ Staying(stable, forNew.drain) \in Int
          /\ Staying(stable, stable.spec) = stable.avail
          /\ \/ Staying(stable, forNew.drain) = stable.avail
             \/ Staying(stable, forNew.drain) = forNew.drain
      BY <1>2, <1>8, <2>6, <2>12, StayingFacts
    <3>2. \/ forNew.drain + new.spec + oldSpec <= most
          \/ forNew.drain <= stable.spec
      BY <1>2, <1>3, <1>4, <1>10, <2>4, <2>6
    <3>3. Kept(new.spec, forNew.drain) >= least \/ Kept(new.spec, forNew.drain) >= before
      BY <1>2, <2>1, <2>3, <2>4, <2>6, <3>1
    <3> QED
      BY <3>2, <3>3
  <2> HIDE DEF before, Kept, Between, NonePending
  <2>11. Kept(forNew.other, forNew.drain) >= least \/ Kept(forNew.other, forNew.drain) >= before
    BY <1>2, <2>8, <2>9, <2>10
  <2> QED
    BY <1>2, <1>10, <2>6, <2>11, <2>12
<1>11. ASSUME oldSpec = 0, ~(counted <= least), ~increasing
       PROVE Good(forStable.drain, forStable.other)
  <2>1. /\ countedStable \in Nat /\ countedStable <= Staying(stable, stable.spec)
        /\ countedNew = new.spec
    BY <1>2, <1>8, <1>11 DEF ForScaleDown
  <2>2. counted \in Int /\ counted = countedStable + countedNew
    BY <1>2, <2>1 DEF counted
  <2>3. excess \in Nat /\ excess = countedStable + new.spec - least
    BY <1>2, <1>11, <2>1, <2>2 DEF excess
  <2> HIDE DEF excess, counted, countedNew, countedStable
  <2>4. /\ lessNew \in Nat
        /\ lessNew <= upNew
        /\ lessNew >= new.spec - excess
        /\ lessNew <= wantNew \/ lessNew = new.spec - excess
    <3>1. upNew \in Nat /\ upNew >= new.spec /\ (upNew > new.spec => upNew <= wantNew)
      BY <1>6
    <3>2. wantNew \in Nat /\ excess \in Nat
      BY <1>2, <2>3
    <3> QED
      BY <3>1, <3>2, DrainedFacts, Zenon DEF lessNew
  <2> HIDE DEF lessNew
  <2>5. lessNew <= most
    BY <1>2, <2>1, <2>3, <2>4
  <2>6. /\ forStable.drain \in Nat /\ forStable.other \in Nat
        /\ forStable.drain + forStable.other <= most
        /\ forStable.other <= upStable \/ forStable.other <= stable.avail
        /\ \/ forStable.other >= stable.avail
           \/ forStable.other + Staying(new, lessNew) >= least
        /\ LET kept == Staying(new, forStable.drain) + Staying(stable, forStable.other)
           IN  kept >= least \/ kept >= Staying(new, lessNew) + Staying(stable, upStable)
    BY <1>2, <1>4, <2>4, <2>5, WithinLimitsFacts, Zenon DEF Staying, forStable
  <2> HIDE DEF forStable
  <2>7. /\ Staying(new, lessNew) \in Int
        /\ \/ Staying(new, lessNew) = new.avail
           \/ Staying(new, lessNew) = lessNew
    BY <2>4, StayingFacts
  <2>8. \/ Kept(forStable.drain, forStable.other) >= least
        \/ Kept(forStable.drain, forStable.other) >= Staying(new, lessNew) + Staying(stable, upStable)
    BY <2>6, StayingFacts
  <2>9. Kept(forStable.drain, forStable.other) \in Int
    BY <2>6, StayingFacts
  <2>10. /\ Staying(new, lessNew) + Staying(stable, upStable) \in Int
         /\ before \in Int
         /\ \/ Staying(new, lessNew) + Staying(stable, upStable) >= least
            \/ Staying(new, lessNew) + Staying(stable, upStable) >= before
    BY <1>2, <1>8, <2>1, <2>3, <2>4, <2>7
  <2>12. ASSUME NonePending PROVE Between(forStable.other)
    <3>1. /\ Staying(new, new.spec) = new.avail
          /\ Staying(stable, forStable.other) \in Int
          /\ Staying(stable, stable.spec) = stable.avail
          /\ \/ Staying(stable, forStable.other) = stable.avail
             \/ Staying(stable, forStable.other) = forStable.other
          /\ Staying(new, lessNew) \in Int
          /\ Staying(new, lessNew) <= new.avail
      BY <1>2, <1>8, <2>4, <2>6, <2>12, StayingFacts
    <3>2. \/ forStable.other + new.spec + oldSpec <= most
          \/ forStable.other <= stable.spec
      BY <1>2, <1>3, <1>4, <1>11, <2>6, <2>12
    <3>3. Kept(new.spec, forStable.other) >= least \/ Kept(new.spec, forStable.other) >= before
      BY <1>2, <2>6, <3>1
    <3> QED
      BY <3>2, <3>3
  <2> HIDE DEF before, Kept, Between, NonePending
  <2>11. Kept(forStable.drain, forStable.other) >= least \/ Kept(forStable.drain, forStable.other) >= before
    BY <1>2, <2>8, <2>9, <2>10
  <2> QED
    BY <1>2, <1>11, <2>6, <2>11, <2>12
<1> HIDE DEF Good, Between, NonePending, counted, increasing, forNew, forStable, counts
<1>12. Good(counts.canary, counts.stable)
  <2>1. CASE oldSpec > 0 \/ counted <= least
    <3>1. counts.canary = upNew /\ counts.stable = upStable
      BY <1>1, <2>1
    <3> QED
      BY <1>9, <3>1
  <2>2. CASE ~(oldSpec > 0 \/ counted <= least) /\ increasing
    <3>1. counts.canary = forNew.other /\ counts.stable = forNew.drain
      BY <1>1, <2>2
    <3> QED
      BY <1>10, <2>2, <3>1
  <2>3. CASE ~(oldSpec > 0 \/ counted <= least) /\ ~increasing
    <3>1. counts.canary = forStable.drain /\ counts.stable = forStable.other
      BY <1>1, <2>3
    <3> QED
      BY <1>11, <2>3, <3>1
  <2> QED
    BY <2>1, <2>2, <2>3
<1> QED
  BY <1>12 DEF Good, Between, NonePending, Kept, before, counts, most, least
\* Without another stable ReplicaSet all the replicas are the new one's, and it
\* keeps the same limits on its own.
THEOREM SingleCountKeepsTheLimits ==
    ASSUME NEW ro \in Rollout, NEW approximated,
           NEW new, IsReplicaSet(new), NEW stable, IsReplicaSet(stable), NEW oldSpec \in Nat
    PROVE LET counts == BasicCounts(ro, approximated, new, stable, FALSE, oldSpec)
              most == ro.replicas + ro.surge
              least == ro.replicas - ro.unavail
          IN  /\ counts.canary \in Nat
              /\ counts.canary + oldSpec <= most \/ counts.canary <= new.spec
              /\ \/ Staying(new, counts.canary) >= least
                 \/ Staying(new, counts.canary) >= Staying(new, new.spec)
<1> DEFINE want == ro.replicas
           most == ro.replicas + ro.surge
           least == ro.replicas - ro.unavail
           room == most - (oldSpec + new.spec + 0)
           up == ScaledUp(new, want, room - (0 - 0))
           increasing == want >= new.spec
           counted == ForScaleDown(new, ~increasing) + ForScaleDown(stable, increasing)
           excess == counted - least
           less == Drained(new, want, excess, up)
           limited == WithinLimits(new, stable, less, 0, most, least)
           counts == BasicCounts(ro, approximated, new, stable, FALSE, oldSpec)
           before == Staying(new, new.spec)
           Good(canary) ==
             /\ canary \in Nat
             /\ canary + oldSpec <= most \/ canary <= new.spec
             /\ Staying(new, canary) >= least \/ Staying(new, canary) >= before
<1>1. counts.canary = IF oldSpec > 0 \/ counted <= least \/ increasing
                      THEN up ELSE limited.drain
  <2>1. CASE increasing
    BY <2>1, Zenon DEF BasicCounts
  <2>2. CASE ~increasing
    <3>1. CASE oldSpec > 0 \/ counted <= least
      BY <2>2, <3>1, Zenon DEF BasicCounts
    <3>2. CASE ~(oldSpec > 0 \/ counted <= least)
      BY <2>2, <3>2, Zenon DEF BasicCounts
    <3> QED
      BY <3>1, <3>2
  <2> QED
    BY <2>1, <2>2
<1>2. /\ new.spec \in Nat /\ new.avail \in Nat /\ stable.spec \in Nat /\ stable.avail \in Nat
      /\ most \in Nat /\ least \in Nat /\ least <= want /\ want <= most /\ want \in Nat
  BY DEF IsReplicaSet, Rollout
<1> HIDE DEF most, least, want
<1>3. /\ up \in Nat /\ up >= new.spec
      /\ up > new.spec => up - new.spec <= most - (oldSpec + new.spec) /\ up <= want
  <2> DEFINE free == room - (0 - 0)
  <2>1. free \in Int /\ free = most - (oldSpec + new.spec)
    BY <1>2
  <2> HIDE DEF free
  <2>2. /\ ScaledUp(new, want, free) \in Nat
        /\ ScaledUp(new, want, free) >= new.spec
        /\ ScaledUp(new, want, free) > new.spec
             => ScaledUp(new, want, free) - new.spec <= free /\ ScaledUp(new, want, free) <= want
    BY <1>2, <2>1, ScaledUpFacts, Zenon
  <2> QED
    BY <2>1, <2>2 DEF free
<1> HIDE DEF up
<1>4. /\ before \in Int /\ before <= new.avail
      /\ before = new.avail \/ before = new.spec
      /\ Staying(new, up) \in Int /\ Staying(new, up) >= before
  BY <1>2, <1>3, StayingFacts
<1> HIDE DEF before
<1>5. Good(up)
  BY <1>2, <1>3, <1>4
<1>6. ASSUME oldSpec = 0, ~(counted <= least), ~increasing
      PROVE Good(limited.drain)
  <2>1. counted \in Int
    BY <1>2 DEF ForScaleDown
  <2>2. excess \in Nat
    BY <1>2, <1>6, <2>1 DEF excess
  <2>3. new.spec > want
    BY <1>2, <1>6
  <2> HIDE DEF excess, counted, increasing
  <2>4. less \in Nat /\ less >= want /\ less <= new.spec
    <3> DEFINE high == Higher(want, new.spec - excess)
    <3>1. less = high
      BY <2>3 DEF Drained
    <3>2. want \in Int /\ new.spec - excess \in Int
      BY <1>2, <2>2
    <3>3. /\ high \in Int /\ high >= want
          /\ high = want \/ high = new.spec - excess
      BY <3>2, HigherFacts, Zenon DEF high
    <3> HIDE DEF high, less
    <3> QED
      BY <1>2, <2>2, <2>3, <3>1, <3>3
  <2> HIDE DEF less
  <2>5. less >= least /\ least <= most
    BY <1>2, <2>4
  <2>6. /\ limited.drain \in Nat /\ limited.drain <= less
        /\ \/ Staying(new, limited.drain) >= least
           \/ Staying(new, limited.drain) >= Staying(new, less)
    BY <1>2, <2>4, <2>5, WithinLimitsFacts, Zenon DEF Staying, limited
  <2> HIDE DEF limited
  <2>7. Staying(new, less) \in Int /\ (Staying(new, less) >= least \/ Staying(new, less) >= before)
    BY <1>2, <1>4, <2>4, <2>5, StayingFacts
  <2>8. Staying(new, limited.drain) \in Int
    BY <2>6, StayingFacts
  <2>9. limited.drain <= new.spec
    BY <1>2, <2>4, <2>6
  <2> QED
    BY <1>2, <1>4, <2>6, <2>7, <2>8, <2>9
<1> HIDE DEF Good, counted, increasing, limited, counts
<1>7. Good(counts.canary)
  BY <1>1, <1>5, <1>6
<1> QED
  BY <1>7 DEF Good, before, counts, most, least

-----------------------------------------------------------------------------
(* The counts that stand for a weight                                      *)

\* Counts the code may try: all the pods are a canary at most, and there is
\* one more than replicas at most.
OptionOf(replicas, surge) ==
  {o \in [canary : Nat, total : Nat] :
     /\ o.canary <= o.total
     /\ o.total = replicas \/ (surge > 0 /\ o.total = replicas + 1)}

\* The pods that stand for a weight of 100 at most are no more than replicas.
LEMMA ShareFacts ==
    ASSUME NEW replicas \in Nat, NEW weight \in 0..MaxWeight
    PROVE /\ CeilDiv(replicas * weight, MaxWeight) \in 0..replicas
          /\ FloorDiv(replicas * weight, MaxWeight) \in 0..replicas
<1> DEFINE product == replicas * weight
<1>1. product \in Nat /\ product <= replicas * 100
  BY DEF MaxWeight
<1> HIDE DEF product
<1>2. /\ (product + 100 - 1) \div 100 \in 0..replicas
      /\ product \div 100 \in 0..replicas
  BY <1>1
<1> QED
  BY <1>2 DEF product, CeilDiv, FloorDiv, MaxWeight

\* There are four options at most.
LEMMA OptionsFacts ==
    ASSUME NEW replicas \in Nat, NEW weight \in 0..MaxWeight, NEW surge \in Nat
    PROVE /\ Options(replicas, weight, surge) \in Seq(OptionOf(replicas, surge))
          /\ Len(Options(replicas, weight, surge)) <= 4
<1> DEFINE up == CeilDiv(replicas * weight, MaxWeight)
           down == FloorDiv(replicas * weight, MaxWeight)
           zeroAllowed == \/ weight \in {0, MaxWeight}
                          \/ replicas = 1 /\ surge = 0
           downAllowed == down # 0 \/ zeroAllowed
           T == OptionOf(replicas, surge)
           first == IF up < replicas \/ zeroAllowed
                    THEN << [canary |-> up, total |-> replicas] >> ELSE << >>
           second == IF ~Tied(weight, replicas) /\ downAllowed
                     THEN << [canary |-> down, total |-> replicas] >> ELSE << >>
           third == IF surge > 0
                    THEN << [canary |-> up, total |-> replicas + 1] >> ELSE << >>
           fourth == IF surge > 0 /\ ~Tied(weight, replicas + 1) /\ downAllowed
                     THEN << [canary |-> down, total |-> replicas + 1] >> ELSE << >>
<1>1. Options(replicas, weight, surge) = first \o second \o third \o fourth
  BY Zenon DEF Options
<1>2. up \in 0..replicas /\ down \in 0..replicas
  BY ShareFacts, Zenon
<1> HIDE DEF up, down, zeroAllowed, downAllowed
<1>3. /\ [canary |-> up, total |-> replicas] \in T
      /\ [canary |-> down, total |-> replicas] \in T
      /\ surge > 0 => [canary |-> up, total |-> replicas + 1] \in T
      /\ surge > 0 => [canary |-> down, total |-> replicas + 1] \in T
  BY <1>2 DEF OptionOf
<1> HIDE DEF T
<1>4. /\ first \in Seq(T) /\ Len(first) <= 1
      /\ second \in Seq(T) /\ Len(second) <= 1
      /\ third \in Seq(T) /\ Len(third) <= 1
      /\ fourth \in Seq(T) /\ Len(fourth) <= 1
  <2>1. << >> \in Seq(T) /\ Len(<< >>) <= 1
    OBVIOUS
  <2>2. ASSUME NEW o \in T PROVE << o >> \in Seq(T) /\ Len(<< o >>) <= 1
    OBVIOUS
  <2>3. first \in Seq(T) /\ Len(first) <= 1
    BY <1>3, <2>1, <2>2, Zenon
  <2>4. second \in Seq(T) /\ Len(second) <= 1
    BY <1>3, <2>1, <2>2, Zenon
  <2>5. third \in Seq(T) /\ Len(third) <= 1
    BY <1>3, <2>1, <2>2, Zenon
  <2>6. fourth \in Seq(T) /\ Len(fourth) <= 1
    BY <1>3, <2>1, <2>2, Zenon
  <2> QED
    BY <2>3, <2>4, <2>5, <2>6, Zenon
<1> HIDE DEF first, second, third, fourth
<1>5. /\ first \o second \o third \o fourth \in Seq(T)
      /\ Len(first \o second \o third \o fourth) <= 4
  BY <1>4
<1> QED
  BY <1>1, <1>5 DEF T

\* Of one to four numbers one is the smallest, and the first of its kind.
IsFirstLeast(f, n, i) ==
  /\ i \in 1..n
  /\ \A j \in 1..n : ~(f[j] < f[i]) /\ (j < i => f[i] < f[j])

LEMMA FirstLeastExists ==
    ASSUME NEW n \in 1..4, NEW f \in [1..n -> Int]
    PROVE \E i \in 1..n : IsFirstLeast(f, n, i)
<1>1. IsFirstLeast(f, 1, 1)
  BY DEF IsFirstLeast
<1>2. ASSUME NEW k \in 1..3, k < n, NEW i \in 1..k, IsFirstLeast(f, k, i)
      PROVE \E m \in 1..k+1 : IsFirstLeast(f, k + 1, m)
  <2>1. /\ f[i] \in Int /\ f[k + 1] \in Int
        /\ \A j \in 1..k : f[j] \in Int
    BY <1>2
  <2>2. CASE f[k + 1] < f[i]
    <3>1. IsFirstLeast(f, k + 1, k + 1)
      BY <1>2, <2>1, <2>2 DEF IsFirstLeast
    <3> QED
      BY <3>1
  <2>3. CASE ~(f[k + 1] < f[i])
    <3>1. IsFirstLeast(f, k + 1, i)
      BY <1>2, <2>1, <2>3 DEF IsFirstLeast
    <3> QED
      BY <3>1
  <2> QED
    BY <2>2, <2>3
<1>3. n >= 2 => \E i \in 1..2 : IsFirstLeast(f, 2, i)
  BY <1>1, <1>2
<1>4. n >= 3 => \E i \in 1..3 : IsFirstLeast(f, 3, i)
  BY <1>2, <1>3
<1>5. n >= 4 => \E i \in 1..4 : IsFirstLeast(f, 4, i)
  BY <1>2, <1>4
<1>6. n = 1 \/ n = 2 \/ n = 3 \/ n = 4
  OBVIOUS
<1> QED
  BY <1>1, <1>3, <1>4, <1>5, <1>6

\* Two options compare as their distances, each on the total of the other.
OnCommonTotal(o, replicas, weight) ==
  Distance(o.canary * MaxWeight, weight * o.total)
    * (IF o.total = replicas THEN replicas + 1 ELSE replicas)

LEMMA CloserFacts ==
    ASSUME NEW replicas \in Nat, replicas > 0, NEW weight \in 0..MaxWeight, NEW surge \in Nat,
           NEW a \in OptionOf(replicas, surge), NEW b \in OptionOf(replicas, surge)
    PROVE /\ OnCommonTotal(a, replicas, weight) \in Int
          /\ Closer(a, b, weight)
               <=> OnCommonTotal(a, replicas, weight) < OnCommonTotal(b, replicas, weight)
<1> DEFINE far(o) == Distance(o.canary * MaxWeight, weight * o.total)
<1>1. ASSUME NEW o \in OptionOf(replicas, surge)
      PROVE /\ far(o) \in Int
            /\ o.total = replicas \/ o.total = replicas + 1
  <2>1. /\ o.canary \in Nat /\ o.total \in Nat
        /\ o.total = replicas \/ o.total = replicas + 1
    BY DEF OptionOf
  <2>2. /\ o.canary * MaxWeight - weight * o.total \in Int
        /\ weight * o.total - o.canary * MaxWeight \in Int
    BY <2>1 DEF MaxWeight
  <2> QED
    BY <2>1, <2>2, HigherFacts, Zenon DEF Distance
<1> HIDE DEF far
<1>2. /\ far(a) \in Int /\ far(b) \in Int
      /\ a.total = replicas \/ a.total = replicas + 1
      /\ b.total = replicas \/ b.total = replicas + 1
  BY <1>1
<1>3. ASSUME NEW x \in Int, NEW y \in Int, NEW s \in Nat, NEW t \in Nat, s > 0, t > 0
      PROVE x * s < y * s <=> x * t < y * t
  <2>1. ASSUME NEW z \in Nat, z > 0 PROVE x * z < y * z <=> x < y
    BY <2>1
  <2> QED
    BY <1>3, <2>1
<1>4. /\ OnCommonTotal(a, replicas, weight)
           = far(a) * (IF a.total = replicas THEN replicas + 1 ELSE replicas)
      /\ OnCommonTotal(b, replicas, weight)
           = far(b) * (IF b.total = replicas THEN replicas + 1 ELSE replicas)
      /\ Closer(a, b, weight) <=> far(a) * b.total < far(b) * a.total
  BY Zenon DEF OnCommonTotal, Closer, far
<1>5. replicas + 1 \in Nat /\ replicas + 1 > 0 /\ replicas + 1 # replicas
  OBVIOUS
<1>6. CASE a.total = replicas /\ b.total = replicas
  BY <1>2, <1>3, <1>4, <1>5, <1>6
<1>7. CASE a.total = replicas + 1 /\ b.total = replicas + 1
  BY <1>2, <1>3, <1>4, <1>5, <1>7
<1>8. CASE a.total # b.total
  BY <1>2, <1>4, <1>5, <1>8
<1> QED
  BY <1>2, <1>4, <1>6, <1>7, <1>8

\* The counts approximateWeightedCanaryStableReplicaCounts returns for a weight
\* are a rollout's own pods, one more at most and only where maxSurge leaves
\* room for it: the closest option is there whenever an option is. So the
\* limits of BasicCountsKeepTheLimits hold for the counts the code computes.
THEOREM ApproximateFits ==
    ASSUME NEW ro \in Rollout, NEW weight \in 0..MaxWeight
    PROVE LET counts == Approximate(ro.replicas, weight, ro.surge)
          IN  /\ counts \in Fitting(ro)
              /\ \/ counts.canary + counts.stable = ro.replicas
                 \/ ro.surge > 0 /\ counts.canary + counts.stable = ro.replicas + 1
<1> DEFINE replicas == ro.replicas
           surge == ro.surge
           options == Options(replicas, weight, surge)
           IsBest(i) == \A j \in DOMAIN options :
                          /\ ~Closer(options[j], options[i], weight)
                          /\ j < i => Closer(options[i], options[j], weight)
           best == CHOOSE i \in DOMAIN options : IsBest(i)
           counts == Approximate(replicas, weight, surge)
           Fits(c) == /\ c \in Fitting(ro)
                      /\ \/ c.canary + c.stable = replicas
                         \/ surge > 0 /\ c.canary + c.stable = replicas + 1
<1> SUFFICES Fits(counts)
  OBVIOUS
<1>1. replicas \in Nat /\ surge \in Nat
  BY DEF Rollout
<1>2. counts = IF replicas = 0 THEN [canary |-> 0, stable |-> 0]
               ELSE IF options = << >> THEN [canary |-> 0, stable |-> replicas]
               ELSE [canary |-> options[best].canary,
                     stable |-> options[best].total - options[best].canary]
  BY Zenon DEF Approximate
<1>3. options \in Seq(OptionOf(replicas, surge)) /\ Len(options) <= 4
  BY <1>1, OptionsFacts, Zenon
<1> HIDE DEF options, counts
<1>4. CASE replicas = 0
  BY <1>1, <1>2, <1>4 DEF Fitting
<1>5. CASE replicas # 0 /\ options = << >>
  BY <1>1, <1>2, <1>5 DEF Fitting
<1>6. CASE replicas # 0 /\ options # << >>
  <2> DEFINE n == Len(options)
             f == [i \in 1..n |-> OnCommonTotal(options[i], replicas, weight)]
  <2>1. n \in 1..4 /\ DOMAIN options = 1..n
    <3>1. n \in Nat \ {0} /\ n <= 4
      BY <1>3, <1>6, EmptySeq, Zenon
    <3>2. DOMAIN options = 1..n
      BY <1>3, LenProperties, Zenon
    <3> HIDE DEF n
    <3> QED
      BY <3>1, <3>2
  <2>2. \A i \in 1..n : options[i] \in OptionOf(replicas, surge)
    BY <1>3, <2>1
  <2> HIDE DEF n
  <2>3. replicas > 0
    BY <1>1, <1>6
  <2>4. ASSUME NEW i \in 1..n, NEW j \in 1..n
        PROVE /\ f[i] \in Int
              /\ Closer(options[i], options[j], weight) <=> f[i] < f[j]
    <3>1. f[i] = OnCommonTotal(options[i], replicas, weight)
          /\ f[j] = OnCommonTotal(options[j], replicas, weight)
      OBVIOUS
    <3> QED
      BY <1>1, <2>2, <2>3, <3>1, CloserFacts, Zenon
  <2>5. f \in [1..n -> Int]
    BY <2>4
  <2> HIDE DEF f
  <2>6. PICK i \in 1..n : IsFirstLeast(f, n, i)
    BY <2>1, <2>5, FirstLeastExists, Zenon
  <2>7. i \in DOMAIN options /\ IsBest(i)
    BY <2>1, <2>4, <2>6, Zenon DEF IsFirstLeast
  <2> HIDE DEF IsBest
  <2>8. best \in DOMAIN options
    BY <2>7, Zenon
  <2> HIDE DEF best
  <2>9. options[best] \in OptionOf(replicas, surge)
    BY <2>1, <2>2, <2>8, Zenon
  <2>10. counts = [canary |-> options[best].canary,
                   stable |-> options[best].total - options[best].canary]
    BY <1>2, <1>6, Zenon
  <2> QED
    BY <1>1, <2>9, <2>10 DEF Fitting, OptionOf
<1> QED
  BY <1>4, <1>5, <1>6
=============================================================================
