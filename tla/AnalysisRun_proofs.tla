------------------------- MODULE AnalysisRun_proofs -------------------------
(***************************************************************************)
(* What the analysis controller keeps true of every AnalysisRun, whatever  *)
(* its metrics, their limits and the number of faults are.                 *)
(*                                                                         *)
(* The status is written by a merge patch from a copy of the run that may  *)
(* be old, so the invariant SoundInv speaks of every version at once: the  *)
(* stored one, the cached one, the one computed and those on their way.    *)
(* In each, the counters of a metric agree with the history of its         *)
(* measurements (Counted), and its phase is the verdict of that history    *)
(* (Assessed).  What a completed run shows (GoodInv) and which Jobs were   *)
(* counted (CountInv) are proved from it.                                  *)
(***************************************************************************)
EXTENDS AnalysisRun, FiniteSetTheorems, SequenceTheorems, TLAPS

-----------------------------------------------------------------------------
(* The phase of the run.                                                   *)

\* A reconcile patches only a run that its copy, which does not change under
\* it, shows as not completed.
PatchesUnfinished == pc # "idle" => ~IsCompleted(cache.status.phase)

\* reconcileAnalysisRun returns early from a completed run, and leaves a patch
\* only after it has passed that test.
LEMMA PatchesUnfinishedInductive ==
    /\ Init => PatchesUnfinished
    /\ PatchesUnfinished /\ [Next]_vars => PatchesUnfinished'
<1>1. Init => PatchesUnfinished
  BY DEF Init, PatchesUnfinished
<1>2. ASSUME PatchesUnfinished, [Next]_vars
      PROVE  PatchesUnfinished'
  <2>1. ASSUME NEW due \in SUBSET Allowed, NEW o \in Outcomes(due), Reconcile(due, o)
        PROVE  PatchesUnfinished'
    <3>1. ~IsCompleted(cache.status.phase) /\ cache' = cache
      BY <2>1 DEF Reconcile
    <3>2. QED
      BY <3>1 DEF PatchesUnfinished, IsCompleted
  <2>2. CASE SkipCompleted
    BY <1>2, <2>2 DEF SkipCompleted, Take, work, PatchesUnfinished, IsCompleted
  <2>3. CASE LoseSecret
    BY <2>3 DEF LoseSecret, PatchesUnfinished, IsCompleted
  <2>4. CASE Persist \/ PersistFails \/ Restart
    BY <2>4 DEF Persist, PersistFails, Restart, Rest, PatchesUnfinished
  <2>5. CASE TimerFires
    BY <1>2, <2>5 DEF TimerFires, work, PatchesUnfinished, IsCompleted
  <2>6. CASE Deliver
    BY <2>6 DEF Deliver, work, PatchesUnfinished
  <2>7. CASE TerminateRun
    BY <1>2, <2>7 DEF TerminateRun, work, PatchesUnfinished, IsCompleted
  <2>8. ASSUME NEW m \in JobMetric, NEW i \in JobIds,
               JobSeen(m, i) \/ JobStuck(m, i) \/ JobEnds(m, i)
        PROVE  PatchesUnfinished'
    <3>1. cache' = cache /\ pc' = pc
      BY <2>8 DEF JobSeen, JobStuck, JobEnds, queue, work
    <3>2. QED
      BY <1>2, <3>1 DEF PatchesUnfinished, IsCompleted
  <2>9. CASE UNCHANGED vars
    BY <1>2, <2>9 DEF vars, queue, work, PatchesUnfinished, IsCompleted
  <2>10. QED
    BY <1>2, <2>1, <2>2, <2>3, <2>4, <2>5, <2>6, <2>7, <2>8, <2>9 DEF Next
<1>3. QED
  BY <1>1, <1>2

\* The phase of a completed run never changes, unless the run was patched by a
\* reconcile that had read an older status than the one it patches.
THEOREM VerdictFinal == Spec => VerdictIsFinal
<1> DEFINE Kept == status.phase \in Completed /\ ~overwritten' => status'.phase = status.phase
<1>1. ASSUME PatchesUnfinished, [Next]_vars
      PROVE  Kept
  <2>1. CASE Persist
    <3>1. ~overwritten' => cache.status = status
      BY <2>1 DEF Persist
    <3>2. ~IsCompleted(cache.status.phase)
      BY <1>1, <2>1 DEF Persist, PatchesUnfinished
    <3>3. QED
      BY <3>1, <3>2 DEF IsCompleted, Completed
  <2>2. ASSUME NEW due \in SUBSET Allowed, NEW o \in Outcomes(due), Reconcile(due, o)
        PROVE  status' = status
    BY <2>2 DEF Reconcile, run
  <2>3. CASE SkipCompleted \/ LoseSecret \/ PersistFails \/ TimerFires \/ Deliver \/ Restart
             \/ TerminateRun \/ UNCHANGED vars
    <3>1. status' = status
      BY <2>3 DEF SkipCompleted, LoseSecret, PersistFails, TimerFires, Deliver, Restart,
                  TerminateRun, run, vars
    <3>2. QED
      BY <3>1
  <2>4. ASSUME NEW m \in JobMetric, NEW i \in JobIds,
               JobSeen(m, i) \/ JobStuck(m, i) \/ JobEnds(m, i)
        PROVE  status' = status
    BY <2>4 DEF JobSeen, JobStuck, JobEnds, run
  <2>5. QED
    BY <1>1, <2>1, <2>2, <2>3, <2>4 DEF Next
<1>2. QED
  BY <1>1, PatchesUnfinishedInductive, PTL DEF Spec, VerdictIsFinal

-----------------------------------------------------------------------------
(* The history of a metric: its counters say what its measurements say.    *)

\* One measurement more of a phase in P is counted once.
LEMMA TimesAppend ==
    ASSUME NEW h \in Seq(Completed), NEW x \in Completed, NEW P
    PROVE /\ Times(h, P) \in Nat
          /\ Times(Append(h, x), P) = Times(h, P) + (IF x \in P THEN 1 ELSE 0)
<1> DEFINE S == {i \in DOMAIN h : h[i] \in P}
           g == Append(h, x)
<1>1. /\ Len(h) \in Nat /\ DOMAIN h = 1..Len(h)
      /\ DOMAIN g = 1..(Len(h) + 1)
      /\ \A i \in 1..Len(h) : g[i] = h[i]
      /\ g[Len(h) + 1] = x
  OBVIOUS
<1> HIDE DEF g
<1>2. {i \in DOMAIN g : g[i] \in P} = IF x \in P THEN S \cup {Len(h) + 1} ELSE S
  BY <1>1
<1>3. Len(h) + 1 \notin S
  BY <1>1
<1>4. IsFiniteSet(S)
  <2>1. IsFiniteSet(1..Len(h))
    BY <1>1, FS_Interval
  <2>2. S \in SUBSET (1..Len(h))
    BY <1>1
  <2> QED
    BY <2>1, <2>2, FS_Subset
<1> HIDE DEF S
<1>5. Cardinality(S) \in Nat
  BY <1>4, FS_CardinalityType
<1>6. Cardinality(S \cup {Len(h) + 1}) = Cardinality(S) + 1
  BY <1>3, <1>4, FS_AddElement
<1> QED
  <2>1. Times(g, P) = Cardinality(IF x \in P THEN S \cup {Len(h) + 1} ELSE S)
    BY <1>2, Zenon DEF Times
  <2>2. Times(h, P) = Cardinality(S)
    BY Zenon DEF Times, S
  <2> QED
    BY <1>5, <1>6, <2>1, <2>2 DEF g

\* n is how often p was measured last.
IsStreak(h, p, n) ==
    /\ n \in 0..Len(h)
    /\ \A i \in Len(h) - n + 1 .. Len(h) : h[i] = p
    /\ n = Len(h) \/ h[Len(h) - n] # p

\* There is only one such number.
LEMMA StreakUnique ==
    ASSUME NEW h \in Seq(Completed), NEW p, NEW n, IsStreak(h, p, n)
    PROVE Streak(h, p) = n
<1>1. Len(h) \in Nat
  OBVIOUS
<1>2. ASSUME NEW i \in 0..Len(h), NEW j \in 0..Len(h), IsStreak(h, p, i), IsStreak(h, p, j)
      PROVE ~(i < j)
  <2>1. SUFFICES ASSUME i < j PROVE FALSE
    OBVIOUS
  <2>2. h[Len(h) - i] # p
    BY <1>1, <1>2, <2>1 DEF IsStreak
  <2>3. Len(h) - i \in Len(h) - j + 1 .. Len(h)
    BY <1>1, <2>1
  <2> QED
    BY <1>2, <2>2, <2>3 DEF IsStreak
<1>3. Streak(h, p) = CHOOSE k \in 0..Len(h) : IsStreak(h, p, k)
  BY DEF Streak, IsStreak
<1>4. n \in 0..Len(h)
  BY DEF IsStreak
<1>5. \A k \in 0..Len(h) : IsStreak(h, p, k) => k = n
  BY <1>1, <1>2, <1>4
<1> HIDE DEF IsStreak
<1>6. PICK k \in 0..Len(h) : k = (CHOOSE l \in 0..Len(h) : IsStreak(h, p, l)) /\ IsStreak(h, p, k)
  BY <1>4, Zenon
<1> QED
  BY <1>3, <1>5, <1>6

\* One measurement more continues the streak of its phase and ends the others.
LEMMA StreakAppend ==
    ASSUME NEW h \in Seq(Completed), NEW p, NEW n, NEW x \in Completed, IsStreak(h, p, n)
    PROVE IsStreak(Append(h, x), p, IF x = p THEN n + 1 ELSE 0)
<1> DEFINE g == Append(h, x)
<1>1. /\ Len(h) \in Nat /\ Len(g) = Len(h) + 1
      /\ \A i \in 1..Len(h) : g[i] = h[i]
      /\ g[Len(h) + 1] = x
  OBVIOUS
<1> HIDE DEF g
<1>2. /\ n \in 0..Len(h)
      /\ \A i \in Len(h) - n + 1 .. Len(h) : h[i] = p
      /\ n = Len(h) \/ h[Len(h) - n] # p
  BY DEF IsStreak
<1>3. CASE x = p
  <2>1. \A i \in Len(g) - (n + 1) + 1 .. Len(g) : g[i] = p
    BY <1>1, <1>2, <1>3
  <2>2. n + 1 = Len(g) \/ g[Len(g) - (n + 1)] # p
    BY <1>1, <1>2
  <2> QED
    BY <1>1, <1>2, <1>3, <2>1, <2>2 DEF IsStreak, g
<1>4. CASE x # p
  <2>1. \A i \in Len(g) - 0 + 1 .. Len(g) : g[i] = p
    BY <1>1
  <2> QED
    BY <1>1, <1>4, <2>1 DEF IsStreak, g
<1> QED
  BY <1>3, <1>4

\* A longer history starts as it did.
LEMMA PrefixAppend ==
    ASSUME NEW h \in Seq(Completed), NEW x \in Completed, NEW n \in 0..Len(h)
    PROVE /\ SubSeq(Append(h, x), 1, n) = SubSeq(h, 1, n)
          /\ SubSeq(h, 1, Len(h)) = h
<1> DEFINE g == Append(h, x)
<1>1. /\ Len(h) \in Nat /\ n \in Int
      /\ \A i \in 1..n : h[i] \in Completed /\ g[i] = h[i]
  OBVIOUS
<1> HIDE DEF g
<1>2. /\ SubSeq(g, 1, n) \in Seq(Completed) /\ SubSeq(h, 1, n) \in Seq(Completed)
      /\ Len(SubSeq(g, 1, n)) = Len(SubSeq(h, 1, n))
      /\ \A i \in 1..n : SubSeq(g, 1, n)[i] = SubSeq(h, 1, n)[i]
      /\ Len(SubSeq(g, 1, n)) = n
  BY <1>1, SubSeqProperties
<1>3. SubSeq(g, 1, n) = SubSeq(h, 1, n)
  BY <1>2, SeqEqual
<1> QED
  BY <1>3, SubSeqFull DEF g

-----------------------------------------------------------------------------
(* One metric: what its result says of its history.                        *)

\* The measurements h do not decide the metric, and only the last of h could.
Undecided(m, h) == Verdict(m, h) = ""
PrefixesUndecided(m, h) == \A n \in 0..Len(h) - 1 : Undecided(m, SubSeq(h, 1, n))

\* The counters count the history, a Job in flight has the number of the next
\* measurement, and no measurement was taken that others had made superfluous.
Counted(m, r) ==
    /\ r \in ResultType
    /\ r.count + r.error = Len(r.history)
    /\ r.count = Times(r.history, Completed \ {"Error"})
    /\ r.successful = Times(r.history, {"Successful"})
    /\ r.failed = Times(r.history, {"Failed"})
    /\ r.inconclusive = Times(r.history, {"Inconclusive"})
    /\ IsStreak(r.history, "Error", r.consecutiveError)
    /\ IsStreak(r.history, "Successful", r.consecutiveSuccess)
    /\ m \in JobMetric => Len(r.history) <= MaxMeasurements
    /\ m \in JobMetric /\ InFlight(r) => Last(r).job = Len(r.history) + 1
    /\ InFlight(r) => Undecided(m, r.history)
    /\ PrefixesUndecided(m, r.history)

\* The phase is what the assessment of the history makes it.
Assessed(m, r, excused) ==
    IF ~Measured(r) THEN r.phase = "" /\ r.history = << >>
    ELSE IF InFlight(r) THEN r.phase = "Running"
    ELSE IF Verdict(m, r.history) # "" THEN r.phase = Verdict(m, r.history)
    ELSE r.phase = "Running" \/ (r.phase = "Successful" /\ excused)

\* The limits of a metric are numbers, of the kinds validation admits.
LEMMA MetricLimits ==
    ASSUME NEW m \in Metric
    PROVE /\ Count[m] \in Nat /\ FailureLimit[m] \in Int /\ FailureLimit[m] >= -1
          /\ InconclusiveLimit[m] \in Nat /\ ConsecutiveErrorLimit[m] \in Nat
          /\ ConsecutiveSuccessLimit[m] \in Nat
BY LimitAssumption DEF ValidMetric

\* A metric that was never measured is undecided.
LEMMA EmptyUndecided == ASSUME NEW m \in Metric PROVE Undecided(m, << >>)
<1>1. \A P : Times(<< >>, P) = 0
  <2>1. \A P : {i \in DOMAIN << >> : << >>[i] \in P} = {}
    OBVIOUS
  <2> QED
    BY <2>1, FS_EmptySet, Zenon DEF Times
<1>2. \A p : Streak(<< >>, p) = 0
  <2>1. << >> \in Seq(Completed) /\ Len(<< >>) = 0
    OBVIOUS
  <2>2. \A p : IsStreak(<< >>, p, 0)
    BY <2>1 DEF IsStreak
  <2> QED
    BY <2>1, <2>2, StreakUnique
<1> QED
  BY <1>1, <1>2, MetricLimits DEF Undecided, Verdict

\* The verdict of a history can be read off the counters, as the code does.
LEMMA VerdictOfCounters ==
    ASSUME NEW m \in Metric, NEW r, Counted(m, r)
    PROVE /\ Verdict(m, r.history)
               = IF LimitExceeded(m, r) # "" THEN LimitExceeded(m, r)
                 ELSE IF SuccessLimitReached(m, r) THEN "Successful"
                 ELSE IF CountReached(m, r) THEN VerdictAtCount(m) ELSE ""
          /\ Verdict(m, r.history) \in Completed \cup {""}
<1>1. /\ r.consecutiveError \in Nat /\ r.consecutiveSuccess \in Nat
      /\ r.count \in Nat /\ r.failed \in Nat /\ r.inconclusive \in Nat
      /\ r.history \in Seq(Completed)
  BY DEF Counted, ResultType
<1>2. /\ Streak(r.history, "Error") = r.consecutiveError
      /\ Streak(r.history, "Successful") = r.consecutiveSuccess
  BY <1>1, StreakUnique DEF Counted
<1>3. /\ Times(r.history, {"Inconclusive"}) = r.inconclusive
      /\ Times(r.history, {"Failed"}) = r.failed
      /\ Times(r.history, Completed \ {"Error"}) = r.count
  BY DEF Counted
<1>4. CountReached(m, r)
        <=> ~((IF Count[m] = 0 THEN m \in Repeated ELSE r.count < Count[m]) \/ r.count = 0)
  BY <1>1, MetricLimits DEF CountReached, EffectiveCount
<1>5. Verdict(m, r.history) =
        IF r.consecutiveError > ConsecutiveErrorLimit[m] THEN "Error"
        ELSE IF r.inconclusive > InconclusiveLimit[m] THEN "Inconclusive"
        ELSE IF FailureLimit[m] # -1 /\ r.failed > FailureLimit[m] THEN "Failed"
        ELSE IF ConsecutiveSuccessLimit[m] # 0 /\ r.consecutiveSuccess >= ConsecutiveSuccessLimit[m]
             THEN "Successful"
        ELSE IF ~CountReached(m, r) THEN ""
        ELSE IF ConsecutiveSuccessLimit[m] = 0 THEN "Successful"
        ELSE IF FailureLimit[m] = -1 THEN "Failed" ELSE "Inconclusive"
  BY <1>2, <1>3, <1>4, Zenon DEF Verdict
<1>6. /\ FailureLimit[m] # -1 <=> FailureLimit[m] >= 0
      /\ ConsecutiveSuccessLimit[m] # 0 <=> ConsecutiveSuccessLimit[m] > 0
  BY MetricLimits
<1>7. /\ LimitExceeded(m, r) =
            IF r.consecutiveError > ConsecutiveErrorLimit[m] THEN "Error"
            ELSE IF r.inconclusive > InconclusiveLimit[m] THEN "Inconclusive"
            ELSE IF FailureLimit[m] # -1 /\ r.failed > FailureLimit[m] THEN "Failed" ELSE ""
      /\ SuccessLimitReached(m, r) <=>
            ConsecutiveSuccessLimit[m] # 0 /\ r.consecutiveSuccess >= ConsecutiveSuccessLimit[m]
      /\ VerdictAtCount(m) = IF ConsecutiveSuccessLimit[m] = 0 THEN "Successful"
                             ELSE IF FailureLimit[m] = -1 THEN "Failed" ELSE "Inconclusive"
  BY <1>6, Zenon DEF LimitExceeded, SuccessLimitReached, VerdictAtCount
<1>8. "" \notin Completed
  BY DEF Completed
<1>9. /\ LimitExceeded(m, r) \in Completed \cup {""}
      /\ VerdictAtCount(m) \in Completed
      /\ "Successful" \in Completed
  BY <1>7 DEF Completed
<1>10. Verdict(m, r.history)
               = IF LimitExceeded(m, r) # "" THEN LimitExceeded(m, r)
                 ELSE IF SuccessLimitReached(m, r) THEN "Successful"
                 ELSE IF CountReached(m, r) THEN VerdictAtCount(m) ELSE ""
  <2>1. CASE r.consecutiveError > ConsecutiveErrorLimit[m]
    BY <1>5, <1>7, <2>1
  <2>2. CASE /\ ~(r.consecutiveError > ConsecutiveErrorLimit[m])
             /\ r.inconclusive > InconclusiveLimit[m]
    BY <1>5, <1>7, <2>2
  <2>3. CASE /\ ~(r.consecutiveError > ConsecutiveErrorLimit[m])
             /\ ~(r.inconclusive > InconclusiveLimit[m])
             /\ FailureLimit[m] # -1 /\ r.failed > FailureLimit[m]
    BY <1>5, <1>7, <2>3
  <2>4. CASE /\ ~(r.consecutiveError > ConsecutiveErrorLimit[m])
             /\ ~(r.inconclusive > InconclusiveLimit[m])
             /\ ~(FailureLimit[m] # -1 /\ r.failed > FailureLimit[m])
    BY <1>5, <1>7, <2>4
  <2> QED
    BY <2>1, <2>2, <2>3, <2>4
<1> QED
  BY <1>9, <1>10

\* A sequence with its last element replaced.
LEMMA ReplaceLast ==
    ASSUME NEW S, NEW s \in Seq(S), s # << >>, NEW x \in S
    PROVE LET t == [s EXCEPT ![Len(s)] = x]
          IN  t \in Seq(S) /\ t # << >> /\ t[Len(t)] = x
<1> DEFINE n == Len(s)
<1>1. n \in Nat \ {0}
  BY EmptySeq, LenProperties
<1>2. n \in 1..n
  BY <1>1
<1>3. /\ [s EXCEPT ![n] = x] \in Seq(S)
      /\ Len([s EXCEPT ![n] = x]) = Len(s)
      /\ [s EXCEPT ![n] = x][n] = x
  BY <1>2, ExceptSeq
<1>4. \A t \in Seq(S) : Len(t) = n => t # << >>
  BY <1>1
<1> QED
  BY <1>3, <1>4

\* What Record leaves of a result, field by field.
LEMMA RecordFields ==
    ASSUME NEW r \in ResultType, NEW x \in MeasurementType
    PROVE LET done == x.phase # "Running"
              one(P) == IF x.phase \in P THEN 1 ELSE 0
              q == Record(r, x)
          IN  /\ q \in ResultType
              /\ q.phase = IF r.phase = "" THEN "Running" ELSE r.phase
              /\ q.count = r.count + one({"Successful", "Failed", "Inconclusive"})
              /\ q.successful = r.successful + one({"Successful"})
              /\ q.failed = r.failed + one({"Failed"})
              /\ q.inconclusive = r.inconclusive + one({"Inconclusive"})
              /\ q.error = r.error + one({"Error"})
              /\ q.consecutiveError = IF ~done THEN r.consecutiveError
                                      ELSE IF x.phase = "Error" THEN r.consecutiveError + 1 ELSE 0
              /\ q.consecutiveSuccess = IF ~done THEN r.consecutiveSuccess
                                        ELSE IF x.phase = "Successful"
                                        THEN r.consecutiveSuccess + 1 ELSE 0
              /\ q.history = IF done THEN Append(r.history, x.phase) ELSE r.history
              /\ Measured(q) /\ Last(q) = x
<1> DEFINE q == Record(r, x)
           ms == IF InFlight(r) THEN [r.measurements EXCEPT ![Len(r.measurements)] = x]
                 ELSE Append(r.measurements, x)
           done == x.phase # "Running"
           one(P) == IF x.phase \in P THEN 1 ELSE 0
           hist == IF done THEN Append(r.history, x.phase) ELSE r.history
           errors == IF ~done THEN r.consecutiveError
                     ELSE IF x.phase = "Error" THEN r.consecutiveError + 1 ELSE 0
           successes == IF ~done THEN r.consecutiveSuccess
                        ELSE IF x.phase = "Successful" THEN r.consecutiveSuccess + 1 ELSE 0
<1>1. /\ x.phase \in Completed \cup {"Running"}
      /\ IsCompleted(x.phase) <=> done
  BY DEF MeasurementType, IsCompleted, Completed
<1>3. /\ ms \in Seq(MeasurementType) /\ ms # << >> /\ ms[Len(ms)] = x
  <2>1. r.measurements \in Seq(MeasurementType)
    BY DEF ResultType
  <2>2. CASE InFlight(r)
    <3>1. ms = [r.measurements EXCEPT ![Len(r.measurements)] = x]
      BY <2>2
    <3>2. r.measurements # << >>
      BY <2>2 DEF InFlight, Measured
    <3> HIDE DEF ms
    <3> QED
      BY <2>1, <3>1, <3>2, ReplaceLast
  <2>3. CASE ~InFlight(r)
    <3>1. ms = Append(r.measurements, x)
      BY <2>3
    <3> HIDE DEF ms
    <3> QED
      BY <2>1, <3>1
  <2> QED
    BY <2>2, <2>3
<1>4. hist \in Seq(Completed)
  BY <1>1 DEF ResultType
<1>5. /\ r.count \in Nat /\ r.successful \in Nat /\ r.failed \in Nat /\ r.inconclusive \in Nat
      /\ r.error \in Nat /\ r.consecutiveError \in Nat /\ r.consecutiveSuccess \in Nat
      /\ r.phase \in Phases /\ "Running" \in Phases
  BY DEF ResultType, Phases
<1>6. errors \in Nat /\ successes \in Nat
  BY <1>5
<1> HIDE DEF q, ms, hist, errors, successes
<1>7. /\ q \in ResultType /\ q.measurements = ms /\ q.history = hist
      /\ q.phase = IF r.phase = "" THEN "Running" ELSE r.phase
      /\ q.count = r.count + one({"Successful", "Failed", "Inconclusive"})
      /\ q.successful = r.successful + one({"Successful"})
      /\ q.failed = r.failed + one({"Failed"})
      /\ q.inconclusive = r.inconclusive + one({"Inconclusive"})
      /\ q.error = r.error + one({"Error"})
      /\ q.consecutiveError = errors /\ q.consecutiveSuccess = successes
  <2> DEFINE ph == IF r.phase = "" THEN "Running" ELSE r.phase
             c1 == r.count + one({"Successful", "Failed", "Inconclusive"})
             c2 == r.successful + one({"Successful"})
             c3 == r.failed + one({"Failed"})
             c4 == r.inconclusive + one({"Inconclusive"})
             c5 == r.error + one({"Error"})
             qq == [phase |-> ph, count |-> c1, successful |-> c2, failed |-> c3,
                    inconclusive |-> c4, error |-> c5, consecutiveError |-> errors,
                    consecutiveSuccess |-> successes, measurements |-> ms, history |-> hist]
  <2>1. q = [r EXCEPT !.phase = ph, !.count = c1, !.successful = c2, !.failed = c3,
                      !.inconclusive = c4, !.error = c5, !.consecutiveError = errors,
                      !.consecutiveSuccess = successes, !.measurements = ms, !.history = hist]
    BY <1>1, ZenonT(30) DEF Record, q, ms, hist, errors, successes
  <2>2. ph \in Phases /\ c1 \in Nat /\ c2 \in Nat /\ c3 \in Nat /\ c4 \in Nat /\ c5 \in Nat
    <3>1. ph \in Phases
      BY <1>5
    <3>2. \A P : one(P) \in Nat
      OBVIOUS
    <3> HIDE DEF one
    <3>3. c1 \in Nat /\ c2 \in Nat /\ c3 \in Nat /\ c4 \in Nat /\ c5 \in Nat
      BY <1>5, <3>2
    <3> QED
      BY <3>1, <3>3
  <2> HIDE DEF ph, c1, c2, c3, c4, c5
  <2>3. q = qq
    BY <2>1 DEF ResultType
  <2>4. qq \in ResultType
    BY <1>3, <1>4, <1>6, <2>2 DEF ResultType
  <2>5. /\ qq.phase = ph /\ qq.count = c1 /\ qq.successful = c2 /\ qq.failed = c3
        /\ qq.inconclusive = c4 /\ qq.error = c5 /\ qq.consecutiveError = errors
        /\ qq.consecutiveSuccess = successes /\ qq.measurements = ms /\ qq.history = hist
    OBVIOUS
  <2> HIDE DEF qq
  <2> QED
    BY <2>3, <2>4, <2>5, Zenon DEF ph, c1, c2, c3, c4, c5
<1>8. Measured(q) /\ Last(q) = x
  BY <1>3, <1>7 DEF Measured, Last
<1> QED
  BY <1>7, <1>8 DEF q, hist, errors, successes

\* A metric that was undecided until it was measured once more.
LEMMA UndecidedAppend ==
    ASSUME NEW m, NEW h \in Seq(Completed), NEW y \in Completed, Undecided(m, h),
           PrefixesUndecided(m, h)
    PROVE LET g == Append(h, y)
          IN  /\ g \in Seq(Completed) /\ Len(g) = Len(h) + 1 /\ Len(h) \in Nat
              /\ PrefixesUndecided(m, g)
<1> DEFINE g == Append(h, y)
<1>1. g \in Seq(Completed) /\ Len(g) = Len(h) + 1 /\ Len(h) \in Nat
  OBVIOUS
<1>2. ASSUME NEW n \in 0..Len(g) - 1 PROVE Undecided(m, SubSeq(g, 1, n))
  <2>1. n \in 0..Len(h) /\ (n = Len(h) \/ n \in 0..Len(h) - 1)
    <3> HIDE DEF g
    <3> QED
      BY <1>1
  <2>2. SubSeq(g, 1, n) = SubSeq(h, 1, n) /\ SubSeq(h, 1, Len(h)) = h
    BY <2>1, PrefixAppend, Zenon
  <2> QED
    BY <2>1, <2>2, Zenon DEF PrefixesUndecided
<1> QED
  BY <1>1, <1>2 DEF PrefixesUndecided

\* x is a measurement that a reconcile may take of a metric with the result r.
Answers(m, r, x) ==
    /\ x \in MeasurementType
    /\ m \in JobMetric /\ x.phase = "Running" => x.job = Len(r.history) + 1
    /\ m \in JobMetric /\ x.phase # "Running" => Len(r.history) < MaxMeasurements

\* One of the phases of a measurement that ended is counted.
LEMMA OneCounted ==
    ASSUME NEW y \in Completed
    PROVE LET one(P) == IF y \in P THEN 1 ELSE 0
          IN  /\ one({"Successful", "Failed", "Inconclusive"}) + one({"Error"}) = 1
              /\ one(Completed \ {"Error"}) = one({"Successful", "Failed", "Inconclusive"})
              /\ \A P : one(P) \in Nat
BY DEF Completed

\* A measurement of an undecided metric keeps its result in step with its
\* history: Record, of runMeasurements.
LEMMA RecordCounted ==
    ASSUME NEW m \in Metric, NEW r, Counted(m, r), Undecided(m, r.history),
           NEW x, Answers(m, r, x)
    PROVE Counted(m, Record(r, x))
<1> DEFINE q == Record(r, x)
           h == r.history
           one(P) == IF x.phase \in P THEN 1 ELSE 0
<1>1. r \in ResultType /\ h \in Seq(Completed) /\ x.phase \in Completed \cup {"Running"}
  BY DEF Answers, Counted, ResultType, MeasurementType
<1>2. /\ q \in ResultType
      /\ q.count = r.count + one({"Successful", "Failed", "Inconclusive"})
      /\ q.successful = r.successful + one({"Successful"})
      /\ q.failed = r.failed + one({"Failed"})
      /\ q.inconclusive = r.inconclusive + one({"Inconclusive"})
      /\ q.error = r.error + one({"Error"})
      /\ q.consecutiveError = IF x.phase = "Running" THEN r.consecutiveError
                              ELSE IF x.phase = "Error" THEN r.consecutiveError + 1 ELSE 0
      /\ q.consecutiveSuccess = IF x.phase = "Running" THEN r.consecutiveSuccess
                                ELSE IF x.phase = "Successful" THEN r.consecutiveSuccess + 1 ELSE 0
      /\ q.history = IF x.phase # "Running" THEN Append(h, x.phase) ELSE h
      /\ Measured(q) /\ Last(q) = x
  BY <1>1, RecordFields, Zenon DEF Answers
<1>3. InFlight(q) <=> x.phase = "Running"
  BY <1>2 DEF InFlight
<1>4. /\ r.count \in Nat /\ r.successful \in Nat /\ r.failed \in Nat /\ r.inconclusive \in Nat
      /\ r.error \in Nat /\ r.consecutiveError \in Nat /\ r.consecutiveSuccess \in Nat
  BY <1>1 DEF ResultType
<1>5. /\ r.count + r.error = Len(h)
      /\ r.count = Times(h, Completed \ {"Error"})
      /\ r.successful = Times(h, {"Successful"})
      /\ r.failed = Times(h, {"Failed"})
      /\ r.inconclusive = Times(h, {"Inconclusive"})
      /\ IsStreak(h, "Error", r.consecutiveError)
      /\ IsStreak(h, "Successful", r.consecutiveSuccess)
      /\ m \in JobMetric => Len(h) <= MaxMeasurements
      /\ PrefixesUndecided(m, h)
  BY DEF Counted
<1> HIDE DEF q, h
<1>6. CASE x.phase = "Running"
  <2>1. /\ q.count = r.count /\ q.successful = r.successful /\ q.failed = r.failed
        /\ q.inconclusive = r.inconclusive /\ q.error = r.error
        /\ q.consecutiveError = r.consecutiveError
        /\ q.consecutiveSuccess = r.consecutiveSuccess
        /\ q.history = h
    <3>1. \A n \in Nat : n + 0 = n
      OBVIOUS
    <3>2. one({"Successful", "Failed", "Inconclusive"}) = 0 /\ one({"Successful"}) = 0
          /\ one({"Failed"}) = 0 /\ one({"Inconclusive"}) = 0 /\ one({"Error"}) = 0
      BY <1>6
    <3> HIDE DEF one
    <3>3. /\ q.count = r.count + one({"Successful", "Failed", "Inconclusive"})
          /\ q.successful = r.successful + one({"Successful"})
          /\ q.failed = r.failed + one({"Failed"})
          /\ q.inconclusive = r.inconclusive + one({"Inconclusive"})
          /\ q.error = r.error + one({"Error"})
      BY <1>2, Zenon DEF one
    <3>4. /\ q.consecutiveError = r.consecutiveError
          /\ q.consecutiveSuccess = r.consecutiveSuccess /\ q.history = h
      BY <1>2, <1>6, Zenon
    <3> QED
      BY <1>4, <3>1, <3>2, <3>3, <3>4, Zenon
  <2>2. m \in JobMetric => Last(q).job = Len(h) + 1
    BY <1>2, <1>6 DEF h, Answers
  <2>3. Undecided(m, h)
    BY DEF h
  <2> QED
    BY <1>2, <1>5, <2>1, <2>2, <2>3, Zenon DEF Counted, q
<1>7. CASE x.phase \in Completed
  <2> DEFINE g == Append(h, x.phase)
  <2>1. x.phase # "Running" /\ q.history = g
    BY <1>2, <1>7 DEF Completed
  <2>2. \A P : Times(g, P) = Times(h, P) + one(P)
    <3> SUFFICES ASSUME NEW P PROVE Times(g, P) = Times(h, P) + one(P)
      OBVIOUS
    <3>1. Times(g, P) = Times(h, P) + (IF x.phase \in P THEN 1 ELSE 0)
      BY <1>1, <1>7, TimesAppend
    <3> QED
      BY <3>1
  <2>3. one(Completed \ {"Error"}) = one({"Successful", "Failed", "Inconclusive"})
    BY <1>7, OneCounted, Zenon
  <2>4. /\ q.count = r.count + one({"Successful", "Failed", "Inconclusive"})
        /\ q.successful = r.successful + one({"Successful"})
        /\ q.failed = r.failed + one({"Failed"})
        /\ q.inconclusive = r.inconclusive + one({"Inconclusive"})
        /\ q.error = r.error + one({"Error"})
    BY <1>2, Zenon
  <2>5. /\ Len(g) = Len(h) + 1 /\ Len(h) \in Nat
        /\ PrefixesUndecided(m, g)
    <3>1. Undecided(m, h)
      BY DEF h
    <3> QED
      BY <1>1, <1>5, <1>7, <3>1, UndecidedAppend, Zenon
  <2>6. q.count + q.error = Len(g)
    <3>1. one({"Successful", "Failed", "Inconclusive"}) + one({"Error"}) = 1
      BY <1>7, OneCounted, Zenon
    <3>2. \A P : one(P) \in Nat
      BY <1>7, OneCounted, Zenon
    <3> HIDE DEF one, g
    <3>3. one({"Successful", "Failed", "Inconclusive"}) \in Nat /\ one({"Error"}) \in Nat
      BY <3>2
    <3> QED
      BY <1>4, <1>5, <2>4, <2>5, <3>1, <3>3, SMTT(30)
  <2>10. /\ q.count = Times(g, Completed \ {"Error"})
         /\ q.successful = Times(g, {"Successful"})
         /\ q.failed = Times(g, {"Failed"})
         /\ q.inconclusive = Times(g, {"Inconclusive"})
    <3> HIDE DEF one, g
    <3> QED
      BY <1>5, <2>2, <2>3, <2>4, Zenon
  <2>7. /\ IsStreak(g, "Error", q.consecutiveError)
        /\ IsStreak(g, "Successful", q.consecutiveSuccess)
    <3>1. /\ IsStreak(g, "Error", IF x.phase = "Error" THEN r.consecutiveError + 1 ELSE 0)
          /\ IsStreak(g, "Successful", IF x.phase = "Successful" THEN r.consecutiveSuccess + 1 ELSE 0)
      BY <1>1, <1>5, <1>7, StreakAppend
    <3> HIDE DEF g
    <3> QED
      BY <1>2, <2>1, <3>1, Zenon
  <2>9. m \in JobMetric => Len(g) <= MaxMeasurements
    <3>1. m \in JobMetric => Len(h) < MaxMeasurements
      BY <2>1 DEF h, Answers
    <3> HIDE DEF g
    <3> QED
      BY <2>5, <3>1, BoundAssumption
  <2> HIDE DEF g
  <2> QED
    BY <1>2, <1>3, <1>7, <2>1, <2>5, <2>6, <2>7, <2>9, <2>10, Zenon DEF Counted, q
<1> QED
  BY <1>1, <1>6, <1>7

\* A metric without a verdict is still undecided, so that measuring it is not
\* superfluous.
LEMMA UnfinishedUndecided ==
    ASSUME NEW m \in Metric, NEW r, NEW e, Counted(m, r), Assessed(m, r, e),
           ~IsCompleted(r.phase)
    PROVE Undecided(m, r.history)
<1>1. CASE ~Measured(r)
  BY <1>1, EmptyUndecided DEF Assessed
<1>2. CASE InFlight(r)
  BY <1>2 DEF Counted
<1>3. CASE Measured(r) /\ ~InFlight(r)
  <2>1. Verdict(m, r.history) # "" => r.phase = Verdict(m, r.history)
    BY <1>3 DEF Assessed
  <2>2. Verdict(m, r.history) \in Completed \cup {""}
    BY VerdictOfCounters
  <2> QED
    BY <2>1, <2>2 DEF Completed, IsCompleted, Undecided
<1> QED
  BY <1>1, <1>2, <1>3

\* A phase alone does not disturb the counters.
LEMMA PhaseCounted ==
    ASSUME NEW m, NEW r, Counted(m, r), NEW p \in Phases
    PROVE LET q == [r EXCEPT !.phase = p]
          IN  /\ Counted(m, q)
              /\ q.phase = p /\ q.history = r.history /\ q.measurements = r.measurements
              /\ (Measured(q) <=> Measured(r)) /\ (InFlight(q) <=> InFlight(r))
              /\ Last(q) = Last(r)
<1> DEFINE q == [r EXCEPT !.phase = p]
<1>1. r \in ResultType
  BY DEF Counted
<1>2. /\ q \in ResultType
      /\ q.phase = p /\ q.history = r.history /\ q.measurements = r.measurements
      /\ q.count = r.count /\ q.successful = r.successful /\ q.failed = r.failed
      /\ q.inconclusive = r.inconclusive /\ q.error = r.error
      /\ q.consecutiveError = r.consecutiveError
      /\ q.consecutiveSuccess = r.consecutiveSuccess
  BY <1>1 DEF ResultType
<1> HIDE DEF q
<1>3. Last(q) = Last(r) /\ (Measured(q) <=> Measured(r)) /\ (InFlight(q) <=> InFlight(r))
  BY <1>2, Zenon DEF Last, Measured, InFlight
<1>4. Counted(m, q)
  BY <1>2, <1>3, Zenon DEF Counted
<1> QED
  BY <1>2, <1>3, <1>4 DEF q

\* assessMetricStatus gives a metric the verdict of its history.
LEMMA AssessMetricCorrect ==
    ASSUME NEW m \in Metric, NEW r, Counted(m, r), Measured(r),
           NEW t \in BOOLEAN, NEW e \in BOOLEAN, t => e,
           IsCompleted(r.phase) => Assessed(m, r, e)
    PROVE LET q == [r EXCEPT !.phase = AssessMetric(m, r, t)]
          IN  Counted(m, q) /\ Assessed(m, q, e) /\ q.phase = AssessMetric(m, r, t)
              /\ (InFlight(q) <=> InFlight(r)) /\ Measured(q)
              /\ q.measurements = r.measurements /\ q.history = r.history
<1> DEFINE p == AssessMetric(m, r, t)
           q == [r EXCEPT !.phase = p]
           v == Verdict(m, r.history)
<1>1. /\ v = IF LimitExceeded(m, r) # "" THEN LimitExceeded(m, r)
             ELSE IF SuccessLimitReached(m, r) THEN "Successful"
             ELSE IF CountReached(m, r) THEN VerdictAtCount(m) ELSE ""
      /\ v \in Completed \cup {""}
  BY VerdictOfCounters
<1>2. CASE IsCompleted(r.phase)
  <2>1. p = r.phase
    BY <1>2 DEF AssessMetric
  <2>2. r \in ResultType
    BY DEF Counted
  <2>3. q = r
    BY <2>1, <2>2 DEF ResultType
  <2> QED
    BY <1>2, <2>1, <2>3
<1>3. CASE ~IsCompleted(r.phase)
  <2>1. p = IF InFlight(r) THEN "Running"
            ELSE IF v # "" THEN v ELSE IF t THEN "Successful" ELSE "Running"
    <3>1. p = IF InFlight(r) THEN "Running"
              ELSE IF LimitExceeded(m, r) # "" THEN LimitExceeded(m, r)
              ELSE IF SuccessLimitReached(m, r) THEN "Successful"
              ELSE IF CountReached(m, r) THEN VerdictAtCount(m)
              ELSE IF t THEN "Successful" ELSE "Running"
      BY <1>3 DEF AssessMetric
    <3>2. VerdictAtCount(m) # ""
      BY DEF VerdictAtCount
    <3> QED
      BY <1>1, <3>1, <3>2
  <2>2. p \in Phases
    BY <1>1, <2>1 DEF Phases, Completed
  <2> HIDE DEF p
  <2>3. /\ Counted(m, q) /\ q.phase = p /\ q.history = r.history
        /\ (Measured(q) <=> Measured(r)) /\ (InFlight(q) <=> InFlight(r))
        /\ q.measurements = r.measurements
    BY <2>2, PhaseCounted
  <2> HIDE DEF q, v
  <2>4. Assessed(m, q, e)
    BY <2>1, <2>3 DEF Assessed, v
  <2> QED
    BY <2>3, <2>4 DEF q, p
<1> QED
  BY <1>2, <1>3

\* garbageCollectMeasurements keeps what the assessment looks at.
LEMMA TrimKeeps ==
    ASSUME NEW m \in Metric, NEW r, Counted(m, r)
    PROVE LET q == Trim(r)
          IN  /\ Counted(m, q) /\ q.phase = r.phase /\ q.history = r.history
              /\ (InFlight(q) <=> InFlight(r)) /\ (Measured(q) <=> Measured(r))
              /\ \A e : Assessed(m, r, e) => Assessed(m, q, e)
<1>1. CASE Len(r.measurements) <= Retention
  BY <1>1 DEF Trim
<1>2. CASE ~(Len(r.measurements) <= Retention)
  <2> DEFINE s == r.measurements
             first == Len(s) - Retention + 1
             u == SubSeq(s, first, Len(s))
             q == [r EXCEPT !.measurements = u]
  <2>1. r \in ResultType /\ s \in Seq(MeasurementType) /\ Len(s) \in Nat /\ Retention \in Nat \ {0}
    <3>1. r \in ResultType /\ Retention \in Nat \ {0}
      BY BoundAssumption DEF Counted
    <3>2. s \in Seq(MeasurementType)
      BY <3>1 DEF ResultType
    <3> HIDE DEF s
    <3> QED
      BY <3>1, <3>2
  <2>2. first \in 1..Len(s) /\ Len(s) - first + 1 = Retention
    BY <1>2, <2>1
  <2>3. /\ u \in Seq(MeasurementType) /\ Len(u) = Retention /\ u[Len(u)] = s[Len(s)]
    <3> HIDE DEF s, first, u
    <3>1. \A i \in first..Len(s) : s[i] \in MeasurementType
      BY <2>1, <2>2
    <3>2. first \in Int /\ Len(s) \in Int
      BY <2>1, <2>2
    <3>3. /\ u \in Seq(MeasurementType)
          /\ Len(u) = IF first <= Len(s) THEN Len(s) - first + 1 ELSE 0
          /\ \A i \in 1 .. Len(s) - first + 1 : u[i] = s[first + i - 1]
      BY <3>1, <3>2, SubSeqProperties DEF u
    <3>4. Len(u) = Retention /\ Retention \in 1..Len(s) - first + 1
          /\ first + Retention - 1 = Len(s)
      BY <2>1, <2>2, <3>3
    <3> QED
      BY <3>3, <3>4
  <2>4. s # << >> /\ u # << >>
    BY <1>2, <2>1, <2>3
  <2> HIDE DEF u, first
  <2>5. Trim(r) = q
    BY <1>2 DEF Trim, u, first
  <2>6. /\ q \in ResultType
        /\ q.phase = r.phase /\ q.history = r.history /\ q.measurements = u
        /\ q.count = r.count /\ q.successful = r.successful /\ q.failed = r.failed
        /\ q.inconclusive = r.inconclusive /\ q.error = r.error
        /\ q.consecutiveError = r.consecutiveError
        /\ q.consecutiveSuccess = r.consecutiveSuccess
    BY <2>1, <2>3 DEF ResultType
  <2> HIDE DEF q
  <2>7. /\ Measured(q) /\ Measured(r) /\ Last(q) = Last(r)
    BY <2>3, <2>4, <2>6 DEF Measured, Last
  <2>8. InFlight(q) <=> InFlight(r)
    BY <2>7 DEF InFlight
  <2>9. Counted(m, q)
    BY <2>6, <2>7, <2>8, Zenon DEF Counted
  <2>10. \A e : Assessed(m, r, e) => Assessed(m, q, e)
    BY <2>6, <2>7, <2>8 DEF Assessed
  <2> QED
    BY <2>5, <2>6, <2>7, <2>8, <2>9, <2>10
<1> QED
  BY <1>1, <1>2

-----------------------------------------------------------------------------
(* All metrics: what a reconcile makes of a sound status.                  *)

\* Every metric is in step with its history and has the verdict of it.
SoundResults(t, results) ==
    /\ results \in [Metric -> ResultType]
    /\ \A m \in Metric : /\ Counted(m, results[m])
                         /\ Assessed(m, results[m], IsTerminating(t, results))
Sound(t, s) == s \in StatusType /\ SoundResults(t, s.results)

\* An excuse stays one.
LEMMA AssessedMonotone ==
    ASSUME NEW m, NEW r, NEW d, NEW e, d => e, Assessed(m, r, d)
    PROVE Assessed(m, r, e)
BY Zenon DEF Assessed

\* What is sound for a run stays so when the run is terminated.
LEMMA SoundMonotone ==
    ASSUME NEW t, NEW u, t => u, NEW s, Sound(t, s)
    PROVE Sound(u, s)
<1>1. IsTerminating(t, s.results) => IsTerminating(u, s.results)
  BY DEF IsTerminating
<1>2. \A m \in Metric : Assessed(m, s.results[m], IsTerminating(u, s.results))
  BY <1>1, AssessedMonotone DEF Sound, SoundResults
<1> QED
  BY <1>2 DEF Sound, SoundResults

\* A metric that was not measured needs no counting.
LEMMA NoStatusSound == ASSUME NEW t \in BOOLEAN PROVE Sound(t, NoStatus)
<1> USE DEF NoResult
<1>1. << >> \in Seq(MeasurementType) /\ << >> \in Seq(Completed) /\ Len(<< >>) = 0
  OBVIOUS
<1>2. NoResult.phase \in Phases
  BY Zenon DEF Phases
<1>3. NoResult \in ResultType
  BY <1>1, <1>2 DEF ResultType
<1>4. \A P : Times(<< >>, P) = 0
  <2>1. \A P : {i \in DOMAIN << >> : << >>[i] \in P} = {}
    OBVIOUS
  <2> QED
    BY <2>1, FS_EmptySet, Zenon DEF Times
<1>5. \A p : IsStreak(<< >>, p, 0)
  BY <1>1 DEF IsStreak
<1>6. ~Measured(NoResult) /\ ~InFlight(NoResult)
  BY DEF Measured, InFlight
<1>7. ASSUME NEW m \in Metric PROVE Counted(m, NoResult)
  <2>1. PrefixesUndecided(m, << >>)
    BY <1>1 DEF PrefixesUndecided
  <2>2. /\ NoResult.history = << >> /\ NoResult.count = 0 /\ NoResult.successful = 0
        /\ NoResult.failed = 0 /\ NoResult.inconclusive = 0 /\ NoResult.error = 0
        /\ NoResult.consecutiveError = 0 /\ NoResult.consecutiveSuccess = 0
    BY Zenon
  <2> HIDE DEF NoResult
  <2>3. 0 + 0 = 0 /\ 0 <= MaxMeasurements
    BY BoundAssumption
  <2> QED
    BY <1>1, <1>3, <1>4, <1>5, <1>6, <2>1, <2>2, <2>3, Zenon DEF Counted
<1>8. \A m, e : Assessed(m, NoResult, e)
  BY <1>6, Zenon DEF Assessed
<1>9. NoStatus \in StatusType
  BY <1>2, <1>3, Zenon DEF NoStatus, StatusType
<1>10. NoStatus.results = [m \in Metric |-> NoResult]
  BY DEF NoStatus
<1> HIDE DEF NoResult
<1>11. SoundResults(t, NoStatus.results)
  BY <1>3, <1>7, <1>8, <1>10 DEF SoundResults
<1> QED
  BY <1>9, <1>11 DEF Sound

\* Whether a reconcile may measure the metric m, and what it gets as an answer.
Task(m, st, due, terminating) ==
    /\ ~IsCompleted(st.results[m].phase)
    /\ \/ InFlight(st.results[m])
       \/ /\ ~terminating
          /\ Measured(st.results[m]) => m \in due

\* The jobs a Resume looks at answer with a phase.
LEMMA JobPhaseType ==
    ASSUME jobs \in [Metric -> [JobIds -> JobStates]], NEW m \in Metric, NEW i \in JobIds
    PROVE JobPhase(m, i) \in Completed \cup {"Running"}
<1>1. jobs[m][i] \in {"none", "created", "active", "stuck", "complete", "failed", "deleting"}
  BY DEF JobStates
<1> QED
  BY <1>1 DEF JobPhase, Completed

\* runMeasurements measures only metrics that are undecided; the Job it starts
\* has the number of the next measurement, and the one it resumes is still that
\* one.  A terminating run leaves no measurement in flight.
LEMMA TaskAnswers ==
    ASSUME jobs \in [Metric -> [JobIds -> JobStates]],
           NEW m \in Metric, NEW st, NEW due, NEW t \in BOOLEAN, NEW e,
           Counted(m, st.results[m]), Assessed(m, st.results[m], e),
           Task(m, st, due, t),
           m \in due => Len(st.results[m].history) < MaxMeasurements,
           NEW o \in Completed, m \in JobMetric => o \in {"Successful", "Error"}
    PROVE LET x == TakeMeasurement(m, st.results[m], t, o)
          IN  /\ Answers(m, st.results[m], x)
              /\ Undecided(m, st.results[m].history)
              /\ t => x.phase # "Running"
<1> DEFINE r == st.results[m]
           h == r.history
           x == TakeMeasurement(m, r, t, o)
<1>1. Undecided(m, h)
  BY UnfinishedUndecided DEF Task
<1>2. /\ h \in Seq(Completed) /\ Len(h) \in Nat /\ r.count + r.error = Len(h)
      /\ r.measurements \in Seq(MeasurementType)
  <2>1. r \in ResultType /\ r.count + r.error = Len(h)
    BY DEF Counted
  <2>2. h \in Seq(Completed) /\ r.measurements \in Seq(MeasurementType)
    BY <2>1 DEF ResultType
  <2> HIDE DEF r, h
  <2> QED
    BY <2>1, <2>2
<1>3. o # "Running"
  BY DEF Completed
<1>4. CASE m \notin JobMetric
  <2>1. x = [phase |-> o, job |-> 0]
    BY <1>4 DEF TakeMeasurement
  <2> HIDE DEF x, r
  <2>2. x \in MeasurementType /\ x.phase = o
    BY <2>1, BoundAssumption DEF MeasurementType
  <2> QED
    BY <1>1, <1>3, <1>4, <2>2 DEF Answers, r, x
<1>5. CASE m \in JobMetric /\ InFlight(r)
  <2>1. Last(r) \in MeasurementType
    <3>1. r.measurements # << >>
      BY <1>5 DEF InFlight, Measured
    <3> HIDE DEF r
    <3>2. Len(r.measurements) \in DOMAIN r.measurements
      BY <1>2, <3>1
    <3> QED
      BY <1>2, <3>2, ElementOfSeq DEF Last
  <2>2. Last(r).job \in 0..MaxMeasurements /\ Last(r).job = Len(h) + 1
    BY <1>5, <2>1 DEF MeasurementType, Counted
  <2>3. Last(r).job \in JobIds /\ Len(h) < MaxMeasurements
    <3> HIDE DEF h, r
    <3> QED
      BY <1>2, <2>2, BoundAssumption DEF JobIds
  <2>4. JobPhase(m, Last(r).job) \in Completed \cup {"Running"}
    BY <2>3, JobPhaseType
  <2> DEFINE p == IF o = "Error" THEN "Error" ELSE IF t THEN "Inconclusive"
                  ELSE JobPhase(m, Last(r).job)
  <2>5. x = [phase |-> p, job |-> Last(r).job]
    BY <1>5 DEF TakeMeasurement
  <2>6. p \in Completed \cup {"Running"} /\ (t => p # "Running")
    BY <2>4 DEF Completed
  <2> HIDE DEF x, r, h, p
  <2>7. x \in MeasurementType /\ x.phase = p /\ x.job = Len(h) + 1
    BY <2>2, <2>5, <2>6 DEF MeasurementType
  <2> QED
    BY <1>1, <2>3, <2>6, <2>7 DEF Answers, r, x, h
<1>6. CASE m \in JobMetric /\ ~InFlight(r)
  <2>1. ~t /\ (Measured(r) => m \in due)
    BY <1>6 DEF Task
  <2>2. Len(h) < MaxMeasurements
    <3>1. CASE Measured(r)
      BY <2>1, <3>1
    <3>2. CASE ~Measured(r)
      <4>1. h = << >>
        BY <3>2, Zenon DEF Assessed
      <4> HIDE DEF h
      <4> QED
        BY <4>1, BoundAssumption
    <3> QED
      BY <3>1, <3>2
  <2>3. CASE o = "Error"
    <3>1. x = [phase |-> "Error", job |-> 0]
      BY <1>6, <2>3 DEF TakeMeasurement
    <3> HIDE DEF x
    <3>2. x \in MeasurementType /\ x.phase = "Error"
      BY <3>1, BoundAssumption DEF MeasurementType, Completed
    <3> QED
      BY <1>1, <2>2, <3>2 DEF Answers, x
  <2>4. CASE o # "Error"
    <3>1. x = [phase |-> "Running", job |-> JobIdSuffix(r)]
      BY <1>6, <2>4 DEF TakeMeasurement
    <3>2. JobIdSuffix(r) = Len(h) + 1
      BY <1>2 DEF JobIdSuffix
    <3> HIDE DEF x, h, r
    <3>3. Len(h) + 1 \in 0..MaxMeasurements
      BY <1>2, <2>2, BoundAssumption
    <3>4. x \in MeasurementType /\ x.phase = "Running" /\ x.job = Len(h) + 1
      BY <3>1, <3>2, <3>3 DEF MeasurementType
    <3> QED
      BY <1>1, <2>1, <3>4 DEF Answers, x, h, r
  <2> QED
    BY <2>3, <2>4
<1> QED
  BY <1>4, <1>5, <1>6

\* The tasks of a reconcile are of metrics it may measure, and a terminating
\* run has one for every measurement in flight.
LEMMA TasksFit ==
    ASSUME NEW t \in BOOLEAN, NEW st, NEW due, NEW m \in Metric
    PROVE /\ IsTerminating(t, st.results) \in BOOLEAN
          /\ m \in Tasks(t, st, due) => Task(m, st, due, IsTerminating(t, st.results))
          /\ /\ IsTerminating(t, st.results) /\ InFlight(st.results[m])
             /\ ~IsCompleted(st.results[m].phase)
             => m \in Tasks(t, st, due)
<1>1. IsTerminating(t, st.results) \in BOOLEAN
  BY DEF IsTerminating
<1> DEFINE T == IsTerminating(t, st.results)
           r == st.results[m]
<1>2. m \in Tasks(t, st, due) <=>
        /\ ~IsCompleted(r.phase)
        /\ IF InFlight(r) THEN T \/ m \in due
           ELSE /\ ~T
                /\ IF Measured(r) THEN ~CountReached(m, r) /\ m \in due
                   ELSE m \in Delayed => st.started /\ m \in due
  BY DEF Tasks
<1>3. m \in Tasks(t, st, due) => Task(m, st, due, T)
  BY <1>2, Zenon DEF Task
<1>4. T /\ InFlight(r) /\ ~IsCompleted(r.phase) => m \in Tasks(t, st, due)
  BY <1>2
<1> QED
  BY <1>1, <1>3, <1>4

\* What the assessment finds: metrics in step with their history, of which those
\* that are done have the verdict of it.
Ready(t, results) ==
    /\ results \in [Metric -> ResultType]
    /\ \A m \in Metric :
         /\ Counted(m, results[m])
         /\ ~Measured(results[m]) \/ IsCompleted(results[m].phase)
              => Assessed(m, results[m], IsTerminating(t, results))

\* The tasks of a reconcile lead to that, and change nothing about whether the
\* run is terminating.
LEMMA MeasurementsReady ==
    ASSUME jobs \in [Metric -> [JobIds -> JobStates]],
           NEW t \in BOOLEAN, NEW st, Sound(t, st),
           NEW due, \A m \in due : Len(st.results[m].history) < MaxMeasurements,
           NEW o \in [Tasks(t, st, due) -> Completed],
           \A m \in JobMetric \cap DOMAIN o : o[m] \in {"Successful", "Error"}
    PROVE LET T == IsTerminating(t, st.results)
              results == ResultsAfter(st, Tasks(t, st, due), T, o)
          IN  /\ Ready(t, results)
              /\ IsTerminating(t, results) <=> T
              /\ T => \A m \in Metric : ~InFlight(results[m])
<1> DEFINE T == IsTerminating(t, st.results)
           tasks == Tasks(t, st, due)
           rs == ResultsAfter(st, tasks, T, o)
           r(m) == st.results[m]
           x(m) == TakeMeasurement(m, r(m), T, o[m])
<1>1. /\ st.results \in [Metric -> ResultType]
      /\ \A m \in Metric : Counted(m, r(m)) /\ Assessed(m, r(m), T)
      /\ \A m \in Metric : r(m) \in ResultType
  BY DEF Sound, SoundResults
<1>2. /\ T \in BOOLEAN
      /\ DOMAIN rs = Metric
      /\ \A m \in Metric : rs[m] = IF m \in tasks THEN Record(r(m), x(m)) ELSE r(m)
  BY DEF ResultsAfter, IsTerminating
<1>3. ASSUME NEW m \in Metric, m \in tasks
      PROVE  Answers(m, r(m), x(m)) /\ Undecided(m, r(m).history) /\ (T => x(m).phase # "Running")
  <2>1. Task(m, st, due, T)
    BY <1>3, TasksFit
  <2>2. o[m] \in Completed /\ (m \in JobMetric => o[m] \in {"Successful", "Error"})
    BY <1>3
  <2>3. m \in due => Len(st.results[m].history) < MaxMeasurements
    OBVIOUS
  <2>4. Counted(m, st.results[m]) /\ Assessed(m, st.results[m], T)
    BY <1>1
  <2> DEFINE y == o[m]
  <2>5. y \in Completed /\ (m \in JobMetric => y \in {"Successful", "Error"})
    BY <2>2
  <2> HIDE DEF T, tasks, y
  <2>6. LET z == TakeMeasurement(m, st.results[m], T, y)
        IN  /\ Answers(m, st.results[m], z)
            /\ Undecided(m, st.results[m].history)
            /\ T => z.phase # "Running"
    BY <1>2, <2>1, <2>3, <2>4, <2>5, TaskAnswers, Zenon
  <2> QED
    BY <2>6 DEF y
<1> HIDE DEF rs, T
<1>4. ASSUME NEW m \in Metric, m \in tasks
      PROVE  /\ rs[m] \in ResultType /\ Counted(m, rs[m])
             /\ ~IsCompleted(rs[m].phase) /\ ~IsCompleted(r(m).phase) /\ Measured(rs[m])
             /\ T => ~InFlight(rs[m])
  <2> HIDE DEF x, r
  <2>1. rs[m] = Record(r(m), x(m))
    BY <1>2, <1>4
  <2>2. Counted(m, rs[m])
    BY <1>1, <1>3, <1>4, <2>1, RecordCounted
  <2>3. x(m) \in MeasurementType
    BY <1>3, <1>4 DEF Answers
  <2>4. /\ rs[m] \in ResultType
        /\ rs[m].phase = IF r(m).phase = "" THEN "Running" ELSE r(m).phase
        /\ Measured(rs[m]) /\ Last(rs[m]) = x(m)
    <3> DEFINE rm == r(m)
               xm == x(m)
    <3>1. rm \in ResultType /\ xm \in MeasurementType
      BY <1>1, <2>3
    <3> HIDE DEF rm, xm
    <3>2. LET q == Record(rm, xm)
          IN  /\ q \in ResultType
              /\ q.phase = IF rm.phase = "" THEN "Running" ELSE rm.phase
              /\ Measured(q) /\ Last(q) = xm
      BY <3>1, RecordFields, Zenon
    <3> QED
      BY <2>1, <3>2, Zenon DEF rm, xm
  <2>5. ~IsCompleted(r(m).phase)
    BY <1>4 DEF Tasks, r, tasks
  <2>6. ~IsCompleted(rs[m].phase)
    <3>1. CASE r(m).phase = ""
      BY <2>4, <3>1 DEF IsCompleted
    <3>2. CASE r(m).phase # ""
      BY <2>4, <2>5, <3>2, Zenon
    <3> QED
      BY <3>1, <3>2
  <2>7. T => ~InFlight(rs[m])
    BY <1>3, <1>4, <2>4 DEF InFlight
  <2> QED
    BY <2>2, <2>4, <2>5, <2>6, <2>7
<1>5. ASSUME NEW m \in Metric, m \notin tasks
      PROVE  rs[m] = r(m) /\ (T => ~InFlight(rs[m]))
  <2>1. rs[m] = r(m)
    BY <1>2, <1>5
  <2>2. T /\ InFlight(r(m)) => IsCompleted(r(m).phase)
    BY <1>5, TasksFit DEF T
  <2>3. InFlight(r(m)) => r(m).phase = "Running"
    <3>1. Assessed(m, r(m), T)
      BY <1>1
    <3>2. InFlight(r(m)) => Measured(r(m))
      BY DEF InFlight
    <3> QED
      BY <3>1, <3>2, Zenon DEF Assessed
  <2>4. ~IsCompleted("Running")
    BY DEF IsCompleted
  <2> QED
    BY <2>1, <2>2, <2>3, <2>4, Zenon
<1>6. \A m \in Metric : IsCompleted(rs[m].phase) \/ IsCompleted(r(m).phase) => rs[m] = r(m)
  BY <1>4, <1>5
<1>7. IsTerminating(t, rs) <=> T
  <2>1. \A p : p \in {"Failed", "Error", "Inconclusive"} => IsCompleted(p)
    BY DEF IsCompleted
  <2>2. \A m \in Metric : rs[m].phase \in {"Failed", "Error", "Inconclusive"}
                          <=> st.results[m].phase \in {"Failed", "Error", "Inconclusive"}
    BY <1>6, <2>1, Zenon
  <2> QED
    BY <2>2 DEF IsTerminating, T
<1>8. rs \in [Metric -> ResultType]
  <2>1. \A m \in Metric : rs[m] \in ResultType
    BY <1>1, <1>4, <1>5
  <2> QED
    BY <1>2, <2>1 DEF ResultsAfter, rs
<1>9. ASSUME NEW m \in Metric PROVE Counted(m, rs[m])
  BY <1>1, <1>4, <1>5
<1>10. ASSUME NEW m \in Metric, ~Measured(rs[m]) \/ IsCompleted(rs[m].phase)
       PROVE  Assessed(m, rs[m], IsTerminating(t, rs))
  <2>1. rs[m] = r(m)
    BY <1>4, <1>5, <1>10
  <2>2. Assessed(m, r(m), T)
    BY <1>1
  <2> QED
    BY <1>7, <2>1, <2>2, AssessedMonotone
<1>11. Ready(t, rs)
  BY <1>8, <1>9, <1>10 DEF Ready
<1> QED
  <2>1. T => \A m \in Metric : ~InFlight(rs[m])
    BY <1>4, <1>5
  <2> QED
    BY <1>7, <1>11, <2>1 DEF rs, T

\* The worst of a set of verdicts.
WorstOf(S) ==
    IF "Failed" \in S THEN "Failed" ELSE IF "Error" \in S THEN "Error"
    ELSE IF "Inconclusive" \in S THEN "Inconclusive" ELSE "Successful"

\* One of them is the worst, and only one.
LEMMA WorstExists ==
    ASSUME NEW S \in SUBSET Completed, S # {}
    PROVE /\ WorstOf(S) \in S
          /\ \A q \in S : Badness[q] <= Badness[WorstOf(S)]
          /\ \A p \in S : (\A q \in S : Badness[q] <= Badness[p]) => p = WorstOf(S)
<1>1. /\ Badness["Successful"] = 0 /\ Badness["Inconclusive"] = 1
      /\ Badness["Error"] = 2 /\ Badness["Failed"] = 3
  BY DEF Badness, Completed
<1>2. \A q \in S : q = "Successful" \/ q = "Inconclusive" \/ q = "Error" \/ q = "Failed"
  BY DEF Completed
<1> HIDE DEF Badness
<1>3. WorstOf(S) \in S
  BY <1>2 DEF WorstOf
<1>4. ASSUME NEW q \in S PROVE Badness[q] <= Badness[WorstOf(S)]
  BY <1>1, <1>2 DEF WorstOf
<1>5. ASSUME NEW p \in S, \A q \in S : Badness[q] <= Badness[p] PROVE p = WorstOf(S)
  <2>1. Badness[WorstOf(S)] <= Badness[p]
    BY <1>3, <1>5
  <2> QED
    BY <1>1, <1>2, <1>4, <2>1 DEF WorstOf
<1> QED
  BY <1>3, <1>4, <1>5

\* assessRunStatus takes the worst verdict of the metrics that count and have
\* one; if only dry-run metrics have one, the run is successful.
LEMMA WorstStatusIs ==
    ASSUME NEW results \in [Metric -> ResultType]
    PROVE LET counting == {m \in Metric \ DryRun : IsCompleted(results[m].phase)}
          IN  /\ counting # {} => WorstStatus(results) = WorstOf({results[m].phase : m \in counting})
              /\ counting = {} => WorstStatus(results) \in {"", "Successful"}
              /\ WorstStatus(results) \in Completed \cup {""}
              /\ WorstStatus(results) = "" => counting = {}
<1> DEFINE done == {m \in Metric : IsCompleted(results[m].phase)}
           counting == {m \in Metric \ DryRun : IsCompleted(results[m].phase)}
           S == {results[m].phase : m \in counting}
           worst == WorstStatus(results)
           c == CHOOSE p \in S : \A m \in counting : Badness[results[m].phase] <= Badness[p]
<1>1. done \ DryRun = counting
  OBVIOUS
<1>2. worst = IF \E m \in done : m \notin DryRun
              THEN CHOOSE p \in {results[m].phase : m \in done \ DryRun} :
                     \A m \in done \ DryRun : Badness[results[m].phase] <= Badness[p]
              ELSE IF done # {} THEN "Successful" ELSE ""
  BY DEF WorstStatus
<1>3. /\ counting # {} => worst = c
      /\ counting = {} => worst \in {"", "Successful"}
  <2>1. counting # {} <=> \E m \in done : m \notin DryRun
    BY <1>1
  <2> HIDE DEF done, counting, worst
  <2> QED
    BY <1>1, <1>2, <2>1
<1>4. CASE counting = {}
  <2>1. worst \in {"", "Successful"}
    BY <1>3, <1>4
  <2>2. {"", "Successful"} \subseteq Completed \cup {""}
    BY DEF Completed
  <2> HIDE DEF worst, counting
  <2> QED
    BY <1>4, <2>1, <2>2 DEF worst, counting
<1>5. CASE counting # {}
  <2>1. S \in SUBSET Completed
    BY DEF IsCompleted, Completed
  <2>2. S # {}
    BY <1>5
  <2> HIDE DEF worst
  <2>3. \A p : (\A m \in counting : Badness[results[m].phase] <= Badness[p])
               <=> (\A q \in S : Badness[q] <= Badness[p])
    OBVIOUS
  <2> HIDE DEF counting, S
  <2>4. /\ WorstOf(S) \in S
        /\ \A m \in counting : Badness[results[m].phase] <= Badness[WorstOf(S)]
        /\ \A p \in S : (\A m \in counting : Badness[results[m].phase] <= Badness[p])
                        => p = WorstOf(S)
    BY <2>1, <2>2, <2>3, WorstExists
  <2>5. c = WorstOf(S)
    <3>1. c \in S /\ \A m \in counting : Badness[results[m].phase] <= Badness[c]
      BY <2>4, Zenon
    <3> QED
      BY <2>4, <3>1, Zenon
  <2>6. worst = WorstOf(S)
    BY <1>3, <1>5, <2>5
  <2>7. worst \in Completed /\ worst # ""
    BY <2>1, <2>4, <2>6 DEF Completed
  <2> QED
    BY <1>5, <2>6, <2>7 DEF worst, S, counting
<1> QED
  BY <1>4, <1>5

\* assessMetricStatus for every metric that was measured.
AssessedResults(t, results) ==
    [m \in Metric |->
       IF Measured(results[m])
       THEN [results[m] EXCEPT !.phase = AssessMetric(m, results[m], IsTerminating(t, results))]
       ELSE results[m]]

\* The assessment gives every metric the verdict of its history.
LEMMA AssessSound ==
    ASSUME NEW t \in BOOLEAN, NEW results, Ready(t, results)
    PROVE LET assessed == AssessedResults(t, results)
          IN  /\ SoundResults(t, assessed)
              /\ \A m \in Metric : /\ InFlight(assessed[m]) <=> InFlight(results[m])
                                   /\ assessed[m].history = results[m].history
<1> DEFINE T == IsTerminating(t, results)
           A == AssessedResults(t, results)
           e == IsTerminating(t, A)
<1>1. /\ results \in [Metric -> ResultType] /\ T \in BOOLEAN /\ e \in BOOLEAN
      /\ \A m \in Metric :
           /\ Counted(m, results[m])
           /\ ~Measured(results[m]) \/ IsCompleted(results[m].phase)
              => Assessed(m, results[m], T)
  BY DEF Ready, IsTerminating
<1>2. \A m \in Metric :
        A[m] = IF Measured(results[m])
               THEN [results[m] EXCEPT !.phase = AssessMetric(m, results[m], T)] ELSE results[m]
  BY DEF AssessedResults
<1>3. T => e
  <2>1. ASSUME NEW m \in Metric, IsCompleted(results[m].phase) PROVE A[m].phase = results[m].phase
    <3>1. AssessMetric(m, results[m], T) = results[m].phase
      BY <2>1 DEF AssessMetric
    <3>2. results[m] \in ResultType
      BY <1>1
    <3> HIDE DEF A, T
    <3> QED
      BY <1>2, <3>1, <3>2 DEF ResultType
  <2>2. \A p \in {"Failed", "Error", "Inconclusive"} : IsCompleted(p)
    BY DEF IsCompleted
  <2>3. \A m \in Metric : results[m].phase \in {"Failed", "Error", "Inconclusive"}
                          => A[m].phase = results[m].phase
    BY <2>1, <2>2
  <2> HIDE DEF A
  <2> QED
    BY <2>3, Zenon DEF IsTerminating
<1>4. DOMAIN A = Metric /\ A = [m \in Metric |-> A[m]]
  BY DEF AssessedResults
<1> HIDE DEF A, T, e
<1>5. ASSUME NEW m \in Metric
      PROVE  /\ Counted(m, A[m]) /\ Assessed(m, A[m], e)
             /\ InFlight(A[m]) <=> InFlight(results[m])
             /\ A[m].history = results[m].history
  <2>1. CASE ~Measured(results[m])
    <3>1. A[m] = results[m] /\ Assessed(m, results[m], T)
      BY <1>1, <1>2, <2>1
    <3> QED
      BY <1>1, <1>3, <3>1, AssessedMonotone
  <2>2. CASE Measured(results[m])
    <3> DEFINE r == results[m]
    <3>1. A[m] = [r EXCEPT !.phase = AssessMetric(m, r, T)]
      BY <1>2, <2>2
    <3>2. IsCompleted(r.phase) => Assessed(m, r, e)
      BY <1>1, <1>3, AssessedMonotone
    <3>3. Counted(m, r) /\ Measured(r)
      BY <1>1, <2>2
    <3> HIDE DEF r
    <3>4. LET q == [r EXCEPT !.phase = AssessMetric(m, r, T)]
          IN  /\ Counted(m, q) /\ Assessed(m, q, e)
              /\ InFlight(q) <=> InFlight(r)
              /\ q.history = r.history
      BY <1>1, <1>3, <3>2, <3>3, AssessMetricCorrect
    <3> QED
      BY <3>1, <3>4, Zenon DEF r
  <2> QED
    BY <2>1, <2>2
<1>6. A \in [Metric -> ResultType]
  BY <1>4, <1>5 DEF Counted
<1> QED
  BY <1>5, <1>6 DEF SoundResults, A, e

\* garbageCollectMeasurements for every metric.
LEMMA TrimSound ==
    ASSUME NEW t \in BOOLEAN, NEW results, SoundResults(t, results)
    PROVE LET kept == [m \in Metric |-> Trim(results[m])]
          IN  /\ SoundResults(t, kept)
              /\ \A m \in Metric : /\ InFlight(kept[m]) <=> InFlight(results[m])
                                   /\ kept[m].history = results[m].history
                                   /\ kept[m].phase = results[m].phase
<1> DEFINE kept == [m \in Metric |-> Trim(results[m])]
<1>1. ASSUME NEW m \in Metric
      PROVE  /\ Counted(m, kept[m]) /\ kept[m] \in ResultType
             /\ kept[m].phase = results[m].phase /\ kept[m].history = results[m].history
             /\ InFlight(kept[m]) <=> InFlight(results[m])
             /\ \A e : Assessed(m, results[m], e) => Assessed(m, kept[m], e)
  <2>1. kept[m] = Trim(results[m])
    OBVIOUS
  <2>2. Counted(m, results[m])
    BY DEF SoundResults
  <2> HIDE DEF kept
  <2>3. /\ Counted(m, kept[m])
        /\ kept[m].phase = results[m].phase /\ kept[m].history = results[m].history
        /\ InFlight(kept[m]) <=> InFlight(results[m])
        /\ \A e : Assessed(m, results[m], e) => Assessed(m, kept[m], e)
    BY <2>1, <2>2, TrimKeeps, Zenon
  <2> QED
    BY <2>3 DEF Counted
<1>2. kept \in [Metric -> ResultType]
  BY <1>1
<1> HIDE DEF kept
<1>3. IsTerminating(t, results) => IsTerminating(t, kept)
  BY <1>1 DEF IsTerminating
<1>4. \A m \in Metric : Assessed(m, kept[m], IsTerminating(t, kept))
  BY <1>1, <1>3, AssessedMonotone DEF SoundResults
<1>5. SoundResults(t, kept)
  BY <1>1, <1>2, <1>4 DEF SoundResults
<1> QED
  BY <1>1, <1>5 DEF kept

\* A run that ends with the phase of its assessment ends with the worst verdict
\* and no measurement in flight.
LEMMA RunAssessed ==
    ASSUME NEW t \in BOOLEAN, NEW results, SoundResults(t, results),
           NEW T \in BOOLEAN, T => \A m \in Metric : ~InFlight(results[m])
    PROVE LET p == AssessRun(results, T)
          IN  /\ p \in Completed \cup {"Running"}
              /\ IsCompleted(p) =>
                   /\ p = WorstOf({results[m].phase : m \in Unsuccessful(results)})
                   /\ \A m \in Metric : ~InFlight(results[m])
<1> DEFINE p == AssessRun(results, T)
           worst == WorstStatus(results)
           counting == {m \in Metric \ DryRun : IsCompleted(results[m].phase)}
           S == {results[m].phase : m \in counting}
           bad == {results[m].phase : m \in Unsuccessful(results)}
<1>1. results \in [Metric -> ResultType]
  BY DEF SoundResults
<1>2. /\ counting # {} => worst = WorstOf(S)
      /\ counting = {} => worst \in {"", "Successful"}
      /\ worst \in Completed \cup {""}
      /\ worst = "" => counting = {}
  BY <1>1, WorstStatusIs, Zenon
<1>3. WorstOf(S) = WorstOf(bad)
  <2>1. \A q \in {"Failed", "Error", "Inconclusive"} : q \in S <=> q \in bad
    BY DEF Unsuccessful, Completed, IsCompleted
  <2> HIDE DEF S, bad
  <2> QED
    BY <2>1 DEF WorstOf
<1>4. counting = {} => WorstOf(bad) = "Successful"
  <2>1. counting = {} => bad = {}
    BY DEF Unsuccessful, Completed, IsCompleted
  <2> QED
    BY <2>1, Zenon DEF WorstOf
<1>5. p = IF T THEN (IF worst = "" THEN "Successful" ELSE worst)
          ELSE IF worst = "" \/ \E m \in Metric : ~IsCompleted(results[m].phase)
               THEN "Running" ELSE worst
  BY DEF AssessRun
<1>6. ASSUME NEW m \in Metric, IsCompleted(results[m].phase) PROVE ~InFlight(results[m])
  <2>1. Assessed(m, results[m], IsTerminating(t, results))
    BY DEF SoundResults
  <2>2. InFlight(results[m]) => results[m].phase = "Running"
    BY <2>1, Zenon DEF Assessed, InFlight
  <2> QED
    BY <1>6, <2>2 DEF IsCompleted
<1>7. \A q \in Completed : q # "Running" /\ q # ""
  BY Zenon DEF Completed
<1>8. ~IsCompleted("Running") /\ "Successful" \in Completed
  BY Zenon DEF Completed, IsCompleted
<1> HIDE DEF p, worst, counting, S, bad
<1>9. p \in Completed \cup {"Running"}
  BY <1>2, <1>5, <1>7, <1>8, Zenon
<1>10. ASSUME IsCompleted(p) PROVE p = WorstOf(bad) /\ \A m \in Metric : ~InFlight(results[m])
  <2>1. CASE T
    <3>1. CASE worst = ""
      BY <1>2, <1>4, <1>5, <2>1, <3>1, Zenon
    <3>2. CASE worst # ""
      <4>1. worst = WorstOf(bad)
        <5>1. CASE counting # {}
          BY <1>2, <1>3, <5>1, Zenon
        <5>2. CASE counting = {}
          BY <1>2, <1>4, <3>2, <5>2, Zenon
        <5> QED
          BY <5>1, <5>2
      <4> QED
        BY <1>5, <2>1, <3>2, <4>1, Zenon
    <3> QED
      BY <3>1, <3>2
  <2>2. CASE ~T
    <3>1. /\ worst # "" /\ p = worst /\ \A m \in Metric : IsCompleted(results[m].phase)
      BY <1>5, <1>8, <1>10, <2>2, Zenon
    <3>2. worst = WorstOf(bad)
      <4>1. CASE counting # {}
        BY <1>2, <1>3, <4>1, Zenon
      <4>2. CASE counting = {}
        BY <1>2, <1>4, <3>1, <4>2, Zenon
      <4> QED
        BY <4>1, <4>2
    <3> QED
      BY <1>6, <3>1, <3>2, Zenon
  <2> QED
    BY <2>1, <2>2
<1> QED
  BY <1>9, <1>10, Zenon DEF p, bad

\* What a run that completed shows: the worst verdict, and nothing in flight.
Good(s) ==
    s.completedAt =>
      /\ IsCompleted(s.phase)
      /\ s.phase = WorstOf({s.results[m].phase : m \in Unsuccessful(s.results)})
      /\ \A m \in Metric : ~InFlight(s.results[m])

\* The status that a reconcile of the status st computes.
Reconciled(t, st, due, o) ==
    LET results == ResultsAfter(st, Tasks(t, st, due), IsTerminating(t, st.results), o)
        assessed == Assess(t, st, results)
    IN  [assessed EXCEPT !.results = [m \in Metric |-> Trim(@[m])]]

\* A reconcile makes a sound status from a sound one; a run that ends in it has
\* the worst verdict and nothing in flight, and garbage collection loses no history.
LEMMA ReconciledSound ==
    ASSUME jobs \in [Metric -> [JobIds -> JobStates]],
           NEW t \in BOOLEAN, NEW st, Sound(t, st),
           NEW due, \A m \in due : Len(st.results[m].history) < MaxMeasurements,
           NEW o \in [Tasks(t, st, due) -> Completed],
           \A m \in JobMetric \cap DOMAIN o : o[m] \in {"Successful", "Error"}
    PROVE LET n == Reconciled(t, st, due, o)
          IN  /\ Sound(t, n)
              /\ ~IsCompleted(st.phase) /\ Good(st) => Good(n)
              /\ \A m \in Metric :
                   n.results[m].history
                     = ResultsAfter(st, Tasks(t, st, due), IsTerminating(t, st.results), o)[m].history
<1> DEFINE T == IsTerminating(t, st.results)
           rs == ResultsAfter(st, Tasks(t, st, due), T, o)
           A == AssessedResults(t, rs)
           B == [m \in Metric |-> Trim(A[m])]
           p == AssessRun(A, IsTerminating(t, rs))
           c == st.completedAt \/ (p # st.phase /\ IsCompleted(p))
           n == Reconciled(t, st, due, o)
<1>1. /\ Ready(t, rs) /\ (IsTerminating(t, rs) <=> T)
      /\ T => \A m \in Metric : ~InFlight(rs[m])
  BY MeasurementsReady
<1>2. st \in StatusType
  BY DEF Sound
<1>3. T \in BOOLEAN /\ IsTerminating(t, rs) \in BOOLEAN /\ IsTerminating(t, rs) = T
  BY <1>1 DEF IsTerminating
<1>4. n = [phase |-> p, started |-> TRUE, completedAt |-> c, results |-> B]
  <2>1. Assess(t, st, rs)
          = [st EXCEPT !.started = TRUE, !.phase = p, !.results = A, !.completedAt = c]
    BY Zenon DEF Assess, AssessedResults
  <2>2. st = [phase |-> st.phase, started |-> st.started, completedAt |-> st.completedAt,
              results |-> st.results]
    BY <1>2, Zenon DEF StatusType
  <2> HIDE DEF A, p, c
  <2>3. Assess(t, st, rs) = [phase |-> p, started |-> TRUE, completedAt |-> c, results |-> A]
    BY <1>2, <2>1 DEF StatusType
  <2> DEFINE a == Assess(t, st, rs)
  <2>4. n = [a EXCEPT !.results = [m \in Metric |-> Trim(@[m])]]
    BY Zenon DEF Reconciled
  <2> HIDE DEF a
  <2>5. a = [phase |-> p, started |-> TRUE, completedAt |-> c, results |-> A]
    BY <2>3 DEF a
  <2> QED
    BY <2>4, <2>5, ZenonT(30)
<1> HIDE DEF n, rs, T
<1>5. /\ SoundResults(t, A)
      /\ \A m \in Metric : /\ InFlight(A[m]) <=> InFlight(rs[m])
                           /\ A[m].history = rs[m].history
  BY <1>1, AssessSound
<1> HIDE DEF A
<1>6. /\ SoundResults(t, B)
      /\ \A m \in Metric : /\ InFlight(B[m]) <=> InFlight(A[m])
                           /\ B[m].history = A[m].history
                           /\ B[m].phase = A[m].phase
  BY <1>5, TrimSound
<1> HIDE DEF B
<1>7. T => \A m \in Metric : ~InFlight(A[m])
  BY <1>1, <1>5
<1>8. /\ p \in Completed \cup {"Running"}
      /\ IsCompleted(p) =>
           /\ p = WorstOf({A[m].phase : m \in Unsuccessful(A)})
           /\ \A m \in Metric : ~InFlight(A[m])
  BY <1>3, <1>5, <1>7, RunAssessed
<1>9. {A[m].phase : m \in Unsuccessful(A)} = {B[m].phase : m \in Unsuccessful(B)}
  BY <1>6 DEF Unsuccessful
<1> HIDE DEF p
<1>10. Sound(t, n)
  <2>1. c \in BOOLEAN
    BY <1>2 DEF StatusType, IsCompleted
  <2>2. p \in Phases
    BY <1>8 DEF Phases
  <2>3. B \in [Metric -> ResultType]
    BY <1>6 DEF SoundResults
  <2> HIDE DEF c
  <2>4. n \in StatusType
    BY <1>4, <2>1, <2>2, <2>3 DEF StatusType
  <2>5. n.results = B
    BY <1>4
  <2> QED
    BY <1>6, <2>4, <2>5 DEF Sound
<1>11. ASSUME ~IsCompleted(st.phase), Good(st) PROVE Good(n)
  <2>1. ~st.completedAt
    BY <1>11 DEF Good
  <2>2. n.completedAt => IsCompleted(p)
    BY <1>4, <2>1
  <2>3. n.phase = p /\ n.results = B
    BY <1>4
  <2> HIDE DEF c
  <2>4. IsCompleted(p) => \A m \in Metric : ~InFlight(B[m])
    BY <1>6, <1>8
  <2> QED
    BY <1>8, <1>9, <2>2, <2>3, <2>4, Zenon DEF Good
<1>12. ASSUME NEW m \in Metric PROVE n.results[m].history = rs[m].history
  BY <1>4, <1>5, <1>6
<1> QED
  BY <1>10, <1>11, <1>12 DEF n, rs, T

-----------------------------------------------------------------------------
(* The controller: every version of the run is sound.                      *)

\* The sound versions of a run whose termination t says was asked for.
SoundVersions(t) == {v \in VersionType : Sound(v.terminate, v.status) /\ (v.terminate => t)}

Flags ==
    /\ queued \in BOOLEAN /\ armed \in BOOLEAN
    /\ pc \in {"idle", "persist"} /\ measured \in BOOLEAN
    /\ jobs \in [Metric -> [JobIds -> JobStates]]
    /\ ended \in [Metric -> [complete : Nat, failed : Nat]]
    /\ overwritten \in BOOLEAN /\ faults \in 0..MaxFaults

\* The status the API server stores, the cached one, the one about to be
\* patched and those on their way to the cache are all sound, and none was made
\* for a termination that nobody asked for.
SoundInv ==
    /\ terminate \in BOOLEAN /\ Flags
    /\ Sound(terminate, status) /\ Sound(terminate, new)
    /\ cache \in SoundVersions(terminate)
    /\ watch \in Seq(SoundVersions(terminate))

\* reconcileAnalysisRun without the names of its steps.
LEMMA ReconcileEffect ==
    ASSUME NEW due, NEW o, Reconcile(due, o)
    PROVE LET n == Reconciled(cache.terminate, cache.status, due, o)
          IN  /\ UNCHANGED work \/ (pc' = "persist" /\ new' = n /\ measured' \in BOOLEAN)
              /\ jobs' = JobsAfter(cache.status, Tasks(cache.terminate, cache.status, due),
                                   IsTerminating(cache.terminate, cache.status.results), o)
              /\ queued' = FALSE
              /\ \E b \in BOOLEAN : armed' = (armed \/ b)
              /\ ~IsCompleted(cache.status.phase)
              /\ pc = "idle"
              /\ UNCHANGED <<run, cache, watch, ended, overwritten, faults>>
<1> DEFINE st == cache.status
           tasks == Tasks(cache.terminate, st, due)
           T == IsTerminating(cache.terminate, st.results)
           n == Reconciled(cache.terminate, st, due, o)
<1>1. /\ IF n = st /\ tasks = {} THEN UNCHANGED work
         ELSE pc' = "persist" /\ new' = n /\ measured' = (tasks # {})
      /\ jobs' = JobsAfter(st, tasks, T, o)
      /\ armed' = (armed \/ NeedsReconcile(n))
  <2>1. PICK results \in {ResultsAfter(st, tasks, T, o)} :
          \E assessed \in {Assess(cache.terminate, st, results)} :
           LET result == [assessed EXCEPT !.results = [m \in Metric |-> Trim(@[m])]]
           IN  /\ IF result = st /\ tasks = {} THEN UNCHANGED work
                  ELSE pc' = "persist" /\ new' = result /\ measured' = (tasks # {})
               /\ jobs' = JobsAfter(st, tasks, T, o)
               /\ armed' = (armed \/ NeedsReconcile(result))
    BY Zenon DEF Reconcile
  <2>2. PICK assessed \in {Assess(cache.terminate, st, results)} :
           LET result == [assessed EXCEPT !.results = [m \in Metric |-> Trim(@[m])]]
           IN  /\ IF result = st /\ tasks = {} THEN UNCHANGED work
                  ELSE pc' = "persist" /\ new' = result /\ measured' = (tasks # {})
               /\ jobs' = JobsAfter(st, tasks, T, o)
               /\ armed' = (armed \/ NeedsReconcile(result))
    BY <2>1, Zenon
  <2>3. results = ResultsAfter(st, tasks, T, o) /\ assessed = Assess(cache.terminate, st, results)
    BY <2>1, <2>2
  <2>4. n = [assessed EXCEPT !.results = [m \in Metric |-> Trim(@[m])]]
    BY <2>3, Zenon DEF Reconciled
  <2> QED
    BY <2>2, <2>4, Zenon
<1>2. NeedsReconcile(n) \in BOOLEAN /\ (tasks # {}) \in BOOLEAN
  BY DEF NeedsReconcile
<1>3. /\ pc = "idle" /\ queued' = FALSE /\ ~IsCompleted(cache.status.phase)
      /\ UNCHANGED <<run, cache, watch, ended, overwritten, faults>>
  BY DEF Reconcile, Take
<1> HIDE DEF n, tasks, T
<1>4. UNCHANGED work \/ (pc' = "persist" /\ new' = n /\ measured' \in BOOLEAN)
  BY <1>1, <1>2, Zenon
<1>5. \E b \in BOOLEAN : armed' = (armed \/ b)
  BY <1>1, <1>2, Zenon
<1> QED
  BY <1>1, <1>3, <1>4, <1>5, Zenon DEF n, tasks, T

\* Jobs are created and deleted, as the lister sees it.
LEMMA JobsAfterType ==
    ASSUME jobs \in [Metric -> [JobIds -> JobStates]], NEW st, NEW tasks, NEW t, NEW o
    PROVE JobsAfter(st, tasks, t, o) \in [Metric -> [JobIds -> JobStates]]
<1>1. \A m \in Metric, i \in JobIds : jobs[m][i] \in JobStates
  OBVIOUS
<1>2. {"none", "deleting", "created"} \subseteq JobStates
  BY DEF JobStates
<1> DEFINE after(m, i) ==
             LET r == st.results[m]
                 called == m \in tasks \cap JobMetric /\ o[m] # "Error"
             IN  IF called /\ InFlight(r) /\ t /\ i = Last(r).job
                 THEN IF jobs[m][i] \in {"none", "complete", "failed"} THEN "none" ELSE "deleting"
                 ELSE IF called /\ ~InFlight(r) /\ i = JobIdSuffix(r) /\ jobs[m][i] = "none"
                      THEN "created"
                 ELSE jobs[m][i]
<1>3. \A m \in Metric, i \in JobIds : after(m, i) \in JobStates
  BY <1>1, <1>2, Zenon
<1>4. JobsAfter(st, tasks, t, o) = [m \in Metric |-> [i \in JobIds |-> after(m, i)]]
  BY Zenon DEF JobsAfter
<1> HIDE DEF after
<1> QED
  BY <1>3, <1>4

\* Sound versions stay sound when the run is terminated.
LEMMA VersionsMonotone ==
    ASSUME NEW t \in BOOLEAN, NEW u \in BOOLEAN, t => u
    PROVE SoundVersions(t) \subseteq SoundVersions(u)
BY DEF SoundVersions

\* A new run has no measurements.
LEMMA SoundInit == Init => SoundInv
<1> SUFFICES ASSUME Init PROVE SoundInv
  OBVIOUS
<1>1. Sound(FALSE, NoStatus) /\ NoStatus \in StatusType
  BY NoStatusSound DEF Sound
<1>2. [terminate |-> FALSE, status |-> NoStatus] \in SoundVersions(FALSE)
  BY <1>1 DEF SoundVersions, VersionType
<1>3. << >> \in Seq(SoundVersions(FALSE))
  OBVIOUS
<1>4. NoJobs \in [Metric -> [JobIds -> JobStates]]
  BY DEF NoJobs, JobStates
<1>5. [m \in Metric |-> [complete |-> 0, failed |-> 0]] \in [Metric -> [complete : Nat, failed : Nat]]
  OBVIOUS
<1>6. MaxFaults \in 0..MaxFaults
  BY BoundAssumption
<1>7. Flags
  BY <1>4, <1>5, <1>6 DEF Init, Flags
<1> QED
  BY <1>1, <1>2, <1>3, <1>7 DEF Init, SoundInv

\* A reconcile computes a sound status from the cached one.
LEMMA ReconcileSound ==
    ASSUME SoundInv, NEW due \in SUBSET Allowed, NEW o \in Outcomes(due), Reconcile(due, o)
    PROVE SoundInv'
<1> DEFINE n == Reconciled(cache.terminate, cache.status, due, o)
<1>1. /\ UNCHANGED work \/ (pc' = "persist" /\ new' = n /\ measured' \in BOOLEAN)
      /\ jobs' = JobsAfter(cache.status, Tasks(cache.terminate, cache.status, due),
                           IsTerminating(cache.terminate, cache.status.results), o)
      /\ queued' = FALSE
      /\ \E b \in BOOLEAN : armed' = (armed \/ b)
      /\ UNCHANGED <<run, cache, watch, ended, overwritten, faults>>
  BY ReconcileEffect, Zenon
<1>2. Sound(terminate, n)
  <2>1. /\ cache.terminate \in BOOLEAN /\ Sound(cache.terminate, cache.status)
        /\ cache.terminate => terminate
        /\ jobs \in [Metric -> [JobIds -> JobStates]]
    BY DEF SoundInv, SoundVersions, VersionType, Flags
  <2>2. \A m \in due : Len(cache.status.results[m].history) < MaxMeasurements
    BY DEF Allowed
  <2>3. /\ o \in [Tasks(cache.terminate, cache.status, due) -> Completed]
        /\ \A m \in JobMetric \cap DOMAIN o : o[m] \in {"Successful", "Error"}
    BY DEF Outcomes
  <2>4. Sound(cache.terminate, n)
    BY <2>1, <2>2, <2>3, ReconciledSound
  <2> HIDE DEF n
  <2> QED
    BY <2>1, <2>4, SoundMonotone
<1>3. Flags'
  <2>1. Flags
    BY DEF SoundInv
  <2>2. jobs' \in [Metric -> [JobIds -> JobStates]]
    BY <1>1, <2>1, JobsAfterType DEF Flags
  <2> HIDE DEF n
  <2>3. armed' \in BOOLEAN /\ queued' \in BOOLEAN
    BY <1>1, <2>1 DEF Flags
  <2>4. pc' \in {"idle", "persist"} /\ measured' \in BOOLEAN
    BY <1>1, <2>1 DEF Flags, work
  <2> QED
    BY <1>1, <2>1, <2>2, <2>3, <2>4 DEF Flags
<1> HIDE DEF n
<1>4. Sound(terminate, new')
  BY <1>1, <1>2 DEF SoundInv, work
<1> QED
  BY <1>1, <1>3, <1>4, Zenon DEF SoundInv, run

\* The merge patch takes the results as a whole from one sound status.
LEMMA PersistSound == ASSUME SoundInv, Persist PROVE SoundInv'
<1> DEFINE patched == Patch(cache.status, new, status)
<1>1. /\ status' = patched /\ terminate' = terminate /\ cache' = cache
      /\ new' = NoStatus /\ pc' = "idle" /\ measured' = FALSE
      /\ \/ watch' = watch
         \/ watch' = Append(watch, [terminate |-> terminate, status |-> patched])
      /\ overwritten' \in BOOLEAN
      /\ UNCHANGED <<queued, armed, jobs, ended, faults>>
  BY Zenon DEF Persist, Rest, cluster, SoundInv, Flags
<1>2. Sound(terminate, patched)
  <2>1. /\ Sound(terminate, new) /\ Sound(terminate, status)
        /\ new \in StatusType /\ status \in StatusType
    BY DEF SoundInv, Sound
  <2> DEFINE a == IF new.phase # cache.status.phase THEN new.phase ELSE status.phase
             b == IF new.started # cache.status.started THEN new.started ELSE status.started
             c == IF new.completedAt # cache.status.completedAt
                  THEN new.completedAt ELSE status.completedAt
             d == IF new.results # cache.status.results \/ measured
                  THEN new.results ELSE status.results
  <2>2. patched = [phase |-> a, started |-> b, completedAt |-> c, results |-> d]
    BY Zenon DEF Patch
  <2>3. a \in Phases /\ b \in BOOLEAN /\ c \in BOOLEAN
    BY <2>1, Zenon DEF StatusType
  <2>4. d \in {new.results, status.results}
    OBVIOUS
  <2> HIDE DEF a, b, c, d, patched
  <2>5. SoundResults(terminate, d) /\ d \in [Metric -> ResultType]
    BY <2>1, <2>4 DEF Sound, SoundResults
  <2>6. patched \in StatusType /\ patched.results = d
    BY <2>2, <2>3, <2>5 DEF StatusType
  <2> QED
    BY <2>5, <2>6 DEF Sound
<1> HIDE DEF patched
<1>3. Sound(terminate', new')
  BY <1>1, NoStatusSound DEF SoundInv
<1>4. [terminate |-> terminate, status |-> patched] \in SoundVersions(terminate)
  BY <1>2 DEF SoundVersions, VersionType, Sound, SoundInv
<1>5. watch' \in Seq(SoundVersions(terminate))
  BY <1>1, <1>4 DEF SoundInv
<1>6. Flags'
  BY <1>1 DEF SoundInv, Flags
<1> QED
  BY <1>1, <1>2, <1>3, <1>5, <1>6 DEF SoundInv

\* The other steps of the controller hand versions on, or forget some.
LEMMA ControllerSound ==
    ASSUME SoundInv, SkipCompleted \/ LoseSecret \/ PersistFails \/ TimerFires
                     \/ Deliver \/ Restart
    PROVE SoundInv'
<1>1. /\ terminate \in BOOLEAN /\ Flags
      /\ Sound(terminate, status) /\ Sound(terminate, new)
      /\ cache \in SoundVersions(terminate)
      /\ watch \in Seq(SoundVersions(terminate))
      /\ Sound(terminate, NoStatus)
  BY NoStatusSound DEF SoundInv
<1>2. faults \in 0..MaxFaults /\ (faults > 0 => faults - 1 \in 0..MaxFaults)
  BY <1>1, BoundAssumption DEF Flags
<1>3. CASE SkipCompleted
  BY <1>1, <1>3 DEF SkipCompleted, Take, run, work, cluster, SoundInv, Flags
<1>4. CASE LoseSecret
  <2>1. cache.status \in StatusType /\ Sound(terminate, cache.status)
    BY <1>1, SoundMonotone DEF SoundVersions, VersionType, Sound
  <2> DEFINE s == cache.status
             n == [s EXCEPT !.phase = "Error"]
  <2>2. n \in StatusType /\ n.results = s.results
    <3> HIDE DEF s
    <3>1. "Error" \in Phases
      BY DEF Phases, Completed
    <3> QED
      BY <2>1, <3>1 DEF StatusType, s
  <2>3. Sound(terminate, n)
    BY <2>1, <2>2 DEF Sound
  <2>4. new' = n
    BY <1>4 DEF LoseSecret
  <2> HIDE DEF n
  <2>5. Flags'
    BY <1>1, <1>2, <1>4 DEF LoseSecret, Take, cluster, Flags
  <2>6. UNCHANGED <<run, cache, watch>>
    BY <1>4 DEF LoseSecret
  <2> QED
    BY <1>1, <2>3, <2>4, <2>5, <2>6 DEF SoundInv, run
<1>5. CASE PersistFails
  BY <1>1, <1>2, <1>5 DEF PersistFails, Rest, run, cluster, SoundInv, Flags
<1>6. CASE TimerFires
  BY <1>1, <1>6 DEF TimerFires, run, work, cluster, SoundInv, Flags
<1>7. CASE Deliver
  <2>1. watch # << >> /\ cache' = Head(watch) /\ watch' = Tail(watch) /\ queued' = TRUE
        /\ UNCHANGED <<terminate, status, armed, pc, new, measured, jobs, ended, overwritten, faults>>
    BY <1>7 DEF Deliver, run, work, cluster
  <2>2. cache' \in SoundVersions(terminate) /\ watch' \in Seq(SoundVersions(terminate))
    BY <1>1, <2>1, HeadTailProperties
  <2> QED
    BY <1>1, <2>1, <2>2 DEF SoundInv, Flags
<1>8. CASE Restart
  <2>1. [terminate |-> terminate, status |-> status] \in SoundVersions(terminate)
    BY <1>1 DEF SoundVersions, VersionType, Sound
  <2>2. << >> \in Seq(SoundVersions(terminate))
    OBVIOUS
  <2>3. Flags'
    BY <1>1, <1>2, <1>8 DEF Restart, Rest, cluster, Flags
  <2> QED
    BY <1>1, <1>8, <2>1, <2>2, <2>3 DEF Restart, Rest, run, SoundInv
<1> QED
  BY <1>3, <1>4, <1>5, <1>6, <1>7, <1>8

\* Terminating a run excuses more; Jobs do not touch the run.
LEMMA EnvironmentSound ==
    ASSUME SoundInv,
           TerminateRun \/ \E m \in JobMetric, i \in JobIds : \/ JobSeen(m, i) \/ JobStuck(m, i)
                                                             \/ JobEnds(m, i)
    PROVE SoundInv'
<1>1. /\ terminate \in BOOLEAN /\ Flags
      /\ Sound(terminate, status) /\ Sound(terminate, new)
      /\ cache \in SoundVersions(terminate)
      /\ watch \in Seq(SoundVersions(terminate))
  BY DEF SoundInv
<1>2. CASE TerminateRun
  <2>1. /\ terminate' = TRUE /\ watch' = Append(watch, [terminate |-> TRUE, status |-> status])
        /\ UNCHANGED <<status, cache, queued, armed, pc, new, measured, jobs, ended, overwritten, faults>>
    BY <1>2 DEF TerminateRun, work, cluster
  <2>2. Sound(TRUE, status) /\ Sound(TRUE, new)
    BY <1>1, SoundMonotone
  <2>3. SoundVersions(terminate) \subseteq SoundVersions(TRUE)
    BY <1>1, VersionsMonotone
  <2>4. watch \in Seq(SoundVersions(TRUE)) /\ cache \in SoundVersions(TRUE)
    BY <1>1, <2>3, SeqMonotonic
  <2>5. [terminate |-> TRUE, status |-> status] \in SoundVersions(TRUE)
    BY <2>2 DEF SoundVersions, VersionType, Sound
  <2>6. watch' \in Seq(SoundVersions(TRUE))
    BY <2>1, <2>4, <2>5, AppendProperties
  <2>7. Flags'
    BY <1>1, <2>1 DEF Flags
  <2> QED
    BY <2>1, <2>2, <2>4, <2>6, <2>7 DEF SoundInv
<1>3. ASSUME NEW m \in JobMetric, NEW i \in JobIds,
             JobSeen(m, i) \/ JobStuck(m, i) \/ JobEnds(m, i)
      PROVE  SoundInv'
  <2>1. m \in Metric
    BY MetricAssumption
  <2>2. /\ UNCHANGED <<terminate, status, cache, watch, armed, pc, new, measured, overwritten, faults>>
        /\ queued' = queued \/ queued' = TRUE
    BY <1>3 DEF JobSeen, JobStuck, JobEnds, run, queue, work
  <2>3. \E s \in {"active", "none", "stuck", "complete", "failed"} :
           jobs' = [jobs EXCEPT ![m][i] = s]
    BY <1>3 DEF JobSeen, JobStuck, JobEnds
  <2>4. jobs' \in [Metric -> [JobIds -> JobStates]]
    BY <1>1, <2>1, <2>3 DEF Flags, JobStates
  <2>5. ended' \in [Metric -> [complete : Nat, failed : Nat]]
    <3>1. \/ ended' = ended
          \/ ended' = [ended EXCEPT ![m].complete = @ + 1]
          \/ ended' = [ended EXCEPT ![m].failed = @ + 1]
      BY <1>3 DEF JobSeen, JobStuck, JobEnds
    <3>2. ended \in [Metric -> [complete : Nat, failed : Nat]]
      BY <1>1 DEF Flags
    <3>3. ended[m].complete + 1 \in Nat /\ ended[m].failed + 1 \in Nat
      BY <2>1, <3>2
    <3> QED
      BY <2>1, <3>1, <3>2, <3>3
  <2>6. Flags'
    BY <1>1, <2>2, <2>4, <2>5 DEF Flags
  <2> QED
    BY <1>1, <2>2, <2>6 DEF SoundInv
<1> QED
  BY <1>2, <1>3

\* So every version of a run is sound, in every behaviour.
LEMMA SoundAlways == Spec => []SoundInv
<1>1. ASSUME SoundInv, [Next]_vars PROVE SoundInv'
  <2>1. CASE UNCHANGED vars
    BY <1>1, <2>1 DEF vars, run, queue, work, cluster, SoundInv, Flags
  <2> QED
    BY <1>1, <2>1, ReconcileSound, PersistSound, ControllerSound, EnvironmentSound, Zenon DEF Next
<1> QED
  BY <1>1, SoundInit, PTL DEF Spec

\* Every variable of the analysis controller keeps its type: the counters never
\* go below zero and a Job in flight has a number.
THEOREM TypeCorrect == Spec => []TypeOK
<1>1. SoundInv => TypeOK
  <2> SUFFICES ASSUME SoundInv PROVE TypeOK
    OBVIOUS
  <2>1. SoundVersions(terminate) \subseteq VersionType
    BY DEF SoundVersions
  <2>2. watch \in Seq(VersionType)
    BY <2>1, SeqMonotonic DEF SoundInv
  <2> QED
    BY <2>1, <2>2 DEF SoundInv, Sound, Flags, TypeOK
<1> QED
  BY <1>1, SoundAlways, PTL

\* A metric is measured until its measurements decide it, and never after, and
\* gets the verdict they decide: however often a reconcile is lost or repeated
\* from an old copy, and whatever measurements garbage collection dropped.
THEOREM MeasuredUntilDecidedHolds == Spec => []MeasuredUntilDecided
<1>1. SoundInv => MeasuredUntilDecided
  <2> SUFFICES ASSUME SoundInv, NEW m \in Metric
               PROVE  LET r == status.results[m]
                          h == r.history
                      IN  /\ \A n \in 0..Len(h) - 1 : Verdict(m, SubSeq(h, 1, n)) = ""
                          /\ Measured(r) /\ ~InFlight(r) =>
                               IF Verdict(m, h) # "" THEN r.phase = Verdict(m, h)
                               ELSE \/ r.phase = "Running"
                                    \/ /\ r.phase = "Successful"
                                       /\ terminate \/ Unsuccessful(status.results) # {}
    BY Zenon DEF MeasuredUntilDecided
  <2> DEFINE r == status.results[m]
             e == terminate \/ Unsuccessful(status.results) # {}
  <2>1. Counted(m, r) /\ Assessed(m, r, IsTerminating(terminate, status.results))
    BY DEF SoundInv, Sound, SoundResults
  <2>2. IsTerminating(terminate, status.results) => e
    BY DEF IsTerminating, Unsuccessful, Completed
  <2>3. Assessed(m, r, e)
    <3> HIDE DEF r, e
    <3> QED
      BY <2>1, <2>2, AssessedMonotone
  <2>4. \A n \in 0..Len(r.history) - 1 : Verdict(m, SubSeq(r.history, 1, n)) = ""
    BY <2>1, Zenon DEF Counted, PrefixesUndecided, Undecided
  <2> QED
    BY <2>3, <2>4, Zenon DEF Assessed
<1> QED
  BY <1>1, SoundAlways, PTL

-----------------------------------------------------------------------------
(* The end of the run.                                                     *)

\* Unless a patch was made against an old status, the stored status is that of
\* an assessment, and so is the one about to be patched over the status that
\* was read.
GoodInv ==
    /\ ~overwritten => Good(status)
    /\ pc = "persist" /\ cache.status = status /\ ~overwritten => Good(new)

\* The patch of a reconcile that read the stored status stores what it computed.
LEMMA GoodInductive == SoundInv /\ GoodInv /\ [Next]_vars => GoodInv'
<1> SUFFICES ASSUME SoundInv, GoodInv, [Next]_vars PROVE GoodInv'
  OBVIOUS
<1>1. ASSUME NEW due \in SUBSET Allowed, NEW o \in Outcomes(due), Reconcile(due, o)
      PROVE  GoodInv'
  <2> DEFINE n == Reconciled(cache.terminate, cache.status, due, o)
  <2>1. /\ UNCHANGED work \/ (pc' = "persist" /\ new' = n)
        /\ ~IsCompleted(cache.status.phase) /\ pc = "idle"
        /\ UNCHANGED <<status, cache, overwritten>>
    BY <1>1, ReconcileEffect, Zenon DEF run
  <2>2. /\ cache.terminate \in BOOLEAN /\ Sound(cache.terminate, cache.status)
        /\ jobs \in [Metric -> [JobIds -> JobStates]]
    BY DEF SoundInv, SoundVersions, VersionType, Flags
  <2>3. \A m \in due : Len(cache.status.results[m].history) < MaxMeasurements
    BY DEF Allowed
  <2>4. /\ o \in [Tasks(cache.terminate, cache.status, due) -> Completed]
        /\ \A m \in JobMetric \cap DOMAIN o : o[m] \in {"Successful", "Error"}
    BY DEF Outcomes
  <2>5. Good(cache.status) => Good(n)
    BY <2>1, <2>2, <2>3, <2>4, ReconciledSound
  <2> HIDE DEF n
  <2>6. cache.status = status /\ ~overwritten => Good(n)
    BY <2>5 DEF GoodInv
  <2> QED
    BY <2>1, <2>6 DEF GoodInv, work, Good
<1>2. CASE LoseSecret
  <2>1. /\ new' = [cache.status EXCEPT !.phase = "Error"]
        /\ ~IsCompleted(cache.status.phase)
        /\ UNCHANGED <<status, cache, overwritten>>
    BY <1>2 DEF LoseSecret, run
  <2>2. cache.status \in StatusType
    BY DEF SoundInv, SoundVersions, Sound
  <2>3. new'.completedAt = cache.status.completedAt
    BY <2>1, <2>2 DEF StatusType
  <2>4. Good(cache.status) => ~cache.status.completedAt
    BY <2>1 DEF Good
  <2>5. Good(cache.status) => Good(new')
    BY <2>3, <2>4 DEF Good
  <2> QED
    BY <2>1, <2>5 DEF GoodInv, Good
<1>3. CASE Persist
  <2>1. /\ pc = "persist" /\ pc' = "idle" /\ status' = Patch(cache.status, new, status)
        /\ ~overwritten' => ~overwritten /\ cache.status = status
    BY <1>3 DEF Persist, Rest
  <2>2. new \in StatusType /\ status \in StatusType
    BY DEF SoundInv, Sound
  <2>3. cache.status = status => status' = new
    <3> SUFFICES ASSUME cache.status = status PROVE status' = new
      OBVIOUS
    <3>1. status' = [phase |-> new.phase, started |-> new.started,
                     completedAt |-> new.completedAt, results |-> new.results]
      BY <2>1, Zenon DEF Patch
    <3> QED
      BY <2>2, <3>1 DEF StatusType
  <2>4. ~overwritten' => Good(status')
    BY <2>1, <2>3 DEF GoodInv
  <2> QED
    BY <2>1, <2>4 DEF GoodInv, Good
<1>4. CASE SkipCompleted \/ TimerFires \/ TerminateRun \/ UNCHANGED vars
  <2>1. UNCHANGED <<status, cache, pc, new, overwritten>>
    BY <1>4 DEF SkipCompleted, Take, TimerFires, TerminateRun, vars, run, queue, work
  <2> QED
    BY <2>1 DEF GoodInv, Good
<1>5. CASE PersistFails \/ Deliver \/ Restart
  <2>1. pc' = "idle" /\ UNCHANGED <<status, overwritten>>
    BY <1>5 DEF PersistFails, Deliver, Restart, Rest, run, work
  <2> QED
    BY <2>1 DEF GoodInv, Good
<1>6. ASSUME NEW m \in JobMetric, NEW i \in JobIds,
             JobSeen(m, i) \/ JobStuck(m, i) \/ JobEnds(m, i)
      PROVE  GoodInv'
  <2>1. UNCHANGED <<status, cache, pc, new, overwritten>>
    BY <1>6 DEF JobSeen, JobStuck, JobEnds, run, queue, work
  <2> QED
    BY <2>1 DEF GoodInv, Good
<1> QED
  BY <1>1, <1>2, <1>3, <1>4, <1>5, <1>6 DEF Next

\* It holds from the start, when the run has not completed.
LEMMA GoodAlways == Spec => []GoodInv
<1>1. Init => GoodInv
  <2>1. ~NoStatus.completedAt
    BY DEF NoStatus
  <2> QED
    BY <2>1, Zenon DEF Init, GoodInv, Good
<1> QED
  BY <1>1, GoodInductive, SoundAlways, PTL DEF Spec

\* A run that was assessed, and not by a patch against an old status, has the
\* worst verdict of the metrics that count.
THEOREM RunVerdictIsWorstHolds == Spec => []RunVerdictIsWorst
<1>1. GoodInv => RunVerdictIsWorst
  BY DEF GoodInv, Good, WorstOf, RunVerdictIsWorst
<1> QED
  BY <1>1, GoodAlways, PTL

\* Such a run has left no measurement in flight, and so no Job running that it
\* will not look at again.
THEOREM NothingLeftInFlightHolds == Spec => []NothingLeftInFlight
<1>1. GoodInv => NothingLeftInFlight
  BY DEF GoodInv, Good, NothingLeftInFlight
<1> QED
  BY <1>1, GoodAlways, PTL

-----------------------------------------------------------------------------
(* The Jobs a metric has counted.                                          *)

\* A status shows that the i-th measurement of m ended in p.
Shows(s, m, i, p) ==
    i \in DOMAIN s.results[m].history /\ s.results[m].history[i] = p

\* The Jobs of m that are in the state that makes a measurement end in p, or
\* that some version of the run has counted so.
Ended(m, p, state) ==
    {i \in JobIds : \/ jobs[m][i] = state
                    \/ Shows(status, m, i, p) \/ Shows(cache.status, m, i, p)
                    \/ Shows(new, m, i, p)
                    \/ \E k \in DOMAIN watch : Shows(watch[k].status, m, i, p)}

\* They are no more than the Jobs that ended like that.
CountInv ==
    \A m \in JobMetric :
        /\ Cardinality(Ended(m, "Successful", "complete")) <= ended[m].complete
        /\ Cardinality(Ended(m, "Failed", "failed")) <= ended[m].failed

\* The outcomes that are counted, with the state of the Job that has them.
Kinds == {<<"Successful", "complete">>, <<"Failed", "failed">>}

\* A measurement of a Job that is counted as a success or a failure is that of
\* the Job with its number, which has ended so.
LEMMA MeasuredJob ==
    ASSUME jobs \in [Metric -> [JobIds -> JobStates]],
           NEW m \in JobMetric, NEW st, NEW due, NEW t \in BOOLEAN, Sound(t, st),
           \A k \in due : Len(st.results[k].history) < MaxMeasurements,
           NEW o \in [Tasks(t, st, due) -> Completed],
           \A k \in JobMetric \cap DOMAIN o : o[k] \in {"Successful", "Error"},
           NEW p, NEW state, <<p, state>> \in Kinds, NEW i \in JobIds,
           Shows(Reconciled(t, st, due, o), m, i, p)
    PROVE Shows(st, m, i, p) \/ jobs[m][i] = state
<1> DEFINE T == IsTerminating(t, st.results)
           tasks == Tasks(t, st, due)
           rs == ResultsAfter(st, tasks, T, o)
           r == st.results[m]
           h == r.history
           x == TakeMeasurement(m, r, T, o[m])
           n == Reconciled(t, st, due, o)
<1>1. m \in Metric
  BY MetricAssumption
<1>2. n.results[m].history = rs[m].history
  <2>1. \A k \in Metric :
          Reconciled(t, st, due, o).results[k].history
            = ResultsAfter(st, Tasks(t, st, due), IsTerminating(t, st.results), o)[k].history
    <3>1. \A k \in due : Len(st.results[k].history) < MaxMeasurements
      OBVIOUS
    <3>2. \A k \in JobMetric \cap DOMAIN o : o[k] \in {"Successful", "Error"}
      OBVIOUS
    <3> HIDE DEF T, tasks, rs, r, h, x, n
    <3> QED
      BY <3>1, <3>2, ReconciledSound, SMTT(120)
  <2> QED
    BY <1>1, <2>1
<1>3. /\ Counted(m, r) /\ r \in ResultType /\ h \in Seq(Completed)
      /\ Assessed(m, r, T)
  BY <1>1 DEF Sound, SoundResults, ResultType
<1>4. CASE m \notin tasks
  <2>1. rs[m] = r
    BY <1>1, <1>4 DEF ResultsAfter
  <2> QED
    BY <1>2, <2>1 DEF Shows
<1>5. CASE m \in tasks
  <2>1. rs[m] = Record(r, x)
    BY <1>1, <1>5 DEF ResultsAfter
  <2>2. Answers(m, r, x) /\ (T => x.phase # "Running")
    <3>1. Task(m, st, due, T) /\ T \in BOOLEAN
      BY <1>1, <1>5, TasksFit
    <3>2. m \in due => Len(st.results[m].history) < MaxMeasurements
      OBVIOUS
    <3> DEFINE y == o[m]
    <3>3. y \in Completed /\ (m \in JobMetric => y \in {"Successful", "Error"})
      BY <1>5
    <3> HIDE DEF T, tasks, y
    <3>4. Counted(m, st.results[m]) /\ Assessed(m, st.results[m], T)
      BY <1>3
    <3>5. LET z == TakeMeasurement(m, st.results[m], T, y)
          IN  Answers(m, st.results[m], z) /\ (T => z.phase # "Running")
      BY <1>1, <3>1, <3>2, <3>3, <3>4, TaskAnswers, Zenon
    <3> QED
      BY <3>5 DEF y
  <2>3. rs[m].history = IF x.phase # "Running" THEN Append(h, x.phase) ELSE h
    <3>1. x \in MeasurementType /\ r \in ResultType
      BY <1>3, <2>2 DEF Answers
    <3> HIDE DEF x, r
    <3>2. Record(r, x).history = IF x.phase # "Running" THEN Append(r.history, x.phase)
                                 ELSE r.history
      BY <3>1, RecordFields, Zenon
    <3> QED
      BY <2>1, <3>2, Zenon DEF h
  <2>4. p \in {"Successful", "Failed"}
    BY DEF Kinds
  <2>5. CASE x.phase = "Running"
    BY <1>2, <2>3, <2>5 DEF Shows
  <2>6. CASE x.phase # "Running"
    <3>1. i \in DOMAIN Append(h, x.phase) /\ Append(h, x.phase)[i] = p
      BY <1>2, <2>3, <2>6 DEF Shows
    <3>2. x.phase \in Completed
      BY <2>2, <2>6 DEF Answers, MeasurementType
    <3>3. i \in DOMAIN h \/ (i = Len(h) + 1 /\ x.phase = p)
      <4> HIDE DEF h, x
      <4> QED
        BY <1>3, <3>1, <3>2
    <3>4. i \in DOMAIN h => h[i] = p
      <4> HIDE DEF h, x
      <4> QED
        BY <1>3, <3>1, <3>2
    <3>5. ASSUME i = Len(h) + 1, x.phase = p PROVE jobs[m][i] = state
      <4>1. InFlight(r)
        <5>1. o[m] \in {"Successful", "Error"}
          BY <1>5
        <5>2. ~InFlight(r) => x.phase \in {"Error", "Running"}
          BY <5>1 DEF TakeMeasurement
        <5> QED
          BY <2>4, <3>5, <5>2
      <4>2. Last(r).job = i
        BY <1>3, <3>5, <4>1 DEF Counted
      <4>3. x.phase = IF o[m] = "Error" THEN "Error" ELSE IF T THEN "Inconclusive"
                      ELSE JobPhase(m, i)
        BY <4>1, <4>2 DEF TakeMeasurement
      <4>4. JobPhase(m, i) = p
        BY <2>4, <3>5, <4>3
      <4>5. jobs[m][i] \in {"none", "created", "active", "stuck", "complete", "failed", "deleting"}
        BY <1>1 DEF JobStates
      <4> QED
        BY <2>4, <4>4, <4>5 DEF JobPhase, Kinds
    <3> QED
      BY <3>3, <3>4, <3>5 DEF Shows
  <2> QED
    BY <2>5, <2>6
<1> QED
  BY <1>4, <1>5

\* A status without measurements shows none.
LEMMA NothingShown == \A m \in Metric : \A i, p : ~Shows(NoStatus, m, i, p)
<1>1. \A m \in Metric : NoStatus.results[m].history = << >>
  BY Zenon DEF NoStatus, NoResult
<1>2. DOMAIN << >> = {}
  OBVIOUS
<1> QED
  BY <1>1, <1>2 DEF Shows

\* Appending a version shows what the others and that one show.
LEMMA AppendShows ==
    ASSUME NEW V, NEW w \in Seq(V), NEW v \in V, NEW m, NEW i, NEW p,
           NEW k \in DOMAIN Append(w, v), Shows(Append(w, v)[k].status, m, i, p)
    PROVE Shows(v.status, m, i, p) \/ \E l \in DOMAIN w : Shows(w[l].status, m, i, p)
<1> DEFINE u == Append(w, v)
<1>1. /\ Len(u) = Len(w) + 1 /\ Len(w) \in Nat /\ DOMAIN w = 1..Len(w) /\ DOMAIN u = 1..Len(u)
      /\ \A l \in 1..Len(w) : u[l] = w[l]
      /\ u[Len(w) + 1] = v
  BY AppendProperties, LenProperties
<1> HIDE DEF u
<1>2. k \in DOMAIN u /\ Shows(u[k].status, m, i, p)
  BY DEF u
<1>3. k = Len(w) + 1 \/ k \in 1..Len(w)
  BY <1>1, <1>2
<1> QED
  BY <1>1, <1>2, <1>3, Zenon

\* Only a Job that ends adds to the Jobs that ended: the controller counts no
\* other, though its copies are old and its patches are lost or repeated.
LEMMA EndedKept ==
    ASSUME SoundInv, NEW m \in JobMetric, NEW p, NEW state, <<p, state>> \in Kinds,
           NEW i \in JobIds, i \in Ended(m, p, state)',
           \/ \E due \in SUBSET Allowed : \E o \in Outcomes(due) : Reconcile(due, o)
           \/ SkipCompleted \/ LoseSecret \/ Persist \/ PersistFails
           \/ TimerFires \/ Deliver \/ Restart \/ TerminateRun \/ UNCHANGED vars
           \/ \E l \in JobMetric, j \in JobIds : JobSeen(l, j) \/ JobStuck(l, j)
    PROVE i \in Ended(m, p, state)
<1>1. /\ m \in Metric
      /\ jobs \in [Metric -> [JobIds -> JobStates]]
      /\ watch \in Seq(SoundVersions(terminate))
  BY MetricAssumption DEF SoundInv, Flags
<1>2. /\ state \in {"complete", "failed"}
      /\ \/ jobs'[m][i] = state
         \/ Shows(status', m, i, p) \/ Shows(cache'.status, m, i, p)
         \/ Shows(new', m, i, p)
         \/ \E k \in DOMAIN watch' : Shows(watch'[k].status, m, i, p)
  BY DEF Kinds, Ended, Shows
<1>3. SUFFICES \/ jobs[m][i] = state
               \/ Shows(status, m, i, p) \/ Shows(cache.status, m, i, p)
               \/ Shows(new, m, i, p)
               \/ \E k \in DOMAIN watch : Shows(watch[k].status, m, i, p)
  BY DEF Ended
<1>4. ASSUME NEW due \in SUBSET Allowed, NEW o \in Outcomes(due), Reconcile(due, o)
      PROVE  \/ jobs[m][i] = state \/ Shows(cache.status, m, i, p) \/ Shows(new, m, i, p)
             \/ Shows(status, m, i, p)
             \/ \E k \in DOMAIN watch : Shows(watch[k].status, m, i, p)
  <2> DEFINE n == Reconciled(cache.terminate, cache.status, due, o)
             after == JobsAfter(cache.status, Tasks(cache.terminate, cache.status, due),
                                IsTerminating(cache.terminate, cache.status.results), o)
  <2>1. /\ new' = new \/ new' = n
        /\ jobs' = after
        /\ UNCHANGED <<status, cache, watch>>
    BY <1>4, ReconcileEffect, Zenon DEF work, run
  <2>2. after[m][i] = state => jobs[m][i] = state
    <3>1. after[m][i] \in {"none", "deleting", "created", jobs[m][i]}
      BY <1>1, Zenon DEF JobsAfter
    <3> HIDE DEF after
    <3> QED
      BY <1>2, <3>1
  <2>3. Shows(n, m, i, p) => Shows(cache.status, m, i, p) \/ jobs[m][i] = state
    <3>1. cache.terminate \in BOOLEAN /\ Sound(cache.terminate, cache.status)
      BY DEF SoundInv, SoundVersions, VersionType
    <3>2. \A k \in due : Len(cache.status.results[k].history) < MaxMeasurements
      BY DEF Allowed
    <3>3. /\ o \in [Tasks(cache.terminate, cache.status, due) -> Completed]
          /\ \A k \in JobMetric \cap DOMAIN o : o[k] \in {"Successful", "Error"}
      BY DEF Outcomes
    <3> QED
      BY <1>1, <3>1, <3>2, <3>3, MeasuredJob, SMTT(120)
  <2> HIDE DEF n, after
  <2> QED
    BY <1>2, <2>1, <2>2, <2>3
<1>5. CASE LoseSecret
  <2>1. /\ new' = [cache.status EXCEPT !.phase = "Error"]
        /\ UNCHANGED <<status, cache, watch, jobs>>
    BY <1>5 DEF LoseSecret, run, cluster
  <2>2. cache.status \in StatusType
    BY DEF SoundInv, SoundVersions, Sound
  <2>3. new'.results = cache.status.results
    BY <2>1, <2>2 DEF StatusType
  <2>4. Shows(new', m, i, p) <=> Shows(cache.status, m, i, p)
    BY <2>3, Zenon DEF Shows
  <2> QED
    BY <1>2, <2>1, <2>4, Zenon
<1>6. CASE Persist
  <2> DEFINE patched == Patch(cache.status, new, status)
             v == [terminate |-> terminate, status |-> patched]
  <2>1. /\ status' = patched /\ new' = NoStatus
        /\ watch' = watch \/ watch' = Append(watch, v)
        /\ UNCHANGED <<cache, jobs>>
    BY <1>6 DEF Persist, Rest, cluster
  <2>2. patched.results \in {new.results, status.results}
    BY DEF Patch
  <2> HIDE DEF patched
  <2>3. Shows(patched, m, i, p) => Shows(new, m, i, p) \/ Shows(status, m, i, p)
    BY <2>2 DEF Shows
  <2>4. ASSUME NEW k \in DOMAIN watch', Shows(watch'[k].status, m, i, p)
        PROVE  Shows(patched, m, i, p) \/ \E l \in DOMAIN watch : Shows(watch[l].status, m, i, p)
    <3>1. CASE watch' = watch
      BY <2>4, <3>1
    <3>2. CASE watch' = Append(watch, v)
      <4> DEFINE V == SoundVersions(terminate) \cup {v}
      <4>1. watch \in Seq(V) /\ v \in V
        BY <1>1, SeqMonotonic
      <4>2. v.status = patched
        OBVIOUS
      <4> HIDE DEF v, V
      <4> QED
        BY <2>4, <3>2, <4>1, <4>2, AppendShows
    <3> QED
      BY <2>1, <3>1, <3>2
  <2>5. ~Shows(new', m, i, p)
    BY <1>1, <2>1, NothingShown
  <2> QED
    BY <1>2, <2>1, <2>3, <2>4, <2>5
<1>7. CASE SkipCompleted \/ TimerFires \/ UNCHANGED vars
  <2>1. UNCHANGED <<status, cache, watch, new, jobs>>
    BY <1>7 DEF SkipCompleted, Take, TimerFires, vars, run, queue, work, cluster
  <2> QED
    BY <1>2, <2>1
<1>8. CASE PersistFails
  <2>1. new' = NoStatus /\ UNCHANGED <<status, cache, watch, jobs>>
    BY <1>8 DEF PersistFails, Rest, run, cluster
  <2>2. ~Shows(new', m, i, p)
    BY <1>1, <2>1, NothingShown
  <2> QED
    BY <1>2, <2>1, <2>2
<1>9. CASE Deliver
  <2>1. /\ watch # << >> /\ cache' = Head(watch) /\ watch' = Tail(watch)
        /\ UNCHANGED <<status, new, jobs>>
    BY <1>9 DEF Deliver, run, work, cluster
  <2>2. /\ DOMAIN watch = 1..Len(watch) /\ DOMAIN watch' = 1..Len(watch')
        /\ Len(watch) \in Nat \ {0} /\ Len(watch') = Len(watch) - 1
        /\ Head(watch) = watch[1]
        /\ \A k \in 1..Len(watch') : watch'[k] = watch[k + 1]
    BY <1>1, <2>1, HeadTailProperties, LenProperties, EmptySeq
  <2>3. 1 \in DOMAIN watch /\ \A k \in DOMAIN watch' : k + 1 \in DOMAIN watch /\ watch'[k] = watch[k + 1]
    BY <2>2
  <2> QED
    BY <1>2, <2>1, <2>2, <2>3, Zenon
<1>10. CASE Restart
  <2>1. /\ new' = NoStatus /\ cache'.status = status /\ watch' = << >>
        /\ UNCHANGED <<status, jobs>>
    BY <1>10 DEF Restart, Rest, run, cluster
  <2>2. ~Shows(new', m, i, p)
    BY <1>1, <2>1, NothingShown
  <2>3. DOMAIN watch' = {}
    BY <2>1
  <2> QED
    BY <1>2, <2>1, <2>2, <2>3
<1>11. CASE TerminateRun
  <2> DEFINE v == [terminate |-> TRUE, status |-> status]
  <2>1. watch' = Append(watch, v) /\ UNCHANGED <<status, cache, new, jobs>>
    BY <1>11 DEF TerminateRun, work, cluster
  <2>2. ASSUME NEW k \in DOMAIN watch', Shows(watch'[k].status, m, i, p)
        PROVE  Shows(status, m, i, p) \/ \E l \in DOMAIN watch : Shows(watch[l].status, m, i, p)
    <3> DEFINE V == SoundVersions(terminate) \cup {v}
    <3>1. watch \in Seq(V) /\ v \in V
      BY <1>1, SeqMonotonic
    <3>2. v.status = status
      OBVIOUS
    <3> HIDE DEF v, V
    <3> QED
      BY <2>1, <2>2, <3>1, <3>2, AppendShows
  <2> QED
    BY <1>2, <2>1, <2>2
<1>12. ASSUME NEW l \in JobMetric, NEW j \in JobIds, JobSeen(l, j) \/ JobStuck(l, j)
       PROVE  \/ jobs[m][i] = state \/ Shows(cache.status, m, i, p) \/ Shows(new, m, i, p)
              \/ Shows(status, m, i, p)
              \/ \E k \in DOMAIN watch : Shows(watch[k].status, m, i, p)
  <2>1. /\ UNCHANGED <<status, cache, watch, new>>
        /\ \E s \in {"active", "none", "stuck"} : jobs' = [jobs EXCEPT ![l][j] = s]
    BY <1>12 DEF JobSeen, JobStuck, run, queue, work
  <2>2. jobs'[m][i] = state => jobs[m][i] = state
    <3>1. l \in Metric
      BY MetricAssumption
    <3>2. PICK s \in {"active", "none", "stuck"} : jobs' = [jobs EXCEPT ![l][j] = s]
      BY <2>1
    <3>3. jobs'[m][i] = IF m = l /\ i = j THEN s ELSE jobs[m][i]
      BY <1>1, <3>1, <3>2
    <3> QED
      BY <1>2, <3>2, <3>3
  <2> QED
    BY <1>2, <2>1, <2>2
<1> QED
  BY <1>4, <1>5, <1>6, <1>7, <1>8, <1>9, <1>10, <1>11, <1>12

\* Sets of Jobs are finite.
LEMMA JobSets ==
    ASSUME NEW S \in SUBSET JobIds
    PROVE IsFiniteSet(S) /\ Cardinality(S) \in Nat
<1>1. IsFiniteSet(JobIds)
  BY FS_Interval, BoundAssumption DEF JobIds
<1>2. IsFiniteSet(S)
  BY <1>1, FS_Subset
<1> QED
  BY <1>2, FS_CardinalityType

\* The Jobs that ended are Jobs.
LEMMA EndedSets ==
    \A m, p, state : /\ Ended(m, p, state) \in SUBSET JobIds
                     /\ Ended(m, p, state)' \in SUBSET JobIds
BY DEF Ended, JobIds

\* The Job that ends is counted when it ends.
LEMMA CountInductive == SoundInv /\ CountInv /\ [Next]_vars => CountInv'
<1> SUFFICES ASSUME SoundInv, CountInv, [Next]_vars,
                    NEW m \in JobMetric
             PROVE  /\ Cardinality(Ended(m, "Successful", "complete")') <= ended'[m].complete
                    /\ Cardinality(Ended(m, "Failed", "failed")') <= ended'[m].failed
  BY Zenon DEF CountInv
<1> DEFINE C == Ended(m, "Successful", "complete")
           F == Ended(m, "Failed", "failed")
           C1 == Ended(m, "Successful", "complete")'
           F1 == Ended(m, "Failed", "failed")'
<1>1. /\ Cardinality(C) <= ended[m].complete /\ Cardinality(F) <= ended[m].failed
      /\ m \in Metric /\ ended[m].complete \in Nat /\ ended[m].failed \in Nat
      /\ ended \in [Metric -> [complete : Nat, failed : Nat]]
  BY MetricAssumption DEF CountInv, SoundInv, Flags
<1>2. /\ C \in SUBSET JobIds /\ F \in SUBSET JobIds
      /\ C1 \in SUBSET JobIds /\ F1 \in SUBSET JobIds
  BY EndedSets, Zenon
<1>3. /\ <<"Successful", "complete">> \in Kinds /\ <<"Failed", "failed">> \in Kinds
  BY DEF Kinds
<1>4. CASE ~(\E l \in JobMetric, j \in JobIds : JobEnds(l, j))
  <2>1. \/ \E due \in SUBSET Allowed : \E o \in Outcomes(due) : Reconcile(due, o)
        \/ SkipCompleted \/ LoseSecret \/ Persist \/ PersistFails
        \/ TimerFires \/ Deliver \/ Restart \/ TerminateRun \/ UNCHANGED vars
        \/ \E l \in JobMetric, j \in JobIds : JobSeen(l, j) \/ JobStuck(l, j)
    BY <1>4, Zenon DEF Next
  <2>2. C1 \subseteq C /\ F1 \subseteq F
    <3>1. \A i \in JobIds : i \in C1 => i \in C
      BY <1>3, <2>1, EndedKept, Zenon
    <3>2. \A i \in JobIds : i \in F1 => i \in F
      BY <1>3, <2>1, EndedKept, Zenon
    <3> HIDE DEF C, F, C1, F1
    <3> QED
      BY <1>2, <3>1, <3>2
  <2>3. ended' = ended
    BY <2>1 DEF Reconcile, SkipCompleted, LoseSecret, Persist, PersistFails, TimerFires, Deliver,
                Restart, TerminateRun, JobSeen, JobStuck, vars, cluster
  <2> HIDE DEF C, F, C1, F1
  <2>4. Cardinality(C1) <= Cardinality(C) /\ Cardinality(F1) <= Cardinality(F)
    BY <1>2, <2>2, JobSets, FS_Subset
  <2>5. /\ Cardinality(C1) \in Nat /\ Cardinality(C) \in Nat
        /\ Cardinality(F1) \in Nat /\ Cardinality(F) \in Nat
    BY <1>2, JobSets
  <2>6. Cardinality(C1) <= ended'[m].complete /\ Cardinality(F1) <= ended'[m].failed
    BY <1>1, <2>3, <2>4, <2>5
  <2> QED
    BY <2>6 DEF C1, F1
<1>5. ASSUME NEW l \in JobMetric, NEW j \in JobIds, JobEnds(l, j)
      PROVE  Cardinality(C1) <= ended'[m].complete /\ Cardinality(F1) <= ended'[m].failed
  <2>1. PICK s \in {"complete", "failed"} :
          jobs' = [jobs EXCEPT ![l][j] = s] /\ ended' = [ended EXCEPT ![l][s] = @ + 1]
    BY <1>5 DEF JobEnds
  <2>2. UNCHANGED <<status, cache, watch, new>>
    BY <1>5 DEF JobEnds, run, work
  <2>3. l \in Metric /\ jobs \in [Metric -> [JobIds -> JobStates]]
    BY MetricAssumption DEF SoundInv, Flags
  <2>4. \A i \in JobIds : jobs'[m][i] = IF m = l /\ i = j THEN s ELSE jobs[m][i]
    BY <1>1, <2>1, <2>3
  <2>5. \A i \in C1 : i \in C \/ (m = l /\ i = j /\ s = "complete")
    BY <2>2, <2>4 DEF Ended, Shows
  <2>6. \A i \in F1 : i \in F \/ (m = l /\ i = j /\ s = "failed")
    BY <2>2, <2>4 DEF Ended, Shows
  <2> HIDE DEF C, F, C1, F1
  <2>7. /\ Cardinality(C1) \in Nat /\ Cardinality(C) \in Nat
        /\ Cardinality(F1) \in Nat /\ Cardinality(F) \in Nat
        /\ IsFiniteSet(C) /\ IsFiniteSet(F)
    BY <1>2, JobSets
  <2>8. \A S, T \in SUBSET JobIds : S \subseteq T => Cardinality(S) <= Cardinality(T)
    BY JobSets, FS_Subset
  <2>9. \A S \in SUBSET JobIds : /\ S \cup {j} \in SUBSET JobIds
                                 /\ Cardinality(S \cup {j}) <= Cardinality(S) + 1
    <3> SUFFICES ASSUME NEW S \in SUBSET JobIds
                 PROVE  /\ S \cup {j} \in SUBSET JobIds
                        /\ Cardinality(S \cup {j}) <= Cardinality(S) + 1
      OBVIOUS
    <3>1. IsFiniteSet(S) /\ Cardinality(S) \in Nat
      BY JobSets
    <3>2. Cardinality(S \cup {j}) = IF j \in S THEN Cardinality(S) ELSE Cardinality(S) + 1
      BY <3>1, FS_AddElement
    <3>3. Cardinality(S \cup {j}) <= Cardinality(S) + 1
      BY <3>1, <3>2
    <3> QED
      BY <3>3
  <2>10. /\ ended'[m].complete = IF m = l /\ s = "complete" THEN ended[m].complete + 1
                                 ELSE ended[m].complete
         /\ ended'[m].failed = IF m = l /\ s = "failed" THEN ended[m].failed + 1
                               ELSE ended[m].failed
    <3>1. CASE s = "complete"
      <4>1. ended' = [ended EXCEPT ![l].complete = @ + 1]
        BY <2>1, <3>1
      <4> QED
        BY <1>1, <2>3, <3>1, <4>1
    <3>2. CASE s = "failed"
      <4>1. ended' = [ended EXCEPT ![l].failed = @ + 1]
        BY <2>1, <3>2
      <4> QED
        BY <1>1, <2>3, <3>2, <4>1
    <3> QED
      BY <3>1, <3>2
  <2>11. Cardinality(C1) <= ended'[m].complete
    <3>1. CASE m = l /\ s = "complete"
      <4>1. C1 \subseteq C \cup {j}
        BY <2>5
      <4>2. Cardinality(C1) <= Cardinality(C) + 1
        <5>1. Cardinality(C1) <= Cardinality(C \cup {j}) /\ Cardinality(C \cup {j}) <= Cardinality(C) + 1
          BY <1>2, <2>8, <2>9, <4>1
        <5>2. Cardinality(C \cup {j}) \in Nat
          BY <1>2, <2>9, JobSets
        <5> QED
          BY <2>7, <5>1, <5>2
      <4> QED
        BY <1>1, <2>7, <2>10, <3>1, <4>2
    <3>2. CASE ~(m = l /\ s = "complete")
      <4>1. C1 \subseteq C
        BY <2>5, <3>2
      <4>2. Cardinality(C1) <= Cardinality(C)
        BY <1>2, <2>8, <4>1
      <4> QED
        BY <1>1, <2>7, <2>10, <3>2, <4>2
    <3> QED
      BY <3>1, <3>2
  <2>12. Cardinality(F1) <= ended'[m].failed
    <3>1. CASE m = l /\ s = "failed"
      <4>1. F1 \subseteq F \cup {j}
        BY <2>6
      <4>2. Cardinality(F1) <= Cardinality(F) + 1
        <5>1. Cardinality(F1) <= Cardinality(F \cup {j}) /\ Cardinality(F \cup {j}) <= Cardinality(F) + 1
          BY <1>2, <2>8, <2>9, <4>1
        <5>2. Cardinality(F \cup {j}) \in Nat
          BY <1>2, <2>9, JobSets
        <5> QED
          BY <2>7, <5>1, <5>2
      <4> QED
        BY <1>1, <2>7, <2>10, <3>1, <4>2
    <3>2. CASE ~(m = l /\ s = "failed")
      <4>1. F1 \subseteq F
        BY <2>6, <3>2
      <4>2. Cardinality(F1) <= Cardinality(F)
        BY <1>2, <2>8, <4>1
      <4> QED
        BY <1>1, <2>7, <2>10, <3>2, <4>2
    <3> QED
      BY <3>1, <3>2
  <2> QED
    BY <2>11, <2>12
<1> QED
  BY <1>4, <1>5

\* No Job has ended at first.
LEMMA CountInit == Init => CountInv
<1> SUFFICES ASSUME Init, NEW m \in JobMetric
             PROVE  /\ Cardinality(Ended(m, "Successful", "complete")) <= ended[m].complete
                    /\ Cardinality(Ended(m, "Failed", "failed")) <= ended[m].failed
  BY Zenon DEF CountInv
<1>1. m \in Metric
  BY MetricAssumption
<1>2. /\ ended[m].complete = 0 /\ ended[m].failed = 0
      /\ status = NoStatus /\ new = NoStatus /\ cache.status = NoStatus /\ watch = << >>
      /\ \A i \in JobIds : jobs[m][i] = "none"
  BY <1>1 DEF Init, NoJobs
<1>3. ASSUME NEW p, NEW state, state # "none" PROVE Ended(m, p, state) = {}
  <2>1. DOMAIN watch = {}
    BY <1>2
  <2> QED
    BY <1>1, <1>2, <1>3, <2>1, NothingShown DEF Ended
<1>4. Ended(m, "Successful", "complete") = {} /\ Ended(m, "Failed", "failed") = {}
  BY <1>3
<1>5. Cardinality({}) = 0
  BY FS_EmptySet, Zenon
<1>6. 0 <= 0
  OBVIOUS
<1> QED
  BY <1>2, <1>4, <1>5, <1>6, Zenon

\* However often a reconcile is repeated after a failed patch, from an old copy
\* or after a restart, the result of a Job is counted at most once.
THEOREM JobsCountedOnceHolds == Spec => []JobsCountedOnce
<1>1. SoundInv /\ CountInv => JobsCountedOnce
  <2> SUFFICES ASSUME SoundInv, CountInv, NEW m \in JobMetric
               PROVE  /\ status.results[m].successful <= ended[m].complete
                      /\ status.results[m].failed <= ended[m].failed
    BY Zenon DEF JobsCountedOnce
  <2> DEFINE r == status.results[m]
             h == r.history
             C == Ended(m, "Successful", "complete")
             F == Ended(m, "Failed", "failed")
             HC == {i \in DOMAIN h : h[i] \in {"Successful"}}
             HF == {i \in DOMAIN h : h[i] \in {"Failed"}}
  <2>1. m \in Metric /\ ended[m].complete \in Nat /\ ended[m].failed \in Nat
    BY MetricAssumption DEF SoundInv, Flags
  <2>2. Counted(m, r) /\ h \in Seq(Completed)
    BY <2>1 DEF SoundInv, Sound, SoundResults, ResultType
  <2>3. DOMAIN h \subseteq JobIds
    <3>1. Len(h) <= MaxMeasurements
      BY <2>2 DEF Counted
    <3> HIDE DEF h
    <3> QED
      BY <2>2, <3>1, LenProperties, BoundAssumption DEF JobIds
  <2>4. HC \subseteq C /\ HF \subseteq F
    BY <2>3 DEF Ended, Shows
  <2>5. r.successful = Cardinality(HC) /\ r.failed = Cardinality(HF)
    BY <2>2, Zenon DEF Counted, Times
  <2>6. C \in SUBSET JobIds /\ F \in SUBSET JobIds
    BY EndedSets, Zenon
  <2>7. Cardinality(C) <= ended[m].complete /\ Cardinality(F) <= ended[m].failed
    BY Zenon DEF CountInv
  <2> HIDE DEF C, F, HC, HF
  <2>8. /\ Cardinality(HC) <= Cardinality(C) /\ Cardinality(HF) <= Cardinality(F)
        /\ Cardinality(HC) \in Nat /\ Cardinality(C) \in Nat
        /\ Cardinality(HF) \in Nat /\ Cardinality(F) \in Nat
    BY <2>4, <2>6, JobSets, FS_Subset
  <2> HIDE DEF r
  <2>9. r.successful <= ended[m].complete /\ r.failed <= ended[m].failed
    BY <2>1, <2>5, <2>7, <2>8
  <2> QED
    BY <2>9 DEF r
<1> QED
  BY <1>1, SoundAlways, CountInit, CountInductive, PTL DEF Spec
=============================================================================
