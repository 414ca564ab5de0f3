---------------------------- MODULE AnalysisRun ----------------------------
(***************************************************************************)
(* The analysis controller (analysis/analysis.go, controller.go, sync.go,  *)
(* metricproviders/job) working on one AnalysisRun.                        *)
(*                                                                         *)
(* A reconcile reads the run from the informer cache, takes or resumes the *)
(* measurements that are due, assesses the metrics and the run, and ends   *)
(* with a merge patch of the status.  The patch is made against the copy   *)
(* that was read and carries no resource version; the cache follows the    *)
(* API server with a delay, patches fail and the controller restarts.      *)
(*                                                                         *)
(* A metric of JobMetric is measured by a Kubernetes Job that runs for a   *)
(* while; the others answer at once.  Whether a measurement interval, a    *)
(* resume time or an initial delay has passed is a choice of each          *)
(* reconcile.                                                              *)
(***************************************************************************)
EXTENDS Integers, Sequences, FiniteSets

CONSTANTS
    Metric,
    JobMetric,                \* the metrics measured by a Job
    DryRun,                   \* the metrics run in dry-run mode
    Repeated,                 \* the metrics with an interval
    Delayed,                  \* the metrics with an initialDelay
    Count,                    \* by metric; 0 if unset
    FailureLimit,             \* by metric; -1 turns it off
    InconclusiveLimit,
    ConsecutiveErrorLimit,
    ConsecutiveSuccessLimit,  \* by metric; 0 turns it off
    Retention,                \* measurements kept in the status, of each metric
    SecretArgs,               \* BOOLEAN: an argument comes from a Secret
    MaxMeasurements,          \* bound: measurements of a metric
    MaxLag,                   \* bound: versions the cache is behind a reconcile
    MaxFaults                 \* bound: failed patches, restarts and lost secrets

\* spec.metrics as ValidateMetric lets it through
ValidMetric(m) ==
    /\ ConsecutiveSuccessLimit[m] >= 0 /\ FailureLimit[m] >= -1
    /\ ~(ConsecutiveSuccessLimit[m] = 0 /\ FailureLimit[m] = -1)
    /\ InconclusiveLimit[m] >= 0 /\ ConsecutiveErrorLimit[m] >= 0
    /\ Count[m] > 0 =>
         /\ Count[m] >= ConsecutiveSuccessLimit[m]
                          + (IF FailureLimit[m] >= 0 THEN FailureLimit[m] ELSE 0)
         /\ Count[m] >= InconclusiveLimit[m]
    /\ Count[m] > 1 => m \in Repeated

ASSUME MetricAssumption ==
    /\ IsFiniteSet(Metric)
    /\ JobMetric \subseteq Metric /\ DryRun \subseteq Metric
    /\ Repeated \subseteq Metric /\ Delayed \subseteq Metric
ASSUME LimitAssumption ==
    /\ Count \in [Metric -> Nat] /\ FailureLimit \in [Metric -> Int]
    /\ InconclusiveLimit \in [Metric -> Nat] /\ ConsecutiveErrorLimit \in [Metric -> Nat]
    /\ ConsecutiveSuccessLimit \in [Metric -> Nat]
    /\ \A m \in Metric : ValidMetric(m)
ASSUME BoundAssumption ==
    /\ Retention \in Nat \ {0} /\ SecretArgs \in BOOLEAN
    /\ MaxMeasurements \in Nat \ {0} /\ MaxLag \in Nat /\ MaxFaults \in Nat

VARIABLES
    terminate,   \* AnalysisRun.spec.terminate, as the API server stores it
    status,      \* AnalysisRun.status, as the API server stores it
    cache,       \* the lister's copy of the run
    watch,       \* the versions on their way to the cache, oldest first
    queued,      \* the run is in the work queue
    armed,       \* the work queue will add the run at its next reconcile time
    pc,          \* "idle", or "persist" when the reconcile is about to patch
    new,         \* the status it computed
    measured,    \* its patch has measurements, which carry new times
    jobs,        \* the Jobs, by metric and number
    ended,       \* history: Jobs of each metric that completed, and failed
    overwritten, \* history: a patch was made against an old status
    faults       \* what is left of MaxFaults

run == <<terminate, status>>
queue == <<cache, watch, queued, armed>>
work == <<pc, new, measured>>
cluster == <<jobs, ended>>
vars == <<run, queue, work, cluster, overwritten, faults>>

----------------------------------------------------------------------------
(* The objects.  A metric without a MetricResult has the phase "".         *)

Completed == {"Successful", "Failed", "Error", "Inconclusive"}
Phases == Completed \cup {"", "Running"}
JobIds == 1..MaxMeasurements
\* A Job that was "created" is not in the lister yet; one that is "deleting" is
\* still there until its pods are gone.
JobStates == {"none", "created", "active", "stuck", "complete", "failed", "deleting"}

NoResult == [phase |-> "", count |-> 0, successful |-> 0, failed |-> 0,
             inconclusive |-> 0, error |-> 0, consecutiveError |-> 0,
             consecutiveSuccess |-> 0, measurements |-> <<>>, history |-> <<>>]
NoStatus == [phase |-> "", started |-> FALSE, completedAt |-> FALSE,
             results |-> [m \in Metric |-> NoResult]]
NoJobs == [m \in Metric |-> [i \in JobIds |-> "none"]]

MeasurementType == [phase : Completed \cup {"Running"}, job : 0..MaxMeasurements]

\* mutant: an Error does not count as an end
IsCompletedUnlessError(p) == p \in {"Successful", "Failed", "Inconclusive"}

\* AnalysisPhase.Completed
IsCompleted(p) == p \in {"Successful", "Failed", "Error", "Inconclusive"}

Last(r) == r.measurements[Len(r.measurements)]
Measured(r) == r.measurements # <<>>
InFlight(r) == Measured(r) /\ Last(r).phase = "Running"

----------------------------------------------------------------------------
(* The assessment of a metric, from its counters.                          *)

\* 0 stands for nil: the metric runs until the run is terminated
EffectiveCount(m) == IF Count[m] = 0 /\ m \notin Repeated THEN 1 ELSE Count[m]

CountReached(m, r) == EffectiveCount(m) # 0 /\ r.count >= EffectiveCount(m)

LimitExceeded(m, r) ==
    IF r.consecutiveError > ConsecutiveErrorLimit[m] THEN "Error"
    ELSE IF r.inconclusive > InconclusiveLimit[m] THEN "Inconclusive"
    ELSE IF FailureLimit[m] >= 0 /\ r.failed > FailureLimit[m] THEN "Failed"
    ELSE ""

SuccessLimitReached(m, r) ==
    ConsecutiveSuccessLimit[m] > 0 /\ r.consecutiveSuccess >= ConsecutiveSuccessLimit[m]

\* the verdict of a metric whose count is reached with no limit exceeded
VerdictAtCount(m) ==
    IF ConsecutiveSuccessLimit[m] = 0 THEN "Successful"
    ELSE IF FailureLimit[m] >= 0 THEN "Inconclusive" ELSE "Failed"

AssessMetric(m, r, terminating) ==
    CASE IsCompleted(r.phase) -> r.phase
      [] ~IsCompleted(r.phase) /\ InFlight(r) -> "Running"
      [] OTHER ->
           IF LimitExceeded(m, r) # "" THEN LimitExceeded(m, r)
           ELSE IF SuccessLimitReached(m, r) THEN "Successful"
           ELSE IF CountReached(m, r) THEN VerdictAtCount(m)
           ELSE IF terminating THEN "Successful" ELSE "Running"

----------------------------------------------------------------------------
(* The assessment of the run.                                              *)

\* mutant: metrics in dry-run mode count
IsTerminatingOnDryRun(spec, results) ==
    spec \/ \E m \in Metric : results[m].phase \in {"Failed", "Error", "Inconclusive"}

IsTerminating(spec, results) ==
    \/ spec
    \/ \E m \in Metric \ DryRun : results[m].phase \in {"Failed", "Error", "Inconclusive"}

\* mutant: an Error is worse than a failure
BadnessErrorLast == [p \in Completed |-> CASE p = "Successful" -> 0 [] p = "Inconclusive" -> 1
                                           [] p = "Error" -> 3 [] p = "Failed" -> 2]

Badness == [p \in Completed |-> CASE p = "Successful" -> 0 [] p = "Inconclusive" -> 1
                                  [] p = "Error" -> 2 [] p = "Failed" -> 3]

\* the worst verdict of the metrics that have one, those in dry-run mode aside
WorstStatus(results) ==
    LET done == {m \in Metric : IsCompleted(results[m].phase)}
    IN  IF \E m \in done : m \notin DryRun
        THEN CHOOSE p \in {results[m].phase : m \in done \ DryRun} :
               \A m \in done \ DryRun : Badness[results[m].phase] <= Badness[p]
        ELSE IF done # {} THEN "Successful" ELSE ""

\* mutant: does not wait for the metrics still running
AssessRunAtOnce(results, terminating) ==
    IF WorstStatus(results) = "" THEN (IF terminating THEN "Successful" ELSE "Running")
    ELSE WorstStatus(results)

AssessRun(results, terminating) ==
    LET worst == WorstStatus(results)
    IN  IF terminating THEN (IF worst = "" THEN "Successful" ELSE worst)
        ELSE IF worst = "" \/ \E m \in Metric : ~IsCompleted(results[m].phase)
             THEN "Running" ELSE worst

\* assessRunStatus and the update of the phase in reconcileAnalysisRun.
\* Whether the run is terminating is decided before the metrics are assessed.
Assess(spec, st, results) ==
    LET terminating == IsTerminating(spec, results)
        assessed == [m \in Metric |->
                       IF Measured(results[m])
                       THEN [results[m] EXCEPT !.phase = AssessMetric(m, results[m], terminating)]
                       ELSE results[m]]
        phase == AssessRun(assessed, terminating)
    IN  [st EXCEPT !.started = TRUE, !.phase = phase, !.results = assessed,
                   !.completedAt = @ \/ (phase # st.phase /\ IsCompleted(phase))]

----------------------------------------------------------------------------
(* The measurements of a reconcile.                                        *)

\* generateMetricTasks; due has the metrics whose interval, resume time or
\* initial delay has passed
Tasks(spec, st, due) ==
    LET terminating == IsTerminating(spec, st.results)
        wanted(m, r) ==
          IF InFlight(r) THEN terminating \/ m \in due
          ELSE /\ ~terminating
               /\ IF Measured(r) THEN ~CountReached(m, r) /\ m \in due
                  ELSE m \in Delayed => st.started /\ m \in due
    IN  {m \in Metric : /\ ~IsCompleted(st.results[m].phase)
                        /\ wanted(m, st.results[m])}

\* mutants: the Job is numbered after the measurements kept, or from two
JobIdFromMeasurements(r) == Len(r.measurements) + 1
JobIdFromTwo(r) == r.count + r.error + 2

\* the number of the Job of the next measurement
JobIdSuffix(r) == r.count + r.error + 1

\* the phase a Resume finds, from the job and pod listers
JobPhase(m, id) ==
    CASE jobs[m][id] \in {"none", "created"} -> "Error"
      [] jobs[m][id] \in {"active", "deleting"} -> "Running"
      [] jobs[m][id] = "stuck" -> "Inconclusive"
      [] jobs[m][id] = "complete" -> "Successful"
      [] jobs[m][id] = "failed" -> "Failed"

\* provider.Run, Resume or Terminate.  The outcome "Error" of a Job is an API
\* call that failed.
TakeMeasurement(m, r, terminating, outcome) ==
    IF m \notin JobMetric THEN [phase |-> outcome, job |-> 0]
    ELSE IF InFlight(r)
         THEN [phase |-> IF outcome = "Error" THEN "Error"
                         ELSE IF terminating THEN "Inconclusive"
                         ELSE JobPhase(m, Last(r).job),
               job |-> Last(r).job]
         ELSE IF outcome = "Error" THEN [phase |-> "Error", job |-> 0]
         ELSE [phase |-> "Running", job |-> JobIdSuffix(r)]

\* the counters and the list of measurements after one measurement
Record(r, x) ==
    LET one(P) == IF x.phase \in P THEN 1 ELSE 0
        done == IsCompleted(x.phase)
        reset(n, p) == IF ~done THEN n ELSE IF x.phase = p THEN n + 1 ELSE 0
    IN  [r EXCEPT !.phase = IF @ = "" THEN "Running" ELSE @,
                  !.count = @ + one({"Successful", "Failed", "Inconclusive"}),
                  !.successful = @ + one({"Successful"}),
                  !.failed = @ + one({"Failed"}),
                  !.inconclusive = @ + one({"Inconclusive"}),
                  !.error = @ + one({"Error"}),
                  !.consecutiveError = reset(@, "Error"),
                  !.consecutiveSuccess = reset(@, "Successful"),
                  !.measurements = IF InFlight(r) THEN [@ EXCEPT ![Len(@)] = x]
                                   ELSE Append(@, x),
                  !.history = IF done THEN Append(@, x.phase) ELSE @]

\* the Jobs after the tasks of a reconcile: Run creates one unless it exists,
\* Terminate deletes it
JobsAfter(st, tasks, terminating, outcome) ==
    [m \in Metric |-> [i \in JobIds |->
        LET r == st.results[m]
            called == m \in tasks \cap JobMetric /\ outcome[m] # "Error"
        IN  IF called /\ InFlight(r) /\ terminating /\ i = Last(r).job
            THEN IF jobs[m][i] \in {"none", "complete", "failed"} THEN "none" ELSE "deleting"
            ELSE IF called /\ ~InFlight(r) /\ i = JobIdSuffix(r) /\ jobs[m][i] = "none"
                 THEN "created"
            ELSE jobs[m][i]]]

\* garbageCollectMeasurements keeps the latest measurements
Trim(r) ==
    IF Len(r.measurements) <= Retention THEN r
    ELSE [r EXCEPT !.measurements = SubSeq(@, Len(@) - Retention + 1, Len(@))]

\* mutant: only an interval brings the run back, not an error to retry
NeedsReconcileForInterval(st) ==
    \E m \in Metric :
        LET r == st.results[m]
        IN  /\ ~IsCompleted(r.phase)
            /\ IF ~Measured(r) THEN m \in Delayed
               ELSE InFlight(r) \/ (~CountReached(m, r) /\ m \in Repeated)

\* calculateNextReconcileTime is not nil
NeedsReconcile(st) ==
    \E m \in Metric :
        LET r == st.results[m]
        IN  /\ ~IsCompleted(r.phase)
            /\ IF ~Measured(r) THEN m \in Delayed
               ELSE \/ InFlight(r)
                    \/ ~CountReached(m, r) /\ (Last(r).phase = "Error" \/ m \in Repeated)

----------------------------------------------------------------------------
(* The controller.                                                         *)

Init ==
    /\ terminate = FALSE /\ status = NoStatus
    /\ cache = [terminate |-> FALSE, status |-> NoStatus]
    /\ watch = <<>> /\ queued = TRUE /\ armed = FALSE
    /\ pc = "idle" /\ new = NoStatus /\ measured = FALSE
    /\ jobs = NoJobs
    /\ ended = [m \in Metric |-> [complete |-> 0, failed |-> 0]]
    /\ overwritten = FALSE /\ faults = MaxFaults

\* a worker takes the run from the queue and reads it from the cache
Take ==
    /\ pc = "idle" /\ queued /\ Len(watch) <= MaxLag
    /\ queued' = FALSE

\* measurements the bound still allows
Allowed == {m \in Metric : Len(cache.status.results[m].history) < MaxMeasurements}

\* what the providers may answer to the tasks of a reconcile
Outcomes(due) ==
    {o \in [Tasks(cache.terminate, cache.status, due) -> Completed] :
       \A m \in JobMetric \cap DOMAIN o : o[m] \in {"Successful", "Error"}}

\* the results of the metrics once the tasks of a reconcile are done
ResultsAfter(st, tasks, terminating, outcome) ==
    [m \in Metric |->
       IF m \in tasks
       THEN Record(st.results[m], TakeMeasurement(m, st.results[m], terminating, outcome[m]))
       ELSE st.results[m]]

\* reconcileAnalysisRun of a run that has not completed, up to its patch
Reconcile(due, outcome) ==
    /\ Take
    /\ ~IsCompleted(cache.status.phase)
    /\ LET st == cache.status
           tasks == Tasks(cache.terminate, st, due)
           terminating == IsTerminating(cache.terminate, st.results)
       IN  \E results \in {ResultsAfter(st, tasks, terminating, outcome)} :
           \E assessed \in {Assess(cache.terminate, st, results)} :
           LET result == [assessed EXCEPT !.results = [m \in Metric |-> Trim(@[m])]]
           IN  /\ IF result = st /\ tasks = {} THEN UNCHANGED work
                  ELSE pc' = "persist" /\ new' = result /\ measured' = (tasks # {})
               /\ jobs' = JobsAfter(st, tasks, terminating, outcome)
               /\ armed' = (armed \/ NeedsReconcile(result))
    /\ UNCHANGED <<run, cache, watch, ended, overwritten, faults>>

\* a completed run is left as it is
SkipCompleted ==
    /\ Take
    /\ IsCompleted(cache.status.phase)
    /\ UNCHANGED <<run, cache, watch, armed, work, cluster, overwritten, faults>>

\* resolveArgs does not find the Secret of an argument: the run ends in Error,
\* without a completion time
LoseSecret ==
    /\ SecretArgs /\ faults > 0
    /\ Take
    /\ ~IsCompleted(cache.status.phase)
    /\ pc' = "persist"
    /\ new' = [cache.status EXCEPT !.phase = "Error"] /\ measured' = FALSE
    /\ faults' = faults - 1
    /\ UNCHANGED <<run, cache, watch, armed, cluster, overwritten>>

\* what the patch from o to n makes of the stored status st
Patch(o, n, st) ==
    [phase |-> IF n.phase # o.phase THEN n.phase ELSE st.phase,
     started |-> IF n.started # o.started THEN n.started ELSE st.started,
     completedAt |-> IF n.completedAt # o.completedAt THEN n.completedAt ELSE st.completedAt,
     results |-> IF n.results # o.results \/ measured THEN n.results ELSE st.results]

\* the worker is done with the run
Rest == pc' = "idle" /\ new' = NoStatus /\ measured' = FALSE

\* persistAnalysisRunStatus
Persist ==
    LET patched == Patch(cache.status, new, status)
    IN  /\ pc = "persist"
        /\ Rest
        /\ status' = patched
        /\ watch' = IF patched = status /\ ~measured THEN watch
                    ELSE Append(watch, [terminate |-> terminate, status |-> patched])
        /\ overwritten' = (overwritten \/ cache.status # status)
        /\ UNCHANGED <<terminate, cache, queued, armed, cluster, faults>>

\* the patch fails and the work queue retries the run
PersistFails ==
    /\ pc = "persist" /\ faults > 0
    /\ Rest
    /\ queued' = TRUE
    /\ faults' = faults - 1
    /\ UNCHANGED <<run, cache, watch, armed, cluster, overwritten>>

\* the time the run was to be added to the work queue again
TimerFires ==
    /\ armed
    /\ armed' = FALSE /\ queued' = TRUE
    /\ UNCHANGED <<run, cache, watch, work, cluster, overwritten, faults>>

\* The informer hands a version of the run to the cache and to the queue.  One
\* that arrives during a reconcile, which has read its copy already, is left
\* until the reconcile is over.
Deliver ==
    /\ pc = "idle" /\ watch # <<>>
    /\ cache' = Head(watch) /\ watch' = Tail(watch) /\ queued' = TRUE
    /\ UNCHANGED <<run, armed, work, cluster, overwritten, faults>>

\* the controller restarts: its queue and caches are built anew
Restart ==
    /\ faults > 0
    /\ Rest
    /\ cache' = [terminate |-> terminate, status |-> status]
    /\ watch' = <<>> /\ queued' = TRUE /\ armed' = FALSE
    /\ faults' = faults - 1
    /\ UNCHANGED <<run, cluster, overwritten>>

----------------------------------------------------------------------------
(* The environment.                                                        *)

\* the rollout controller, or a user, asks the run to stop
TerminateRun ==
    /\ ~terminate
    /\ terminate' = TRUE
    /\ watch' = Append(watch, [terminate |-> TRUE, status |-> status])
    /\ UNCHANGED <<status, cache, queued, armed, work, cluster, overwritten, faults>>

\* the lister sees a new Job, or a deleted one is gone
JobSeen(m, i) ==
    /\ jobs[m][i] \in {"created", "deleting"}
    /\ jobs' = [jobs EXCEPT ![m][i] = IF @ = "created" THEN "active" ELSE "none"]
    /\ UNCHANGED <<run, queue, work, ended, overwritten, faults>>

\* the lister sees a Job stuck on its image
JobStuck(m, i) ==
    /\ jobs[m][i] = "active"
    /\ jobs' = [jobs EXCEPT ![m][i] = "stuck"]
    /\ UNCHANGED <<run, queue, work, ended, overwritten, faults>>

\* the lister sees a Job that has ended, which puts the run in the queue
JobEnds(m, i) ==
    /\ jobs[m][i] \in {"active", "stuck"}
    /\ \E s \in {"complete", "failed"} :
         /\ jobs' = [jobs EXCEPT ![m][i] = s]
         /\ ended' = [ended EXCEPT ![m][s] = @ + 1]
    /\ queued' = TRUE
    /\ UNCHANGED <<run, cache, watch, armed, work, overwritten, faults>>

Next ==
    \/ \E due \in SUBSET Allowed : \E o \in Outcomes(due) : Reconcile(due, o)
    \/ SkipCompleted \/ LoseSecret \/ Persist \/ PersistFails
    \/ TimerFires \/ Deliver \/ Restart \/ TerminateRun
    \/ \E m \in JobMetric, i \in JobIds : JobSeen(m, i) \/ JobStuck(m, i) \/ JobEnds(m, i)

Spec == Init /\ [][Next]_vars

\* The queue, the patch and the informers make progress, Jobs end, and a run
\* that is reconciled again and again is reconciled once when all is due.
Fairness ==
    /\ SF_vars(\E o \in Outcomes(Allowed) : Reconcile(Allowed, o))
    /\ WF_vars(Persist) /\ WF_vars(TimerFires) /\ WF_vars(Deliver)
    /\ \A m \in JobMetric, i \in JobIds : WF_vars(JobSeen(m, i) \/ JobEnds(m, i))

FairSpec == Spec /\ Fairness

----------------------------------------------------------------------------
(* Properties.                                                             *)

ResultType == [phase : Phases, count : Nat, successful : Nat, failed : Nat,
               inconclusive : Nat, error : Nat, consecutiveError : Nat,
               consecutiveSuccess : Nat, measurements : Seq(MeasurementType),
               history : Seq(Completed)]
StatusType == [phase : Phases, started : BOOLEAN, completedAt : BOOLEAN,
               results : [Metric -> ResultType]]
VersionType == [terminate : BOOLEAN, status : StatusType]

\* Every variable has its type.
TypeOK ==
    /\ terminate \in BOOLEAN /\ status \in StatusType
    /\ cache \in VersionType /\ watch \in Seq(VersionType)
    /\ queued \in BOOLEAN /\ armed \in BOOLEAN
    /\ pc \in {"idle", "persist"} /\ new \in StatusType /\ measured \in BOOLEAN
    /\ jobs \in [Metric -> [JobIds -> JobStates]]
    /\ ended \in [Metric -> [complete : Nat, failed : Nat]]
    /\ overwritten \in BOOLEAN /\ faults \in 0..MaxFaults

\* How often one of P was measured, and how often p was measured last.
Times(h, P) == Cardinality({i \in DOMAIN h : h[i] \in P})
Streak(h, p) ==
    CHOOSE n \in 0..Len(h) :
        /\ \A i \in Len(h) - n + 1 .. Len(h) : h[i] = p
        /\ n = Len(h) \/ h[Len(h) - n] # p

\* The verdict that docs/features/analysis.md gives a metric measured as h.
Verdict(m, h) ==
    IF Streak(h, "Error") > ConsecutiveErrorLimit[m] THEN "Error"
    ELSE IF Times(h, {"Inconclusive"}) > InconclusiveLimit[m] THEN "Inconclusive"
    ELSE IF FailureLimit[m] # -1 /\ Times(h, {"Failed"}) > FailureLimit[m] THEN "Failed"
    ELSE IF ConsecutiveSuccessLimit[m] # 0 /\ Streak(h, "Successful") >= ConsecutiveSuccessLimit[m]
         THEN "Successful"
    ELSE IF (IF Count[m] = 0 THEN m \in Repeated
             ELSE Times(h, Completed \ {"Error"}) < Count[m])
            \/ Times(h, Completed \ {"Error"}) = 0
         THEN ""
    ELSE IF ConsecutiveSuccessLimit[m] = 0 THEN "Successful"
    ELSE IF FailureLimit[m] = -1 THEN "Failed" ELSE "Inconclusive"

\* The metrics whose verdict counts and is not a success.
Unsuccessful(results) ==
    {m \in Metric \ DryRun : results[m].phase \in Completed \ {"Successful"}}

\* A metric is measured until its measurements decide it and never after, and
\* gets the verdict they decide, whatever measurements are retaken, lost or
\* trimmed; only a terminating run calls an undecided metric successful, and a
\* dry-run metric does not make a run terminate.
MeasuredUntilDecided ==
    \A m \in Metric :
        LET r == status.results[m]
            h == r.history
        IN  /\ \A n \in 0..Len(h) - 1 : Verdict(m, SubSeq(h, 1, n)) = ""
            /\ Measured(r) /\ ~InFlight(r) =>
                 IF Verdict(m, h) # "" THEN r.phase = Verdict(m, h)
                 ELSE \/ r.phase = "Running"
                      \/ /\ r.phase = "Successful"
                         /\ terminate \/ Unsuccessful(status.results) # {}

\* A run that was assessed has the worst verdict of its metrics, those in
\* dry-run mode aside, and no measurement is left in flight.
RunVerdictIsWorst ==
    status.completedAt /\ ~overwritten =>
        LET bad == {status.results[m].phase : m \in Unsuccessful(status.results)}
        IN  status.phase = IF "Failed" \in bad THEN "Failed"
                           ELSE IF "Error" \in bad THEN "Error"
                           ELSE IF "Inconclusive" \in bad THEN "Inconclusive"
                           ELSE "Successful"
NothingLeftInFlight ==
    status.completedAt /\ ~overwritten => \A m \in Metric : ~InFlight(status.results[m])

\* Though a reconcile may be repeated, lost or run from an old status, the
\* result of a Job is counted at most once.
JobsCountedOnce ==
    \A m \in JobMetric :
        /\ status.results[m].successful <= ended[m].complete
        /\ status.results[m].failed <= ended[m].failed

\* The verdict of a run is final, unless a patch made against an old status
\* overwrites it.
VerdictIsFinal ==
    [][status.phase \in Completed /\ ~overwritten' => status'.phase = status.phase]_vars

\* A run whose metrics all have a count completes, and so does any run that is
\* asked to terminate.
AllCounted == \A m \in Metric : Count[m] > 0 \/ m \notin Repeated
RunCompletes == (AllCounted \/ terminate) ~> status.phase \in Completed
=============================================================================
