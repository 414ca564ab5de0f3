---------------------------- MODULE MCExperiment ----------------------------
(* Instances of Experiment.                                                 *)
EXTENDS Experiment, TLC

\* Runs only for its duration; or until its analyses completed, too.
Timed == [required |-> {}, duration |-> TRUE, delay |-> TRUE]
TimedAndAwaited == [required |-> Analysis, duration |-> TRUE, delay |-> FALSE]
FaultySpecs == {Timed, TimedAndAwaited}

\* Ends with its analyses.
Awaited == [required |-> Analysis, duration |-> FALSE, delay |-> FALSE]
AwaitedOnly == {Awaited}

\* One kind of fault in a behaviour.
OneKind == Cardinality({kind \in DOMAIN budget : budget[kind] > 0}) = 1
Budgets == [pods : {0, MaxPodFailures}, api : {0, MaxApiFailures},
            passes : {0, MaxPassFailures}, stale : {0, MaxStalePasses}]
MCInit == InitWith(Budgets) /\ OneKind
MCSpec == MCInit /\ [][Next]_vars
MCFairSpec == MCSpec /\ Fairness
=============================================================================
