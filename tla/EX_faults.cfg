CONSTANTS
    Template = {t}
    WithService = {t}
    Analysis = {a}
    Specs <- FaultySpecs
    Replicas = 1
    Endings = {"Successful", "Failed"}
    MaxRuns = 2
    MaxPodFailures = 1
    MaxApiFailures = 1
    MaxPassFailures = 1
    MaxStalePasses = 1
SPECIFICATION MCFairSpec
INVARIANTS TypeOK
PROPERTIES TrialIsImplemented SuccessIsEarned ExperimentEnds CleansUp
