CONSTANTS
    Hash = {a, b}
    NoHash = NoHash
    ReplicaCounts = {1, 2}
    Strategies <- Analysed
    UserActions = {"setTemplate", "abort", "retry", "promote", "scale"}
    MaxRuns = 3
    MaxUserActions = 3
    MaxPodFailures = 0
    MaxPassFailures = 1
SPECIFICATION MCFairSpec
INVARIANTS TypeOK
PROPERTIES PauseNeedsUser StepNeedsAnalysis UpdateSettles NoOrphanRuns
