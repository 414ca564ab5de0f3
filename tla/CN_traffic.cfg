CONSTANTS
    Hash = {a, b}
    NoHash = NoHash
    ReplicaCounts = {1, 2}
    Strategies <- Routed
    UserActions = {"setTemplate", "abort", "retry", "promoteFull", "pause"}
    MaxRuns = 0
    MaxUserActions = 3
    MaxPodFailures = 1
    MaxPassFailures = 1
SPECIFICATION MCFairSpec
PROPERTIES CapacityFollowsTraffic CanaryReadyForMore UpdateSettles AbortRestoresTraffic OldVersionsScaledDown
