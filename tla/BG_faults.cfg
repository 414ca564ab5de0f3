CONSTANTS
    Hash = {a, b}
    NoHash = NoHash
    ReplicaCounts = {1}
    NoCount = NoCount
    PreviewReplicaCount = NoCount
    AutoPromotionEnabled = TRUE
    HasAutoPromotionSeconds = FALSE
    PrePromotionAnalysis = TRUE
    PostPromotionAnalysis = TRUE
    ScaleDownDelay = "nil"
    AbortScaleDownDelay = FALSE
    ScaleDownDelayRevisionLimit = 3
    RevisionHistoryLimit = 1
    RollbackWindow = 0
    ProgressDeadlineAbort = FALSE
    FirstDeploy = TRUE
    UserActions = {"setTemplate", "promote", "promoteFull", "pause", "abort"}
    MaxRuns = 4
    MaxUserActions = 2
    MaxPodFailures = 0
    MaxPassFailures = 1
SPECIFICATION MCFairSpec
INVARIANTS TypeOK CurrentRunsExist
PROPERTIES SwitchNeedsAnalysis PromotionNeedsAnalysis PromotionFollowsTraffic NoOrphanRuns UpdateSettles AbortRestoresTraffic OldVersionsScaledDown
