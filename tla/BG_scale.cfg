CONSTANTS
    Hash = {a, b}
    NoHash = NoHash
    ReplicaCounts = {2, 3}
    NoCount = NoCount
    PreviewReplicaCount = 1
    AutoPromotionEnabled = TRUE
    HasAutoPromotionSeconds = TRUE
    PrePromotionAnalysis = FALSE
    PostPromotionAnalysis = FALSE
    ScaleDownDelay = "nil"
    AbortScaleDownDelay = TRUE
    ScaleDownDelayRevisionLimit = 3
    RevisionHistoryLimit = 1
    RollbackWindow = 0
    ProgressDeadlineAbort = TRUE
    FirstDeploy = FALSE
    UserActions = {"setTemplate", "scale", "abort"}
    MaxRuns = 2
    MaxUserActions = 2
    MaxPodFailures = 1
    MaxPassFailures = 0
SPECIFICATION MCFairSpec
INVARIANTS StableAtFullSize ActiveAtFullSize
PROPERTIES UpdateSettles
