CONSTANTS
    Hash = {a, b}
    NoHash = NoHash
    ReplicaCounts = {1}
    NoCount = NoCount
    PreviewReplicaCount = NoCount
    AutoPromotionEnabled = TRUE
    HasAutoPromotionSeconds = FALSE
    PrePromotionAnalysis = FALSE
    PostPromotionAnalysis = TRUE
    ScaleDownDelay = "nil"
    AbortScaleDownDelay = TRUE
    ScaleDownDelayRevisionLimit = 3
    RevisionHistoryLimit = 1
    RollbackWindow = 0
    ProgressDeadlineAbort = FALSE
    FirstDeploy = FALSE
    UserActions = {"setTemplate"}
    MaxRuns = 1
    MaxUserActions = 1
    MaxPodFailures = 1
    MaxPassFailures = 0
SPECIFICATION FairSpec
PROPERTIES AbortRestoresTraffic
