CONSTANTS
    Hash = {a, b, c}
    NoHash = NoHash
    ReplicaCounts = {2}
    NoCount = NoCount
    PreviewReplicaCount = 1
    AutoPromotionEnabled = FALSE
    HasAutoPromotionSeconds = FALSE
    PrePromotionAnalysis = FALSE
    PostPromotionAnalysis = FALSE
    ScaleDownDelay = "nil"
    AbortScaleDownDelay = TRUE
    ScaleDownDelayRevisionLimit = 3
    RevisionHistoryLimit = 1
    RollbackWindow = 0
    ProgressDeadlineAbort = FALSE
    FirstDeploy = FALSE
    UserActions = {"setTemplate", "promote"}
    MaxRuns = 1
    MaxUserActions = 3
    MaxPodFailures = 0
    MaxPassFailures = 0
SPECIFICATION Spec
PROPERTIES SwitchNeedsApproval
