CONSTANTS
    Hash = {a, b, c}
    NoHash = NoHash
    ReplicaCounts = {1}
    NoCount = NoCount
    PreviewReplicaCount = NoCount
    AutoPromotionEnabled = FALSE
    HasAutoPromotionSeconds = FALSE
    PrePromotionAnalysis = FALSE
    PostPromotionAnalysis = FALSE
    ScaleDownDelay = "set"
    AbortScaleDownDelay = TRUE
    ScaleDownDelayRevisionLimit = 1
    RevisionHistoryLimit = 0
    RollbackWindow = 1
    ProgressDeadlineAbort = FALSE
    FirstDeploy = FALSE
    UserActions = {"setTemplate", "promote", "abort", "retry"}
    MaxRuns = 1
    MaxUserActions = 4
    MaxPodFailures = 0
    MaxPassFailures = 1
SPECIFICATION Spec
SYMMETRY Symmetry
INVARIANTS ReferencedExist
PROPERTIES SwitchNeedsApproval
