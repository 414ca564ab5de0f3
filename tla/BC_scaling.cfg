CONSTANTS
    Hash = {a, b, c}
    NoHash = NoHash
    ReplicaCounts = {1, 3}
    SetWeights <- MCSetWeights
    MaxSurgeBound <- One
    MaxUnavailableBound <- TwoFifths
    Threshold <- AllOfThem
    UserActions = {"setTemplate", "abort", "retry", "scale", "promoteFull"}
    MaxUserActions = 2
    MaxPodFailures = 1
    MaxPassFailures = 1
SPECIFICATION MCFairSpec
INVARIANTS TypeOK
PROPERTIES SurgeRespected AvailabilityKept UpdateSettles
