CONSTANTS
    Template = {t}
    WithService = {t}
    Analysis = {a}
    Specs <- AwaitedOnly
    Replicas = 1
    Endings = {"Successful", "Failed"}
    MaxRuns = 2
    MaxPodFailures = 0
    MaxApiFailures = 0
    MaxPassFailures = 0
    MaxStalePasses = 0
SPECIFICATION FairSpec
PROPERTIES RequiredEndsIt
