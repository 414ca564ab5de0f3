CONSTANTS
    job = job
    query = query
    dry = dry
    Metric = {job, query, dry}
    JobMetric = {job}
    DryRun = {dry}
    Repeated = {}
    Delayed = {dry}
    Count <- Zero
    FailureLimit <- Zero
    InconclusiveLimit <- Zero
    ConsecutiveErrorLimit <- LiveConsecutiveErrorLimit
    ConsecutiveSuccessLimit <- Zero
    Retention = 1
    SecretArgs = FALSE
    MaxMeasurements = 2
    MaxLag = 0
    MaxFaults = 1
SPECIFICATION FairSpec
INVARIANTS MeasuredUntilDecided RunVerdictIsWorst NothingLeftInFlight
PROPERTIES RunCompletes
CHECK_DEADLOCK FALSE
