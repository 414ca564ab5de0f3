CONSTANTS
    job = job
    query = query
    dry = dry
    Metric = {job}
    JobMetric = {job}
    DryRun = {}
    Repeated = {job}
    Delayed = {}
    Count <- Two
    FailureLimit <- Zero
    InconclusiveLimit <- Zero
    ConsecutiveErrorLimit <- One
    ConsecutiveSuccessLimit <- Two
    Retention = 1
    SecretArgs = TRUE
    MaxMeasurements = 3
    MaxLag = 1
    MaxFaults = 1
SPECIFICATION Spec
INVARIANTS TypeOK JobsCountedOnce
PROPERTIES VerdictIsFinal
CHECK_DEADLOCK FALSE
