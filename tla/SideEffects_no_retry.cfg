SPECIFICATION FairSpec
CONSTANTS
    Jobs = {j1}
    Workers = {w1}
    NoJob = NoJob
    AskedKinds <- AskEventsHooks
    Items <- OneEach
    Beans <- AllRegistered
    MaxFailures = 1
    MaxCrashes = 0
    MaxRedispatches = 0
PROPERTIES
    FailedJobsAreRetried
CHECK_DEADLOCK FALSE
