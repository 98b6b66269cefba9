SPECIFICATION FairSpec
CONSTANTS
    Jobs = {j1, j2}
    Workers = {w1, w2}
    NoJob = NoJob
    AskedKinds <- AskDelayedEvents
    Items <- TwoEvents
    Beans <- NoTimeSeries
    MaxFailures = 2
    MaxCrashes = 1
    MaxRedispatches = 0
INVARIANTS
    TypeOK
    OrphansNeedAFault
    OneDriver
PROPERTIES
    DiscardsNeedTheRace
    StoredJobsComplete
    EveryTaskEnds
CHECK_DEADLOCK FALSE
