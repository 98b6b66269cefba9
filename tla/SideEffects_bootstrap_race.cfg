SPECIFICATION Spec
CONSTANTS
    Jobs = {j1, j2}
    Workers = {w1, w2}
    NoJob = NoJob
    AskedKinds <- AskEvents
    Items <- OneEach
    Beans <- AllRegistered
    MaxFailures = 0
    MaxCrashes = 0
    MaxRedispatches = 0
INVARIANTS
    OnlyUnregisteredDiscarded
CHECK_DEADLOCK FALSE
