SPECIFICATION Spec
CONSTANTS
    Jobs = {j1}
    Workers = {w1, w2}
    NoJob = NoJob
    AskedKinds <- AskAllButActivities
    Items <- TwoEvents
    Beans <- TwoTimeSeries
    MaxFailures = 2
    MaxCrashes = 1
    MaxRedispatches = 2
SYMMETRY WorkerSymmetry
INVARIANTS
    NothingDropped
    BlocksInOrder
    OncePerDrive
    AmbiguousBeanSilencesLaterOnes
PROPERTIES
    RowsOnlyProgress
    ImplementsOutbox
CHECK_DEADLOCK FALSE
