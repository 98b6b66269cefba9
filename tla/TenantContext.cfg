SPECIFICATION Spec
CONSTANTS
    plain = plain
    annotated = annotated
    pinned = pinned
    Tenants = {t1}
    Default = Default
    ContextTenant = ContextTenant
    None = None
    NoContext = NoContext
    Operations = {plain, annotated, pinned}
    Handled = {plain}
    Scheduled = {plain}
    Annotated = {annotated}
    ByInput <- InputAnswers
    ByContext <- ContextAnswers
    Web = {w}
    Listeners = {l}
    Workers = {k}
    Async = {a}
    MaxCalls = 3
    MaxTasks = 1
    MaxMessages = 1
    Deployments <- Pairs
INVARIANTS
    TypeOK
    RunsInItsTenant
    ContextOfItsCause
    LeftoversNeedARefusal
    PoolThreadsAsBorn
