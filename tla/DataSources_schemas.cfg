SPECIFICATION Spec
CONSTANTS
    Tenants = {"t1", "T2"}
    Placeholder = "__tenant__"
    NoSchema = "none"
    Lower <- InLower
    Upper <- InUpper
    Public = "public"
    Deployments <- SchemaPerTenant
    Threads = {a, b, c}
    Transactors = {a}
    NoPool = NoPool
    NoSource = NoSource
    NoConnection = NoConnection
    MaxFailures = 1
SYMMETRY Symmetry
INVARIANTS
    TypeOK
    OwnTables
    SchemaExists
    CommittedOnce
    SecondPoolNeedsARace
CHECK_DEADLOCK FALSE
