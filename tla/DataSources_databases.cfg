SPECIFICATION Spec
CONSTANTS
    Tenants = {"t1", "t2"}
    Placeholder = "__tenant__"
    NoSchema = "none"
    Lower <- InLower
    Upper <- InUpper
    Public = "public"
    Deployments <- DatabasePerTenant
    Threads = {a, b}
    Transactors = {}
    NoPool = NoPool
    NoSource = NoSource
    NoConnection = NoConnection
    MaxFailures = 0
SYMMETRY Symmetry
INVARIANT
    OwnTables
CHECK_DEADLOCK FALSE
