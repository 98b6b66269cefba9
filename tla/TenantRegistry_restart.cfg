SPECIFICATION Spec
CONSTANTS
    Names <- SomeNames
    LowerCase <- Lower
    Default = "default"
    Template = "__tenant__"
    Configurations <- WithAndWithout
    Queried = {"t2"}
    Loaded = {"t1"}
    Called = {"t1", "T2"}
    CalledModes = {TRUE, FALSE}
    Scripts = {"application", "tenant"}
    Disabled = "no"
    Automatic = "auto"
    True = "true"
    AppScript = "application"
    Script <- ReportsDisabled
    Delegate <- NoDelegate
    Main = main
    Configurers = {c1}
    Callers = {p1}
    NoThread = NoThread
    NoSource = NoSource
    MaxFailures = 1
    MaxRestarts = 1
INVARIANTS
    CounterExact
    OncePerProcess
    MigratedMeansApplied
CHECK_DEADLOCK FALSE
