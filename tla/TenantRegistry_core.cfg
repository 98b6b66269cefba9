SPECIFICATION FairSpec
CONSTANTS
    Names <- SomeNames
    LowerCase <- Lower
    Default = "default"
    Template = "__tenant__"
    Configurations <- WithAndWithout
    Queried = {"t1"}
    Loaded = {"t1", "t2"}
    Called = {"t2"}
    CalledModes = {TRUE}
    Scripts = {"application", "tenant", "special"}
    Disabled = "no"
    Automatic = "auto"
    True = "true"
    AppScript = "application"
    Script <- ReportsTrue
    Delegate <- SomeDelegate
    Main = main
    Configurers = {c1, c2}
    Callers = {p1}
    NoThread = NoThread
    NoSource = NoSource
    MaxFailures = 2
    MaxRestarts = 0
INVARIANTS
    TypeOK
    FoundMeansMigrated
    EmptyMeansReady
PROPERTIES
    ReadyForEver
    LoadedBecomeReady
CHECK_DEADLOCK FALSE
