SPECIFICATION FairSpec
CONSTANTS
    Names <- SomeNames
    LowerCase <- Lower
    Default = "default"
    Template = "__tenant__"
    Configurations <- WithTemplate
    Queried = {}
    Loaded = {"t1", "T2"}
    Called = {}
    CalledModes = {TRUE}
    Scripts = {"application", "tenant"}
    Disabled = "no"
    Automatic = "auto"
    True = "true"
    AppScript = "application"
    Script <- TenantScripts
    Delegate <- NoDelegate
    Main = main
    Configurers = {c1}
    Callers = {}
    NoThread = NoThread
    NoSource = NoSource
    MaxFailures = 0
    MaxRestarts = 0
PROPERTY
    LoadedBecomeReady
CHECK_DEADLOCK FALSE
