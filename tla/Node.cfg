SPECIFICATION MCSpec
CONSTANTS
    Procs = {p1, p2}
    Holders = {h1, h2, h3}
    Twice = {h3}
    None = None
    RefMod = 65536
    MaxRepos = 3
    MaxCrash = 1
    KThreads = {"t", "u"}
    KNames = {"n", "m"}
    KKeys = {"s", "a", "b"}
    KSelf = "s"
    KNone = "none"
    MaxKeyOps = 4
    MaxKeyDead = 1
    PlFiles <- MCPlugins
    PlName <- MCPluginName
    PlDaemons = {"a", "b", "x"}
    PlClosers = {"a", "b"}
    PlDisabled = {"x"}
    MReqs = {"c", "d"}
    MStuck <- MCStuck
    UProcs = {"p", "q"}
    MaxStarts = 2
    CleanEvery = 3
    MaxActive = 2
    MaxLogged = 7
    Notifiees = {"m", "n"}
    NLimits = {0, 1}
    NEvents = {"x", "y"}
    FLimits = {1, 2, 3, 4, 5, 6}
    MinFds = 3
    MaxFds = 5
    Threads = {"t", "u"}
    Items = {"a"}
    Settings = {1, 2}
    MaxCmds = 3
    MaxEdits = 1
    MaxFails = 1
    MgFrom = 1
    MgTarget = 3
    MgFaults = 2
INVARIANTS
    
    KeysKept
    PluginsKept
    
    
    
    
    ReadsExact
    EditsExact
    RunsOnce
    LogTrue
    NotifiesExactly
    
PROPERTIES
    OneOwner
    
    
    MigratesCleanly
CHECK_DEADLOCK FALSE
