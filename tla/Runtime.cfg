CONSTANTS
    None = None
    Garbage = Garbage
    Runtimes = {r1, r2}
    Objects = {"a", "b", "c"}
    Root = "a"
    Contexts <- Heaps
    EnvVars <- Environments
    UserConfigs <- Arguments
SPECIFICATION ProxySpec
SYMMETRY RuntimeSymmetry
INVARIANTS
    TypeOK
    OneOpenRuntime
    HooksFollowRuntime
    PrintReachesConsole
    ResolvedInRange
    SettingsPrecedence
    LostOnlyToDestroy
    SanitizerExact
CHECK_DEADLOCK FALSE
