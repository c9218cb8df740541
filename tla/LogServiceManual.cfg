CONSTANTS
    None = None
    Unstarted = Unstarted
    WorkerOf <- WorkerThreads
    SendLogs = TRUE
    Entries = {e1, e2, e3}
    SizeOf <- Sizes
    MaxSize = 2
    MaxMemory = 9
    AutoFlush = FALSE
    Callers = {c1, c2}
    Timers = {t1}
    MaxConcurrentFlushes = 1
    StartMayFail = TRUE
    EnableMetrics = TRUE
SPECIFICATION Spec
SYMMETRY ThreadSymmetry
INVARIANTS
    TypeOK
PROPERTIES
    WaitCoversEarlierEntries
    DeliversAsPromised
CHECK_DEADLOCK FALSE
