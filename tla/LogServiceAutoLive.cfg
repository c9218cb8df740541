CONSTANTS
    None = None
    Unstarted = Unstarted
    WorkerOf <- WorkerThreads
    SendLogs = FALSE
    Entries = {e1, e2}
    SizeOf <- Sizes
    MaxSize = 2
    MaxMemory = 9
    AutoFlush = TRUE
    Callers = {c1}
    Timers = {t1, t2}
    MaxConcurrentFlushes = 1
    StartMayFail = FALSE
    EnableMetrics = FALSE
SPECIFICATION FairSpec
PROPERTIES
    LoggedEntriesArePushed
    CallsReturn
CHECK_DEADLOCK FALSE
