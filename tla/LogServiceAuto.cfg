CONSTANTS
    None = None
    Unstarted = Unstarted
    WorkerOf <- WorkerThreads
    SendLogs = TRUE
    Entries = {e1, e2}
    SizeOf <- Sizes
    MaxSize = 2
    MaxMemory = 9
    AutoFlush = TRUE
    Callers = {c1, c2}
    Timers = {t1, t2, t3}
    MaxConcurrentFlushes = 1
    StartMayFail = TRUE
    EnableMetrics = TRUE
SPECIFICATION Spec
SYMMETRY ThreadSymmetry
INVARIANTS
    EachEntryInOnePlace
    OpenBufferHasTimer
    NoOtherDeadlock
CHECK_DEADLOCK FALSE
