CONSTANTS
    large = large
    None = None
    Entries = {large, e2, e3, e4}
    SizeOf <- Sizes
    MaxSize = 2
    MaxMemory = 3
    AutoFlush = TRUE
    Callers = {c1}
    Timers = {t1, t2, t3}
    StartMayFail = TRUE
    Unstarted = Unstarted
SPECIFICATION FairSpec
INVARIANTS
    BufferBounded
    AccountsExact
    QuietAfterDestroy
PROPERTIES
    OldestFirst
    EntriesDrain
CHECK_DEADLOCK FALSE
