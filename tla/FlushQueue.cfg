CONSTANTS
    Tasks = {k1, k2, k3, k4}
    MaxConcurrentFlushes = 2
    StartMayFail = TRUE
SPECIFICATION FairSpec
INVARIANTS
    TypeOK
    QueueHoldsWaitingTasks
    SlotsCounted
    NoIdleSlot
PROPERTIES
    StartedInOrder
    EveryTaskSettles
CHECK_DEADLOCK FALSE
