CONSTANTS
    MaxEntries = 4
    MaxSizes = {2, 4}
    MaxBytes = 3
    Kinds = {"plain", "large", "unserializable", "split"}
    Faults = TRUE
SPECIFICATION Spec
INVARIANTS
    TypeOK
    StorageBounded
    DropsCounted
    ArrivalOrder
    PersistedEntriesSurvive
CHECK_DEADLOCK FALSE
