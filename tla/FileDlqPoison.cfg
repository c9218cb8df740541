CONSTANTS
    MaxEntries = 4
    MaxSizes = {4}
    MaxBytes = 4
    Kinds = {"plain", "unserializable"}
    Faults = FALSE
SPECIFICATION Spec
INVARIANT DropsOldestFirst
CHECK_DEADLOCK FALSE
