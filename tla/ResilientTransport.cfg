CONSTANTS
    Batches = {b1, b2}
    FailureThreshold = 1
    HalfOpenRequests = 1
    MaxFailures = 5
    BatchSize = 3
    Workers = 2
    MaxRetries = 1
    DlqMaxSize = 2
    Destroyers = {d1, d2}
    Pooling = TRUE
    LabelSets = {"x", "y"}
    Timestamps = {1, 2, 3}
SPECIFICATION FairSpec
INVARIANTS
    TypeOK
    NoSilentLoss
    DlqOvershootBounded
    ConnectionsClosed
PROPERTY SendsEnd
CHECK_DEADLOCK FALSE
