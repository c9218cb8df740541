CONSTANTS
    Calls = {w1, w2, w3, w4}
    FailureThreshold = 2
    HalfOpenRequests = 2
    MaxFailures = 5
SPECIFICATION Spec
SYMMETRY CallSymmetry
INVARIANT ProbesWithinLimit
CHECK_DEADLOCK FALSE
