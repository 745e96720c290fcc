SPECIFICATION Spec
CONSTANTS
    PoolThreads = 2
    Count = 4
    FailureLimit = 1
    Reporting = TRUE
INVARIANT DisconnectIsReported
