SPECIFICATION CallFairSpec
CONSTANTS
    PoolThreads = 2
    Count = 3
    FailureLimit = 0
    Reporting = TRUE
    MaxRunning = 1
PROPERTY CallReturns
