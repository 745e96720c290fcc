SPECIFICATION FairSpec
CONSTANTS
    PoolThreads = 2
    Count = 5
    FailureLimit = 1
    Reporting = TRUE
PROPERTY CallReturns
