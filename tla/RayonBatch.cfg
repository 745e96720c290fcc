SPECIFICATION Spec
CONSTANTS
    PoolThreads = 2
    Count = 6
    FailureLimit = 1
    Reporting = TRUE
INVARIANTS
    TypeOK IInv
    TaskAccounting
    NothingOutlivesTheCall
    NoSchedulingError
    AdmissionWindow
    FailureOvershoot
    NeverStuck
PROPERTIES ImplementsContract EveryStepCounts
