SPECIFICATION Spec
CONSTANTS
    Cores = 2
    RayonMax = 3
    ThreadCounts <- AskedThreads
    Thresholds <- AskedThresholds
    StackSizes <- AskedStacks
    Intervals <- AskedIntervals
    Reporters <- UserReporters
    Counts <- DeclaredCounts
    R1 = R1
    R2 = R2
    Noop = Noop
    Unset = Unset
INVARIANTS
    TypeOK
    ParallelCallsHaveWorkers
    BuildIsAllOrNothing
