SPECIFICATION Spec
CONSTANTS
    Count = 4
    FailureLimit = 2
    Reporting = TRUE
INVARIANTS
    TypeOK
    StopsAtTheLimit
PROPERTY ImplementsContract
