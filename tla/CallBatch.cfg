SPECIFICATION CallSpec
CONSTANTS
    PoolThreads = 2
    Count = 4
    FailureLimit = 1
    Reporting = TRUE
    MaxRunning = 2
INVARIANTS
    CallTypeOK
    OutputsMatchOutcome
    EventsInOrder
    TerminalEventIsTrue
    CallNeverStuck
