SPECIFICATION Spec
CONSTANTS
    Count = 6
    FailureLimit = 2
    Window = 3
INVARIANT FailureOvershoot
CHECK_DEADLOCK FALSE
