SPECIFICATION FairSpec
CONSTANTS
    Thread <- TwoPoolsThreads
    Pool <- TwoPools
    Home <- TwoPoolsHome
    Threshold <- TwoPoolsThreshold
    Call <- EndingCalls
    Plan <- EndingPlan
    Programs <- EndingPrograms
    x = x
    y = y
    r = r
    a1 = a1
    a2 = a2
    b1 = b1
    b2 = b2
    c1 = c1
    c2 = c2
    NoPool = "none"
    NoCall = "none"
PROPERTIES AllCallsReturn EveryStepCounts
INVARIANTS WaitInv BlockedOnlySo
