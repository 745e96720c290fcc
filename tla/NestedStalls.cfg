SPECIFICATION Spec
SYMMETRY ThreePoolsSymmetry
CONSTANTS
    Thread <- ThreePoolsThreads
    Pool <- ThreePools
    Home <- ThreePoolsHome
    Threshold <- ThreePoolsThreshold
    Call <- StallingCalls
    Plan <- StallingPlan
    Programs <- StallingPrograms
    x = x
    y = y
    r = r
    a1 = a1
    a2 = a2
    b1 = b1
    b2 = b2
    c1 = c1
    c2 = c2
    NoPool = "none"
    NoCall = "none"
INVARIANTS StallsOnlyAsDocumented LeafPoolsDrain
CHECK_DEADLOCK FALSE
