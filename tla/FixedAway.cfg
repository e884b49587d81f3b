SPECIFICATION Spec
CONSTANTS
    M = 2
    N = 3
    Infinity <- MCInfinity
    Threshold <- MCThreshold
    Points <- MCPoints
    Models <- FixedAway
    Settings <- AllPasses
INVARIANT SolvedHasSolution
CHECK_DEADLOCK FALSE
