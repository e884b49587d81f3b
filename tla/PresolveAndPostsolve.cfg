SPECIFICATION PostSpec
CONSTANTS
    M = 2
    N = 3
    Infinity <- MCInfinity
    Threshold <- MCThreshold
    Points <- MCPoints
    Models <- MCModels
    Settings <- MCSettings
    Duals <- MCDuals
INVARIANTS Inductive CachesExact SolutionsKept Recoverable VerdictsProved FixedPoint OthersKnown RecoveredOptimal DualsRecovered
CHECK_DEADLOCK FALSE
