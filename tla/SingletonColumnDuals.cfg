SPECIFICATION PostSpec
CONSTANTS
    M = 2
    N = 3
    Infinity <- MCInfinity
    Threshold <- MCThreshold
    Points <- MCPoints
    Models <- SingletonColumnModels
    Settings <- JustSingletons
    Duals <- MCDuals
INVARIANT DualsAlwaysRecovered
CHECK_DEADLOCK FALSE
