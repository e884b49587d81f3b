SPECIFICATION Spec
CONSTANTS
    M = 2
    N = 3
    Infinity <- MCInfinity
    Threshold <- MCThreshold
    Points <- MCPoints
    Models <- UnboundedBelow
    Settings <- AllPasses
INVARIANT RaysSurvive
CHECK_DEADLOCK FALSE
