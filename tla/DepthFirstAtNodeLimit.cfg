SPECIFICATION Spec
CONSTANTS
    N <- MCN
    Den <- MCDen
    Infinity <- MCInfinity
    MaxDive = 3
    Models <- MCModels
    Configs <- MCDepthFirstLimited
INVARIANT StrategiesAgree
CHECK_DEADLOCK FALSE
