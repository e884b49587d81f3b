SPECIFICATION FairSpec
CONSTANTS
    N <- MCN
    Den <- MCDen
    Infinity <- MCInfinity
    MaxDive = 3
    Models <- MCWithHalfBoundsAndStops
    Configs <- MCLimitsAndFailures
INVARIANTS Inductive
CHECK_DEADLOCK FALSE
