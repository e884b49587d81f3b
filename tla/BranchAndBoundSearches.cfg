SPECIFICATION FairSpec
CONSTANTS
    N <- MCN
    Den <- MCDen
    Infinity <- MCInfinity
    MaxDive = 2
    Models <- MCModels
    Configs <- MCSearches
INVARIANTS IncumbentSound NoLostSolution BoundsBelow OpenDisjoint NoCrossedBounds OptimalMeansOptimal InfeasibleMeansInfeasible ReportedBoundHolds NodeConservation
PROPERTIES SplitsShrink Termination MeetsContract
CHECK_DEADLOCK FALSE
