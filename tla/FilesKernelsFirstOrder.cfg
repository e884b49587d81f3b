SPECIFICATION MCSpec
CONSTANTS
    MaxDim = 2
    MaxTriplets = 3
    MaxValue = 1
    Values <- MCValues
    Files <- MCFiles
    Inf = 1000
    WarpSize = 4
    SubwarpSize = 2
    WarpsPerBlock = 2
    MaxUnits = 3
    Jobs <- MCJobs
    One = 256
    Endless <- MCEndless
    Blowup <- MCBlowup
    Tasks <- MCTasks
INVARIANTS
    CooSound
    FormatsAgree
    ModelDeclared
    RoundTrip
    KernelsRight
    PreparationFaithful
    StepsSafe
    RecoveredStands
PROPERTIES
    NeverMovesAway
    FixedPointsOptimal
CHECK_DEADLOCK FALSE
