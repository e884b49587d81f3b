SPECIFICATION MCSpec
CONSTANTS
  One = 16
  Markowitz = 10
  Infinity <- MCInfinity
  Models <- MCModels
  Configs <- MCConfigs
  MaxCleanup = 8
  PdhgPoints <- MCPdhgPoints
  MaxCuts = 2
  MaxDepth = 2
INVARIANTS BasisConsistent FactorsConsistent DualFeasibleKept VerdictsCertified ReuseSound
PROPERTIES ObjectiveMonotone CrashAccepted CutsRemovePoint
CHECK_DEADLOCK FALSE
