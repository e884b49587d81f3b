SPECIFICATION MCSpec
CONSTANTS
  One = 16
  Markowitz = 10
  Infinity <- MCInfinity
  Models <- FreeBeside
  Configs <- PatientConfigs
  MaxCleanup = 8
  PdhgPoints <- MCPdhgPoints
  MaxCuts = 2
  MaxDepth = 2
INVARIANT CutsKeepSolutions
CHECK_DEADLOCK FALSE
