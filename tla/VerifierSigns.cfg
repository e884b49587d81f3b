SPECIFICATION FirstOrderSpec
CONSTANTS
  One = 256
  Endless <- MCEndless
  Blowup <- MCBlowup
  Tasks <- MCTasks
INVARIANT VerifierFollowsItsRule
CHECK_DEADLOCK FALSE
