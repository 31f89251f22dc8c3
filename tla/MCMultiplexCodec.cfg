SPECIFICATION Spec
CONSTANTS
  Plans <- MCPlans
  ResetMidFrame = FALSE
INVARIANTS
  FramesIntact
  Complete
CHECK_DEADLOCK FALSE
