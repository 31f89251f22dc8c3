SPECIFICATION FairSpec
CONSTANTS
  Scenarios <- MCScenarios
  MaxRuns = 2
  MaxFaults = 2
INVARIANTS
  NothingLeft
  NoSpuriousFailure
  Supported
PROPERTY
  RunEnds
CHECK_DEADLOCK FALSE
