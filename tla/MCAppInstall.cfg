SPECIFICATION FairSpec
CONSTANTS
  Scenarios <- MCScenarios
  MaxInstallAttempts = 5
  MaxFaults = 2
INVARIANTS
  NoInstallerLeft
  PassedRight
  FailsForAReason
PROPERTIES
  TracesExact
  TestsEnd
CHECK_DEADLOCK FALSE
