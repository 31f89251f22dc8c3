SPECIFICATION FairSpec
CONSTANTS
  Scenarios <- MCScenarios
  MaxDevices = 2
  MaxFaults = 2
INVARIANTS
  NothingOverlooked
  ConnectIsFresh
  StaysDisconnected
  FailsForAReason
PROPERTY
  TestsEnd
CHECK_DEADLOCK FALSE
