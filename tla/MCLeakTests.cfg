SPECIFICATION Spec
CONSTANTS
  Scenarios <- MCScenarios
  MaxPings = 2
INVARIANTS
  NoFalseAlarm
  LeakCaught
  BothProtocolsSeen
CHECK_DEADLOCK FALSE
