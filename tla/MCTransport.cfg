SPECIFICATION Spec
CONSTANTS
  MaxCalls = 2
  MaxRestarts = 1
  Timely = FALSE
INVARIANTS
  TypeOK
  FreshHandshake
CHECK_DEADLOCK FALSE
