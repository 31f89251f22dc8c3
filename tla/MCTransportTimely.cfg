SPECIFICATION FairSpec
CONSTANTS
  MaxCalls = 3
  MaxRestarts = 0
  Timely = TRUE
INVARIANTS
  RebootReconnects
PROPERTIES
  AnswerReachesCaller
  ManagerReturns
CHECK_DEADLOCK FALSE
