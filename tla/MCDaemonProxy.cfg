SPECIFICATION FairSpec
CONSTANTS
  MaxSessions = 2
  MaxRequests = 2
  MaxEvents = 1
  MaxStops = 1
  DuplexCap = 1
  LinkCap = 1
INVARIANTS
  RebootEndsSession
PROPERTIES
  ImplementsSessions
  Answered
  Released
CHECK_DEADLOCK FALSE
