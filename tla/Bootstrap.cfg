SPECIFICATION FairSpec
CONSTANTS
  MaxRequests = 2
INVARIANTS
  EndLeavesNothing
  ReleasedOnce
  TelemetryOutlivesClients
  GlobalsAreOurs
  ClosedOnlyUnderTheLate
PROPERTY SignalEnds
CHECK_DEADLOCK FALSE
