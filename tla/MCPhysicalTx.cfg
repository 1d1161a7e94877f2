CONSTANTS
  MaxLeases = 2
  MaxRetries = 1
  Requests <- AllRequests
SPECIFICATION FairSpec
INVARIANTS
  IInv
  CommandsAreOwn
  IdleMeansUnkeyed
PROPERTIES
  UnknownIsHeld
  ImplementsOwnership
  StopIsBounded
  AcquireIsBounded
CHECK_DEADLOCK FALSE
