CONSTANTS
  MaxLeases = 2
  MaxCalls = 3
SPECIFICATION FairSpec
INVARIANTS
  IInv
  OneAudible
  SuccessIsEarned
  FrameIsOnAir
PROPERTIES
  EveryCallReturns
  LeaseIsReleased
CHECK_DEADLOCK FALSE
