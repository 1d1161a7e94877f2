CONSTANTS
  Priorities = {10, 90, 100}
  MaxEpoch = 3
SPECIFICATION FairSpec
INVARIANTS
  IInv
PROPERTIES
  OnlyNewestPasses
  RevokerRuns
  EveryCommandAnswered
CHECK_DEADLOCK FALSE
