CONSTANTS
  adapter = adapter
  pool = pool
  clock = clock
  Plan <- MCPlan
  Needs <- MCNeeds
  Optional <- MCOptional
  Slippery <- MCSlippery
  Calls <- MCCalls
  MaxStarts = 2
  MaxLosses = 1
  MaxSlips = 1
  Forced = {2}
SPECIFICATION FairSpec
INVARIANTS
  IInv
  NeedsAreUp
  RunningMeansUp
  IdleMeansDown
PROPERTIES
  Settles
CHECK_DEADLOCK FALSE
