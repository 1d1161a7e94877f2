CONSTANTS
  adapter = adapter
  pool = pool
  clock = clock
  Plan <- MCPlan
  Needs <- MCNeeds
  Optional <- MCOptional
  Slippery <- MCSlippery
  Calls <- MCCalls
  MaxStarts = 1
  MaxLosses = 0
  MaxSlips = 0
  Forced = {1}
SPECIFICATION Spec

INVARIANTS
  StoppedMeansDown
CHECK_DEADLOCK FALSE
