CONSTANTS
  Values = {"old", "new"}
  Initial = "old"
  MaxCalls = 6
  MaxFaults = 1
SPECIFICATION Spec
INVARIANTS
  SuccessSurvives
CHECK_DEADLOCK FALSE
