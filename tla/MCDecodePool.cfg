CONSTANTS
  Desired = 2
  Threshold = 2
  MaxJobs = 2
  MaxFaults = 2
  NoJob = NoJob
  Refused = Refused
SPECIFICATION FairSpec
INVARIANTS
  PoolInv
PROPERTIES
  EveryJobEnds
  Recovers
CHECK_DEADLOCK FALSE
