CONSTANTS
  MaxRecords = 2
  MaxCalls = 2
  MaxBackups = 1
  MaxFaults = 2
  MaxCrashes = 1
  MaxEdits = 1
  NoContent = NoContent
SPECIFICATION FairSpec
INVARIANTS
  StoreInv
PROPERTIES
  ImplementsDurableLog
  ReplacesWhatItRead
  EveryCallEnds
CHECK_DEADLOCK FALSE
