CONSTANTS
  o1 = o1
  o2 = o2
  Operators <- MCOperators
  MaxSlot = 1
  MaxFrames = 3
  MaxCommands = 1
  Commands = {"remove", "interrupt", "force"}
SPECIFICATION FairSpec
PROPERTIES
  LiveFramesEnd
  RemovalEnds
CHECK_DEADLOCK FALSE
