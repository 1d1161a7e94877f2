CONSTANTS
  o1 = o1
  o2 = o2
  Operators <- MCOperators
  MaxSlot = 2
  MaxFrames = 2
  MaxCommands = 1
  Commands = {"decide", "interrupt", "force", "remove"}
SYMMETRY Symmetry
SPECIFICATION Spec
INVARIANTS
  CandidateIsCurrent
  LiveIsCarried
  WholeOnAir
PROPERTIES
  QueueNeverGoesBack
CHECK_DEADLOCK FALSE
