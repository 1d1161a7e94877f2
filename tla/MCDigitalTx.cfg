CONSTANTS
  o1 = o1
  o2 = o2
  Operators <- MCOperators
  MaxSlot = 1
  MaxFrames = 3
  MaxCommands = 1
  Commands = {"start", "edit", "stop"}
SYMMETRY Symmetry
SPECIFICATION Spec
INVARIANTS
  IInv
  OneOnAir
  SoundIsOnAir
PROPERTIES
  EndedIsFinal
  StoppedStaysOff
CHECK_DEADLOCK FALSE
