CONSTANTS
  Clients = {operator, keyer}
  Engine = Engine
  NoClient = NoClient
  MaxCalls = 3
  MaxStops = 5
SPECIFICATION Spec
INVARIANTS
  KeyedForTheHolder
CHECK_DEADLOCK FALSE
