SPECIFICATION SystemSpec
CONSTANTS
  Capacity = 3
  HalfGens = 2
  MaxAge = 1
  MaxDepth = 3
  Bytes = Bytes
  NoState = NoState
  Null = Null
  x = x
  y = y
  n1 = n1
  n2 = n2
  n3 = n3
  n4 = n4
INVARIANTS HandleNamesItsObject SlotsOnce ArenaExact TasksExact ListsExact
PROPERTIES PoolsExact MachineSound EventReachesItsListeners
